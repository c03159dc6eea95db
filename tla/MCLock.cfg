SPECIFICATION Spec
CONSTANTS
    Threads = {t1, t2}
    NoThread = NoThread
    l1 = l1
    l2 = l2
    l3 = l3
    Session = Session
    Service = Service
    LockQueue = LockQueue
    Locks = {l1, l2, l3}
    Names = {Session, Service, LockQueue}
    NameOf <- Classes
    ReadLocks = {l1}
    Upgrades = TRUE
    ReadMax = 6
    MaxDepth = 3
SYMMETRY Symmetry
INVARIANTS Exclusion WordMatches CrashJustified StackMatches SearchExact NoSilentDeadlock
PROPERTIES ImplementsRWLock
CHECK_DEADLOCK FALSE
