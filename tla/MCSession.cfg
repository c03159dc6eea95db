SPECIFICATION Spec
CONSTANTS
    Threads = {t1, t2, t3}
    NoThread = NoThread
    Errors = {"reset", "other", "disconnect"}
    Broadcasts = TRUE
    MaxSends = 4
SYMMETRY Symmetry
INVARIANTS SendExclusive OwnerWhilePending WireOrdered ReleaseInService
CHECK_DEADLOCK FALSE
