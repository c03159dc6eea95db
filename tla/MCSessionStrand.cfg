SPECIFICATION Spec
CONSTANTS
    Threads = {t1, t2}
    NoThread = NoThread
    Errors = {"other"}
    Broadcasts = FALSE
    MaxSends = 2
INVARIANT NoStrandedSend
CHECK_DEADLOCK FALSE
