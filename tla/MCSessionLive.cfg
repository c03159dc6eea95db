SPECIFICATION FairSpec
CONSTANTS
    Threads = {t1, t2, t3}
    NoThread = NoThread
    Errors = {"reset"}
    Broadcasts = FALSE
    MaxSends = 3
INVARIANTS NoStrandedSend ReceiveAlive
PROPERTIES ImplementsSessionLife Released Delivered
CHECK_DEADLOCK FALSE
