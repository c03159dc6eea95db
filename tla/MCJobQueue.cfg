SPECIFICATION Spec
CONSTANTS
    Threads = {t1, t2, t3}
    Queues = {q1, q2}
    Jobs = {j1, j2, j3, j4}
    NoQueue = NoQueue
    NoJob = NoJob
    MaxDropped = 2
SYMMETRY Symmetry
INVARIANTS TypeOK MutualExclusion SingleResponsible CountBalance
PROPERTY ImplementsSerialQueue
