SPECIFICATION SchedSpec
CONSTANTS
    Threads = {t1, t2}
    Queues = {q1, q2}
    Jobs = {j1, j2, j3}
    NoQueue = NoQueue
    NoJob = NoJob
    MaxDropped = 0
SYMMETRY Symmetry
INVARIANTS OneDistributor TimerJobOnce DistributorRunsNothing
