SPECIFICATION FairSchedSpec
CONSTANTS
    Threads = {t1}
    Queues = {q1, q2}
    Jobs = {j1, j2, j3}
    NoQueue = NoQueue
    NoJob = NoJob
    MaxDropped = 0
PROPERTY EveryJobRuns
