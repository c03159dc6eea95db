SPECIFICATION Spec
CONSTANTS
    Threads = {t1, t2}
    Queues = {q1}
    Jobs = {j1, j2}
    NoQueue = NoQueue
    NoJob = NoJob
    MaxDropped = 1
PROPERTY StopsWhenEmpty
CHECK_DEADLOCK FALSE
