CONSTANTS
    Workers = {w1, w2, w3}
    Semaphores = {s1, s2}
    Tasks = {t1}
    AutoDelete = {t1}
    NoTask = NoTask
    NoSem = NoSem
    Sizes = {1}
    CPUCount = 1
    InitialThreads = 2
    ReloadsSchedule = FALSE
SPECIFICATION MCFairSpec
PROPERTIES
    QueueDrains
    AbortedWaitersEnd
CHECK_DEADLOCK FALSE
