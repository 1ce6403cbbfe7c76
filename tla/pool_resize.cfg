CONSTANTS
    Workers = {w1, w2, w3}
    Semaphores = {s1, s2, s3}
    Tasks = {t1, t2, t3}
    AutoDelete = {t1, t2, t3}
    NoTask = NoTask
    NoSem = NoSem
    Sizes = {0, 2}
    CPUCount = 1
    InitialThreads = 2
    ReloadsSchedule = FALSE
SPECIFICATION Spec
SYMMETRY Symmetry
CONSTRAINT FewTasks
INVARIANTS
    PoolInv
    NoLostWakeup
    NoDanglingTask
PROPERTIES
    TasksAccountedFor
    AllDoneIsLast
    KeepsPromise
CHECK_DEADLOCK FALSE
