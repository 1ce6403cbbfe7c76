CONSTANTS
    t1 = t1
    t2 = t2
    t3 = t3
    P = P
    Q = Q
    Targets = {t1, t2, t3}
    NoTarget = NoTarget
    ProjectOf <- TheProjectOf
    ProjectJobs <- NoneOrThird
    WorkspaceJobs <- AllTargets
    PreBuild = {t1, Q}
    PostBuild = {t2, Q}
    AlwaysPost = {t2}
    Linked = {t1, t2, t3}
    Compiles = {2, 3}
    Slots = 2
    Requests = {"Build"}
    EventsFirst = TRUE
    MaxRequests = 1
    MaxAborts = 0
    MaxRefusals = 0
SPECIFICATION Spec
PROPERTY ExitCodeTells
CHECK_DEADLOCK FALSE
