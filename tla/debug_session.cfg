CONSTANTS
    Breakpoints = {b1, b2}
    Wishes <- OneWish
    Requests <- AllRequests
    GdbMay <- AnyAnswer
    MaxRequests = 4
    MaxCrashes = 1
SPECIFICATION MCFairSpec
INVARIANTS
    DriverInv
    RepliesMatch
    GdbAgrees
    StoppedIsShown
PROPERTIES
    StopEnds
    TemporaryBreakEnds
CHECK_DEADLOCK FALSE
