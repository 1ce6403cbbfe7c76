CONSTANTS
    Breakpoints = {b1}
    Wishes <- BothWishes
    Requests <- AllRequests
    GdbMay = {}
    MaxRequests = 3
    MaxCrashes = 0
SPECIFICATION Spec
INVARIANTS
    RepliesMatch
CHECK_DEADLOCK FALSE
