CONSTANTS
    Parsers = {p1}
    Files = {f1, f2}
    Defs = {d1}
    Projects = {j1}
    Includes <- Cyclic
    Calls = {"AddFile", "AddBatchParse", "AddPredefinedMacros", "Reparse", "RemoveFile", "UpdateParsingProject", "Delete"}
    CallsWhenIdle = FALSE
    MaxCalls = 5
    MaxFailures = 1
    NoParser = NoParser
    NoProject = NoProject
    Batch = Batch
    Local = Local
SPECIFICATION MCSpec
SYMMETRY Symmetry
INVARIANTS
    ParserInv
    EventsAreHeard
    ReservationsHold
PROPERTIES
    EndIsLast
    StallsOnlyByAddition
CHECK_DEADLOCK FALSE
