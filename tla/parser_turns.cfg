CONSTANTS
    Parsers = {p1, p2}
    Files = {f1}
    Defs = {d1}
    Projects = {j1}
    Includes <- NoIncludes
    Calls = {"AddFile", "AddBatchParse", "AddPredefinedMacros", "Reparse", "RemoveFile", "UpdateParsingProject", "Delete"}
    CallsWhenIdle = TRUE
    MaxCalls = 4
    MaxFailures = 0
    NoParser = NoParser
    NoProject = NoProject
    Batch = Batch
    Local = Local
SPECIFICATION MCFairSpec
INVARIANTS
    CurrentOwnsTheWork
PROPERTIES
    RequestsAreParsed
    TurnsEnd
    DeletionEnds
CHECK_DEADLOCK FALSE
