CONSTANTS
    Parsers = {p1}
    Files = {f1, f2}
    Defs = {d1}
    Projects = {j1}
    Includes <- NoIncludes
    Calls = {"AddFile"}
    CallsWhenIdle = FALSE
    MaxCalls = 3
    MaxFailures = 0
    NoParser = NoParser
    NoProject = NoProject
    Batch = Batch
    Local = Local
SPECIFICATION MCSpec
PROPERTIES
    ClearedFilesWereParsed
CHECK_DEADLOCK FALSE
