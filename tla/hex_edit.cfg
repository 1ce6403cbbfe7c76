CONSTANTS
    OriginalSize = 3
    Values = {0}
    MaxLength = 2
    MaxSize = 4
    MaxEdits = 3
    MaxFailures = 1
SPECIFICATION Spec
INVARIANTS HexInv UnmodifiedIsOnDisk
PROPERTIES KeepsHistory
CHECK_DEADLOCK FALSE
