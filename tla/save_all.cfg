CONSTANTS
    Absent = Absent
    Empty = {3}
    MayBeLink = TRUE
    Methods = {0, 1, 2}
    MaxEdits = 3
    MaxFailures = 2
    MaxCrashes = 1
    Loaders = {l1, l2}
    OwnedByGui = {l1}
    MaxLoads = 2
    EditsBesideLoads = 2
    FailuresBesideLoads = 1
SPECIFICATION MCFairSpec
INVARIANTS SaveInv SomethingSurvives LoadInv
PROPERTIES NeverTorn SavedIsOnDisk LoadedIsWhole WaitersAreServed
CHECK_DEADLOCK FALSE
