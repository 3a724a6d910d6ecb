CONSTANTS
    NFrames = 16
    Reserved = {0}
    PerTable = 3
    Offset = 24
    UserPage = {22}
    Images <- MCImages
    Slot = {1, 2}
    KStack = 1
    UStack = 1
    PerPage = 2
    MaxTables = 20
    MaxPid = 3
    MaxStrings = 0
    MaxResources = 2
    MaxShared = 1
    MaxLeaks = 1
SPECIFICATION Spec
INVARIANTS KernelInEverySpace FramesHaveOneOwner
PROPERTY ExitLeavesNothing
CHECK_DEADLOCK FALSE
