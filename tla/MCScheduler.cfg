SPECIFICATION Spec
CONSTANTS
    MaxTasks = 3
    Term = {t1}
    MaxWait = 1
    MaxPid = 3
INVARIANTS
    RunsInOwnAddressSpace
    AddressSpaceInForceIsLive
    ResumesWhereSuspended
    ReleasedExactlyOnce
PROPERTIES
    DeadTaskLeaves
    ReadyTaskRuns
CHECK_DEADLOCK FALSE
