CONSTANTS
    Task = {t1, t2}
    RamName = {r}
    FatName = {f, g}
    Volume = {0, 1}
    Entry = {1}
    Addr = {1, 2}
    PageSize = 2
    NULL = NULL
    Junk = Junk
    MaxSize = 2
    MaxFat = 1
    MaxOpens = 3
    MaxMade = 2
SYMMETRY Alike
SPECIFICATION Spec
INVARIANTS OpenFilesHaveOneOwner StaleMeansCut EntriesAreOwn
PROPERTY BytesAreKept
CHECK_DEADLOCK FALSE
