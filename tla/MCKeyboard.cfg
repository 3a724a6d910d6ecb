CONSTANTS
    MaxTerm = 2
    Key = {"lalt", "ralt", "lshift", "caps", "a", "up", "delete", "F1", "F2", "F9"}
    MaxPresses = 5
SPECIFICATION KeyboardSpec
INVARIANT ModifiersFollowKeys
PROPERTY TypedHereReadHere
CHECK_DEADLOCK FALSE
