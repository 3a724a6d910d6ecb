CONSTANTS
    PageSize = 32
    Pages = 1
    Base = 32
    Word = 1024
    MaxEnd = 192
    Size = {0, 1, 17, 32, 1000, 1020}
SPECIFICATION Spec
INVARIANTS Tiled BlocksAreSegments RecursionBounded
CHECK_DEADLOCK FALSE
