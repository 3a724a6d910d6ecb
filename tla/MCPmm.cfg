SPECIFICATION Spec
CONSTANTS
    NPages = 16
    KernelStart = 3
    KernelEnd = 5
    PagingEnd = 7
    MaxRange = 3
    Boots <- MCBoots
INVARIANTS
    
    PagingRegionSeparate
    ScanStaysInBitmap

    
    
CHECK_DEADLOCK FALSE
