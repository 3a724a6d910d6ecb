CONSTANTS
    Lease = {1, 2}
    Polls = 2
    CacheSize = 2
    MaxArrivals = 5
    MaxPings = 2
SPECIFICATION Spec
INVARIANTS OneConfirmedLease YesMeansAnswered
PROPERTY WaitsEnd
CHECK_DEADLOCK FALSE
