CONSTANTS
    Name = {"a", "b"}
    Nothing = "nothing"
    MAX_LOOP_COUNT = 10
    Waits = 2
    MaxResults = 4
SPECIFICATION DnsSpec
PROPERTY LoopingLookupEnds
