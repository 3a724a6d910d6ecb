CONSTANTS
    Name = {"a", "b", "c"}
    Nothing = "nothing"
    MAX_LOOP_COUNT = 2
    Waits = 2
    MaxResults = 3
SPECIFICATION DnsSpec
INVARIANTS AnswerIsForTheQuestion AddressNotRefused
PROPERTY LookupEnds
