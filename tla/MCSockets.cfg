CONSTANTS
    Conn = {c1, c2}
    Server = {"s1", "s2"}
    None = None
    MaxData = 3
    MaxSend = 1
    MaxRead = 2
    Word = 8
    Isn = 6
    Flags <- AllFlags
    Wild = {c1}
SPECIFICATION FairSpec
INVARIANTS DeliveredIsPrefix AckedIsDelivered TablesAreLive 
PROPERTY ExchangeCompletes
CHECK_DEADLOCK FALSE
