CONSTANTS
    Message = {"m1", "m2"}
    Junk = "junk"
    MaxSpawns = 2
SPECIFICATION IpcSpec
INVARIANT SidesAgree
PROPERTIES SystemBlocks HandshakeCompletes SystemReturns
