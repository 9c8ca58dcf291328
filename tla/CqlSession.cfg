CONSTANTS
    Conn = {"c1", "c2"}
    Caller = {"k1", "k2"}
    Filler = {"f1", "f2"}
    Streams <- OneStream
    NumConns = 2
    MaxCalls = 1
    MaxFaults = 1
SPECIFICATION FairSpec
INVARIANTS ReplyIsMine ReaderNeverBlocks DeadLeavePool
PROPERTIES QueriesEnd
CHECK_DEADLOCK FALSE
