CONSTANTS
    Queue = {"q", "r"}
    Stored = {"q"}
    Path <- Tree
    PathOrder <- TreeOrder
    Content <- Contents
    Call = {1, 2}
    Manager = {1, 2, 3, 4}
    Operation <- Everything
    MaxFaults = 1
SPECIFICATION FairSpec
INVARIANTS QueueAccounted
PROPERTIES OthersStayKnown CreatedIsManaged
CHECK_DEADLOCK FALSE
