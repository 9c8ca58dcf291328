CONSTANTS
    Node = {1}
    Executors = {1}
    Task = {1}
    Priority = {0}
    Promised = {1}
    Slot = {1, 2}
    Budget <- Disturbed
    MaxSpent = 4
SPECIFICATION Spec
INVARIANT NoTaskLost
CHECK_DEADLOCK FALSE
