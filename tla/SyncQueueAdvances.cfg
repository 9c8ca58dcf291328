CONSTANTS
    Node = {1, 2}
    Executors = {1}
    Task = {1, 2}
    Priority = {0, 1}
    Promised = {1}
    Slot = {1, 2, 3}
    Budget <- Calm
    MaxSpent = 2
SPECIFICATION FairSpec
INVARIANTS
    TypeOK
    SerialPerOpening
PROPERTY QueueAdvances
CHECK_DEADLOCK FALSE
