CONSTANTS
    Task = {1}
    Loop = {l1, l2}
    Timer = {1, 2}
    Handler = {1}
    Written = {"Pending"}
    Horizon = 2
    Period = 1
    Close = 3
    NextClose = 9
    MaxTime = 2
    Budget <- Reopened

SPECIFICATION Spec

SYMMETRY Executors

INVARIANTS
    NoTaskSkipped
    MapHoldsLive

CHECK_DEADLOCK FALSE
