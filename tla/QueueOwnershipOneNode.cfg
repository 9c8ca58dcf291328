CONSTANTS
    n1 = n1
    n2 = n2
    Node = {n1}
    Draining = TRUE
    ShouldDrain = FALSE
    Events = {"queue update", "queue delete", "task change", "task complete"}
    Workers = 1
    MaxEvents = 1
    MaxIndex = 3
    MaxLaunches = 2
    MaxFaults = 2
SPECIFICATION FairSpec
INVARIANTS
    TypeOK
    OneUpdaterPerClaim
PROPERTY FirstClaimantLearns
CHECK_DEADLOCK FALSE
