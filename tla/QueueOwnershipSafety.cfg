CONSTANTS
    n1 = n1
    n2 = n2
    Node = {n1, n2}
    Draining = FALSE
    ShouldDrain = FALSE
    Events = {}
    Workers = 1
    MaxEvents = 0
    MaxIndex = 3
    MaxLaunches = 0
    MaxFaults = 1
SPECIFICATION Spec
INVARIANT OneKeyedOwner
SYMMETRY NodesAlike
CHECK_DEADLOCK FALSE
