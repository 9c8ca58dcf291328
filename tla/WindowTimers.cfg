CONSTANTS
    Node = {1, 2}
    Queue = {"apps", "db"}
    Path <- AllPaths
    Paths <- PathsOf
    Windows <- SomeWindows
    Starts <- SomeStarts
    Horizon <- Until
    MaxFaults = 1
SPECIFICATION Spec
INVARIANTS ClosesAtEnd UncontainedCloses StrayCloses OwnerOpens
CHECK_DEADLOCK FALSE
