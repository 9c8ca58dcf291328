CONSTANTS
    Task <- MCTask
    Action <- MCAction
    Tag = {"a", "b"}
    Worker = {"w1", "w2"}
    Lister = {"l1"}
    Body <- Bodies
    Seed <- TwoTasks
    Unscheduled = {}
    MaxRequests = 3
    MaxFailures = 1
SPECIFICATION StoreSpec
INVARIANTS StoreTypeOK EntriesAreSaved ListsAreWhole TagsAsAsked
CHECK_DEADLOCK FALSE
