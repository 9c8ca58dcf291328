CONSTANTS
    Machine = {1, 2}
    Configured <- OneOrBoth
    Worker = {w1}
    Key = {"queue", "tasks"}
    MaxStarts = 2
    Notices <- SomeNotices
    MaxExpiries = 1
    MaxFaults = 1
SPECIFICATION FairSpec
INVARIANTS ReportedIsStored NoGap
PROPERTIES RequestsEnd LaterEventsHeard
CHECK_DEADLOCK FALSE
