CONSTANTS
    Words <- AllWords
    MaxWords = 8
    Instants <- OfficeHours
    Ahead = 35
SPECIFICATION ClockSpec
INVARIANTS OpeningNotSkipped KnowsClosing ExceptionHolds
CHECK_DEADLOCK FALSE
