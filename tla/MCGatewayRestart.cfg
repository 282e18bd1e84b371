SPECIFICATION FairSpec
CONSTANTS
    Paycard = {p1}
    Other = {}
    Order = "ascending"
    PageSize = 1
    Warns = FALSE
    NoEvent = NoEvent
    MaxBeats = 1
    MaxRestarts = 1
    MaxFaults = 0
PROPERTIES
    StopsWhenSettled
CHECK_DEADLOCK FALSE
