SPECIFICATION FairSpec
CONSTANTS
    Paycard = {p1}
    Other = {p2}
    Order = "descending"
    PageSize = 1
    Warns = FALSE
    NoEvent = NoEvent
    MaxBeats = 1
    MaxRestarts = 0
    MaxFaults = 0
PROPERTIES
    TerminalIsDelivered
CHECK_DEADLOCK FALSE
