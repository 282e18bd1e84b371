SPECIFICATION FairSpec
CONSTANTS
    Paycard = {p1}
    Other = {p2}
    Order = "ascending"
    PageSize = 1
    Warns = TRUE
    NoEvent = NoEvent
    MaxBeats = 1
    MaxRestarts = 1
    MaxFaults = 1
INVARIANTS
    NothingForgotten
    UnwatchedIsDelivered
PROPERTIES
    TerminalIsDelivered
    RestsUnlessRestarted
CHECK_DEADLOCK FALSE
