SPECIFICATION ListSpec
CONSTANTS
    Paycard = {p1}
    NoEvent = NoEvent
    Request = {r1, r2}
    Posted <- MCPosted
    Signed <- MCSigned
    MaxDeaths = 1
    Limit = 1
INVARIANTS
    AnswersAreTrue
    LatestCoversStored
    EventWalkIsComplete
PROPERTIES
    LatestOnlyAdvances
SYMMETRY MCSymmetry
