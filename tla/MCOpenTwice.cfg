SPECIFICATION WriteSpec
CONSTANTS
    U64Max = 6
    AccountId = {n1, n2}
    Lane <- MCLane
    NoAccount = NoAccount
    Engine <- MCEngine
    Writer = {w1}
    Kind = {"sponsored"}
    SharedEngine = shared
    Payer = payer
    NoId = NoId
    GivenValue <- MCGiven
    MaxFaults = 1
INVARIANTS
    StaleIsSomeoneElses
CHECK_DEADLOCK FALSE
