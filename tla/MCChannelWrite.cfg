SPECIFICATION WriteFairSpec
CONSTANTS
    U64Max = 6
    AccountId = {n1, n2}
    Lane <- MCLane
    NoAccount = NoAccount
    Engine <- MCEngine
    Writer = {w1, w2}
    Kind = {"tab", "sponsored", "cli", "sdk"}
    SharedEngine = shared
    Payer = payer
    NoId = NoId
    GivenValue <- MCGiven
    MaxFaults = 1
INVARIANTS
    StatusesAreTrue
    OneChannelPerOpen
PROPERTIES
    NoCollision
    EveryWriteEnds
CHECK_DEADLOCK FALSE
