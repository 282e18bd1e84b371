SPECIFICATION ReadsSpec
CONSTANTS
    U64Max = 4
    PaycardId <- MCPaycardId
    Address = {payer, merchant}
    Terms <- MCTerms
    NoPaycard = NoPaycard
    InitialCoins = 2
    MaxTime = 2
    Tracked = "c"
    Payer = payer
    Recipient = merchant
    Presentation <- MCPresentation
    Issued <- MCIssued
    Request <- MCRequest
    Foreign <- MCForeign
    Absent = Absent
    Bounds <- MCBounds
    DefaultBounds <- MCDefault
    MaxForeign = 2
INVARIANTS
    DoorsAgree
    GrantsAreSound
    LookUpsAreTrue
    SettledStaysSettled
    OffersAreAccepted
PROPERTIES
    SettledIsKnown
