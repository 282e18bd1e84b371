SPECIFICATION Spec
CONSTANTS
    U64Max = 5
    MaxTime = 5
    InitialCoins = 4
    PaycardId = {c1}
    Address = {alice, bob}
    NoPaycard = NoPaycard
    Terms <- MCTerms
INVARIANTS
    TypeOK
    FundsConserved
    ReceiptsTellTheTruth
    PaymentIsPathIndependent
    NoStrandedFunds
    SdkProjectionAgrees
PROPERTY EscrowSpec
