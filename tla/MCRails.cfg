SPECIFICATION Spec
CONSTANTS
    Payer = Payer
    Merchant = Merchant
    Sponsor = Sponsor
    Nobody = Nobody
    Nothing = Nothing
    NoKey = NoKey
    Wallets <- MCWallets
    Kinds <- MCKinds
    Terms <- MCTerms
    Lot = 2
    GasFee = 1
    GasBuffer = 2
    MaxRails = 1
    MaxEpoch = 1
    MaxTries = 1
INVARIANTS
    OffersArrive
    GrantsAreGood
    OpenGoesThrough
PROPERTIES
    ChargedAsAgreed
CHECK_DEADLOCK FALSE
