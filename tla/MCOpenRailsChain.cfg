SPECIFICATION ChainSpec
CONSTANTS
    U64Max = 2
    MaxTime = 2
    InitialCoins = 2
    InitialGas = 1
    MaxSigned = 2
    PaycardId = {c1, c2}
    VaultId = {v1, v2}
    AccountId = {n1}
    Lane = {lane0}
    Address = {alice, bob}
    NoPaycard = NoPaycard
    NoAccount = NoAccount
    NoVault = NoVault
    DeletedVault = DeletedVault
    Direct = Direct
    Terms <- MCTerms
    VaultTerms <- MCVaultTerms
SYMMETRY Interchangeable
INVARIANTS
    NoncesGapFree
    EveryOpenConsumes
    CoinsConserved
    VaultOpensAsSigned
PROPERTIES
    SpendingIsAuthorized
    ChannelSpec
CHECK_DEADLOCK FALSE
