SPECIFICATION ConsoleSpec
CONSTANTS
    c1 = c1
    c2 = c2
    payer = payer
    merchant = merchant
    helper = helper
    Channel = {c1, c2}
    PayerOf <- MCPayerOf
    RecipientOf <- MCRecipientOf
    Wallet = {payer, merchant, helper}
    NoWallet = NoWallet
    FirstWallet = payer
    Load = {l1, l2}
    QueryLimit = 1
    RegistryLimit = 1
    MaxEvents = 4
    Past <- MCPast
    MaxDisturbances = 1
PROPERTIES
    ConsoleConverges
