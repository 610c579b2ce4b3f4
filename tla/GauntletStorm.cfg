SPECIFICATION GFairSpec
CONSTANTS
    alice = alice
    bob = bob
    mallory = mallory
    NoToken = NoToken
    Tokens <- MCTokens
    SpamTokens = {}
    Prices = {"p1"}
    NoPrice = ""
    Categories = {}
    Indices = {}
    StableId <- MCStableId
    WorldLot <- MCWorldLot
    TransientCount = 3
    DelayTicks = 1
    Armed = {"charge_then_fail", "delayed_settlement", "account_invalid", "retry_storm"}
    ForceHeaders = {"absent"}
    MaxLots = 1
    MaxPayments = 1
    Clients <- MCClients
    Seller = mallory
    MaxAttempts = 2
    ProfileArmed = FALSE
    Menu = {}
    Headers <- MCStormHeaders
    ClientsTimeOut = TRUE
INVARIANTS
    EveryPaymentIsConfirmedOnce
PROPERTIES
    EveryBuyEnds
    StormEndsInASale
