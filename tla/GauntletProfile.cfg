SPECIFICATION GSpec
CONSTANTS
    alice = alice
    bob = bob
    mallory = mallory
    NoToken = NoToken
    Tokens <- MCTokens
    SpamTokens = {}
    Prices = {"p1"}
    NoPrice = ""
    Categories = {}
    Indices = {}
    StableId <- MCStableId
    WorldLot <- MCWorldLot
    TransientCount = 1
    DelayTicks = 1
    Armed = {"charge_then_fail", "delayed_settlement", "account_invalid", "retry_storm"}
    ForceHeaders = {"absent"}
    MaxLots = 1
    MaxPayments = 1
    Clients <- MCClients
    Seller = mallory
    MaxAttempts = 2
    ProfileArmed = TRUE
    Menu = {"http_500", "connection_drop", "timeout", "slow", "truncated_body", "byzantine_null", "charge_then_fail", "delayed_settlement", "account_invalid"}
    Headers <- MCProfileHeaders
    ClientsTimeOut = FALSE
INVARIANTS
    GTypeOK
    VerdictMatchesLedger
    ScorecardInSeqOrder
PROPERTIES
    RaceIsOneSale
