SPECIFICATION Spec
CONSTANTS
    alice = alice
    mallory = mallory
    NoToken = NoToken
    Tokens <- MCTokens
    SpamTokens <- MCSpamTokens
    Prices = {"p1", "p2"}
    NoPrice = ""
    Categories <- MCCategories
    Indices = {0, 1}
    StableId <- MCStableId
    WorldLot <- MCWorldLot
    TransientCount = 1
    DelayTicks = 1
    Armed = {"already_sold", "charge_then_fail"}
    ForceHeaders = {"absent", "transport_error"}
    MaxLots = 1
    MaxPayments = 2
INVARIANTS
    NothingSoldIsOnSale
PROPERTIES
    OnlyItsSellerChangesALot
    SellsEachLotOnce
VIEW MarketView
