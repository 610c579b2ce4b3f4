SPECIFICATION Spec
CONSTANTS
    alice = alice
    mallory = mallory
    NoToken = NoToken
    Tokens <- MCTokens
    SpamTokens <- MCSpamTokens
    Prices = {"p1"}
    NoPrice = ""
    Categories <- MCCategories
    Indices = {0}
    StableId <- MCStableId
    WorldLot <- MCWorldLot
    TransientCount = 1
    DelayTicks = 1
    Armed = {"already_sold"}
    ForceHeaders = {"absent"}
    MaxLots = 0
    MaxPayments = 1
INVARIANTS
    SoldOutHasAWinner
