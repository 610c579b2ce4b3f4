SPECIFICATION RSpec
CONSTANTS
    alice = alice
    mallory = mallory
    NoToken = NoToken
    AnySeller = AnySeller
    Limits = {0, 1, 2}
    Tokens <- MCTokens
    SpamTokens <- MCSpamTokens
    Prices = {"p1"}
    NoPrice = ""
    Categories <- MCCategories
    Indices = {0}
    StableId <- MCStableId
    WorldLot <- MCWorldLot
    TransientCount = 1
    DelayTicks = 1
    Armed = {"charge_then_fail", "bad_lot_check", "retry_storm"}
    ForceHeaders = {"absent", "transport_error"}
    MaxLots = 1
    MaxPayments = 2
INVARIANTS
    TypeOK
    OneTracePerSale
    LedgerAscends
PROPERTIES
    TransientAnswerIsHarmless
    LotsWalkShowsWhatStayed
    PaymentsWalkMissesNothing
    SeenOnceInOrder
VIEW ReaderView
