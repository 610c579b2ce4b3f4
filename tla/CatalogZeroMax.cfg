SPECIFICATION CSpec
CONSTANTS
    Categories = {"steam"}
    Origins = {"brute", "stealer", "self", "generated"}
    Drawn <- MCDrawn
    Queries <- ZeroQueries
    Pushed = {7}
    GivenIds = {50}
    FirstMinted = 101
    MaxPushed = 1
INVARIANT
    PriceNeverAboveMax
