SPECIFICATION CSpec
CONSTANTS
    Categories = {steam, fortnite}
    Origins = {"brute", "stealer", "self", "generated"}
    Drawn <- MCDrawn
    Queries <- MCQueries
    Pushed = {7}
    GivenIds = {102}
    FirstMinted = 101
    MaxPushed = 2
INVARIANTS
    EveryItemHonoursTheQuery
    PageIsFullAndInOrder
    InjectedLotsHeadTheListing
    PollerSeesAStableWorld
PROPERTY
    InjectedLotIsNews
VIEW CatalogView
SYMMETRY CategorySymmetry
