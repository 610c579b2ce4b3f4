SPECIFICATION FSpec
CONSTANTS
    Unset = Unset
    NoProfile = NoProfile
    NotRead = NotRead
    Builtin <- MCBuiltin
    Scenarios <- MCScenarios
    Shells <- MCShells
    Flags <- MCFlags
    Catalog <- MCCatalog
    Hole = Hole
    OwnUrls <- MCOwnUrls
    Stream <- MCStream
    Hashes <- MCHashes
    Requests <- MCRequests
    NoToken = NoToken
    LotIds <- MCLotIds
    WorldPage <- MCWorldPage
    MaxRequests = 2
INVARIANT
    ScenarioSetsSeed
