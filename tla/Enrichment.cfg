CONSTANTS
    a1 = a1
    a2 = a2
    NoAlbum = NoAlbum
    Nothing = Nothing
    Albums <- MCAlbums
    SentSizes <- MCSentSizes
    FoundSizes <- MCFoundSizes
    Slots <- MCSlots
    Sources = 2
    MaxAttempts = 2
    PoolSizes <- MCPoolSizes
    MaxReports = 1
    MaxRevision = 2
SPECIFICATION FairEnrichSpec
INVARIANTS
    OneSearchPerAlbum
    NoRequestAfterAMiss
    UpgradesAreSharper
PROPERTIES
    UpgradeFitsTheTrack
    FlightsLand
