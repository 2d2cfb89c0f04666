CONSTANTS
    MaxId = 2
    Files = 2
    CrossFade = 2
    EnrichmentFade = 1
    FadeOut = 1
    FadeIn = 1
    hd = hd
    DisplayPower <- MCPowers
    Modes <- MCModes
    MaxPlugs = 1
    Backlog = 1
    Nothing = Nothing
SPECIFICATION FairRenderSpec
INVARIANTS
    AsleepIsSettled
    PicturesAreHeld
    LastShowWins
    RestShowsCover
PROPERTIES
    DarkInTheEnd
