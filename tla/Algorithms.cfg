SPECIFICATION Spec
CONSTANTS
    Absent = Absent
    EditionWords <- MCEditionWords
    Kilo = 8
    MaxBytes = 2047
    Period <- MCPeriod
    Capacity <- MCCapacity
    Phrases <- MCPhrases
    MaxItems <- MCMaxItems
    Calls <- MCCalls
    MaxCalls <- MCMaxCalls
    Questions <- MCQuestions
    Worlds <- MCWorlds
    Displays <- MCDisplays
    Pictures <- MCPictures
    Files <- MCFiles
    Covers <- MCCovers
    Shown <- MCShown
    Levels = 4
    Linear <- MCLinear
    Lightness <- MCLightness
    Grid = 3
    HashWidth = 2
    HashHeight = 2
    HammingMax = 0
    SampleGrid = 2
    Iterations = 4
INVARIANTS
    TracksAreWhole
    RatesAreKept
    RecordsAreRecognised
    LookupsAreFair
    PicturesFit
    ConfigurationHolds
CHECK_DEADLOCK FALSE
