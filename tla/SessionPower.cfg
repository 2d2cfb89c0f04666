CONSTANTS
    None = None
    Horizon = 4
    Configs <- MCConfigs
SPECIFICATION FairSpec
INVARIANTS
    NeverSleepsThroughAChange
    DeadlinesFollowTheSession
PROPERTIES
    AmpReleasedOnlyAfterTheDelay
    SilenceEndsInTheDark
