CONSTANTS
    mode = mode
    stall = stall
    h1 = h1
    h2 = h2
    Unset = Unset
    NoCountdown = NoCountdown
    OtherCommand = OtherCommand
    Keys <- MCKeys
    ConfirmKeys = {mode}
    Choices <- MCChoices
    Base <- MCBase
    Invalid <- MCInvalid
    Handlers <- MCHandlers
    Bodies <- MCBodies
    ResetKeys <- MCResets
    Capacity = 1
    MaxCountdowns = 2
    MaxRequests = 3
    MaxFaults = 1
SPECIFICATION FairSettingsSpec
INVARIANTS
    AlwaysStarts
    RunsTheFile
    ChangesAreCovered
PROPERTIES
    UnconfirmedIsUndone
CHECK_DEADLOCK FALSE
