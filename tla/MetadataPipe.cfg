CONSTANTS
    Payloads <- MCPayloads
    Pieces = {1, 3, 7}
    MaxBuffer = 31
    CompactAt = 2
    PipeCapacity = 32
    MaxFrames = 3
SPECIFICATION PipeSpec
INVARIANTS
    WholeItemsSurvive
    BufferIsBounded
CHECK_DEADLOCK FALSE
