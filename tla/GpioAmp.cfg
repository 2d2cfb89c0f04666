CONSTANTS
    Widths <- MCWidths
    Debounce = 2
    MaxQueue = 3
SPECIFICATION FairGpioSpec
INVARIANTS
    AmpObeys
    StoppedMeansOff
PROPERTIES
    NoChatter
    OrdersEnd
