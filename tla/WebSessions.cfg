CONSTANTS
    a1 = a1
    a2 = a2
    a3 = a3
    h1 = h1
    h2 = h2
    Requests = {h1, h2}
    Addresses = {a1, a2, a3}
    Window = 2
    MaxAttempts = 2
    SweepThreshold = 1
    MaxTracked = 2
    Slots = 1
    Lifetime = 2
    MaxSessions = 2
    MaxOrphans = 1
    MaxTime = 3
    MaxTokens = 3
SPECIFICATION SessionsSpec
SYMMETRY MCSymmetry
INVARIANTS
    AttemptsAreBounded
    SessionsLast
CHECK_DEADLOCK FALSE
