CONSTANTS
    k1 = k1
    k2 = k2
    i1 = i1
    i2 = i2
    None = None
    Keys = {k1, k2}
    Images = {i1, i2}
    Size <- MCSize
    Found <- MCFound
    MaxBytes = 2
    MaxTime = 1
    MaxCuts = 1
SPECIFICATION CacheSpec
INVARIANTS
    SweptClean
PROPERTIES
    KeepsItsPromise
    VictimsGoInOrder
