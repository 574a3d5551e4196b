CONSTANTS
    b1 = b1
    b2 = b2
    b3 = b3
    r1 = r1
    r2 = r2
    Bitmaps <- MCBitmaps
    Readers <- MCReaders
    FreqMax = 1000000
    LoadAll = FALSE
    CacheSize = 2
    MaxAccesses = 9
INVARIANT ResidentWithinCache
SPECIFICATION Spec
CHECK_DEADLOCK FALSE
