SPECIFICATION FairSpec
CONSTANTS
    r1 = r1
    r2 = r2
    Readers = {r1, r2}
    Workers = {}
    Keys <- MCOneKey
    FileOf <- MCOneFileOf
    Size <- MCOneSize
    Declared <- MCOneDeclared
    MaxCacheSize = 1
    a = a
    b = b
    MaxDrift = 1
    MaxBroken = 1
    None = None
CHECK_DEADLOCK FALSE
PROPERTIES ImplementsLease RequestsEnd
