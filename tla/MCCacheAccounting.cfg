SPECIFICATION Spec
CONSTANTS
    r1 = r1
    r2 = r2
    Readers = {r1}
    Workers = {r2}
    Keys <- MCKeys
    FileOf <- MCFileOf
    Size <- MCSize
    Declared <- MCDeclared
    MaxCacheSize = 3
    a = a
    b = b
    MaxDrift = 0
    MaxBroken = 0
    None = None
SYMMETRY Symmetry
CHECK_DEADLOCK FALSE
INVARIANTS TypeOK StoredIsEvictable SizeAccounted WithinLimit
