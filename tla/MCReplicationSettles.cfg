SPECIFICATION FairSpec
CONSTANTS
    Edges <- MCOneEdge
    Position <- MCOnePosition
    ReplicationFactor = 1
    MaxAttempts = 2
    MaxStalls = 1
    a1 = a1
    a2 = a2
    Admins = {a1, a2}
    Runs = {r1}
    r1 = r1
    MaxPending = 1
    s1 = s1
    s2 = s2
    Slots = {s1, s2}
    MaxBusy = 2
    Fragile = {}
CHECK_DEADLOCK FALSE
INVARIANTS DeadLetterKept
PROPERTIES RowsSettle
