SPECIFICATION Spec
CONSTANTS
    Edges <- MCEdges
    Position <- MCPosition
    ReplicationFactor = 1
    MaxAttempts = 1
    MaxStalls = 0
    a1 = a1
    a2 = a2
    Admins = {a1}
    Runs = {}
    r1 = r1
    MaxPending = 1
    s1 = s1
    s2 = s2
    Slots = {s1, s2}
    MaxBusy = 2
    Fragile = {"e1"}
SYMMETRY Symmetry
CHECK_DEADLOCK FALSE
INVARIANTS TypeOK NoStrandedRow
