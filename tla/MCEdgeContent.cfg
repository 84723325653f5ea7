SPECIFICATION Spec
CONSTANTS
    e1 = e1
    e2 = e2
    r1 = r1
    r2 = r2
    r3 = r3
    Edges = {e1, e2}
    Replicas = {e1}
    Processes = {r1, r2, r3}
    MaxVersions = 2
    MaxFaults = 1
    OnDisk = {2}
    Torn = Torn
    None = None
    Dead = Dead
SYMMETRY MCSymmetry
CHECK_DEADLOCK FALSE
INVARIANTS TypeOK VersionExact Coalesced LockHasOwner
