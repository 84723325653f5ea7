\* Two requests overlap freely, every fault included.
SPECIFICATION Spec
CONSTANTS
    Handlers = {h1, h2}
    p1 = p1
    p2 = p2
    Payloads <- MCPayloads
    ChunksOf <- MCSingleChunks
    Names = {n1}
    Mimes = {"compressible"}
    MaxVersions = 2
    Faults = {"db", "queue"}
    Orderly = FALSE
    None = None
CHECK_DEADLOCK FALSE
SYMMETRY Symmetry
INVARIANTS TypeOK VersionsContiguous AnnouncedOnce VersionsHaveObjects
