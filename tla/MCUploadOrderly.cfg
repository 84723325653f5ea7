\* An orderly client.
SPECIFICATION FairSpec
CONSTANTS
    Handlers = {h1, h2}
    p1 = p1
    p2 = p2
    Payloads <- MCPayloads
    ChunksOf <- MCChunksOf
    Names = {n1}
    Mimes = {"plain"}
    MaxVersions = 2
    Faults = {"minio", "db", "crash", "redis"}
    Orderly = TRUE
    None = None
CHECK_DEADLOCK FALSE
INVARIANTS ExclusiveAssembly CurrentIsLatest
PROPERTIES ImplementsHistory StatusFollowsLifecycle StuckOnlyByDatabaseOrCrash CompletionsEnd
