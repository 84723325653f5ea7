SPECIFICATION FairSpec
CONSTANTS
    MaxProfiles = 3
    MaxAttempts = 2
    MaxStalls = 1
CHECK_DEADLOCK FALSE
INVARIANTS TypeOK OutcomeRecorded
PROPERTIES ImplementsHlsOutput JobEnds
