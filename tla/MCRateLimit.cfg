SPECIFICATION FairSpec
CONSTANTS
    r1 = r1
    r2 = r2
    r3 = r3
    Requests = {r1, r2, r3}
    Guards = 2
    Limit = 4
    MaxFaults = 5
CHECK_DEADLOCK FALSE
INVARIANT TypeOK
PROPERTIES RefusedBeyondShare CounterEnds
