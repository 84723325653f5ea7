SPECIFICATION FairSpec
CONSTANTS
    s1 = s1
    s2 = s2
    Scans = {s1, s2}
    Threshold = 3
    ScansPerRefresh = 4
    MaxFaults = 2
CHECK_DEADLOCK FALSE
INVARIANT TypeOK
PROPERTIES Recovers DetectsCrash
