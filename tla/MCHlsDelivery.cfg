SPECIFICATION FairSpec
CONSTANTS
    MaxProfiles = 1
    v1 = v1
    v2 = v2
    Viewers = {v1, v2}
    CoreViewers = {v2}
    MaxMishaps = 2
CHECK_DEADLOCK FALSE
PROPERTIES TornOnlyAfterCut AnnouncedIsServed
