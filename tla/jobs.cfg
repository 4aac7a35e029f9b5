SPECIFICATION FairSpec
CONSTANTS
    Miners = {"m1", "m2"}
    Capacity = 1
    HealthCheck = TRUE
    MaxFails = 1
    MaxStores = 2
    MaxBreaks = 1
INVARIANTS
    JobsTypeOK
    EveryoneHasJob
    OldJobsNeedOverlap
PROPERTIES
    BroadcastsFinish
    GoneSessionsLeave
