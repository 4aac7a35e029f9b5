SPECIFICATION FairSpec
CONSTANTS
    N = 2
    Sessions = {"finder"}
    Threshold = 2
    MaxTip = 2
    MaxOutages = 2
INVARIANTS
    UpstreamsTypeOK
PROPERTIES
    RecoversQuietly
    ReturnsToFirst
    WorkCatchesUp
