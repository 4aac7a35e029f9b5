SPECIFICATION Spec
CONSTANTS
    Instances = {0, 1, 3}
    Sessions = {"s1", "s2"}
    NonceRange = 4
    Word = 16
    MaxSubscriptions = 3
    HalvingHeight = 840000
    Interval16 = 283349
    FoundersAddresses = 48
    PowLimit = 60
    Base = 4
    Width = 3
    WN = 12
    WK = 2
    ByteBits = 3
    IndexBits = 4
    SmallWindow = 4
    LargeWindow = 8
    Expiration = 5
    MinOnline = 2
    Handlers = {"h1", "h2"}
    Accounts = {"ann"}
    StatsIntv = 1
    HasLuck = TRUE
    PurgeOnly = FALSE
    MaxTime = 2
    MaxRevision = 1
    MaxApiFaults = 1
    Conns = {"c1", "c2", "c3"}
    MaxConn = 2
    Inputs <- BoundedInputs
    Now = 10
INVARIANTS
    AcceptedValid
CHECK_DEADLOCK FALSE
