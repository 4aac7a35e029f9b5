SPECIFICATION PoolFairSpec
CONSTANTS
    Logins = {"ann", "bob"}
    Blocks = {1, 2}
    Proofs = {1, 2, 3}
    HeightOf <- RivalHeights
    JobHeight <- RivalJobs
    WorkerOf <- OwnWorkers
    FeesOf <- Fees
    RoundChoices <- AllRounds
    Instances = {"i1", "i2"}
    Sessions = {"s1", "s2"}
    InstanceOf <- Own
    LoginOf <- Mining
    SessionOf <- Finders
    MaxHeight = 3
    ReorgDepth = 1
    MaxReorgs = 0
    MinDepth = 1
    Depth = 2
    ImmatureDepth = 1
    BlindReads = FALSE
    MaxFaults = 0
    MaxCrashes = 1
    PoolFee = 10
    KeepTxFees = FALSE
    Donate = FALSE
    DonationFee = 10
    DonationAccount = "donation"
    PoolFeeAddress = "pool"
    NoAddress = "none"
    HalvingHeight = 2
    PreReward = 20
    PostReward = 10
    ShareDiff = 2
    MaxLag = 0
    Backlog = 8
    MaxSubmits = 1
    MaxIntakeFaults = 0
    MaxRestarts = 0
CHECK_DEADLOCK FALSE
INVARIANTS
    UnsettledRoundsIntact
    OnlyWorkIsPaid
PROPERTIES
    UnlockerAssumptionHolds
    ConfirmedSettles
