SPECIFICATION FairSpec
CONSTANTS
    Logins = {"ann", "bob"}
    Blocks = {1, 2}
    HeightOf <- ApartHeights
    WorkerOf <- OwnWorkers
    FeesOf <- Fees
    RoundChoices <- TwoRounds
    MaxHeight = 8
    ReorgDepth = 2
    MaxReorgs = 1
    MinDepth = 3
    Depth = 6
    ImmatureDepth = 3
    BlindReads = FALSE
    MaxFaults = 1
    MaxCrashes = 1
    PoolFee = 10
    KeepTxFees = FALSE
    Donate = TRUE
    DonationFee = 10
    DonationAccount = "donation"
    PoolFeeAddress = "pool"
    NoAddress = "none"
    HalvingHeight = 2
    PreReward = 20
    PostReward = 10
INVARIANTS
    RewardExact
    PaidWithinRounding
PROPERTIES
    PaidAsAnnounced
    EverySettles
