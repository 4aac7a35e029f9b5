SPECIFICATION Spec
CONSTANTS
    Logins = {"ann", "bob"}
    Blocks = {1, 2}
    HeightOf <- RivalHeights
    WorkerOf <- SameWorker
    FeesOf <- Fees
    RoundChoices <- OneRound
    MaxHeight = 4
    ReorgDepth = 1
    MaxReorgs = 0
    MinDepth = 1
    Depth = 2
    ImmatureDepth = 1
    BlindReads = FALSE
    MaxFaults = 0
    MaxCrashes = 0
    PoolFee = 10
    KeepTxFees = FALSE
    Donate = TRUE
    DonationFee = 10
    DonationAccount = "donation"
    PoolFeeAddress = "pool"
    NoAddress = "none"
    HalvingHeight = 2
    PreReward = 20
    PostReward = 10
INVARIANTS
    RoundIntact
