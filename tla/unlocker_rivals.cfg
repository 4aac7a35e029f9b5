SPECIFICATION Spec
CONSTANTS
    Logins = {"ann", "bob"}
    Blocks = {1, 2}
    HeightOf <- RivalHeights
    WorkerOf <- OwnWorkers
    FeesOf <- Fees
    RoundChoices <- TwoRounds
    MaxHeight = 5
    ReorgDepth = 2
    MaxReorgs = 2
    MinDepth = 1
    Depth = 2
    ImmatureDepth = 1
    BlindReads = FALSE
    MaxFaults = 2
    MaxCrashes = 2
    PoolFee = 10
    KeepTxFees = FALSE
    Donate = TRUE
    DonationFee = 10
    DonationAccount = "donation"
    PoolFeeAddress = "pool"
    NoAddress = "none"
    HalvingHeight = 2
    PreReward = 20
    PostReward = 10
INVARIANTS
    TypeOK
    OneStage
    CreditsFollowStage
    LedgerBalanced
    PaidIsFinal
PROPERTIES
    NeverForgotten
    ImplementsPayout
