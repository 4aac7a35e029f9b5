SPECIFICATION IntakeSpec
CONSTANTS
    Logins = {"ann", "bob"}
    Blocks = {1, 2}
    Proofs = {1, 2, 3, 4}
    HeightOf <- RivalHeights
    JobHeight <- RivalJobs
    WorkerOf <- OwnWorkers
    FeesOf <- Fees
    Instances = {"i1", "i2"}
    Sessions = {"s1", "s2"}
    InstanceOf <- Own
    LoginOf <- Mining
    SessionOf <- Finders
    MaxHeight = 2
    ReorgDepth = 1
    MaxReorgs = 1
    ShareDiff = 2
    MaxLag = 1
    Backlog = 1
    MaxSubmits = 2
    MaxIntakeFaults = 1
    MaxRestarts = 1
CHECK_DEADLOCK FALSE
INVARIANTS
    IntakeTypeOK
    SharesConserved
    CreditedOnce
    EntryMatchesRound
    LossesNeedFaults
