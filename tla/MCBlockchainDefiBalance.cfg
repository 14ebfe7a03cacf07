SPECIFICATION SoloSpec
CONSTANTS
    Alice = Alice
    Bob = Bob
    Contract = Contract
    Executed <- MCExecuted
    Address <- MCAddress
    Miners = {Alice}
    Tx <- Loans
    MiningReward = 2
    MaxU64 = 24
    App <- MCApp
    InitApp <- MCInitApp
    Outcome <- MCOutcome
    MaxHeight = 3
    MaxPending = 2
    MaxBlock = 2
    MaxConfirmed = 5
PROPERTY DefiLeavesBalances
CHECK_DEADLOCK FALSE
