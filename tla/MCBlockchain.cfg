SPECIFICATION Spec
CONSTANTS
    Alice = Alice
    Bob = Bob
    Contract = Contract
    Executed <- MCExecuted
    Address <- MCAddress
    Miners = {Alice}
    Tx <- MCTx
    MiningReward = 2
    MaxU64 = 24
    App <- MCApp
    InitApp <- MCInitApp
    Outcome <- MCOutcome
    MaxHeight = 3
    MaxPending = 2
    MaxBlock = 2
    MaxConfirmed = 4
INVARIANTS
    TypeOK
    NoMoneyFromNothing
    AppFollowsChain
    TransferLedgerSound
    SummaryReconciles
PROPERTIES
    LeavesPoolWhenConfirmed
    PagesKeepPlace
CHECK_DEADLOCK FALSE
