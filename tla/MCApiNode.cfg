SPECIFICATION QuerySpec
CONSTANTS
    Call = Call
    Miner = Miner
    Slot = Slot
    Threads = {t1, t2}
    Tx = {Call}
    BalanceKeys = {Miner}
    ContractKeys = {Slot}
    Touched <- MCTouched
    MinerKey = Miner
    MaxBlocks = 3
    MaxFailures = 1
    MaxRestarts = 1
INVARIANTS
    TypeOK
    AdvertisedTipStored
    ConfirmedIsStored
    SequentialNodeIsCurrent
PROPERTIES
    MissedOnlyWhileWriting
CHECK_DEADLOCK FALSE
