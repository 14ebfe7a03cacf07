SPECIFICATION QuerySpec
CONSTANTS
    Call = Call
    Miner = Miner
    Slot = Slot
    Threads = {t1}
    Tx = {Call}
    BalanceKeys = {Miner}
    ContractKeys = {Slot}
    Touched <- MCTouched
    MinerKey = Miner
    MaxBlocks = 3
    MaxFailures = 1
    MaxRestarts = 0
INVARIANT AdvertisedHeightPersisted
CHECK_DEADLOCK FALSE
