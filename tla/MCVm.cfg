SPECIFICATION Spec
CONSTANTS
    Contracts <- MCContracts
    Scripts <- MCScripts
    Limits = {1, 3, 24}
    ChainLimit = 12
    MaxI64 = 3
    MaxCalls = 2
INVARIANTS
    TypeOK
    ReportedStepsSuffice
    StackAsWritten
    GuardedDivisionIsSafe
    StorageIsReplay
PROPERTIES
    CallsEnd
CHECK_DEADLOCK FALSE
