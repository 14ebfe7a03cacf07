SPECIFICATION Spec
CONSTANTS
    Owners = {o1, o2}
    MaxU64 = 24
    BPS = 4
    MinRatio = 6
    LiquidationRatio = 5
    Bonus = 1
    BaseRate = 1
    Slope = 2
    SecondsPerYear = 1
    Amounts = {4, 6}
    MaxTime = 2
SYMMETRY Symmetry
CONSTRAINT NoOverflowYet
INVARIANTS
    TypeOK
    TotalsMatch
    RatioFresh
PROPERTIES
    OnlyInterestErodes
    RefusalOnlyAccrues
CHECK_DEADLOCK FALSE
