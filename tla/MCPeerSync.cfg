SPECIFICATION Spec
CONSTANTS
    a = a
    b = b
    Node = {a, b}
    SelfId = SelfId
    c = c
    d = d
    Down = {c, d}
    Seeds <- MCSeeds
    InitialDifficulty = 1
    Interval = 2
    TargetTime = 4
    Bits = 3
    Digest <- MCDigest
    Clock <- MCClock
    Stray <- MCStray
    Batch = 2
    Near = 2
    Registrable = {a}
    MaxJobs <- MCMaxJobs
    Followers = {b}
    MaxMined <- MCMaxMined
    MaxRestarts <- MCRestarts
    MaxHeight = 3
    MaxLost = 1
    MaxInFlight = 1
INVARIANTS
    TypeOK
    RequestsConnect
    ChainsAreValid
    CacheIsNext
PROPERTIES
    BucketsAreByDistance
    CatchesUp
CHECK_DEADLOCK FALSE
