SPECIFICATION FairSpec
CONSTANTS
    MaxClock = 2
    Deltas = {1}
    Jumps = {2}
    FailureThreshold = 2
    SuccessThreshold = 1
    CooldownMs = 1
    HalfOpenMaxCalls = 1
    ProbeIntervalMs = 1
    UnhealthyProbeThreshold = 1
    HealthyProbeThreshold = 1
    OutlierConsecutiveFailures = 2
    EjectionBaseMs = 1
    StartHealthy = TRUE
    AlphaMilli = 500
    FactorMilli = 2000
    WindowMs = 1
    MinSamples = 1
    EwmaEjectionMs = 1
    ReinstatePercent = 25
    RampWindowMs = 1
    MaxEwma = 100000
    CursorWidth = 2
    Keys = {"h1"}
    PointsOf <- TwoPoints
    KeyHash <- KeyPoints
    Strategies = {"RoundRobin"}
    PoolWeights <- OneService
    RouteTable <- Table
    Requests <- ShopRequests
    MaxRetries = 1
    ReplyLatencies = {0}
    MaxTotal = 0
    DepositMilli = 1
    RetryCostMilli = 2
    MaxMilli = 3
INVARIANTS TypeOK EveryTryElsewhere NoCallLeaks
PROPERTIES ImplementsFailover ErrorIsLastResort RequestEnds EveryoneComesBack
