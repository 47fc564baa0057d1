SPECIFICATION Spec
CONSTANTS
    MaxClock = 2
    Deltas = {1}
    Jumps = {}
    FailureThreshold = 1
    SuccessThreshold = 1
    CooldownMs = 1
    HalfOpenMaxCalls = 1
    ProbeIntervalMs = 1
    UnhealthyProbeThreshold = 1
    HealthyProbeThreshold = 1
    OutlierConsecutiveFailures = 1
    EjectionBaseMs = 2
    StartHealthy = TRUE
    AlphaMilli = 500
    FactorMilli = 2000
    WindowMs = 1
    MinSamples = 1
    EwmaEjectionMs = 1
    ReinstatePercent = 25
    RampWindowMs = 1
    MaxEwma = 100000
    CursorWidth = 2
    Keys = {"h1"}
    PointsOf <- TwoPoints
    KeyHash <- KeyPoints
    Strategies = {"RoundRobin"}
    PoolWeights <- OneService
    RouteTable <- Table
    Requests <- ShopRequests
    MaxRetries = 1
    ReplyLatencies = {0}
    MaxTotal = 0
    DepositMilli = 1
    RetryCostMilli = 2
    MaxMilli = 3
PROPERTY OpensForACooldown
