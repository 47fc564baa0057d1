SPECIFICATION ScenarioSpec
CONSTANTS
    MaxClock = 4
    Deltas = {1}
    Jumps = {}
    FailureThreshold = 2
    SuccessThreshold = 1
    CooldownMs = 1
    HalfOpenMaxCalls = 1
    ProbeIntervalMs = 2
    UnhealthyProbeThreshold = 2
    HealthyProbeThreshold = 1
    OutlierConsecutiveFailures = 3
    EjectionBaseMs = 0
    StartHealthy = TRUE
    AlphaMilli = 500
    FactorMilli = 2000
    WindowMs = 1
    MinSamples = 1
    EwmaEjectionMs = 1
    ReinstatePercent = 25
    RampWindowMs = 1
    MaxEwma = 100000
    CursorWidth = 2
    Keys = {"h1"}
    PointsOf <- TwoPoints
    KeyHash <- KeyPoints
    Strategies = {"LeastConnections"}
    PoolWeights <- OneService
    RouteTable <- Table
    Requests <- AllRequests
    MaxRetries = 1
    ReplyLatencies = {5}
    MaxTotal = 2
    DepositMilli = 1
    RetryCostMilli = 3
    MaxMilli = 3
    Mocks <- SomeMocks
    Steps <- SomeSteps
    MaxScript = 1
    MaxProbes = 1
INVARIANTS RetriesPaidFor AmplificationBounded
PROPERTIES ProbeCadence HealthFollowsProbes
