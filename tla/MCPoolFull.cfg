SPECIFICATION Spec
CONSTANTS
    MaxClock = 1
    Deltas = {1}
    Jumps = {0}
    FailureThreshold = 1
    SuccessThreshold = 1
    CooldownMs = 1
    HalfOpenMaxCalls = 1
    ProbeIntervalMs = 1
    UnhealthyProbeThreshold = 1
    HealthyProbeThreshold = 1
    OutlierConsecutiveFailures = 1
    EjectionBaseMs = 1
    StartHealthy = TRUE
    AlphaMilli = 500
    FactorMilli = 500
    WindowMs = 1
    MinSamples = 1
    EwmaEjectionMs = 1
    ReinstatePercent = 25
    RampWindowMs = 1
    MaxEwma = 100000
    CursorWidth = 2
    Keys = {"k1"}
    PointsOf <- TwoPoints
    KeyHash <- TwoKeys
    Strategies = {"Weighted", "ConsistentHash"}
    Weights <- TwoWeights
    InitialBackends = 1
    Latencies = {}
    MaxInFlight = 1
    MaxSamples = 0
INVARIANTS TypeOK SelectsExactlyRoutable StickyIgnoresCache
