SPECIFICATION LayerSpec
CONSTANTS
    MaxClock = 4
    Deltas = {1}
    Jumps = {}
    FailureThreshold = 3
    SuccessThreshold = 1
    CooldownMs = 1
    HalfOpenMaxCalls = 1
    ProbeIntervalMs = 1
    UnhealthyProbeThreshold = 2
    HealthyProbeThreshold = 2
    OutlierConsecutiveFailures = 2
    EjectionBaseMs = 1
    StartHealthy = TRUE
    AlphaMilli = 1000
    FactorMilli = 1500
    WindowMs = 1
    MinSamples = 1
    EwmaEjectionMs = 1
    ReinstatePercent = 25
    RampWindowMs = 1
    MaxEwma = 8000
    CursorWidth = 2
    Keys = {}
    PointsOf <- TwoPoints
    KeyHash <- TwoKeys
    Strategies = {"RoundRobin"}
    Weights <- TwoWeights
    InitialBackends = 2
    Latencies = {1, 9}
    MaxInFlight = 1
    MaxSamples = 3
PROPERTY NoStaleReejection
