SPECIFICATION FairTrafficSpec
CONSTANTS
    MaxClock = 5
    Deltas = {1}
    Jumps = {}
    FailureThreshold = 2
    SuccessThreshold = 1
    CooldownMs = 2
    HalfOpenMaxCalls = 1
    ProbeIntervalMs = 1
    UnhealthyProbeThreshold = 2
    HealthyProbeThreshold = 2
    OutlierConsecutiveFailures = 2
    EjectionBaseMs = 2
    StartHealthy = TRUE
    AlphaMilli = 500
    FactorMilli = 2000
    WindowMs = 1
    MinSamples = 1
    EwmaEjectionMs = 1
    ReinstatePercent = 25
    RampWindowMs = 1
    MaxEwma = 100000
    CursorWidth = 2
    Keys = {"k1", "k2"}
    PointsOf <- TwoPoints
    KeyHash <- TwoKeys
    Strategies = {"RoundRobin"}
    Weights <- TwoWeights
    InitialBackends = 2
    Latencies = {}
    MaxInFlight = 2
    MaxSamples = 0
INVARIANTS SelectsExactlyRoutable PollLasts
PROPERTIES EjectionIsFinal EjectionEnds
