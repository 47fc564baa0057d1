SPECIFICATION FairSpec
CONSTANTS
    MaxClock = 7
    Deltas = {1, 2}
    Jumps = {0, 3, 7}
    FailureThreshold = 3
    SuccessThreshold = 2
    CooldownMs = 2
    HalfOpenMaxCalls = 1
    MaxLog = 6
INVARIANTS TypeOK CountersTellHistory
PROPERTIES ImplementsReference OpenEnds
