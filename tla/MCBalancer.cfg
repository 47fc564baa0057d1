SPECIFICATION Spec
CONSTANTS
    Weights <- WeightsSmall
    Ramps = {50, 100}
    Granule = 50
    CursorWidth = 7
    Keys = {"k1", "k2"}
    PointsOf <- ThreePoints
    KeyHash <- TwoKeys
INVARIANTS TypeOK RoundRobinCycle WeightsCancel DriftBounded ExactWhileUndisturbed
PROPERTY MinimalRemap
