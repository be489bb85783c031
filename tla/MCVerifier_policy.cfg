SPECIFICATION Spec
CONSTANTS
    k1 = k1
    k2 = k2
    MandateKey = {k1}
    ManifestKey = ManifestKey
    NoKey = NoKey
    Identifier <- ApiWeb
    CompiledAlgs = {"Siv"}
    NDMax = 100
    USizeMax = 65536
    None = None
    Call = {"c1"}
    Presented <- PolicyTokens
    ClockValue <- NearTimes
    Monotone = FALSE
    MaxKeys = 1
    Durations = {0, 1, 100}
    Pins <- FarPins
    Caps = {}
INVARIANTS TypeOK VerdictExact AccessorsTotal
CHECK_DEADLOCK FALSE
