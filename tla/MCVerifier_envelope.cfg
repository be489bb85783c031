SPECIFICATION Spec
CONSTANTS
    k1 = k1
    k2 = k2
    MandateKey = {k1, k2}
    ManifestKey = ManifestKey
    NoKey = NoKey
    Identifier = {}
    CompiledAlgs = {"Siv", "GcmSiv"}
    NDMax = 100
    USizeMax = 65536
    None = None
    Call = {"c1"}
    Presented <- EnvelopeTokens
    ClockValue = {0}
    Monotone = FALSE
    MaxKeys = 2
    Durations = {}
    Pins = {}
    Caps = {0, 20, 24, 65536}
INVARIANTS StageInv VerdictExact NoVerdictOnUnauthenticContent BoundedTrial
CHECK_DEADLOCK FALSE
