SPECIFICATION Spec
CONSTANTS
    k1 = k1
    k2 = k2
    MandateKey = {k1, k2}
    ManifestKey = ManifestKey
    NoKey = NoKey
    Identifier = {}
    CompiledAlgs = {"Siv", "GcmSiv"}
    NDMax = 100
    USizeMax = 65536
    None = None
    Call = {"c1", "c2"}
    Presented <- Shapes
    ClockValue = {0}
    Monotone = FALSE
    MaxKeys = 1
    Durations = {}
    Pins = {0}
    Caps = {}
INVARIANT ManifestNeverParsed
CHECK_DEADLOCK FALSE
