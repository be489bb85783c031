SPECIFICATION FairSpec
CONSTANTS
    k1 = k1
    k2 = k2
    MandateKey = {k1}
    ManifestKey = ManifestKey
    NoKey = NoKey
    Identifier <- Api
    CompiledAlgs = {"Siv"}
    NDMax = 100
    USizeMax = 65536
    None = None
    Call = {"c1", "c2"}
    Presented <- RaceTokens
    ClockValue <- RaceTimes
    Monotone = TRUE
    MaxKeys = 1
    Durations = {1}
    Pins = {}
    Caps = {}
INVARIANTS TerminalsAgree
PROPERTIES ExpiredStaysExpired JudgedAtOneInstant EveryCallReturns
CHECK_DEADLOCK FALSE
