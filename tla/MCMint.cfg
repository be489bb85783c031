SPECIFICATION Spec
CONSTANTS
    k1 = k1
    MandateKey = {k1}
    ManifestKey = ManifestKey
    NoKey = NoKey
    Identifier <- ApiOnly
    CompiledAlgs = {"Siv"}
    NDMax = 100
    USizeMax = 200000
    None = None
    IssuerKey = k1
    App <- Apps
    Ticks = 2
    ClockValue <- Clock
    Monotone = TRUE
    Dates <- Expiries
    Ttls <- Durations
    GivenTids <- Tids
    Audiences <- Named
    ReservedSize = 21
    IssSize = 3
INVARIANTS TypeOK MintExact MintedIsAdmitted NeverOutlivesTtl LifetimeWithinTtl
CHECK_DEADLOCK FALSE
