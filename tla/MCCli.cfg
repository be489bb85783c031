SPECIFICATION Spec
CONSTANTS
    k1 = k1
    k2 = k2
    MandateKey = {k1, k2}
    ManifestKey = ManifestKey
    NoKey = NoKey
    ZeroKey = ZeroKey
    Identifier <- ApiWeb
    CompiledAlgs <- Both
    NDMax = 100
    USizeMax = 200000
    None = None
    TestKey = k1
    Dash = Dash
    Unreadable = Unreadable
    NotJson = NotJson
    NotHex = NotHex
    EmptyObject <- Empty
    ReservedSize = 21
    IssSize = 3
    ClockValue <- Clock
    Mints <- Mintings
    Checks <- Checkings
    Seals <- Sealings
    Opens <- Openings
    MaxHalves = 2
INVARIANTS PrintedTokenVerifies SealedInputIsNotShown OnlySecretKeysAdmit SealedHalfOpens ExitTells
CHECK_DEADLOCK FALSE
