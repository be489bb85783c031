SPECIFICATION Spec
CONSTANTS
    k1 = k1
    k2 = k2
    c1 = c1
    MandateKey = {k1, k2}
    ManifestKey = ManifestKey
    NoKey = NoKey
    Identifier <- ApiWeb
    CompiledAlgs <- Both
    NDMax = 100
    USizeMax = 200000
    None = None
    IssuerKey = k1
    App <- Apps
    Ticks = 2
    Ttls = {1}
    Audiences <- WebOnly
    ReservedSize = 21
    IssSize = 40
    Call = {c1}
    Issuers <- Hosts
    Verifiers <- Policies
    OtherManifests <- Others
    MaxSkew = 1
    Horizon = 5
    MaxMints = 1
INVARIANTS AdmittedWithinAsked LeewayCoversSkew MintedGetsThrough FrontEndSeesOnlyTheManifest
CHECK_DEADLOCK FALSE
