SPECIFICATION Spec
CONSTANTS
    AppValue <- Apps
    Clauses <- SomeClauses
    WireValue <- WireValues
    NDMax = 3
    None = None
    Value <- Values
    Depth <- DepthOf
    encode <- BytesOf
    decode <- ValueOf
    canonicalize <- CanonicalOf
    contains_nan <- HoldsNan
    has_invalid_map_key <- HoldsBadKey
    Inside <- AllInside
INVARIANTS DecodesExactly EachFieldReadOnce NeverBoth MintedReadsBack OrderDoesNotShow
CHECK_DEADLOCK FALSE
