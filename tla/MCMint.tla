------------------------------- MODULE MCMint -------------------------------
(***************************************************************************)
(* A small world for minting: half-second ticks, expiries inside, at and   *)
(* beyond the clock's range, and application values that serialize, do     *)
(* not, do but will not decode, and just pass the verifier's size cap.     *)
(***************************************************************************)
EXTENDS Mint

CONSTANT k1

Value(error, size, decode_error) ==
    [error |-> error, size |-> size, decode_error |-> decode_error]

Apps ==
    { Value(None, 1, None), Value("ReservedKey", 1, None),
      Value(None, 1, "NonCanonical"), Value(None, DEFAULT_MAX_DECODED_LEN - 38, None) }

Clock == -1 .. 4
Expiries == {1, NDMax}
Durations == {0, 1, NDMax + 1}
Tids == { [kind |-> "v7", stamp |-> 3], [kind |-> "other", stamp |-> 0] }
Named == { {}, {"api"} }
ApiOnly == {"api"}
=============================================================================
