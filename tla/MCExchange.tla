----------------------------- MODULE MCExchange -----------------------------
(***************************************************************************)
(* Two hosts, clocks of half seconds, one tick apart at most, and          *)
(* Verifiers with and without a leeway that covers the skew, one without   *)
(* the issuer's key.                                                       *)
(***************************************************************************)
EXTENDS Exchange

CONSTANTS k1, k2, c1

Value(size) == [error |-> None, size |-> size, decode_error |-> None]

(* The second fits as a mandate's application and not as a manifest's.     *)
Apps == { Value(1), Value(DEFAULT_MAX_DECODED_LEN - 40) }

Configured(keys, leeway) ==
    [ keys |-> keys, audience |-> "api", leeway |-> leeway, now |-> None,
      max_decoded_len |-> DEFAULT_MAX_DECODED_LEN ]

Policies == { Configured(<<k1>>, 0), Configured(<<k2, k1>>, 1), Configured(<<k2>>, 0) }

(* Each half has its own algorithm. *)
Hosts == { [alg |-> "GcmSiv", manifest_alg |-> "Siv", encoding |-> "B64"] }

Forged(fields, reads) ==
    HalfText(seal([size |-> 1, error |-> None, claims |-> reads, fields |-> fields],
                  ManifestKey, "GcmSiv"), "1", "B64")

(* A manifest, and clauses under the manifest's key. *)
Others ==
    { Forged([exp |-> None, tid |-> "absent", aud |-> None], TRUE),
      Forged([exp |-> 9, tid |-> "v7", aud |-> None], FALSE) }

Web == {"web"}
WebOnly == {Web}
ApiWeb == {"api", "web"}
Both == {"Siv", "GcmSiv"}
=============================================================================
