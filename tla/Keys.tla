-------------------------------- MODULE Keys --------------------------------
(***************************************************************************)
(* Mandate keys: 64 bytes, taken raw or as 128 lowercase hex digits, or    *)
(* drawn from the platform's CSPRNG.  Of the bytes only the two values     *)
(* that from_bytes refuses matter, and of a text whether it is canonical   *)
(* hex and of 64 bytes (otherwise bytes is None).                          *)
(***************************************************************************)
EXTENDS AdmissionRules

CONSTANT ZeroKey        \* the all-zero value

KeyBytes == MandateKey \cup {ManifestKey, ZeroKey}
KeyText == [canonical : BOOLEAN, bytes : KeyBytes \cup {None}]

ASSUME ZeroKeyAssumption ==
    ZeroKey \notin MandateKey \cup {ManifestKey, NoKey, None} /\ None \notin KeyBytes

from_bytesAnyNonZero(bytes) ==                              \* mutant
    [error |-> IF bytes = ZeroKey THEN "AllZero" ELSE None, key |-> bytes]

from_bytes(bytes) ==
    [ error |-> CASE bytes = ManifestKey -> "IsManifestKey"
                  [] bytes = ZeroKey -> "AllZero"
                  [] OTHER -> None,
      key |-> bytes ]

from_hex(text) ==
    IF ~text.canonical THEN [error |-> "BadHexEncoding"]
    ELSE IF text.bytes = None THEN [error |-> "BadHexLength"]
    ELSE from_bytes(text.bytes)

(* What was drawn is printed, as MandateKey::generate wraps it, without    *)
(* the checks of from_bytes.                                               *)
generate_key(draw) == [canonical |-> TRUE, bytes |-> draw]
=============================================================================
