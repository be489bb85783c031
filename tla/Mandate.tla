------------------------------- MODULE Mandate -------------------------------
(***************************************************************************)
(* The data a verification works on: tokens, halves, sealed bytes,         *)
(* plaintexts and the configured Verifier, each reduced to what the        *)
(* verdict can depend on, and the pure helpers of obsigil the verifier     *)
(* calls.  A token is described by what its text decodes to: the grammar   *)
(* of the text is in TokenGrammar, the CBOR of the plaintext in Serial.    *)
(***************************************************************************)
EXTENDS Integers, Sequences

CONSTANTS
    MandateKey,     \* the secret keys in use
    ManifestKey,    \* the public key, which MandateKey::from_bytes refuses
    NoKey,          \* stands for bytes that no key ever sealed
    Identifier,     \* audience identifiers
    CompiledAlgs,   \* the AEADs built in ("GcmSiv" is a cargo feature)
    NDMax,          \* i64::MAX
    USizeMax,       \* usize::MAX
    None

MIN_HALF_BYTES == 17
MAX_LEEWAY == 60
DEFAULT_MAX_DECODED_LEN == 65536
AEAD_TAG == 16

Alg == {"Siv", "GcmSiv"}
AlgCode == {"0", "1", "other"}
Encoding == {"B64", "Hex"}
NumericDate == -(NDMax + 1) .. NDMax

-----------------------------------------------------------------------------
(* Reasons, in the groups the stages of the pipeline report them in. *)

DecodeReason == {"Malformed", "NonCanonical", "BadType", "UnknownReservedKey"}
PolicyReason == {"BadTid", "MissingClause", "Expired", "AudienceMismatch"}
Reason == {"EmptyMandate", "Unsupported", "AuthFailed"}
              \cup DecodeReason \cup PolicyReason

-----------------------------------------------------------------------------
(* `aud` is a set: only membership and emptiness are ever asked of it. *)
MandateFields ==
    [ exp : NumericDate \cup {None},
      tid : {"v7", "other", "absent"},
      aud : (SUBSET Identifier) \cup {None} ]

(* A plaintext, and what decoding it strictly gives: an error, or (error   *)
(* None) its fields; and whether it decodes as a manifest.  One that does  *)
(* has no tid and no aud (Serial says why: NeverBoth).                     *)
Plain ==
    { p \in [ size : Nat, error : DecodeReason \cup {None},
              fields : MandateFields, claims : BOOLEAN ] :
        p.claims /\ p.error = None => p.fields.tid = "absent" /\ p.fields.aud = None }

Sealed == [ key : MandateKey \cup {ManifestKey, NoKey}, alg : Alg,
            size : Nat, plain : Plain ]

(* A half's text has a length and, when it is canonical, the bytes it      *)
(* stands for.                                                             *)
Half == [ alg_code : AlgCode, len : 0 .. USizeMax, sealed : Sealed \cup {None} ]

Shape == {"absent", "illformed", "wellformed"}

encoded_len(n, encoding) ==
    IF encoding = "Hex" THEN 2 * n ELSE (4 * n + 2) \div 3

(* A text has the length its bytes encode to, and sealing adds one tag to  *)
(* the plaintext; bytes nobody sealed may have any length.                 *)
WellSized(h, encoding) ==
    h.sealed # None =>
        /\ h.len = encoded_len(h.sealed.size, encoding)
        /\ h.sealed.key # NoKey => h.sealed.size = AEAD_TAG + h.sealed.plain.size

(* What can be presented: a mandate half and a manifest half, each of no   *)
(* account unless its shape is well formed.                                *)
Token ==
    { tok \in [ encoding : Encoding, manifest : Shape, mandate : Shape,
                half : Half, manifest_half : Half ] :
        WellSized(tok.half, tok.encoding) /\ WellSized(tok.manifest_half, tok.encoding) }

(* In place of a half that is not there. *)
NoHalf == [alg_code |-> "other", len |-> 0, sealed |-> None]

Policy ==
    [ keys : Seq(MandateKey),
      audience : Identifier \cup {None},
      leeway : 0 .. MAX_LEEWAY,
      now : NumericDate \cup {None},
      max_decoded_len : 0 .. USizeMax ]

Terminal == {"clauses", "clauses_unchecked", "mandate_plaintext"}

ASSUME ConstantsAssumption ==
    /\ ManifestKey \notin MandateKey
    /\ NoKey \notin MandateKey \cup {ManifestKey}
    /\ CompiledAlgs \subseteq Alg
    /\ "Siv" \in CompiledAlgs
    /\ NDMax \in Nat /\ NDMax >= MAX_LEEWAY
    /\ USizeMax \in Nat /\ USizeMax >= DEFAULT_MAX_DECODED_LEN
    /\ None \notin Identifier /\ None \notin NumericDate
    /\ None \notin Alg /\ None \notin Reason /\ None # "Ok"
    /\ None \notin Plain /\ None \notin Sealed

-----------------------------------------------------------------------------
Least(a, b) == IF a <= b THEN a ELSE b

code(alg) == IF alg = "Siv" THEN "0" ELSE "1"

from_code(c) ==
    CASE c = "0" -> "Siv" [] c = "1" -> "GcmSiv" [] OTHER -> None

(* parse succeeds on a token whose halves are each absent or well formed   *)
(* and not both absent.                                                    *)
Parses(tok) ==
    /\ tok.manifest # "illformed"
    /\ tok.mandate # "illformed"
    /\ ~(tok.manifest = "absent" /\ tok.mandate = "absent")

(* The AEADs are ideal: bytes open only under the key and the algorithm    *)
(* they were sealed with, and an algorithm left out of the build opens     *)
(* nothing.                                                                *)
openUnauthenticated(sealed, k, alg) == sealed.plain         \* mutant

open(sealed, k, alg) ==
    IF alg \in CompiledAlgs /\ sealed.key = k /\ sealed.alg = alg
    THEN sealed.plain
    ELSE None

seal(plain, k, alg) ==
    [key |-> k, alg |-> alg, size |-> plain.size + AEAD_TAG, plain |-> plain]

(* A sealed half as text, showing the code c. *)
HalfText(sealed, c, encoding) ==
    [alg_code |-> c, len |-> encoded_len(sealed.size, encoding), sealed |-> sealed]

EncodedCapForBytes(max) == Least(max + 8, USizeMax)         \* mutant

(* The cheap bound on the text, computed with saturating arithmetic.       *)
EncodedCap(max) == Least(Least(2 * max, USizeMax) + 8, USizeMax)

wrapping_add(exp, leeway) ==                                \* mutant
    ((exp + leeway + NDMax + 1) % (2 * (NDMax + 1))) - (NDMax + 1)

saturating_addNothing(exp, leeway) == exp                   \* mutant

(* i64::saturating_add of a leeway, which is never negative.               *)
saturating_add(exp, leeway) == Least(exp + leeway, NDMax)

now_truncated(clock) == clock % 3                           \* mutant

(* A clock set before 1970 reads as 0.                                     *)
now_unix(clock) == IF clock < 0 THEN 0 ELSE clock

aud_contains(aud, me) == me \in aud
=============================================================================
