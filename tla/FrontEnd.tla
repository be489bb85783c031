------------------------------ MODULE FrontEnd ------------------------------
(***************************************************************************)
(* What can be done with a token without any key: its manifest is read for *)
(* display, and either half is carved out as a token of its own.  All are  *)
(* pure functions that answer None rather than give a reason.              *)
(***************************************************************************)
EXTENDS AdmissionRules

(* The bytes manifest_plaintext goes on to decrypt are of a size the       *)
(* default cap admits, whatever cap the verifiers were given.              *)
Readable(half) ==
    /\ from_code(half.alg_code) # None
    /\ half.len <= EncodedCap(DEFAULT_MAX_DECODED_LEN)
    /\ half.sealed # None
    /\ half.sealed.size \in MIN_HALF_BYTES .. DEFAULT_MAX_DECODED_LEN

openReadable(half) ==
    IF Readable(half)
    THEN open(half.sealed, ManifestKey, from_code(half.alg_code))
    ELSE None

manifest_plaintextUnbounded(tok) ==                         \* mutant
    IF Parses(tok) /\ tok.manifest = "wellformed"
    THEN open(tok.manifest_half.sealed, ManifestKey, from_code(tok.manifest_half.alg_code))
    ELSE None

manifest_plaintext(tok) ==
    IF Parses(tok) /\ tok.manifest = "wellformed"
    THEN openReadable(tok.manifest_half)
    ELSE None

claims(tok) ==
    LET plain == manifest_plaintext(tok) IN
    IF plain = None THEN None ELSE IF plain.claims THEN plain ELSE None

(* A carved half keeps its code, its text and the token's encoding.        *)
manifest(tok) ==
    IF Parses(tok) /\ tok.manifest = "wellformed"
    THEN [tok EXCEPT !.mandate = "absent", !.half = NoHalf]
    ELSE None

mandateDefaultCode(tok) ==                                  \* mutant
    IF Parses(tok) /\ tok.mandate = "wellformed"
    THEN [tok EXCEPT !.manifest = "absent", !.manifest_half = NoHalf, !.half.alg_code = "0"]
    ELSE None

mandate(tok) ==
    IF Parses(tok) /\ tok.mandate = "wellformed"
    THEN [tok EXCEPT !.manifest = "absent", !.manifest_half = NoHalf]
    ELSE None

(* The value of an HTTP header: a scheme and the mandate that is left of a *)
(* token.                                                                  *)
authorization_header(tok, scheme) ==
    IF mandate(tok) = None THEN None ELSE [scheme |-> scheme, credentials |-> mandate(tok)]
=============================================================================
