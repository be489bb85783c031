---------------------------- MODULE AdmissionRules ----------------------------
(***************************************************************************)
(* What makes a token inadmissible, stated rule by rule and in no order:   *)
(* the reference the verifier's pipeline of early returns is judged by.    *)
(* Candidate keys are a set here, lengths are exact, and expiry is plain   *)
(* arithmetic.                                                             *)
(***************************************************************************)
EXTENDS Mandate

CandidateKeys(policy) == { policy.keys[i] : i \in DOMAIN policy.keys }

Fits(size, policy) == size \in MIN_HALF_BYTES .. policy.max_decoded_len

(* The mandate was sealed by a candidate key with the algorithm it names.  *)
Authentic(tok, policy) ==
    LET sealed == tok.half.sealed IN
    /\ sealed # None
    /\ sealed.key \in CandidateKeys(policy)
    /\ sealed.alg = from_code(tok.half.alg_code)
    /\ sealed.alg \in CompiledAlgs

(* Rules on the presented text and on who sealed it.                       *)
BreaksEnvelope(tok, policy, r) ==
    \/ r = "Malformed"    /\ \/ ~Parses(tok)
                             \/ tok.half.sealed = None
                             \/ ~Fits(tok.half.sealed.size, policy)
    \/ r = "EmptyMandate" /\ tok.mandate = "absent"
    \/ r = "Unsupported"  /\ from_code(tok.half.alg_code) = None
    \/ r = "AuthFailed"   /\ ~Authentic(tok, policy)

(* Rules on the sealed content: it decodes, and its two required clauses   *)
(* are there.                                                              *)
BreaksContent(plain, r) ==
    \/ plain.error = r
    \/ plain.error = None /\ r = "BadTid"        /\ plain.fields.tid = "absent"
    \/ plain.error = None /\ r = "MissingClause" /\ plain.fields.exp = None

(* Rules on the clauses' values at time t.  A leeway that would carry exp  *)
(* past the last representable date ends at that date.                     *)
BreaksPolicy(fields, policy, t, r) ==
    \/ r = "BadTid"  /\ fields.tid # "v7"
    \/ r = "Expired" /\ fields.exp # None /\ t # None
                     /\ (t - policy.leeway >= fields.exp \/ t = NDMax)
    \/ r = "AudienceMismatch" /\ fields.aud # None
                              /\ policy.audience \notin fields.aud

Violations(tok, terminal, policy, t) ==
    { r \in Reason :
        \/ BreaksEnvelope(tok, policy, r)
        \/ /\ terminal # "mandate_plaintext"
           /\ Authentic(tok, policy)
           /\ \/ BreaksContent(tok.half.sealed.plain, r)
              \/ /\ terminal = "clauses"
                 /\ tok.half.sealed.plain.error = None
                 /\ BreaksPolicy(tok.half.sealed.plain.fields, policy, t, r) }
=============================================================================
