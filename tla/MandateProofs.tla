----------------------------- MODULE MandateProofs -----------------------------
(***************************************************************************)
(* Lemmas about the data of Mandate and the rules of AdmissionRules, on    *)
(* which the proofs about every component rest.                            *)
(***************************************************************************)
EXTENDS AdmissionRules, TLAPS

-----------------------------------------------------------------------------
(* The types of a token's parts. *)
LEMMA TokenTypes ==
    ASSUME NEW tok \in Token
    PROVE  /\ tok.encoding \in Encoding
           /\ tok.manifest \in Shape /\ tok.mandate \in Shape
           /\ tok.half.alg_code \in AlgCode
           /\ tok.half.len \in 0 .. USizeMax
           /\ tok.half.sealed \in Sealed \cup {None}
BY DEF Token, Half

LEMMA SealedTypes ==
    ASSUME NEW s \in Sealed
    PROVE  s.size \in Nat /\ s.plain \in Plain
BY DEF Sealed

LEMMA PlainTypes ==
    ASSUME NEW p \in Plain
    PROVE  /\ p.error \in DecodeReason \cup {None}
           /\ p.fields.exp \in NumericDate \cup {None}
           /\ p.fields.tid \in {"v7", "other", "absent"}
           /\ p.fields.aud \in (SUBSET Identifier) \cup {None}
BY DEF Plain, MandateFields

LEMMA PolicyTypes ==
    ASSUME NEW p \in Policy
    PROVE  /\ p.keys \in Seq(MandateKey)
           /\ p.audience \in Identifier \cup {None}
           /\ p.leeway \in 0 .. MAX_LEEWAY
           /\ p.now \in NumericDate \cup {None}
           /\ p.max_decoded_len \in 0 .. USizeMax
BY DEF Policy

-----------------------------------------------------------------------------
(* The cheap bound on a text's length (verify.rs:215) rejects no half that *)
(* the exact bound on the decoded length (verify.rs:219) admits, in either *)
(* encoding and for every configured maximum, saturated or not.            *)
THEOREM CheapBoundIsSound ==
    ASSUME NEW n \in Nat, NEW max \in 0 .. USizeMax, NEW enc \in Encoding,
           n <= max, encoded_len(n, enc) <= USizeMax
    PROVE  encoded_len(n, enc) <= EncodedCap(max)
<1>1. max \in Nat /\ max <= USizeMax /\ 2 * n <= 2 * max
  BY ConstantsAssumption
<1>2. encoded_len(n, enc) <= 2 * n + 1
  <2>1. CASE enc = "Hex"
    BY <2>1 DEF encoded_len
  <2>2. CASE enc = "B64"
    BY <2>2 DEF encoded_len
  <2>3. QED
    BY <2>1, <2>2 DEF Encoding
<1>3. encoded_len(n, enc) \in Nat
  BY DEF encoded_len
<1>4. QED
  BY <1>1, <1>2, <1>3, ConstantsAssumption DEF EncodedCap, Least, DEFAULT_MAX_DECODED_LEN

-----------------------------------------------------------------------------
(* Trial decryption against the set of candidate keys: a key of the list   *)
(* opens the half exactly if the half is authentic.                        *)
LEMMA OpensIffSealedBy ==
    ASSUME NEW s \in Sealed, NEW k \in MandateKey, NEW alg
    PROVE  open(s, k, alg) # None <=> (s.key = k /\ s.alg = alg /\ s.alg \in CompiledAlgs)
BY SealedTypes, ConstantsAssumption DEF open

(* Saturating addition decides expiry as exact arithmetic does: it can     *)
(* only differ at the last representable date, where all is expired.       *)
LEMMA ExpiryArithmetic ==
    ASSUME NEW t \in NumericDate, NEW exp \in NumericDate, NEW leeway \in 0 .. MAX_LEEWAY
    PROVE  t >= saturating_add(exp, leeway) <=> (t - leeway >= exp \/ t = NDMax)
BY ConstantsAssumption DEF saturating_add, Least, NumericDate, MAX_LEEWAY

-----------------------------------------------------------------------------
(* Whole seconds: a clock of d ticks a second that shows at least q * d    *)
(* ticks shows at least q seconds.                                         *)
LEMMA DivisionType ==
    ASSUME NEW t \in Int, NEW d \in Nat \ {0}
    PROVE  t \div d \in Int /\ t % d \in 0 .. d - 1 /\ t = d * (t \div d) + (t % d)
OBVIOUS

LEMMA DivisionSign ==
    ASSUME NEW t \in Int, NEW d \in Nat \ {0}
    PROVE  IF t < 0 THEN t \div d < 0 ELSE t \div d \in 0 .. t
OBVIOUS

LEMMA DivisionReaches ==
    ASSUME NEW t \in Int, NEW d \in Nat \ {0}, NEW q \in Int, q * d <= t
    PROVE  q <= t \div d
<1> DEFINE r == t \div d
<1>1. r \in Int /\ t < d * r + d
  BY DivisionType
<1> HIDE DEF r
<1>2. SUFFICES ASSUME r + 1 <= q PROVE FALSE
  BY <1>1 DEF r
<1>3. (r + 1) * d <= q * d
  BY <1>1, <1>2
<1>4. QED
  BY <1>1, <1>3

LEMMA DivisionMonotone ==
    ASSUME NEW s \in Int, NEW t \in Int, NEW d \in Nat \ {0}, s <= t
    PROVE  s \div d <= t \div d
<1> DEFINE q == s \div d
<1>1. q \in Int /\ q * d <= s
  BY DivisionType
<1> HIDE DEF q
<1>2. q * d <= t
  BY <1>1
<1>3. QED
  BY <1>1, <1>2, DivisionReaches DEF q
=============================================================================
