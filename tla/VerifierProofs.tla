--------------------------- MODULE VerifierProofs ---------------------------
(***************************************************************************)
(* Theorems about the Verifier, for every set of keys, tokens, calls and   *)
(* clock values, checked by TLAPS.                                         *)
(***************************************************************************)
EXTENDS Verifier, MandateProofs, SequenceTheorems

-----------------------------------------------------------------------------
(* What a call returns is a reason, a request has the code's types, and    *)
(* the time compared with exp is a representable date even when the clock  *)
(* is set before 1970.                                                     *)
LEMMA CurrentTimeType == TypeOK => CurrentTime \in NumericDate
<1> SUFFICES ASSUME TypeOK PROVE CurrentTime \in NumericDate
  OBVIOUS
<1>1. CASE verifier.now = None
  <2>1. clock \in Int /\ clock <= NDMax
    BY VerifierAssumption DEF TypeOK
  <2>2. QED
    BY <1>1, <2>1, ConstantsAssumption DEF CurrentTime, now_unix, NumericDate, MAX_LEEWAY
<1>2. CASE verifier.now # None
  BY <1>2, PolicyTypes DEF CurrentTime, TypeOK
<1>3. QED
  BY <1>1, <1>2

LEMMA RequestTypes ==
    ASSUME NEW r \in Request
    PROVE  r.terminal \in Terminal /\ r.token \in Token
BY DEF Request

(* A call past its entry has a request: the part of Knows that the types   *)
(* of the later stages need.                                               *)
Entered == \A c \in Call : pc[c] # "idle" => request[c] \in Request

(* A half in the trial stage decodes. *)
Decodes == \A c \in Call :
    pc[c] = "trial" => half(c).sealed \in Sealed

(* A call past the trial decryption holds a plaintext. *)
Holds == \A c \in Call : pc[c] \in Opening => plain[c] \in Plain

TypeInv == TypeOK /\ Entered /\ Decodes /\ Holds

LEMMA TypeInit == Init => TypeInv
BY ConstantsAssumption
   DEF Init, TypeInv, TypeOK, Entered, Decodes, Holds, NewVerifier, Policy, Stage,
       Opening, Checking, Enforcing, DEFAULT_MAX_DECODED_LEN, MAX_LEEWAY

LEMMA TypeBuild == TypeInv /\ Build => TypeInv'
<1> SUFFICES ASSUME TypeInv, Build PROVE TypeInv'
  OBVIOUS
<1>1. ASSUME NEW p \in Policy, Configure(p) PROVE TypeInv'
  BY <1>1 DEF Configure, locals, TypeInv, TypeOK, Entered, Decodes, Holds, token, half
<1>2. verifier \in Policy
  BY DEF TypeInv, TypeOK
<1>3. ASSUME NEW k \in MandateKey, AddKey(k) PROVE TypeInv'
  <2>1. [verifier EXCEPT !.keys = Append(@, k)] \in Policy
    BY <1>2 DEF Policy
  <2>2. QED
    BY <1>1, <1>3, <2>1 DEF AddKey
<1>4. ASSUME NEW id \in Identifier, SetAudience(id) PROVE TypeInv'
  <2>1. [verifier EXCEPT !.audience = id] \in Policy
    BY <1>2 DEF Policy
  <2>2. QED
    BY <1>1, <1>4, <2>1 DEF SetAudience
<1>5. ASSUME NEW d \in Durations, SetLeeway(d) PROVE TypeInv'
  <2>1. Least(d, MAX_LEEWAY) \in 0 .. MAX_LEEWAY
    BY VerifierAssumption DEF Least, MAX_LEEWAY
  <2>2. [verifier EXCEPT !.leeway = Least(d, MAX_LEEWAY)] \in Policy
    BY <1>2, <2>1 DEF Policy
  <2>3. QED
    BY <1>1, <1>5, <2>2 DEF SetLeeway
<1>6. ASSUME NEW t \in Pins, PinNow(t) PROVE TypeInv'
  <2>1. [verifier EXCEPT !.now = t] \in Policy
    BY <1>2, VerifierAssumption DEF Policy
  <2>2. QED
    BY <1>1, <1>6, <2>1 DEF PinNow
<1>7. ASSUME NEW n \in Caps, SetMaxDecodedLen(n) PROVE TypeInv'
  <2>1. [verifier EXCEPT !.max_decoded_len = n] \in Policy
    BY <1>2, VerifierAssumption DEF Policy
  <2>2. QED
    BY <1>1, <1>7, <2>1 DEF SetMaxDecodedLen
<1>8. QED
  BY <1>3, <1>4, <1>5, <1>6, <1>7 DEF Build

LEMMA TypeStart ==
    ASSUME TypeInv, NEW c \in Call, NEW terminal \in Terminal, NEW tok \in Presented,
           Start(c, terminal, tok)
    PROVE  TypeInv'
<1>1. [terminal |-> terminal, token |-> tok] \in Request
  BY VerifierAssumption DEF Request
<1>2. QED
  BY <1>1 DEF Start, Goto, TypeInv, TypeOK, Entered, Decodes, Holds, token, half, Stage,
              Opening, Checking, Enforcing

(* Returning a verdict, or moving on to a stage that reads no more locals, *)
(* keeps the types.                                                        *)
LEMMA TypeReturn ==
    ASSUME TypeInv, NEW c \in Call, NEW r \in Reason \cup {"Ok"}, Return(c, r),
           pc[c] # "idle", verifier' = verifier, clock' = clock, request' = request,
           next' = next, plain' \in [Call -> Plain \cup {None}],
           now' \in [Call -> NumericDate \cup {None}],
           \A d \in Call \ {c} : plain'[d] = plain[d]
    PROVE  TypeInv'
BY DEF Return, TypeInv, TypeOK, Entered, Decodes, Holds, token, half, Stage,
       Opening, Checking, Enforcing

LEMMA TypeGoto ==
    ASSUME TypeInv, NEW c \in Call, NEW l \in Stage \ {"idle"}, Goto(c, l),
           l = "trial" => half(c).sealed \in Sealed,
           l \in Opening => plain'[c] \in Plain,
           pc[c] # "idle", verifier' = verifier, clock' = clock, request' = request,
           next' \in [Call -> Nat], plain' \in [Call -> Plain \cup {None}],
           now' \in [Call -> NumericDate \cup {None}],
           \A d \in Call \ {c} : plain'[d] = plain[d]
    PROVE  TypeInv'
BY DEF Goto, TypeInv, TypeOK, Entered, Decodes, Holds, token, half,
       Opening, Checking, Enforcing

LEMMA TypeStep ==
    ASSUME TypeInv, NEW c \in Call, Step(c)
    PROVE  TypeInv'
<1> USE DEF TypeInv, TypeOK
<1>0. /\ pc[c] # "idle" => token(c) \in Token
      /\ pc[c] \in Opening => plain[c] \in Plain
  BY RequestTypes DEF Entered, Holds, token
<1>1. CASE Parse(c)
  <2>1. CASE Goto(c, "measure")
    BY <1>1, <2>1, TypeGoto DEF Parse, Stage, Opening, Checking, Enforcing
  <2>2. CASE \E r \in Reason : Return(c, r)
    BY <1>1, <2>2, TypeReturn DEF Parse
  <2>3. QED
    BY <1>1, <2>1, <2>2 DEF Parse, Reason, DecodeReason
<1>2. CASE Measure(c)
  <2>1. CASE TooLong(c) \/ half(c).sealed = None \/ WrongSize(half(c).sealed)
    BY <1>2, <2>1, TypeReturn DEF Measure, Reason, DecodeReason
  <2>2. CASE ~(TooLong(c) \/ half(c).sealed = None \/ WrongSize(half(c).sealed))
    <3>1. half(c).sealed \in Sealed
      BY <1>0, <1>2, <2>2, TokenTypes DEF half, Measure
    <3>2. QED
      BY <1>2, <2>2, <3>1, TypeGoto DEF Measure, Stage, Opening, Checking, Enforcing
  <2>3. QED
    BY <2>1, <2>2
<1>3. CASE Trial(c)
  <2>1. CASE Return(c, "AuthFailed") /\ UNCHANGED <<next, plain>>
    BY <1>3, <2>1, TypeReturn DEF Trial, Reason
  <2>2. CASE next' = [next EXCEPT ![c] = @ + 1] /\ UNCHANGED <<pc, plain, result>>
    BY <1>3, <2>2 DEF Trial, Entered, Decodes, Holds, token, half
  <2>3. CASE /\ Opened(c) # None /\ plain' = [plain EXCEPT ![c] = Opened(c)]
             /\ AfterAuthenticate(c) /\ UNCHANGED next
    <3>1. Opened(c) \in Plain
      <4>1. half(c).sealed \in Sealed
        BY <1>3 DEF Trial, Decodes
      <4>2. QED
        BY <2>3, <4>1, SealedTypes DEF Opened, open
    <3>2. plain' \in [Call -> Plain \cup {None}] /\ plain'[c] \in Plain
          /\ \A d \in Call \ {c} : plain'[d] = plain[d]
      BY <2>3, <3>1
    <3>3. CASE Return(c, "Ok")
      BY <1>3, <2>3, <3>2, <3>3, TypeReturn DEF Trial
    <3>4. CASE Goto(c, "decode")
      BY <1>3, <2>3, <3>2, <3>4, TypeGoto DEF Trial, Stage
    <3>5. QED
      BY <2>3, <3>3, <3>4 DEF AfterAuthenticate
  <2>4. QED
    BY <1>3, <2>1, <2>2, <2>3 DEF Trial
<1>4. CASE Decode(c)
  <2>1. plain[c] \in Plain
    BY <1>0, <1>4 DEF Decode, Opening
  <2>2. CASE plain[c].error # None
    BY <1>4, <2>1, <2>2, PlainTypes, TypeReturn DEF Decode, Reason
  <2>3. CASE plain[c].error = None
    <3>1. PICK l \in {"tid", "presence"} : Goto(c, l)
      BY <1>4, <2>3 DEF Decode
    <3>2. QED
      BY <1>4, <2>1, <3>1, TypeGoto DEF Decode, Stage, Goto
  <2>4. QED
    BY <2>2, <2>3
<1>5. CASE Presence(c)
  <2>1. UncheckedVerdict(c) \in Reason \cup {"Ok"}
    BY DEF UncheckedVerdict, Reason, PolicyReason
  <2>2. QED
    BY <1>5, <2>1, TypeReturn DEF Presence
<1>6. CASE CheckTid(c)
  <2>1. CASE fields(c).tid # "v7"
    BY <1>6, <2>1, TypeReturn DEF CheckTid, Reason, PolicyReason
  <2>2. CASE fields(c).tid = "v7"
    <3>1. plain[c] \in Plain
      BY <1>0, <1>6 DEF CheckTid, Opening, Checking, Enforcing
    <3>2. QED
      BY <1>6, <2>2, <3>1, TypeGoto DEF CheckTid, Stage
  <2>3. QED
    BY <2>1, <2>2
<1>7. CASE CheckExp(c)
  <2>1. plain[c] \in Plain
    BY <1>0, <1>7 DEF CheckExp, Opening, Checking, Enforcing
  <2>2. CurrentTime \in NumericDate
    BY CurrentTimeType
  <2>3. now' \in [Call -> NumericDate \cup {None}]
    BY <1>7, <2>2 DEF CheckExp
  <2>4. CASE Goto(c, "aud")
    BY <1>7, <2>1, <2>3, <2>4, TypeGoto DEF CheckExp, Stage
  <2>5. CASE \E r \in Reason : Return(c, r)
    BY <1>7, <2>3, <2>5, TypeReturn DEF CheckExp
  <2>6. QED
    BY <1>7, <2>4, <2>5 DEF CheckExp, Reason, PolicyReason
<1>8. CASE CheckAud(c)
  <2>1. AudienceVerdict(c) \in Reason \cup {"Ok"}
    BY DEF AudienceVerdict, Reason, PolicyReason
  <2>2. QED
    BY <1>8, <2>1, TypeReturn DEF CheckAud
<1>9. QED
  BY <1>1, <1>2, <1>3, <1>4, <1>5, <1>6, <1>7, <1>8 DEF Step

LEMMA TypeInductive == TypeInv /\ [Next]_vars => TypeInv'
<1> SUFFICES ASSUME TypeInv, [Next]_vars PROVE TypeInv'
  OBVIOUS
<1>1. CASE Build
  BY <1>1, TypeBuild
<1>2. ASSUME NEW t \in ClockValue, Tick(t) PROVE TypeInv'
  BY <1>2 DEF Tick, locals, TypeInv, TypeOK, Entered, Decodes, Holds, token, half
<1>3. ASSUME NEW c \in Call, NEW terminal \in Terminal, NEW tok \in Presented,
             Start(c, terminal, tok)
      PROVE  TypeInv'
  BY <1>3, TypeStart
<1>4. ASSUME NEW c \in Call, Step(c) PROVE TypeInv'
  BY <1>4, TypeStep
<1>5. CASE UNCHANGED vars
  BY <1>5 DEF vars, locals, TypeInv, TypeOK, Entered, Decodes, Holds, token, half
<1>6. QED
  BY <1>1, <1>2, <1>3, <1>4, <1>5 DEF Next

(* Type correctness: the Verifier stays well formed whatever the builder   *)
(* calls are given, and the values of every call keep the code's types.    *)
THEOREM TypeCorrect == Spec => [](TypeInv)
BY TypeInit, TypeInductive, PTL DEF Spec

(* The type invariant that TLC checks, of which TypeInv is the inductive   *)
(* strengthening.                                                          *)
THEOREM TypesHold == Spec => []TypeOK
<1>1. TypeInv => TypeOK
  BY DEF TypeInv
<1>2. QED
  BY <1>1, TypeCorrect, PTL

-----------------------------------------------------------------------------
(* What a call knows depends on the Verifier and on its own locals alone:  *)
(* the steps of other calls and of the clock leave it standing.            *)
LEMMA KnowsFrame ==
    ASSUME NEW d \in Call, Knows(d), verifier' = verifier, pc'[d] = pc[d],
           request'[d] = request[d], next'[d] = next[d], plain'[d] = plain[d],
           now'[d] = now[d], result'[d] = result[d]
    PROVE  Knows(d)'
BY DEF Knows, Exact, HoldsOpened, Unopened, token, half, fields

(* A finished call whose verdict is exact knows all it needs.              *)
LEMMA KnowsDone ==
    ASSUME TypeInv, NEW c \in Call, Knows(c), pc[c] # "idle", pc'[c] = "done",
           verifier' = verifier, request' = request,
           next'[c] > 0 =>
               half(c).sealed # None /\ Fits(half(c).sealed.size, verifier),
           next'[c] <= Len(verifier.keys) + 1,
           Exact(c)', result'[c] \in Revealing => HoldsOpened(c)'
    PROVE  Knows(c)'
BY DEF Knows, Exact, HoldsOpened, Unopened, token, half, fields, Parsed, Sized,
       Opening, Checking, Enforcing

LEMMA KnowsBuild ==
    ASSUME TypeInv, StageInv, Build
    PROVE  StageInv'
<1>1. /\ \A c \in Call : pc[c] = "idle"
      /\ UNCHANGED <<pc, locals>>
  BY DEF Build, AddKey, SetAudience, SetLeeway, PinNow, SetMaxDecodedLen, Configure
<1>2. verifier'.keys \in Seq(MandateKey)
  BY TypeBuild, PolicyTypes DEF TypeInv, TypeOK
<1>3. QED
  BY <1>1, <1>2 DEF StageInv, Knows, locals, Parsed, Sized, Opening, Checking, Enforcing,
                    TypeInv, TypeOK

LEMMA KnowsStart ==
    ASSUME TypeInv, StageInv, NEW c \in Call, NEW terminal \in Terminal,
           NEW tok \in Presented, Start(c, terminal, tok)
    PROVE  StageInv'
<1>1. [terminal |-> terminal, token |-> tok] \in Request
  BY VerifierAssumption DEF Request
<1>2. Knows(c)'
  BY <1>1 DEF Start, Goto, StageInv, Knows, Parsed, Sized, Opening, Checking, Enforcing,
              TypeInv, TypeOK
<1>3. ASSUME NEW d \in Call \ {c} PROVE Knows(d)'
  BY KnowsFrame DEF StageInv, Start, Goto, TypeInv, TypeOK
<1>4. QED
  BY <1>2, <1>3 DEF StageInv

-----------------------------------------------------------------------------
LEMMA ParseKnows ==
    ASSUME TypeInv, NEW c \in Call, Knows(c), Parse(c)
    PROVE  Knows(c)'
<1>1. /\ verifier' = verifier /\ request' = request /\ next' = next
      /\ pc[c] = "parse" /\ result[c] = None /\ now' = now /\ plain' = plain
  BY DEF Parse, Knows
<1>2. CASE Goto(c, "measure")
  BY <1>1, <1>2 DEF Parse, Goto, Knows, TypeInv, TypeOK, Parsed, Sized, Opening,
                    Checking, Enforcing, token, half, Return
<1>3. ASSUME NEW r \in {"Malformed", "EmptyMandate", "Unsupported"}, Return(c, r)
      PROVE  Knows(c)'
  <2>1. BreaksEnvelope(token(c), verifier, r)
    BY <1>1, <1>3 DEF Parse, BreaksEnvelope, half, Return, Goto, TypeInv, TypeOK
  <2>2. Exact(c)'
    BY <1>1, <1>3, <2>1 DEF Exact, Violations, Return, TypeInv, TypeOK, token, Reason,
                            DecodeReason
  <2>3. result'[c] \notin Revealing
    BY <1>3 DEF Return, TypeInv, TypeOK, Revealing, PolicyReason, DecodeReason
  <2>4. QED
    BY <1>1, <1>3, <2>2, <2>3, KnowsDone DEF Return, TypeInv, TypeOK, Knows
<1>4. QED
  BY <1>2, <1>3 DEF Parse

(* Too long a text stands for too many bytes: the cheap bound and the      *)
(* exact one together reject exactly the sizes that do not fit.            *)
LEMMA SizeGuards ==
    ASSUME TypeInv, NEW c \in Call, token(c) \in Token, half(c).sealed # None
    PROVE  TooLong(c) \/ WrongSize(half(c).sealed)
               <=> ~Fits(half(c).sealed.size, verifier)
<1> DEFINE n == half(c).sealed.size
<1>1. /\ n \in Nat
      /\ token(c).encoding \in Encoding
      /\ half(c).len = encoded_len(n, token(c).encoding)
      /\ half(c).len <= USizeMax
  <2>1. half(c).sealed \in Sealed
    BY TokenTypes DEF half
  <2>2. half(c).len = encoded_len(n, token(c).encoding)
    BY DEF Token, WellSized, half
  <2>3. half(c).len \in 0 .. USizeMax
    BY TokenTypes DEF half
  <2>4. QED
    BY <2>1, <2>2, <2>3, SealedTypes, TokenTypes, ConstantsAssumption
<1>2. verifier.max_decoded_len \in 0 .. USizeMax
  BY PolicyTypes DEF TypeInv, TypeOK
<1>3. TooLong(c) => ~(n <= verifier.max_decoded_len)
  <2> SUFFICES ASSUME n <= verifier.max_decoded_len PROVE ~TooLong(c)
    OBVIOUS
  <2>1. half(c).len <= EncodedCap(verifier.max_decoded_len)
    BY <1>1, <1>2, CheapBoundIsSound
  <2>2. EncodedCap(verifier.max_decoded_len) \in Int /\ half(c).len \in Int
    BY <1>1, <1>2, ConstantsAssumption DEF EncodedCap, Least, encoded_len
  <2>3. QED
    BY <2>1, <2>2 DEF TooLong
<1>4. Fits(n, verifier) <=> MIN_HALF_BYTES <= n /\ n <= verifier.max_decoded_len
  BY <1>1, <1>2, ConstantsAssumption DEF Fits, MIN_HALF_BYTES
<1>5. WrongSize(half(c).sealed) <=> ~(MIN_HALF_BYTES <= n /\ n <= verifier.max_decoded_len)
  BY <1>1, <1>2, ConstantsAssumption DEF WrongSize, MIN_HALF_BYTES
<1>6. QED
  BY <1>3, <1>4, <1>5

LEMMA MeasureKnows ==
    ASSUME TypeInv, NEW c \in Call, Knows(c), Measure(c)
    PROVE  Knows(c)'
<1>1. /\ verifier' = verifier /\ request' = request /\ now' = now /\ plain' = plain
      /\ pc[c] = "measure" /\ result[c] = None /\ request[c] \in Request
      /\ token(c) \in Token
  BY RequestTypes DEF Measure, Knows, token
<1>2. CASE TooLong(c) \/ half(c).sealed = None \/ WrongSize(half(c).sealed)
  <2>1. Return(c, "Malformed") /\ next' = next
    BY <1>2 DEF Measure
  <2>2. BreaksEnvelope(token(c), verifier, "Malformed")
    BY <1>1, <1>2, SizeGuards DEF BreaksEnvelope, half
  <2>3. Exact(c)'
    BY <1>1, <2>1, <2>2 DEF Exact, Violations, Return, TypeInv, TypeOK, token, Reason,
                            DecodeReason
  <2>4. result'[c] \notin Revealing
    BY <2>1 DEF Return, TypeInv, TypeOK, Revealing, PolicyReason, DecodeReason
  <2>5. QED
    BY <1>1, <2>1, <2>3, <2>4, KnowsDone DEF Return, TypeInv, TypeOK, Knows
<1>3. CASE ~(TooLong(c) \/ half(c).sealed = None \/ WrongSize(half(c).sealed))
  <2>1. Goto(c, "trial") /\ next' = [next EXCEPT ![c] = 1]
    BY <1>3 DEF Measure
  <2>2. half(c).sealed # None /\ Fits(half(c).sealed.size, verifier)
    BY <1>1, <1>3, SizeGuards
  <2>3. Len(verifier.keys) \in Nat
    BY PolicyTypes DEF TypeInv, TypeOK
  <2>4. QED
    BY <1>1, <2>1, <2>2, <2>3 DEF Goto, Knows, TypeInv, TypeOK, Parsed, Sized, Opening,
                                  Checking, Enforcing, token, half, Unopened
<1>4. QED
  BY <1>2, <1>3

LEMMA TrialKnows ==
    ASSUME TypeInv, NEW c \in Call, Knows(c), Trial(c)
    PROVE  Knows(c)'
<1> DEFINE s == half(c).sealed
           alg == from_code(half(c).alg_code)
<1>1. /\ verifier' = verifier /\ request' = request /\ now' = now
      /\ pc[c] = "trial" /\ result[c] = None /\ request[c] \in Request
      /\ next[c] \in Nat /\ next[c] > 0 /\ next[c] <= Len(verifier.keys) + 1
      /\ s # None /\ Fits(s.size, verifier)
      /\ Parses(token(c)) /\ token(c).mandate = "wellformed" /\ alg # None
      /\ \A i \in 1 .. next[c] - 1 : Unopened(c, verifier.keys[i])
  BY DEF Trial, Knows, Parsed, Sized, TypeInv, TypeOK
<1>2. s \in Sealed /\ token(c) \in Token
  BY <1>1, RequestTypes, TokenTypes DEF half, token
<1>3. /\ verifier.keys \in Seq(MandateKey) /\ Len(verifier.keys) \in Nat
      /\ DOMAIN verifier.keys = 1 .. Len(verifier.keys)
  BY PolicyTypes DEF TypeInv, TypeOK
<1>4. CASE KeysExhausted(c) /\ Return(c, "AuthFailed") /\ UNCHANGED <<next, plain>>
  <2>1. ~Authentic(token(c), verifier)
    <3>1. \A i \in DOMAIN verifier.keys : Unopened(c, verifier.keys[i])
      BY <1>1, <1>3, <1>4 DEF KeysExhausted
    <3>2. QED
      BY <3>1 DEF Authentic, CandidateKeys, Unopened, half
  <2>2. Exact(c)'
    BY <1>1, <1>4, <2>1 DEF Exact, Violations, BreaksEnvelope, Return, TypeInv, TypeOK,
                            token, Reason
  <2>3. result'[c] \notin Revealing
    BY <1>4 DEF Return, TypeInv, TypeOK, Revealing, PolicyReason, DecodeReason
  <2>4. QED
    BY <1>1, <1>4, <2>2, <2>3, KnowsDone DEF Return, TypeInv, TypeOK
<1>5. CASE /\ next[c] \in DOMAIN verifier.keys /\ Opened(c) = None
           /\ next' = [next EXCEPT ![c] = @ + 1]
           /\ UNCHANGED <<pc, plain, result>>
  <2>1. Unopened(c, verifier.keys[next[c]])
    BY <1>2, <1>3, <1>5, OpensIffSealedBy DEF Opened, Unopened
  <2>2. \A i \in 1 .. next'[c] - 1 : Unopened(c, verifier.keys[i])
    BY <1>1, <1>5, <2>1 DEF TypeInv, TypeOK
  <2>3. next'[c] <= Len(verifier.keys) + 1 /\ next'[c] > 0
    BY <1>1, <1>3, <1>5 DEF TypeInv, TypeOK
  <2>4. QED
    BY <1>1, <1>5, <2>2, <2>3 DEF Knows, Parsed, Sized, Opening, Checking, Enforcing,
                                  token, half, Unopened
<1>6. CASE /\ next[c] \in DOMAIN verifier.keys /\ Opened(c) # None
           /\ plain' = [plain EXCEPT ![c] = Opened(c)]
           /\ AfterAuthenticate(c)
           /\ UNCHANGED next
  <2>1. s.key = verifier.keys[next[c]] /\ s.alg = alg /\ s.alg \in CompiledAlgs
    BY <1>2, <1>3, <1>6, OpensIffSealedBy DEF Opened
  <2>2. Authentic(token(c), verifier)
    BY <1>1, <1>6, <2>1 DEF Authentic, CandidateKeys, half
  <2>3. plain'[c] = s.plain
    BY <1>6, <2>1 DEF Opened, open, TypeInv, TypeOK
  <2>4. HoldsOpened(c)'
    BY <1>1, <2>2, <2>3 DEF HoldsOpened, token, half
  <2>5. CASE request[c].terminal = "mandate_plaintext"
    <3>1. Return(c, "Ok")
      BY <1>6, <2>5 DEF AfterAuthenticate
    <3>2. \A r : ~BreaksEnvelope(token(c), verifier, r)
      BY <1>1, <2>2 DEF BreaksEnvelope, half
    <3>3. Exact(c)'
      BY <1>1, <2>5, <3>1, <3>2 DEF Exact, Violations, Return, TypeInv, TypeOK, token
    <3>4. QED
      BY <1>1, <1>6, <2>4, <3>1, <3>3, KnowsDone DEF Return, TypeInv, TypeOK
  <2>6. CASE request[c].terminal # "mandate_plaintext"
    <3>1. Goto(c, "decode")
      BY <1>6, <2>6 DEF AfterAuthenticate
    <3>2. QED
      BY <1>1, <1>6, <2>4, <2>6, <3>1
         DEF Goto, Knows, TypeInv, TypeOK, Parsed, Sized, Opening, Checking, Enforcing,
             token, half
  <2>7. QED
    BY <2>5, <2>6
<1>7. QED
  BY <1>4, <1>5, <1>6 DEF Trial

-----------------------------------------------------------------------------
(* The stages after the decryption.  An authentic half breaks no rule of   *)
(* the envelope, so only the content and the policy can speak.             *)
LEMMA OpenedBreaksNoEnvelope ==
    ASSUME NEW c \in Call, Knows(c), pc[c] \in Opening
    PROVE  \A r : ~BreaksEnvelope(token(c), verifier, r)
BY DEF Knows, Sized, Parsed, HoldsOpened, BreaksEnvelope, half

(* A return from a stage past the decryption needs only its verdict.       *)
LEMMA OpenedReturns ==
    ASSUME TypeInv, NEW c \in Call, Knows(c), pc[c] \in Opening,
           verifier' = verifier, request' = request, next' = next, plain' = plain,
           NEW r \in Reason \cup {"Ok"}, Return(c, r),
           IF r = "Ok" THEN Violations(token(c), request[c].terminal, verifier, now'[c]) = {}
           ELSE r \in Violations(token(c), request[c].terminal, verifier, now'[c])
    PROVE  Knows(c)'
<1>1. pc'[c] = "done" /\ result'[c] = r
  BY DEF Return, TypeInv, TypeOK
<1>2. Exact(c)'
  BY <1>1 DEF Exact, token
<1>3. HoldsOpened(c)'
  BY DEF Knows, HoldsOpened, token, half
<1>4. /\ next[c] > 0 => half(c).sealed # None /\ Fits(half(c).sealed.size, verifier)
      /\ next[c] <= Len(verifier.keys) + 1 /\ pc[c] # "idle"
  BY DEF Knows, Opening, Checking, Enforcing
<1>5. QED
  BY <1>1, <1>2, <1>3, <1>4, KnowsDone

LEMMA DecodeKnows ==
    ASSUME TypeInv, NEW c \in Call, Knows(c), Decode(c)
    PROVE  Knows(c)'
<1>1. /\ verifier' = verifier /\ request' = request /\ next' = next /\ plain' = plain
      /\ now' = now /\ pc[c] = "decode" /\ pc[c] \in Opening
      /\ request[c] \in Request /\ request[c].terminal # "mandate_plaintext"
      /\ HoldsOpened(c)
  BY DEF Decode, Opening, Knows
<1>2. plain[c] \in Plain
  BY <1>1 DEF TypeInv, Holds
<1>3. CASE plain[c].error # None
  <2>1. Return(c, plain[c].error) /\ plain[c].error \in DecodeReason
    BY <1>2, <1>3, PlainTypes DEF Decode
  <2>2. plain[c].error \in Violations(token(c), request[c].terminal, verifier, now'[c])
    BY <1>1, <2>1 DEF Violations, BreaksContent, HoldsOpened, Reason, half
  <2>3. QED
    BY <1>1, <2>1, <2>2, OpenedReturns DEF Reason, DecodeReason
<1>4. CASE plain[c].error = None
  <2>1. Goto(c, IF request[c].terminal = "clauses" THEN "tid" ELSE "presence")
    BY <1>4 DEF Decode
  <2>2. QED
    BY <1>1, <1>4, <2>1 DEF Goto, Knows, TypeInv, TypeOK, Parsed, Sized, Opening,
                            Checking, Enforcing, token, half, HoldsOpened
<1>5. QED
  BY <1>3, <1>4

(* What the stages that check fields start from: the rules left to break.  *)
LEMMA CheckingStarts ==
    ASSUME TypeInv, NEW c \in Call, Knows(c), pc[c] \in Checking
    PROVE  /\ pc[c] \in Opening /\ plain[c] \in Plain
           /\ (pc[c] \in Enforcing <=> request[c].terminal = "clauses")
           /\ \A t, r : r \in Violations(token(c), request[c].terminal, verifier, t) <=>
                 /\ r \in Reason
                 /\ \/ BreaksContent(plain[c], r)
                    \/ pc[c] \in Enforcing /\ BreaksPolicy(fields(c), verifier, t, r)
<1>1. /\ pc[c] \in Opening /\ request[c].terminal # "mandate_plaintext"
      /\ HoldsOpened(c) /\ plain[c].error = None
      /\ (pc[c] \in Enforcing <=> request[c].terminal = "clauses")
  BY DEF Knows, Opening
<1>2. plain[c] \in Plain
  BY <1>1 DEF TypeInv, Holds
<1>3. QED
  BY <1>1, <1>2, OpenedBreaksNoEnvelope DEF Violations, HoldsOpened, half, fields

LEMMA PresenceKnows ==
    ASSUME TypeInv, NEW c \in Call, Knows(c), Presence(c)
    PROVE  Knows(c)'
<1>1. /\ verifier' = verifier /\ request' = request /\ next' = next /\ plain' = plain
      /\ pc[c] \in Checking /\ pc[c] \notin Enforcing /\ plain[c].error = None
      /\ Return(c, UncheckedVerdict(c))
  BY DEF Presence, Checking, Enforcing, Knows
<1>2. /\ IF UncheckedVerdict(c) = "Ok" THEN \A r \in Reason : ~BreaksContent(plain[c], r)
         ELSE BreaksContent(plain[c], UncheckedVerdict(c))
      /\ UncheckedVerdict(c) \in {"Ok", "BadTid", "MissingClause"}
  BY <1>1, ConstantsAssumption DEF UncheckedVerdict, BreaksContent, fields
<1>3. QED
  BY <1>1, <1>2, CheckingStarts, OpenedReturns DEF Reason, PolicyReason

LEMMA CheckTidKnows ==
    ASSUME TypeInv, NEW c \in Call, Knows(c), CheckTid(c)
    PROVE  Knows(c)'
<1>1. /\ verifier' = verifier /\ request' = request /\ next' = next /\ plain' = plain
      /\ now' = now /\ pc[c] = "tid" /\ pc[c] \in Checking /\ pc[c] \in Enforcing
  BY DEF CheckTid, Checking, Enforcing
<1>2. CASE fields(c).tid # "v7"
  <2>1. Return(c, "BadTid") /\ BreaksPolicy(fields(c), verifier, now'[c], "BadTid")
    BY <1>2 DEF CheckTid, BreaksPolicy
  <2>2. QED
    BY <1>1, <2>1, CheckingStarts, OpenedReturns DEF Reason, PolicyReason
<1>3. CASE fields(c).tid = "v7"
  <2>1. Goto(c, "exp")
    BY <1>3 DEF CheckTid
  <2>2. QED
    BY <1>1, <1>3, <2>1 DEF Goto, Knows, TypeInv, TypeOK, Parsed, Sized, Opening,
                            Checking, Enforcing, token, half, fields, HoldsOpened
<1>4. QED
  BY <1>2, <1>3

LEMMA CheckExpKnows ==
    ASSUME TypeInv, NEW c \in Call, Knows(c), CheckExp(c)
    PROVE  Knows(c)'
<1>1. /\ verifier' = verifier /\ request' = request /\ next' = next /\ plain' = plain
      /\ pc[c] = "exp" /\ pc[c] \in Checking /\ pc[c] \in Enforcing
      /\ plain[c].error = None /\ plain[c] \in Plain
  BY CheckingStarts DEF CheckExp, Checking, Enforcing, Knows
<1>2. CurrentTime \in NumericDate /\ verifier.leeway \in 0 .. MAX_LEEWAY
  BY CurrentTimeType, PolicyTypes DEF TypeInv, TypeOK
<1>3. CASE fields(c).exp = None
  <2>1. Return(c, "MissingClause") /\ BreaksContent(plain[c], "MissingClause")
    BY <1>1, <1>3 DEF CheckExp, BreaksContent, fields
  <2>2. QED
    BY <1>1, <2>1, CheckingStarts, OpenedReturns DEF Reason, PolicyReason
<1>4. CASE fields(c).exp # None
  <2>1. fields(c).exp \in NumericDate /\ now'[c] = CurrentTime /\ CurrentTime # None
    BY <1>1, <1>2, <1>4, PlainTypes, ConstantsAssumption DEF CheckExp, fields, TypeInv, TypeOK
  <2>2. CASE CurrentTime >= saturating_add(fields(c).exp, verifier.leeway)
    <3>1. BreaksPolicy(fields(c), verifier, now'[c], "Expired")
      BY <1>2, <1>4, <2>1, <2>2, ExpiryArithmetic DEF BreaksPolicy
    <3>2. Return(c, "Expired")
      BY <1>4, <2>2 DEF CheckExp
    <3>3. QED
      BY <1>1, <3>1, <3>2, CheckingStarts, OpenedReturns DEF Reason, PolicyReason
  <2>3. CASE ~(CurrentTime >= saturating_add(fields(c).exp, verifier.leeway))
    <3>1. Goto(c, "aud")
      BY <1>4, <2>3 DEF CheckExp
    <3>2. CurrentTime < saturating_add(fields(c).exp, verifier.leeway)
      BY <1>2, <2>1, <2>3, ConstantsAssumption
         DEF saturating_add, Least, NumericDate, MAX_LEEWAY
    <3>3. QED
      BY <1>1, <1>4, <2>1, <3>1, <3>2
         DEF Goto, Knows, TypeInv, TypeOK, Parsed, Sized, Opening, Checking, Enforcing,
             token, half, fields, HoldsOpened
  <2>4. QED
    BY <2>2, <2>3
<1>5. QED
  BY <1>3, <1>4

(* What the audience check will say is the verdict at any time t before    *)
(* the expiry, whether or not the check has been reached.                  *)
LEMMA AudienceSettles ==
    ASSUME TypeInv, NEW c \in Call, Knows(c), pc[c] \in {"exp", "aud"},
           NEW t \in NumericDate, fields(c).exp # None,
           ~(t >= saturating_add(fields(c).exp, verifier.leeway))
    PROVE  LET broken == Violations(token(c), request[c].terminal, verifier, t)
           IN  IF AudienceVerdict(c) = "Ok" THEN broken = {}
               ELSE AudienceVerdict(c) \in broken
<1>1. /\ pc[c] \in Checking /\ pc[c] \in Enforcing
      /\ plain[c].error = None /\ fields(c).tid = "v7" /\ plain[c] \in Plain
  BY CheckingStarts DEF Checking, Enforcing, Knows
<1>2. fields(c).exp \in NumericDate /\ verifier.leeway \in 0 .. MAX_LEEWAY
  BY <1>1, PlainTypes, PolicyTypes DEF TypeInv, TypeOK, fields
<1>3. ~(t - verifier.leeway >= fields(c).exp \/ t = NDMax)
  BY <1>2, ExpiryArithmetic
<1>4. AudienceRefused(fields(c).aud) <=>
          fields(c).aud # None /\ verifier.audience \notin fields(c).aud
  <2>1. /\ fields(c).aud \in (SUBSET Identifier) \cup {None}
        /\ None \notin Identifier
    BY <1>1, PlainTypes, ConstantsAssumption DEF fields
  <2>2. CASE fields(c).aud = None
    BY <2>2 DEF AudienceRefused
  <2>3. CASE fields(c).aud # None
    <3>1. None \notin fields(c).aud
      BY <2>1, <2>3
    <3>2. QED
      BY <2>3, <3>1 DEF AudienceRefused, aud_contains
  <2>4. QED
    BY <2>2, <2>3
<1>5. \A r \in Reason : ~BreaksContent(plain[c], r)
  BY <1>1, ConstantsAssumption DEF BreaksContent, fields
<1>6. CASE AudienceRefused(fields(c).aud)
  <2>1. /\ AudienceVerdict(c) = "AudienceMismatch"
        /\ BreaksPolicy(fields(c), verifier, t, "AudienceMismatch")
    BY <1>4, <1>6 DEF AudienceVerdict, BreaksPolicy
  <2>2. QED
    BY <1>1, <2>1, CheckingStarts DEF Reason, PolicyReason
<1>7. CASE ~AudienceRefused(fields(c).aud)
  <2>1. AudienceVerdict(c) = "Ok"
    BY <1>7 DEF AudienceVerdict
  <2>2. \A r \in Reason : ~BreaksPolicy(fields(c), verifier, t, r)
    BY <1>1, <1>3, <1>4, <1>7 DEF BreaksPolicy
  <2>3. QED
    BY <1>1, <1>5, <2>1, <2>2, CheckingStarts
<1>8. QED
  BY <1>6, <1>7

LEMMA CheckAudKnows ==
    ASSUME TypeInv, NEW c \in Call, Knows(c), CheckAud(c)
    PROVE  Knows(c)'
<1>1. /\ verifier' = verifier /\ request' = request /\ next' = next /\ plain' = plain
      /\ now' = now /\ pc[c] = "aud" /\ pc[c] \in Checking /\ plain[c] \in Plain
      /\ fields(c).exp # None /\ now[c] # None
      /\ now[c] < saturating_add(fields(c).exp, verifier.leeway)
      /\ Return(c, AudienceVerdict(c))
  BY CheckingStarts DEF CheckAud, Checking, Enforcing, Knows
<1>2. /\ now[c] \in NumericDate /\ fields(c).exp \in NumericDate
      /\ verifier.leeway \in 0 .. MAX_LEEWAY
  BY <1>1, PlainTypes, PolicyTypes DEF TypeInv, TypeOK, fields
<1>3. ~(now[c] >= saturating_add(fields(c).exp, verifier.leeway))
  BY <1>1, <1>2, ConstantsAssumption DEF saturating_add, Least, NumericDate, MAX_LEEWAY
<1>4. AudienceVerdict(c) \in Reason \cup {"Ok"}
  BY DEF AudienceVerdict, Reason, PolicyReason
<1>5. LET broken == Violations(token(c), request[c].terminal, verifier, now'[c])
      IN  IF AudienceVerdict(c) = "Ok" THEN broken = {} ELSE AudienceVerdict(c) \in broken
  BY <1>1, <1>2, <1>3, AudienceSettles
<1>6. pc[c] \in Opening
  BY <1>1 DEF Opening
<1>7. QED
  BY <1>1, <1>4, <1>5, <1>6, OpenedReturns

-----------------------------------------------------------------------------
LEMMA KnowsStep ==
    ASSUME TypeInv, StageInv, NEW c \in Call, Step(c)
    PROVE  StageInv'
<1>1. Knows(c)'
  BY ParseKnows, MeasureKnows, TrialKnows, DecodeKnows, PresenceKnows, CheckTidKnows,
     CheckExpKnows, CheckAudKnows
     DEF Step, StageInv
<1>2. ASSUME NEW d \in Call \ {c} PROVE Knows(d)'
  <2>1. /\ verifier' = verifier /\ request' = request
        /\ pc'[d] = pc[d] /\ next'[d] = next[d] /\ plain'[d] = plain[d]
        /\ now'[d] = now[d] /\ result'[d] = result[d]
    BY DEF Step, Parse, Measure, Trial, Decode, Presence, CheckTid, CheckExp, CheckAud,
           AfterAuthenticate, Goto, Return, TypeInv, TypeOK
  <2>2. QED
    BY <2>1, KnowsFrame DEF StageInv
<1>3. QED
  BY <1>1, <1>2 DEF StageInv

LEMMA StageInit == Init => StageInv
<1> SUFFICES ASSUME Init, NEW c \in Call PROVE Knows(c)
  BY DEF StageInv
<1>1. Len(verifier.keys) = 0
  BY DEF Init, NewVerifier
<1>2. pc[c] = "idle" /\ next[c] = 0 /\ result[c] = None
  BY DEF Init
<1>3. QED
  BY <1>1, <1>2 DEF Knows, Parsed, Sized, Opening, Checking, Enforcing

(* The strengthening is inductive: no interleaving of calls, and no move   *)
(* of the clock between two stages, makes a call forget what it checked.   *)
LEMMA StageInductive == TypeInv /\ StageInv /\ [Next]_vars => StageInv'
<1> SUFFICES ASSUME TypeInv, StageInv, [Next]_vars PROVE StageInv'
  OBVIOUS
<1>1. CASE Build
  BY <1>1, KnowsBuild
<1>2. ASSUME UNCHANGED <<verifier, pc, locals>> PROVE StageInv'
  BY <1>2, KnowsFrame DEF StageInv, locals
<1>3. ASSUME NEW c \in Call, NEW terminal \in Terminal, NEW tok \in Presented,
             Start(c, terminal, tok)
      PROVE  StageInv'
  BY <1>3, KnowsStart
<1>4. ASSUME NEW c \in Call, Step(c) PROVE StageInv'
  BY <1>4, KnowsStep
<1>5. QED
  BY <1>1, <1>2, <1>3, <1>4 DEF Next, Tick, vars

(* In every reachable state each call knows what its stage says it does.   *)
THEOREM StageInvariant == Spec => []StageInv
BY StageInit, StageInductive, TypeCorrect, PTL DEF Spec

(* Whoever is admitted breaks no rule, and whoever is turned away breaks   *)
(* the rule named: verify.rs's chain of early returns decides what the     *)
(* unordered rules of AdmissionRules do, at the time it read.              *)
THEOREM VerdictsAreExact == Spec => []VerdictExact
<1>1. StageInv => VerdictExact
  BY DEF StageInv, Knows, VerdictExact
<1>2. QED
  BY <1>1, StageInvariant, PTL

(* Nothing a call says beyond "malformed" depends on bytes that no         *)
(* candidate key sealed; a manifest, sealed under the public key, is never *)
(* taken for a mandate.                                                    *)
THEOREM OnlyAuthenticContentSpeaks == Spec => []NoVerdictOnUnauthenticContent
<1>1. TypeInv /\ StageInv => NoVerdictOnUnauthenticContent
  <2> SUFFICES ASSUME TypeInv, StageInv, NEW c \in Call, Done(c, Revealing)
               PROVE  HoldsOpened(c) /\ half(c).sealed.key # ManifestKey
    BY DEF NoVerdictOnUnauthenticContent
  <2>1. HoldsOpened(c)
    BY DEF Done, StageInv, Knows
  <2>2. half(c).sealed.key \in MandateKey
    BY <2>1, PolicyTypes DEF HoldsOpened, Authentic, CandidateKeys, half, TypeInv, TypeOK
  <2>3. QED
    BY <2>1, <2>2, ConstantsAssumption
<1>2. QED
  BY <1>1, TypeCorrect, StageInvariant, PTL

(* The work spent on a presented half is bounded: none on a half of the    *)
(* wrong size, at most one decryption per candidate key on any other.      *)
THEOREM TrialIsBounded == Spec => []BoundedTrial
<1>1. StageInv => BoundedTrial
  BY DEF StageInv, Knows, BoundedTrial
<1>2. QED
  BY <1>1, StageInvariant, PTL

(* Clauses::exp and Clauses::tid never panic on what a terminal returned.  *)
THEOREM AccessorsAreTotal == Spec => []AccessorsTotal
<1>1. TypeInv /\ StageInv => AccessorsTotal
  <2> SUFFICES ASSUME TypeInv, StageInv, NEW c \in Call, Done(c, {"Ok"}),
                      request[c].terminal # "mandate_plaintext"
               PROVE  fields(c).exp # None /\ fields(c).tid # "absent"
    BY DEF AccessorsTotal
  <2>1. /\ HoldsOpened(c)
        /\ Violations(token(c), request[c].terminal, verifier, now[c]) = {}
    BY DEF Done, StageInv, Knows, Exact, Revealing
  <2>2. \A r \in Reason : ~BreaksContent(plain[c], r)
    BY <2>1 DEF Violations, HoldsOpened, half
  <2>3. plain[c].error = None
    <3>1. plain[c] \in Plain
      <4>1. token(c) \in Token
        BY RequestTypes DEF Done, StageInv, Knows, token
      <4>2. half(c).sealed \in Sealed
        BY <2>1, <4>1, TokenTypes DEF HoldsOpened, Authentic, half
      <4>3. QED
        BY <2>1, <4>2, SealedTypes DEF HoldsOpened
    <3>2. QED
      BY <2>2, <3>1, PlainTypes DEF BreaksContent, Reason
  <2>4. QED
    BY <2>2, <2>3 DEF BreaksContent, fields, Reason, PolicyReason
<1>2. QED
  BY <1>1, TypeCorrect, StageInvariant, PTL

(* On one token, the stricter terminal admits no more than the laxer one,  *)
(* whatever the interleaving and the times the two calls read.             *)
THEOREM TerminalsAgreeAlways == Spec => []TerminalsAgree
<1>1. TypeInv /\ StageInv => TerminalsAgree
  <2> SUFFICES ASSUME TypeInv, StageInv, NEW c \in Call, NEW d \in Call,
                      Done(c, {"Ok"}), pc[d] = "done", Stricter(c, d)
               PROVE  result[d] = "Ok" /\ plain[d] = plain[c]
    BY DEF TerminalsAgree
  <2>1. /\ HoldsOpened(c) /\ Exact(d) /\ (result[d] \in Revealing => HoldsOpened(d))
        /\ Violations(token(c), request[c].terminal, verifier, now[c]) = {}
    BY DEF Done, StageInv, Knows, Exact, Revealing
  <2>2. request[c].terminal \in Terminal /\ request[d].terminal \in Terminal
    BY RequestTypes DEF Done, StageInv, Knows
  <2>3. /\ request[c].terminal # "mandate_plaintext" /\ request[d].terminal # "clauses"
        /\ token(c) = token(d)
    BY <2>2 DEF Stricter, Strictness, Terminal
  <2>4. Violations(token(d), request[d].terminal, verifier, now[d]) = {}
    BY <2>1, <2>3 DEF Violations
  <2>5. result[d] = "Ok"
    BY <2>1, <2>4 DEF Exact
  <2>6. QED
    BY <2>1, <2>3, <2>5 DEF HoldsOpened, Revealing, half
<1>2. QED
  BY <1>1, TypeCorrect, StageInvariant, PTL
=============================================================================
