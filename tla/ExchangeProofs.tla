---------------------------- MODULE ExchangeProofs ----------------------------
(***************************************************************************)
(* Theorems about the Exchange, for every skew, ttl, leeway, resolution of *)
(* the clocks and number of calls and tokens, checked by TLAPS.  What is   *)
(* known of an Issuer and of a Verifier on their own is taken from         *)
(* MintProofs and VerifierProofs, whose inductive steps the steps of the   *)
(* Exchange instantiate.                                                   *)
(***************************************************************************)
EXTENDS Exchange, MandateProofs

M == INSTANCE MintProofs
        WITH clock <- issuer_clock, ClockValue <- Clock, Monotone <- TRUE,
             GivenTids <- {}, Dates <- {}

(* Any token may be presented to the Verifier. *)
P == INSTANCE VerifierProofs
        WITH clock <- verifier_clock \div Ticks, ClockValue <- Clock, Monotone <- TRUE,
             Presented <- Token, MaxKeys <- 0, Durations <- {}, Pins <- {}, Caps <- {}

-----------------------------------------------------------------------------
(* The instances bring copies of the data of Mandate, which are the same.  *)
LEMMA IDataAgree ==
    /\ I!NumericDate = NumericDate /\ I!Alg = Alg /\ I!Encoding = Encoding
    /\ I!DecodeReason = DecodeReason /\ I!Reason = Reason
    /\ I!Plain = Plain /\ I!Sealed = Sealed /\ I!Half = Half /\ I!Token = Token
BY DEF I!NumericDate, NumericDate, I!Alg, Alg, I!Encoding, Encoding, I!Plain, Plain,
       I!Sealed, Sealed, I!Half, Half, I!Token, Token, I!Shape, Shape,
       I!WellSized, WellSized, I!DecodeReason, DecodeReason, I!Reason, Reason,
       I!PolicyReason, PolicyReason, I!MandateFields, MandateFields,
       I!AlgCode, AlgCode, I!encoded_len, encoded_len, I!AEAD_TAG, AEAD_TAG

LEMMA VDataAgree ==
    /\ V!NumericDate = NumericDate /\ V!Alg = Alg /\ V!Encoding = Encoding
    /\ V!DecodeReason = DecodeReason /\ V!Reason = Reason
    /\ V!Plain = Plain /\ V!Sealed = Sealed /\ V!Half = Half /\ V!Token = Token
BY DEF V!NumericDate, NumericDate, V!Alg, Alg, V!Encoding, Encoding, V!Plain, Plain,
       V!Sealed, Sealed, V!Half, Half, V!Token, Token, V!Shape, Shape,
       V!WellSized, WellSized, V!DecodeReason, DecodeReason, V!Reason, Reason,
       V!PolicyReason, PolicyReason, V!MandateFields, MandateFields,
       V!AlgCode, AlgCode, V!encoded_len, encoded_len, V!AEAD_TAG, AEAD_TAG

LEMMA MDataAgree ==
    /\ M!NumericDate = NumericDate /\ M!Alg = Alg /\ M!Encoding = Encoding
    /\ M!DecodeReason = DecodeReason /\ M!Reason = Reason
    /\ M!Plain = Plain /\ M!Sealed = Sealed /\ M!Half = Half /\ M!Token = Token
BY DEF M!NumericDate, NumericDate, M!Alg, Alg, M!Encoding, Encoding, M!Plain, Plain,
       M!Sealed, Sealed, M!Half, Half, M!Token, Token, M!Shape, Shape,
       M!WellSized, WellSized, M!DecodeReason, DecodeReason, M!Reason, Reason,
       M!PolicyReason, PolicyReason, M!MandateFields, MandateFields,
       M!AlgCode, AlgCode, M!encoded_len, encoded_len, M!AEAD_TAG, AEAD_TAG

LEMMA PDataAgree ==
    /\ P!NumericDate = NumericDate /\ P!Alg = Alg /\ P!Encoding = Encoding
    /\ P!DecodeReason = DecodeReason /\ P!Reason = Reason
    /\ P!Plain = Plain /\ P!Sealed = Sealed /\ P!Half = Half /\ P!Token = Token
BY DEF P!NumericDate, NumericDate, P!Alg, Alg, P!Encoding, Encoding, P!Plain, Plain,
       P!Sealed, Sealed, P!Half, Half, P!Token, Token, P!Shape, Shape,
       P!WellSized, WellSized, P!DecodeReason, DecodeReason, P!Reason, Reason,
       P!PolicyReason, PolicyReason, P!MandateFields, MandateFields,
       P!AlgCode, AlgCode, P!encoded_len, encoded_len, P!AEAD_TAG, AEAD_TAG

(* Their assumptions follow from the Exchange's. *)
LEMMA MintAssumptions ==
    M!ConstantsAssumption /\ M!MintAssumption /\ M!FitsInMemory /\ M!NoBuilderAssumption
<1>1. M!ConstantsAssumption
  BY ConstantsAssumption, MDataAgree
     DEF M!ConstantsAssumption, M!DEFAULT_MAX_DECODED_LEN, DEFAULT_MAX_DECODED_LEN,
         M!MAX_LEEWAY, MAX_LEEWAY
<1>2. M!AppRecord = I!AppRecord /\ M!Tid = I!Tid /\ M!MintError = I!MintError
      /\ M!Text = I!Text
  BY MDataAgree, IDataAgree
     DEF M!AppRecord, I!AppRecord, M!Tid, I!Tid, M!MintError, I!MintError,
         M!AppError, I!AppError, M!Text, I!Text
<1>3. M!Builder = I!Builder
  BY <1>2, MDataAgree, IDataAgree DEF M!Builder, I!Builder
<1>4. M!MintAssumption
  BY <1>2, MDataAgree, IDataAgree, PartsAssumption DEF M!MintAssumption, I!MintAssumption
<1>5. M!FitsInMemory
  <2>1. /\ M!AEAD_TAG = I!AEAD_TAG
        /\ \A n, e : M!encoded_len(n, e) = I!encoded_len(n, e)
    BY DEF M!AEAD_TAG, I!AEAD_TAG, M!encoded_len, I!encoded_len
  <2>2. M!Cardinality(M!Text) = I!Cardinality(I!Text)
    BY <1>2 DEF M!Cardinality, I!Cardinality
  <2>3. QED
    BY <1>2, <2>1, <2>2, MDataAgree, IDataAgree, PartsAssumption
       DEF M!FitsInMemory, I!FitsInMemory
<1>6. M!NoBuilderAssumption
  BY <1>3, PartsAssumption DEF M!NoBuilderAssumption, I!NoBuilderAssumption
<1>7. QED
  BY <1>1, <1>4, <1>5, <1>6

LEMMA VerifierAssumptions ==
    P!ConstantsAssumption /\ P!VerifierAssumption /\ P!NoRequestAssumption
<1>1. P!ConstantsAssumption
  BY ConstantsAssumption, PDataAgree
     DEF P!ConstantsAssumption, P!DEFAULT_MAX_DECODED_LEN, DEFAULT_MAX_DECODED_LEN,
         P!MAX_LEEWAY, MAX_LEEWAY
<1>2. P!VerifierAssumption
  BY PartsAssumption, VDataAgree, PDataAgree DEF P!VerifierAssumption, V!VerifierAssumption
<1>3. P!NoRequestAssumption
  <2>1. P!Request = V!Request
    BY VDataAgree, PDataAgree DEF P!Request, V!Request, P!Terminal, V!Terminal
  <2>2. QED
    BY <2>1, PartsAssumption DEF P!NoRequestAssumption, V!NoRequestAssumption
<1>4. QED
  BY <1>1, <1>2, <1>3

-----------------------------------------------------------------------------
(* The Issuer's host takes steps of Mint. *)
LEMMA MintTokenAgree == I!MintToken <=> M!MintToken
<1>1. I!mint_error = M!mint_error
  BY DEF I!mint_error, M!mint_error, I!mandate_error, M!mandate_error,
         I!manifest_error, M!manifest_error
<1>2. I!MintedTid = M!MintedTid
  BY DEF I!MintedTid, M!MintedTid
<1>3. /\ I!ReadsClock <=> M!ReadsClock
      /\ I!tid_issued_at(I!MintedTid) = M!tid_issued_at(M!MintedTid)
  BY <1>1, <1>2 DEF I!ReadsClock, M!ReadsClock, I!tid_issued_at, M!tid_issued_at,
                    I!seconds, M!seconds
<1>4. /\ \A p, k, a : I!seal(p, k, a) = M!seal(p, k, a)
      /\ \A s, c, e : I!HalfText(s, c, e) = M!HalfText(s, c, e)
      /\ \A a : I!code(a) = M!code(a)
      /\ I!NoHalf = M!NoHalf
  BY DEF I!seal, M!seal, I!HalfText, M!HalfText, I!code, M!code, I!NoHalf, M!NoHalf,
         I!encoded_len, M!encoded_len, I!AEAD_TAG, M!AEAD_TAG
<1>5. I!mandate_plaintext = M!mandate_plaintext /\ I!manifest_plaintext = M!manifest_plaintext
  <2>1. I!Cardinality(builder.texts) = M!Cardinality(builder.texts)
    BY DEF M!Cardinality, I!Cardinality
  <2>2. QED
    BY <1>2, <2>1
       DEF I!mandate_plaintext, M!mandate_plaintext, I!manifest_plaintext, M!manifest_plaintext
<1>6. I!Assembled = M!Assembled
  BY <1>4, <1>5 DEF I!Assembled, M!Assembled, I!AssembledAs, M!AssembledAs
<1>7. QED
  BY <1>1, <1>3, <1>6 DEF I!MintToken, M!MintToken

LEMMA RequestAgrees == Request => M!Next
<1>1. ASSUME NEW app \in App PROVE I!Begin(app) => M!Begin(app)
  BY DEF I!Begin, M!Begin, I!NewBuilder, M!NewBuilder
<1>2. ASSUME NEW app \in App PROVE I!SetManifest(app) => M!SetManifest(app)
  BY DEF I!SetManifest, M!SetManifest, I!Fill, M!Fill
<1>3. ASSUME NEW ttl \in Ttls PROVE I!ExpiresIn(ttl) => M!ExpiresIn(ttl)
  <2>1. I!ExpiryIn(ttl) = M!ExpiryIn(ttl)
    BY DEF I!ExpiryIn, M!ExpiryIn, I!saturating_add, M!saturating_add, I!now_unix, M!now_unix,
           I!seconds, M!seconds, I!Least, M!Least
  <2>2. QED
    BY <2>1 DEF I!ExpiresIn, M!ExpiresIn, I!Fill, M!Fill
<1>4. ASSUME NEW ids \in Audiences PROVE I!SetAudience(ids) => M!SetAudience(ids)
  BY DEF I!SetAudience, M!SetAudience, I!Fill, M!Fill
<1>5. I!Discard => M!Discard
  BY DEF I!Discard, M!Discard
<1>6. QED
  BY <1>1, <1>2, <1>3, <1>4, <1>5, MintTokenAgree DEF Request, M!Next

LEMMA StepOfMint ==
    ASSUME \/ \E t \in Clock : I!Tick(t)
           \/ Request
           \/ I!Discard
           \/ UNCHANGED <<issuer_clock, issuing>>
    PROVE  [M!Next]_M!vars
<1>1. ASSUME NEW t \in Clock, I!Tick(t) PROVE M!Next
  BY <1>1 DEF I!Tick, M!Tick, M!Next
<1>2. I!Discard => M!Next
  BY DEF I!Discard, M!Discard, M!Next
<1>3. UNCHANGED <<issuer_clock, issuing>> => UNCHANGED M!vars
  BY DEF M!vars, issuing
<1>4. QED
  BY <1>1, <1>2, <1>3, RequestAgrees

-----------------------------------------------------------------------------
(* The Verifier's host takes steps of Verifier. *)
VerifierInv == P!TypeInv /\ P!StageInv

LEMMA StageSteps ==
    ASSUME NEW c \in Call,
           \/ V!Parse(c) \/ V!Measure(c) \/ V!Trial(c) \/ V!Decode(c)
           \/ V!Presence(c) \/ V!CheckTid(c) \/ V!CheckExp(c) \/ V!CheckAud(c)
    PROVE  P!Step(c)
<1>1. /\ V!token(c) = P!token(c) /\ V!half(c) = P!half(c) /\ V!fields(c) = P!fields(c)
      /\ \A l : V!Goto(c, l) <=> P!Goto(c, l)
      /\ \A r : V!Return(c, r) <=> P!Return(c, r)
      /\ \A x : V!from_code(x) = P!from_code(x)
      /\ \A tok : V!Parses(tok) <=> P!Parses(tok)
  BY DEF V!token, P!token, V!half, P!half, V!fields, P!fields, V!Goto, P!Goto,
         V!Return, P!Return, V!from_code, P!from_code, V!Parses, P!Parses
<1>2. V!Parse(c) => P!Parse(c)
  BY <1>1 DEF V!Parse, P!Parse
<1>3. V!Measure(c) => P!Measure(c)
  <2>1. V!EncodedCap(verifier.max_decoded_len) = P!EncodedCap(verifier.max_decoded_len)
    BY DEF V!EncodedCap, P!EncodedCap, V!Least, P!Least
  <2>2. \A s : V!WrongSize(s) <=> P!WrongSize(s)
    BY DEF V!WrongSize, P!WrongSize, V!MIN_HALF_BYTES, P!MIN_HALF_BYTES
  <2>3. QED
    BY <1>1, <2>1, <2>2 DEF V!Measure, P!Measure, V!TooLong, P!TooLong
<1>4. V!Trial(c) => P!Trial(c)
  <2>1. V!Opened(c) = P!Opened(c)
    BY <1>1 DEF V!Opened, P!Opened, V!open, P!open
  <2>2. V!AfterAuthenticate(c) <=> P!AfterAuthenticate(c)
    BY <1>1 DEF V!AfterAuthenticate, P!AfterAuthenticate
  <2>3. V!KeysExhausted(c) <=> P!KeysExhausted(c)
    BY DEF V!KeysExhausted, P!KeysExhausted
  <2>4. QED
    BY <1>1, <2>1, <2>2, <2>3 DEF V!Trial, P!Trial
<1>5. V!Decode(c) => P!Decode(c)
  BY <1>1 DEF V!Decode, P!Decode
<1>6. V!Presence(c) => P!Presence(c)
  BY <1>1 DEF V!Presence, P!Presence, V!UncheckedVerdict, P!UncheckedVerdict
<1>7. V!CheckTid(c) => P!CheckTid(c)
  BY <1>1 DEF V!CheckTid, P!CheckTid
<1>8. V!CheckExp(c) => P!CheckExp(c)
  <2>1. V!CurrentTime = P!CurrentTime
    BY DEF V!CurrentTime, P!CurrentTime, V!now_unix, P!now_unix
  <2>2. \A e, l : V!saturating_add(e, l) = P!saturating_add(e, l)
    BY DEF V!saturating_add, P!saturating_add, V!Least, P!Least
  <2>3. QED
    BY <1>1, <2>1, <2>2 DEF V!CheckExp, P!CheckExp
<1>9. V!CheckAud(c) => P!CheckAud(c)
  BY <1>1 DEF V!CheckAud, P!CheckAud, V!AudienceVerdict, P!AudienceVerdict,
              V!AudienceRefused, P!AudienceRefused, V!aud_contains, P!aud_contains
<1>10. QED
  BY <1>2, <1>3, <1>4, <1>5, <1>6, <1>7, <1>8, <1>9 DEF P!Step

(* Whole seconds of a clock within the horizon. *)
LEMMA VerifierSeconds ==
    ASSUME NEW t \in Clock
    PROVE  t \div Ticks \in Clock /\ t \div Ticks <= t
<1>1. t \in Nat /\ t <= Horizon /\ Ticks \in Nat \ {0}
  BY ExchangeAssumption, MintAssumptions DEF Clock, M!MintAssumption
<1>2. t \div Ticks \in 0 .. t
  BY <1>1, DivisionSign
<1>3. QED
  BY <1>1, <1>2, ExchangeAssumption DEF Clock

LEMMA StepOfVerifier ==
    ASSUME verifier_clock \in Clock,
           \/ /\ verifier_clock' \in Clock /\ verifier_clock <= verifier_clock'
              /\ UNCHANGED verifying
           \/ \E c \in Call, terminal \in Terminal, tok \in Token : V!Start(c, terminal, tok)
           \/ \E c \in Call :
                 \/ V!Parse(c) \/ V!Measure(c) \/ V!Trial(c) \/ V!Decode(c)
                 \/ V!Presence(c) \/ V!CheckTid(c) \/ V!CheckExp(c) \/ V!CheckAud(c)
    PROVE  [P!Next]_P!vars
<1>1. ASSUME verifier_clock' \in Clock, verifier_clock <= verifier_clock', UNCHANGED verifying
      PROVE  [P!Next]_P!vars
  <2>1. /\ verifier_clock \in Int /\ verifier_clock' \in Int
        /\ Ticks \in Nat \ {0}
    BY <1>1, ExchangeAssumption, MintAssumptions DEF Clock, M!MintAssumption
  <2>2. verifier_clock \div Ticks <= verifier_clock' \div Ticks
    BY <1>1, <2>1, DivisionMonotone
  <2>3. /\ verifier_clock \div Ticks \in Clock /\ verifier_clock' \div Ticks \in Clock
        /\ verifier_clock \div Ticks \in Int /\ verifier_clock' \div Ticks \in Int
    BY <1>1, <2>1, VerifierSeconds, DivisionType
  <2>4. CASE verifier_clock' \div Ticks = verifier_clock \div Ticks
    BY <1>1, <2>4 DEF P!vars, P!locals, verifying
  <2>5. CASE verifier_clock' \div Ticks # verifier_clock \div Ticks
    <3>1. verifier_clock' \div Ticks > verifier_clock \div Ticks
      BY <2>2, <2>3, <2>5
    <3>2. P!Tick(verifier_clock' \div Ticks)
      BY <1>1, <2>5, <3>1 DEF P!Tick, P!locals, verifying
    <3>3. QED
      BY <2>3, <3>2 DEF P!Next
  <2>6. QED
    BY <2>4, <2>5
<1>2. ASSUME NEW c \in Call, NEW terminal \in Terminal, NEW tok \in Token,
             V!Start(c, terminal, tok)
      PROVE  P!Next
  <2>1. P!Start(c, terminal, tok)
    BY <1>2 DEF P!Start, V!Start, P!Goto, V!Goto
  <2>2. terminal \in P!Terminal
    BY DEF P!Terminal, Terminal
  <2>3. QED
    BY <2>1, <2>2 DEF P!Next
<1>3. ASSUME NEW c \in Call, P!Step(c) PROVE P!Next
  BY <1>3 DEF P!Next
<1>4. QED
  BY <1>1, <1>2, <1>3, StageSteps

-----------------------------------------------------------------------------
(* What is known of the Exchange.  The clocks stay within the skew.        *)
Skewed ==
    /\ issuer_clock \in Clock /\ verifier_clock \in Clock
    /\ issuer_clock - verifier_clock <= MaxSkew
    /\ verifier_clock - issuer_clock <= MaxSkew

(* Only expires_in sets an expiry here. *)
ExpiryAsked == builder # None => (builder.exp # None => asked # None)

ExpiryOf(ask) == saturating_add(now_unix(ask.at \div Ticks), Least(ask.ttl, NDMax))

(* A half sealed by k, showing the code of its algorithm. *)
SealedBy(k, h) ==
    /\ h.sealed # None /\ h.sealed.key = k
    /\ from_code(h.alg_code) = h.sealed.alg /\ h.sealed.alg \in CompiledAlgs
    /\ h.sealed.size >= MIN_HALF_BYTES

Ask == [at : Clock, ttl : Ttls]

(* A token that mint() made of a value that decodes, with the expires_in   *)
(* that was in force.                                                      *)
Handed ==
    { m \in [token : Token, asked : Ask] :
        LET sealed == m.token.half.sealed IN
        /\ m.token.mandate = "wellformed" /\ m.token.manifest # "illformed"
        /\ SealedBy(IssuerKey, m.token.half)
        /\ m.token.manifest = "wellformed" => SealedBy(ManifestKey, m.token.manifest_half)
        /\ sealed.plain.error = None
        /\ sealed.plain.fields.tid = "v7"
        /\ sealed.plain.fields.exp = ExpiryOf(m.asked)
        /\ \E app \in App : sealed.size <= app.size + ReservedSize + 2 + AEAD_TAG }

(* A token in circulation carries the mandate of a minted one unchanged,   *)
(* or none, and the manifest it is said to carry, or none.                 *)
Form ==
    { f \in [token : Token, mandate_of : Handed, manifest : Half] :
        /\ Parses(f.token)
        /\ f.token.mandate = "wellformed" => f.token.half = f.mandate_of.token.half
        /\ f.token.mandate = "absent" => f.token.half = NoHalf
        /\ f.token.manifest = "wellformed" =>
              f.token.manifest_half = f.manifest /\ SealedBy(ManifestKey, f.manifest) }

Given ==
    /\ origin \in [Call -> Form \cup {None}]
    /\ \A c \in Call : pc[c] # "idle" =>
          origin[c] \in Form /\ request[c].token = origin[c].token

(* The time a call judged by, in whole seconds, and what the issuer's      *)
(* clock showed then.                                                      *)
Judged(c) ==
    \/ pc[c] = "aud"
    \/ pc[c] = "done" /\ request[c].terminal = "clauses" /\ result[c] \in {"Ok", "Expired"}

ReadTogether(t, at) ==
    /\ t \in Clock /\ at \in Clock
    /\ t * Ticks - MaxSkew <= at /\ at < (t + 1) * Ticks + MaxSkew

Timed ==
    /\ read_at \in [Call -> Clock \cup {None}]
    /\ \A c \in Call : Judged(c) => ReadTogether(now[c], read_at[c])

(* A token without a mandate gets no further than its parsing: of the      *)
(* rules it breaks, the call names the one that says so.                   *)
Emptied ==
    \A c \in Call :
        pc[c] = "done" /\ origin[c].token.mandate = "absent" => result[c] = "EmptyMandate"

ExchangeInv ==
    /\ Skewed /\ verifier \in Verifiers
    /\ M!MintInv /\ ExpiryAsked
    /\ VerifierInv
    /\ minted \subseteq Handed
    /\ Given /\ Timed /\ Emptied

-----------------------------------------------------------------------------
(* Carving, forwarding and splicing make forms of forms. *)
LEMMA FormTypes ==
    ASSUME NEW f \in Form
    PROVE  /\ f.token \in Token /\ f.mandate_of \in Handed /\ f.manifest \in Half
           /\ Parses(f.token)
           /\ f.token.mandate = "wellformed" => f.token.half = f.mandate_of.token.half
           /\ f.token.mandate = "absent" => f.token.half = NoHalf
           /\ f.token.manifest = "wellformed" =>
                 f.token.manifest_half = f.manifest /\ SealedBy(ManifestKey, f.manifest)
BY DEF Form

LEMMA NoHalfIsAHalf ==
    NoHalf \in Half /\ \A e : WellSized(NoHalf, e)
BY ConstantsAssumption DEF NoHalf, Half, WellSized, AlgCode, DEFAULT_MAX_DECODED_LEN

LEMMA CarvedTokens ==
    ASSUME NEW tok \in Token, Parses(tok)
    PROVE  /\ mandate(tok) # None =>
                /\ tok.mandate = "wellformed"
                /\ mandate(tok) = [tok EXCEPT !.manifest = "absent", !.manifest_half = NoHalf]
                /\ mandate(tok) \in Token /\ Parses(mandate(tok))
           /\ manifest(tok) # None =>
                /\ tok.manifest = "wellformed"
                /\ manifest(tok) = [tok EXCEPT !.mandate = "absent", !.half = NoHalf]
                /\ manifest(tok) \in Token /\ Parses(manifest(tok))
BY NoHalfIsAHalf DEF mandate, manifest, Token, Parses, Shape

LEMMA FormCarved ==
    ASSUME NEW f \in Form, NEW g \in From(f, mandate(f.token)) \cup From(f, manifest(f.token))
    PROVE  g \in Form
<1>1. f.token \in Token /\ Parses(f.token)
  BY FormTypes
<1>2. CASE g \in From(f, mandate(f.token))
  <2>1. mandate(f.token) # None /\ g = [f EXCEPT !.token = mandate(f.token)]
    BY <1>2 DEF From
  <2>2. /\ mandate(f.token) \in Token /\ Parses(mandate(f.token))
        /\ mandate(f.token).half = f.token.half /\ mandate(f.token).manifest = "absent"
        /\ mandate(f.token).mandate = "wellformed"
        /\ f.token.mandate = "wellformed"
    <3>1. /\ mandate(f.token) \in Token /\ Parses(mandate(f.token))
          /\ f.token.mandate = "wellformed"
          /\ mandate(f.token) = [f.token EXCEPT !.manifest = "absent", !.manifest_half = NoHalf]
      BY <1>1, <2>1, CarvedTokens
    <3>2. QED
      BY <1>1, <3>1 DEF Token
  <2>3. g.token = mandate(f.token) /\ g.mandate_of = f.mandate_of /\ g.manifest = f.manifest
        /\ g \in [token : Token, mandate_of : Handed, manifest : Half]
    BY <2>1, <2>2 DEF Form
  <2>4. QED
    BY <2>2, <2>3, FormTypes DEF Form
<1>3. CASE g \in From(f, manifest(f.token))
  <2>1. manifest(f.token) # None /\ g = [f EXCEPT !.token = manifest(f.token)]
    BY <1>3 DEF From
  <2>2. /\ manifest(f.token) \in Token /\ Parses(manifest(f.token))
        /\ manifest(f.token).manifest_half = f.token.manifest_half
        /\ manifest(f.token).mandate = "absent" /\ manifest(f.token).half = NoHalf
        /\ f.token.manifest = "wellformed"
    <3>1. /\ manifest(f.token) \in Token /\ Parses(manifest(f.token))
          /\ f.token.manifest = "wellformed"
          /\ manifest(f.token) = [f.token EXCEPT !.mandate = "absent", !.half = NoHalf]
      BY <1>1, <2>1, CarvedTokens
    <3>2. QED
      BY <1>1, <3>1 DEF Token
  <2>3. g.token = manifest(f.token) /\ g.mandate_of = f.mandate_of /\ g.manifest = f.manifest
        /\ g \in [token : Token, mandate_of : Handed, manifest : Half]
    BY <2>1, <2>2 DEF Form
  <2>4. QED
    BY <2>2, <2>3, FormTypes DEF Form
<1>4. QED
  BY <1>2, <1>3

LEMMA FormForwarded ==
    ASSUME NEW f \in Form, NEW g \in Forwarded(f)
    PROVE  g \in Form
<1>1. mandate(f.token) # None /\ g \in From(f, mandate(f.token))
  BY DEF Forwarded, authorization_header, From
<1>2. QED
  BY <1>1, FormCarved

LEMMA FormSpliced ==
    ASSUME NEW f \in Form, NEW g \in Spliced(f)
    PROVE  g \in Form
<1>1. PICK h \in OtherManifests :
        /\ WellSized(h, f.token.encoding) /\ f.token.mandate = "wellformed"
        /\ g = [f EXCEPT !.token.manifest = "wellformed", !.token.manifest_half = h,
                         !.manifest = h]
  BY DEF Spliced
<1>2. h \in Half /\ SealedBy(ManifestKey, h)
  BY ExchangeAssumption DEF SealedBy, Half, Sealed, MIN_HALF_BYTES
<1> DEFINE tok == [f.token EXCEPT !.manifest = "wellformed", !.manifest_half = h]
<1>3. f.token \in Token
  BY FormTypes
<1>4. /\ tok \in Token /\ Parses(tok) /\ tok.half = f.token.half
      /\ tok.mandate = "wellformed" /\ tok.manifest = "wellformed" /\ tok.manifest_half = h
  BY <1>1, <1>2, <1>3 DEF Token, Shape, Parses
<1> HIDE DEF tok
<1>5. g = [f EXCEPT !.token = tok, !.manifest = h]
  BY <1>1 DEF tok, Form
<1>6. /\ g \in [token : Token, mandate_of : Handed, manifest : Half]
      /\ g.token = tok /\ g.mandate_of = f.mandate_of /\ g.manifest = h
  BY <1>2, <1>4, <1>5 DEF Form
<1>7. QED
  BY <1>1, <1>2, <1>4, <1>6, FormTypes DEF Form

LEMMA FormsDerived ==
    ASSUME NEW forms \in SUBSET Form
    PROVE  Derived(forms) \subseteq Form
<1> SUFFICES ASSUME NEW f \in forms,
                    NEW g \in {f} \cup From(f, mandate(f.token)) \cup From(f, manifest(f.token))
                                  \cup Forwarded(f) \cup Spliced(f)
             PROVE  g \in Form
  BY DEF Derived
<1>1. f \in Form
  OBVIOUS
<1>2. QED
  BY <1>1, FormCarved, FormForwarded, FormSpliced

(* Whatever circulates is a form of a token that was handed over. *)
LEMMA CirculatingForms ==
    ASSUME minted \subseteq Handed
    PROVE  Circulating \subseteq Form
<1> DEFINE whole ==
      { [token |-> m.token, mandate_of |-> m, manifest |-> m.token.manifest_half] : m \in minted }
<1>1. whole \subseteq Form
  <2> SUFFICES ASSUME NEW m \in Handed
               PROVE  [token |-> m.token, mandate_of |-> m, manifest |-> m.token.manifest_half] \in Form
    OBVIOUS
  <2>1. m.token \in Token /\ m.token.manifest_half \in Half /\ Parses(m.token)
    BY DEF Handed, Token, Parses
  <2>2. /\ m.token.mandate = "wellformed"
        /\ m.token.manifest = "wellformed" => SealedBy(ManifestKey, m.token.manifest_half)
    BY DEF Handed
  <2>3. QED
    BY <2>1, <2>2 DEF Form
<1>2. Derived(whole) \subseteq Form
  BY <1>1, FormsDerived
<1>3. Derived(Derived(whole)) \subseteq Form
  BY <1>2, FormsDerived
<1>4. QED
  BY <1>3 DEF Circulating

-----------------------------------------------------------------------------
(* Handing over what mint() made. *)
LEMMA HandedOver ==
    ASSUME M!MintInv, ExpiryAsked, I!Minted
    PROVE  [token |-> outcome.token, asked |-> asked] \in Handed
<1>1. M!Minted
  BY DEF I!Minted, M!Minted
<1>2. /\ builder # None /\ builder.exp \in NumericDate
      /\ outcome.token = M!Assembled /\ outcome.token.half.sealed.plain.fields.exp = builder.exp
      /\ M!TypeOK
  BY <1>1, MintAssumptions, M!MintedForm, MDataAgree DEF M!token, M!expiry
<1>3. asked # None
  BY <1>2, ConstantsAssumption DEF ExpiryAsked
<1>4. outcome.token \in Token
  BY <1>2, MintAssumptions, M!AssembledTypes, MDataAgree
<1>5. asked \in Ask
  BY <1>2, <1>3 DEF M!TypeOK, Ask
<1>6. builder.exp = ExpiryOf(asked)
  BY <1>3 DEF M!MintInv, M!Remembered, M!ExpiryAt, ExpiryOf, M!saturating_add, saturating_add,
              M!now_unix, now_unix, M!seconds, M!Least, Least
<1>7. builder.app \in App
  BY <1>2, MintAssumptions, M!BuilderTypes DEF M!TypeOK
<1>8. \A x : M!from_code(x) = from_code(x)
  BY DEF M!from_code, from_code
<1> DEFINE h == outcome.token.half
           p == outcome.token.manifest_half
<1>9. /\ outcome.token.mandate = "wellformed"
      /\ outcome.token.manifest \in {"absent", "wellformed"}
      /\ h.sealed \in Sealed /\ h.sealed.key = IssuerKey
      /\ from_code(h.alg_code) = h.sealed.alg /\ h.sealed.alg \in CompiledAlgs
      /\ h.sealed.size >= MIN_HALF_BYTES
      /\ h.sealed.size <= builder.app.size + ReservedSize + 2 + AEAD_TAG
      /\ h.sealed.plain.error = None /\ h.sealed.plain.fields.tid = "v7"
      /\ outcome.token.manifest = "wellformed" =>
           /\ p.sealed \in Sealed /\ p.sealed.key = ManifestKey
           /\ from_code(p.alg_code) = p.sealed.alg /\ p.sealed.alg \in CompiledAlgs
           /\ p.sealed.size >= MIN_HALF_BYTES
  BY <1>1, <1>7, <1>8, MintAssumptions, M!MintedHalves, MDataAgree, ExchangeAssumption
     DEF M!token, M!AEAD_TAG, AEAD_TAG, M!MIN_HALF_BYTES, MIN_HALF_BYTES
<1>10. SealedBy(IssuerKey, h)
       /\ (outcome.token.manifest = "wellformed" => SealedBy(ManifestKey, p))
  BY <1>9, ConstantsAssumption DEF SealedBy
<1>11. \E app \in App : h.sealed.size <= app.size + ReservedSize + 2 + AEAD_TAG
  BY <1>7, <1>9
<1>12. QED
  BY <1>2, <1>4, <1>5, <1>6, <1>9, <1>10, <1>11 DEF Handed

-----------------------------------------------------------------------------
LEMMA ExchangeInit == Init => ExchangeInv
<1> SUFFICES ASSUME Init PROVE ExchangeInv
  OBVIOUS
<1>1. Skewed
  BY ExchangeAssumption DEF Init, Skewed, Clock
<1>2. verifier \in Verifiers /\ verifier \in Policy
  BY ExchangeAssumption DEF Init
<1>3. M!MintInv
  BY <1>1, ExchangeAssumption, MDataAgree
     DEF Init, Skewed, M!MintInv, M!TypeOK, M!Accounted, M!Remembered, M!ClockRan, M!Stamped,
         M!Minted
<1>4. P!TypeInv
  <2>1. verifier_clock \div Ticks \in Clock
    BY <1>1, VerifierSeconds DEF Skewed
  <2>2. verifier \in P!Policy
    BY <1>2, PDataAgree DEF P!Policy, Policy, P!MAX_LEEWAY, MAX_LEEWAY
  <2>3. QED
    BY <2>1, <2>2 DEF Init, P!TypeInv, P!TypeOK, P!Entered, P!Decodes, P!Holds, P!Stage,
                      P!Opening, P!Checking, P!Enforcing
<1>5. P!StageInv
  <2> SUFFICES ASSUME NEW c \in Call PROVE P!Knows(c)
    BY DEF P!StageInv
  <2>1. Len(verifier.keys) \in Nat
    BY <1>2 DEF Policy
  <2>2. pc[c] = "idle" /\ next[c] = 0 /\ result[c] = None
    BY DEF Init
  <2>3. QED
    BY <2>1, <2>2 DEF P!Knows, P!Parsed, P!Sized, P!Opening, P!Checking, P!Enforcing
<1>6. ExpiryAsked /\ minted \subseteq Handed /\ Given /\ Timed /\ Emptied
  BY DEF Init, ExpiryAsked, Given, Timed, Judged, Emptied
<1>7. QED
  BY <1>1, <1>2, <1>3, <1>4, <1>5, <1>6 DEF ExchangeInv, VerifierInv

LEMMA SkewedStep == Skewed /\ [Next]_vars => Skewed'
<1> SUFFICES ASSUME Skewed, [Next]_vars PROVE Skewed'
  OBVIOUS
<1>1. /\ issuer_clock \in Int /\ verifier_clock \in Int /\ MaxSkew \in Nat /\ Horizon \in Nat
      /\ 0 <= issuer_clock /\ 0 <= verifier_clock
  BY ExchangeAssumption DEF Skewed, Clock
<1>2. CASE TickIssuer
  BY <1>1, <1>2 DEF TickIssuer, I!Tick, Skewed, Clock
<1>3. CASE TickVerifier
  BY <1>1, <1>3 DEF TickVerifier, Skewed, Clock
<1>4. CASE UNCHANGED <<issuer_clock, verifier_clock>>
  BY <1>4 DEF Skewed
<1>5. Issue => UNCHANGED <<issuer_clock, verifier_clock>>
  BY DEF Issue, Request, I!Begin, I!SetManifest, I!ExpiresIn, I!SetAudience, I!Fill,
         I!MintToken, I!Discard
<1>6. HandOver => UNCHANGED <<issuer_clock, verifier_clock>>
  BY DEF HandOver, I!Discard
<1>7. QED
  BY <1>2, <1>3, <1>4, <1>5, <1>6 DEF Next, Present, Judge, Proceed, vars

(* Whatever step is taken, the Issuer's host takes one of Mint or none.    *)
LEMMA IssuerTakes ==
    ASSUME ExchangeInv, [Next]_vars
    PROVE  [M!Next]_M!vars
<1>1. CASE TickIssuer
  <2>1. issuer_clock + 1 \in Clock
    BY <1>1, ExchangeAssumption DEF TickIssuer, ExchangeInv, Skewed, Clock
  <2>2. QED
    BY <1>1, <2>1, StepOfMint DEF TickIssuer
<1>2. CASE Issue
  BY <1>2, StepOfMint DEF Issue
<1>3. CASE HandOver
  BY <1>3, StepOfMint DEF HandOver
<1>4. CASE UNCHANGED <<issuer_clock, issuing>>
  BY <1>4, StepOfMint
<1>5. QED
  BY <1>1, <1>2, <1>3, <1>4 DEF Next, TickVerifier, Present, Judge, Proceed, vars

(* The Issuer's host, whatever step is taken. *)
LEMMA IssuerSide ==
    ASSUME ExchangeInv, [Next]_vars
    PROVE  /\ M!MintInv' /\ ExpiryAsked' /\ minted' \subseteq Handed
           /\ minted \subseteq minted'
<1> M!MintInv'
  BY IssuerTakes, MintAssumptions, M!InvNext DEF ExchangeInv
<1>1. CASE TickIssuer
  BY <1>1 DEF TickIssuer, I!Tick, ExchangeInv, ExpiryAsked
<1>2. CASE Issue
  <2>1. builder = None \/ builder \in M!Builder
    BY DEF ExchangeInv, M!MintInv, M!TypeOK
  <2>2. ExpiryAsked'
    <3>1. CASE \E app \in App : I!Begin(app)
      BY <3>1 DEF I!Begin, I!NewBuilder, ExpiryAsked
    <3>2. CASE \/ \E app \in App : I!SetManifest(app)
               \/ \E ids \in Audiences : I!SetAudience(ids)
      BY <2>1, <3>2 DEF I!SetManifest, I!SetAudience, I!Fill, ExpiryAsked, ExchangeInv, M!Builder
    <3>3. ASSUME NEW ttl \in Ttls, I!ExpiresIn(ttl) PROVE ExpiryAsked'
      <4>1. asked' = [at |-> issuer_clock, ttl |-> ttl] /\ issuer_clock \in Clock
        BY <3>3 DEF I!ExpiresIn, ExchangeInv, Skewed
      <4>2. asked' # None
        BY <4>1, ExchangeAssumption
      <4>3. QED
        BY <4>2 DEF ExpiryAsked
    <3>4. CASE I!MintToken
      BY <3>4 DEF I!MintToken, ExpiryAsked, ExchangeInv
    <3>5. CASE I!Discard
      BY <3>5 DEF I!Discard, ExpiryAsked
    <3>6. QED
      BY <1>2, <3>1, <3>2, <3>3, <3>4, <3>5 DEF Issue, Request
  <2>3. QED
    BY <1>2, <2>2 DEF Issue, ExchangeInv
<1>3. CASE HandOver
  <2>1. ExpiryAsked'
    BY <1>3 DEF HandOver, I!Discard, ExpiryAsked
  <2>2. minted' = minted \cup {[token |-> outcome.token, asked |-> asked]} /\ I!Minted
    BY <1>3 DEF HandOver
  <2>3. QED
    BY <2>1, <2>2, HandedOver DEF ExchangeInv
<1>4. CASE UNCHANGED <<issuer_clock, issuing, minted>>
  BY <1>4 DEF ExchangeInv, ExpiryAsked, issuing
<1>5. QED
  BY <1>1, <1>2, <1>3, <1>4 DEF Next, TickVerifier, Present, Judge, Proceed, vars

(* The Verifier's host: a step of the Issuer's leaves it alone. *)
LEMMA PresentedTokens ==
    ASSUME ExchangeInv, NEW c \in Call, NEW terminal \in Terminal, NEW f \in Circulating,
           Present(c, terminal, f)
    PROVE  f \in Form /\ f.token \in Token /\ V!Start(c, terminal, f.token)
BY CirculatingForms, FormTypes DEF ExchangeInv, Present

LEMMA VerifierTakes ==
    ASSUME ExchangeInv, [Next]_vars
    PROVE  [P!Next]_P!vars /\ verifier' = verifier
<1>1. verifier_clock \in Clock
  BY DEF ExchangeInv, Skewed
<1>2. CASE TickVerifier
  <2>1. verifier_clock' \in Clock
    BY <1>2, SkewedStep DEF ExchangeInv, Skewed
  <2>2. verifier_clock <= verifier_clock'
    BY <1>1, <1>2, ExchangeAssumption DEF TickVerifier, Clock
  <2>3. QED
    BY <1>1, <1>2, <2>1, <2>2, StepOfVerifier DEF TickVerifier, verifying
<1>3. ASSUME NEW c \in Call, NEW terminal \in Terminal, NEW f \in Circulating,
             Present(c, terminal, f)
      PROVE  [P!Next]_P!vars /\ verifier' = verifier
  BY <1>1, <1>3, PresentedTokens, StepOfVerifier DEF V!Start
<1>4. ASSUME NEW c \in Call, Judge(c)
      PROVE  [P!Next]_P!vars /\ verifier' = verifier
  BY <1>1, <1>4, StepOfVerifier DEF Judge, V!CheckExp
<1>5. ASSUME NEW c \in Call, Proceed(c)
      PROVE  [P!Next]_P!vars /\ verifier' = verifier
  <2>1. [P!Next]_P!vars
    BY <1>1, <1>5, StepOfVerifier DEF Proceed
  <2>2. verifier' = verifier
    BY <1>5 DEF Proceed, V!Parse, V!Measure, V!Trial, V!Decode, V!Presence, V!CheckTid,
                V!CheckAud
  <2>3. QED
    BY <2>1, <2>2
<1>6. CASE UNCHANGED <<verifier_clock, verifying>>
  <2>1. verifier_clock' \in Clock /\ verifier_clock <= verifier_clock'
    BY <1>1, <1>6, ExchangeAssumption DEF Clock
  <2>2. QED
    BY <1>1, <1>6, <2>1, StepOfVerifier DEF verifying
<1>7. QED
  BY <1>2, <1>3, <1>4, <1>5, <1>6 DEF Next, TickIssuer, Issue, HandOver, vars

LEMMA VerifierSide ==
    ASSUME ExchangeInv, [Next]_vars
    PROVE  VerifierInv' /\ verifier' = verifier
BY VerifierTakes, VerifierAssumptions, P!TypeInductive, P!StageInductive
   DEF ExchangeInv, VerifierInv

(* A call's form is settled when it starts. *)
LEMMA GivenStep ==
    ASSUME ExchangeInv, [Next]_vars
    PROVE  Given'
<1>1. /\ Given /\ request \in [Call -> P!Request \cup {None}] /\ pc \in [Call -> P!Stage]
  BY DEF ExchangeInv, VerifierInv, P!TypeInv, P!TypeOK
<1>2. ASSUME NEW c \in Call, NEW terminal \in Terminal, NEW f \in Circulating,
             Present(c, terminal, f)
      PROVE  Given'
  <2>1. f \in Form
    BY <1>2, PresentedTokens
  <2>2. /\ origin' = [origin EXCEPT ![c] = f]
        /\ request' = [request EXCEPT ![c] = [terminal |-> terminal, token |-> f.token]]
        /\ pc' = [pc EXCEPT ![c] = "parse"]
    BY <1>2 DEF Present, V!Start, V!Goto
  <2>3. QED
    BY <1>1, <2>1, <2>2 DEF Given
<1>3. ASSUME NEW c \in Call, Judge(c) \/ Proceed(c) PROVE Given'
  <2>1. /\ origin' = origin /\ request' = request /\ pc[c] # "idle"
        /\ \A d \in Call \ {c} : pc'[d] = pc[d]
    BY <1>1, <1>3
       DEF Judge, Proceed, history, V!Parse, V!Measure, V!Trial, V!Decode, V!Presence,
           V!CheckTid, V!CheckExp, V!CheckAud, V!AfterAuthenticate, V!Goto, V!Return
  <2>2. QED
    BY <1>1, <2>1 DEF Given
<1>4. CASE UNCHANGED <<origin, verifying>>
  BY <1>1, <1>4 DEF Given, verifying
<1>5. QED
  BY <1>2, <1>3, <1>4
     DEF Next, TickIssuer, TickVerifier, Issue, HandOver, history, vars

(* The clocks when a call reads its own. *)
LEMMA ReadNow ==
    ASSUME Skewed, verifier.now = None
    PROVE  ReadTogether(V!CurrentTime, issuer_clock)
<1> DEFINE t == verifier_clock \div Ticks
<1>1. /\ issuer_clock \in Clock /\ verifier_clock \in Nat /\ Ticks \in Nat \ {0}
      /\ MaxSkew \in Nat /\ issuer_clock \in Int /\ t \in Clock
      /\ t \in Nat
  BY ExchangeAssumption, MintAssumptions, VerifierSeconds DEF Skewed, Clock, M!MintAssumption
<1>2. V!CurrentTime = t
  BY <1>1 DEF V!CurrentTime, V!now_unix
<1>3. t * Ticks <= verifier_clock /\ verifier_clock < (t + 1) * Ticks
  <2>1. verifier_clock % Ticks \in 0 .. Ticks - 1
        /\ verifier_clock = Ticks * t + (verifier_clock % Ticks)
    BY <1>1, DivisionType
  <2> HIDE DEF t
  <2>2. (t + 1) * Ticks = Ticks * t + Ticks /\ t * Ticks = Ticks * t /\ Ticks * t \in Int
    BY <1>1
  <2>3. QED
    BY <1>1, <2>1, <2>2
<1> HIDE DEF t
<1>4. t * Ticks \in Int /\ (t + 1) * Ticks \in Int
  BY <1>1
<1>5. t * Ticks - MaxSkew <= issuer_clock /\ issuer_clock < (t + 1) * Ticks + MaxSkew
  BY <1>1, <1>3, <1>4 DEF Skewed
<1>6. QED
  BY <1>1, <1>2, <1>5 DEF ReadTogether

LEMMA TimedStep ==
    ASSUME ExchangeInv, [Next]_vars
    PROVE  Timed'
<1>1. /\ Timed /\ Skewed /\ verifier.now = None
      /\ pc \in [Call -> P!Stage] /\ request \in [Call -> P!Request \cup {None}]
      /\ now \in [Call -> P!NumericDate \cup {None}]
      /\ result \in [Call -> P!Reason \cup {"Ok", None}]
      /\ \A c \in Call : P!Knows(c) /\ (pc[c] \in P!Opening => plain[c] \in Plain)
  BY ExchangeAssumption, PDataAgree
     DEF ExchangeInv, VerifierInv, P!TypeInv, P!TypeOK, P!StageInv, P!Holds
<1>2. ASSUME NEW c \in Call, NEW terminal \in Terminal, NEW f \in Circulating,
             Present(c, terminal, f)
      PROVE  Timed'
  BY <1>1, <1>2 DEF Present, V!Start, V!Goto, Timed, Judged
<1>3. ASSUME NEW c \in Call, Judge(c) PROVE Timed'
  <2>1. read_at' = [read_at EXCEPT ![c] = issuer_clock] /\ V!CheckExp(c) /\ issuer_clock \in Clock
    BY <1>1, <1>3 DEF Judge, Skewed
  <2>2. CASE V!fields(c).exp = None
    BY <1>1, <2>1, <2>2 DEF V!CheckExp, V!Return, Timed, Judged
  <2>3. CASE V!fields(c).exp # None
    <3>1. now' = [now EXCEPT ![c] = V!CurrentTime]
      BY <2>1, <2>3 DEF V!CheckExp
    <3>2. ReadTogether(V!CurrentTime, issuer_clock)
      BY <1>1, ReadNow
    <3>3. ReadTogether(now'[c], read_at'[c])
      BY <1>1, <2>1, <3>1, <3>2 DEF Timed
    <3>4. ASSUME NEW d \in Call \ {c}, Judged(d)' PROVE ReadTogether(now'[d], read_at'[d])
      BY <1>1, <2>1, <3>1, <3>4 DEF V!CheckExp, V!Return, V!Goto, Timed, Judged
    <3>5. QED
      BY <1>1, <2>1, <3>3, <3>4 DEF Timed
  <2>4. QED
    BY <2>2, <2>3
<1>4. ASSUME NEW c \in Call, Proceed(c) PROVE Timed'
  <2>1. /\ read_at' = read_at /\ now' = now /\ request' = request
        /\ \A d \in Call \ {c} : pc'[d] = pc[d] /\ result'[d] = result[d]
    BY <1>1, <1>4
       DEF Proceed, history, V!Parse, V!Measure, V!Trial, V!Decode, V!Presence,
           V!CheckTid, V!CheckAud, V!AfterAuthenticate, V!Goto, V!Return
  <2>2. SUFFICES Judged(c)' => Judged(c)
    BY <1>1, <2>1 DEF Timed, Judged
  <2>3. CASE V!Parse(c) \/ V!Measure(c) \/ V!CheckTid(c)
    BY <1>1, <2>1, <2>3 DEF V!Parse, V!Measure, V!CheckTid, V!Goto, V!Return, Judged
  <2>4. CASE V!Trial(c)
    BY <1>1, <2>1, <2>4 DEF V!Trial, V!AfterAuthenticate, V!Goto, V!Return, Judged
  <2>5. CASE V!Decode(c)
    <3>1. plain[c].error \in DecodeReason \cup {None}
      BY <1>1, <2>5, PlainTypes DEF V!Decode, P!Opening
    <3>2. QED
      BY <1>1, <2>1, <2>5, <3>1 DEF V!Decode, V!Goto, V!Return, Judged, DecodeReason
  <2>6. CASE V!Presence(c)
    <3>1. request[c].terminal # "clauses"
      BY <1>1, <2>6 DEF V!Presence, P!Knows, P!Checking, P!Enforcing
    <3>2. QED
      BY <1>1, <2>1, <2>6, <3>1 DEF V!Presence, V!Return, Judged
  <2>7. CASE V!CheckAud(c)
    BY <2>7 DEF V!CheckAud, Judged
  <2>8. QED
    BY <1>4, <2>3, <2>4, <2>5, <2>6, <2>7 DEF Proceed
<1>5. CASE UNCHANGED <<read_at, verifying>>
  BY <1>1, <1>5 DEF Timed, Judged, verifying
<1>6. QED
  BY <1>2, <1>3, <1>4, <1>5
     DEF Next, TickIssuer, TickVerifier, Issue, HandOver, history, vars

LEMMA EmptiedStep ==
    ASSUME ExchangeInv, [Next]_vars
    PROVE  Emptied'
<1>1. /\ Emptied /\ pc \in [Call -> P!Stage] /\ origin \in [Call -> Form \cup {None}]
      /\ result \in [Call -> P!Reason \cup {"Ok", None}]
      /\ \A c \in Call : pc[c] \in P!Parsed => origin[c].token.mandate = "wellformed"
  BY DEF ExchangeInv, VerifierInv, P!TypeInv, P!TypeOK, P!StageInv, P!Knows, P!token, Given,
         P!Parsed, P!Sized, P!Opening, P!Checking, P!Enforcing
<1>2. ASSUME NEW c \in Call, NEW terminal \in Terminal, NEW f \in Circulating,
             Present(c, terminal, f)
      PROVE  Emptied'
  BY <1>1, <1>2 DEF Present, V!Start, V!Goto, Emptied
<1>3. ASSUME NEW c \in Call, Judge(c) \/ Proceed(c) PROVE Emptied'
  <2>1. /\ origin' = origin
        /\ \A d \in Call \ {c} : pc'[d] = pc[d] /\ result'[d] = result[d]
    BY <1>1, <1>3
       DEF Judge, Proceed, history, V!Parse, V!Measure, V!Trial, V!Decode, V!Presence,
           V!CheckTid, V!CheckExp, V!CheckAud, V!AfterAuthenticate, V!Goto, V!Return
  <2>2. CASE V!Parse(c)
    <3>1. V!token(c) = origin[c].token /\ Parses(origin[c].token)
      <4>1. pc[c] # "idle"
        BY <2>2 DEF V!Parse
      <4>2. QED
        BY <4>1, FormTypes DEF ExchangeInv, Given, V!token
    <3>2. V!Parses(origin[c].token)
      BY <3>1 DEF V!Parses, Parses
    <3>3. QED
      BY <1>1, <2>1, <2>2, <3>1, <3>2 DEF V!Parse, V!Goto, V!Return, Emptied
  <2>3. CASE pc[c] \in P!Parsed
    BY <1>1, <2>1, <2>3 DEF Emptied
  <2>4. QED
    BY <1>3, <2>2, <2>3
       DEF Judge, Proceed, V!Measure, V!Trial, V!Decode, V!Presence, V!CheckTid, V!CheckExp,
           V!CheckAud, P!Parsed, P!Sized, P!Opening, P!Checking, P!Enforcing
<1>4. CASE UNCHANGED <<origin, verifying>>
  BY <1>1, <1>4 DEF Emptied, verifying
<1>5. QED
  BY <1>2, <1>3, <1>4
     DEF Next, TickIssuer, TickVerifier, Issue, HandOver, history, vars

LEMMA Invariance == Spec => []ExchangeInv
<1>1. ExchangeInv /\ [Next]_vars => ExchangeInv'
  BY SkewedStep, IssuerSide, VerifierSide, GivenStep, TimedStep, EmptiedStep DEF ExchangeInv
<1>2. QED
  BY <1>1, ExchangeInit, PTL DEF Spec

(* The Issuer of the composition is the Issuer of Mint: handing a token    *)
(* over, the skew and all that the Verifier's host does leave it a builder *)
(* of mint.rs, so what holds step by step of Mint holds here.              *)
THEOREM IssuerIsMint == Spec => [][M!Next]_M!vars
<1>1. ExchangeInv /\ [Next]_vars => [M!Next]_M!vars
  BY IssuerTakes
<1>2. QED
  BY <1>1, Invariance, PTL DEF Spec

(* The calls of the composition are calls of Verifier, which is given      *)
(* tokens only and reads its own host's clock in whole seconds, a clock    *)
(* that is never set back: the forms a token circulates in, and the ticks  *)
(* within a second, are none of its business (verify.rs:206-304).          *)
THEOREM CallsAreVerifier == Spec => [][P!Next]_P!vars
<1>1. ExchangeInv /\ [Next]_vars => [P!Next]_P!vars
  BY VerifierTakes
<1>2. QED
  BY <1>1, Invariance, PTL DEF Spec

-----------------------------------------------------------------------------
(* What a finished call says of the form it was given. *)
LEMMA RulesAgree ==
    ASSUME NEW tok, NEW terminal, NEW policy, NEW t
    PROVE  P!Violations(tok, terminal, policy, t) = Violations(tok, terminal, policy, t)
<1>1. P!Authentic(tok, policy) <=> Authentic(tok, policy)
  BY DEF P!Authentic, Authentic, P!CandidateKeys, CandidateKeys, P!from_code, from_code
<1>2. ASSUME NEW r PROVE P!BreaksEnvelope(tok, policy, r) <=> BreaksEnvelope(tok, policy, r)
  <2>1. P!Parses(tok) <=> Parses(tok)
    BY DEF P!Parses, Parses
  <2>2. P!from_code(tok.half.alg_code) = from_code(tok.half.alg_code)
    BY DEF P!from_code, from_code
  <2>3. P!Fits(tok.half.sealed.size, policy) <=> Fits(tok.half.sealed.size, policy)
    BY DEF P!Fits, Fits, P!MIN_HALF_BYTES, MIN_HALF_BYTES
  <2>4. QED
    BY <1>1, <2>1, <2>2, <2>3 DEF P!BreaksEnvelope, BreaksEnvelope
<1>3. ASSUME NEW r, NEW x PROVE P!BreaksContent(x, r) <=> BreaksContent(x, r)
  BY DEF P!BreaksContent, BreaksContent
<1>4. ASSUME NEW r, NEW x PROVE P!BreaksPolicy(x, policy, t, r) <=> BreaksPolicy(x, policy, t, r)
  BY DEF P!BreaksPolicy, BreaksPolicy
<1>5. QED
  BY <1>1, <1>2, <1>3, <1>4, PDataAgree DEF P!Violations, Violations

LEMMA Judgment ==
    ASSUME ExchangeInv, NEW c \in Call, pc[c] = "done"
    PROVE  LET broken == Violations(origin[c].token, request[c].terminal, verifier, now[c]) IN
           /\ origin[c] \in Form /\ request[c].terminal \in Terminal
           /\ verifier \in Policy /\ verifier \in Verifiers
           /\ result[c] \in Reason \cup {"Ok"}
           /\ IF result[c] = "Ok" THEN broken = {} ELSE result[c] \in broken
<1>1. /\ P!Knows(c) /\ verifier \in Verifiers /\ verifier \in Policy
      /\ origin[c] \in Form /\ request[c].token = origin[c].token
  BY ExchangeAssumption DEF ExchangeInv, VerifierInv, P!StageInv, Given
<1>2. P!Exact(c) /\ request[c] \in P!Request
  BY <1>1 DEF P!Knows
<1>3. request[c].terminal \in Terminal
  BY <1>2 DEF P!Request, P!Terminal, Terminal
<1> DEFINE broken == Violations(origin[c].token, request[c].terminal, verifier, now[c])
<1>4. IF result[c] = "Ok" THEN broken = {} ELSE result[c] \in broken
  BY <1>1, <1>2, RulesAgree DEF P!Exact, P!token
<1>5. broken \subseteq Reason
  BY DEF Violations
<1>6. QED
  BY <1>1, <1>3, <1>4, <1>5

(* The mandate of a form, where there is one, decodes to what mint() put   *)
(* into it.                                                                *)
LEMMA FormsMandate ==
    ASSUME NEW f \in Form, f.token.mandate # "absent" \/ f.token.half.sealed # None
    PROVE  LET ask == f.mandate_of.asked
               sealed == f.token.half.sealed IN
           /\ f.token.half = f.mandate_of.token.half /\ f.token.mandate = "wellformed"
           /\ SealedBy(IssuerKey, f.token.half)
           /\ sealed.plain.error = None /\ sealed.plain.fields.tid = "v7"
           /\ sealed.plain.fields.exp = ExpiryOf(ask)
           /\ ask.at \in Clock /\ ask.ttl \in Nat
           /\ ExpiryOf(ask) \in NumericDate
           /\ ExpiryOf(ask) <= (ask.at \div Ticks) + ask.ttl
<1>1. f.token \in Token /\ f.mandate_of \in Handed /\ Parses(f.token)
  BY FormTypes
<1>2. f.token.mandate = "wellformed" /\ f.token.half = f.mandate_of.token.half
  BY <1>1, FormTypes, TokenTypes DEF Parses, Shape, NoHalf
<1> DEFINE ask == f.mandate_of.asked
<1>3. ask \in Ask /\ ask.at \in Clock /\ ask.ttl \in Nat
  BY <1>1, MintAssumptions DEF Handed, Ask, M!MintAssumption
<1>4. ask.at \div Ticks \in 0 .. NDMax
  BY <1>3, VerifierSeconds, ExchangeAssumption, ConstantsAssumption DEF Clock
<1>5. ExpiryOf(ask) \in NumericDate /\ ExpiryOf(ask) <= (ask.at \div Ticks) + ask.ttl
  <2> HIDE DEF ask
  <2>1. ask.at \div Ticks \in Nat /\ ask.at \div Ticks <= NDMax
    BY <1>4, ConstantsAssumption
  <2>2. QED
    BY <1>3, <2>1, ConstantsAssumption
       DEF ExpiryOf, saturating_add, now_unix, Least, NumericDate
<1>6. QED
  BY <1>1, <1>2, <1>3, <1>5 DEF Handed

-----------------------------------------------------------------------------
(* The two clocks and the two roundings in whole seconds, at the last      *)
(* admission and at the first rejection.                                   *)
LEMMA LastAdmission ==
    ASSUME NEW at \in Nat, NEW ttl \in Nat, NEW l \in Nat, NEW t \in Nat, NEW e \in Int,
           NEW read \in Int, NEW skew \in Nat, NEW d \in Nat \ {0},
           e <= (at \div d) + ttl, t - l < e, read < (t + 1) * d + skew
    PROVE  read < at + (ttl + l) * d + skew
<1> DEFINE q == at \div d
<1>1. q \in Int /\ q * d <= at
  <2>1. q \in Int /\ at % d \in 0 .. d - 1 /\ at = d * q + (at % d)
    BY DivisionType
  <2> HIDE DEF q
  <2>2. d * q = q * d /\ d * q \in Int
    BY <2>1
  <2>3. QED
    BY <2>1, <2>2
<1> HIDE DEF q
<1>2. t + 1 <= q + (ttl + l)
  BY <1>1 DEF q
<1>3. (t + 1) * d <= (q + (ttl + l)) * d
  BY <1>1, <1>2
<1>4. (q + (ttl + l)) * d = q * d + (ttl + l) * d
  BY <1>1
<1>5. (t + 1) * d \in Int /\ q * d \in Int /\ (ttl + l) * d \in Int
  BY <1>1
<1>6. QED
  BY <1>1, <1>3, <1>4, <1>5

LEMMA FirstRejection ==
    ASSUME NEW l \in Nat, NEW t \in Nat, NEW e \in Int,
           NEW read \in Int, NEW skew \in Nat, NEW d \in Nat \ {0},
           t - l >= e, t * d - skew <= read, l * d >= skew
    PROVE  read >= e * d
<1>1. (e + l) * d <= t * d
  <2>1. e + l <= t
    OBVIOUS
  <2>2. QED
    BY <2>1
<1>2. (e + l) * d = e * d + l * d
  OBVIOUS
<1>3. e * d \in Int /\ l * d \in Int /\ t * d \in Int
  OBVIOUS
<1>4. QED
  BY <1>1, <1>2, <1>3

(* The values a verdict about time compares. *)
LEMMA TimesCompared ==
    ASSUME ExchangeInv, NEW c \in Call, Judged(c), pc[c] = "done",
           origin[c].token.half.sealed # None
    PROVE  /\ asked_for(c).at \in Nat /\ asked_for(c).ttl \in Nat
           /\ exp(c) \in Int /\ exp(c) # None
           /\ exp(c) <= (asked_for(c).at \div Ticks) + asked_for(c).ttl
           /\ origin[c].token.mandate # "absent"
           /\ origin[c].token.half.sealed.plain.fields.exp = exp(c)
           /\ verifier.leeway \in Nat
           /\ now[c] \in Nat /\ now[c] # None /\ now[c] # NDMax
           /\ read_at[c] \in Nat /\ MaxSkew \in Nat /\ Ticks \in Nat \ {0}
           /\ now[c] * Ticks - MaxSkew <= read_at[c]
           /\ read_at[c] < (now[c] + 1) * Ticks + MaxSkew
<1>1. origin[c] \in Form /\ verifier \in Policy
  BY Judgment
<1>2. /\ origin[c].token.half = origin[c].mandate_of.token.half
      /\ origin[c].token.mandate = "wellformed"
      /\ origin[c].token.half.sealed.plain.fields.exp = ExpiryOf(asked_for(c))
      /\ asked_for(c).at \in Clock /\ asked_for(c).ttl \in Nat
      /\ ExpiryOf(asked_for(c)) \in NumericDate
      /\ ExpiryOf(asked_for(c)) <= (asked_for(c).at \div Ticks) + asked_for(c).ttl
  BY <1>1, FormsMandate DEF asked_for
<1>3. exp(c) = ExpiryOf(asked_for(c))
  BY <1>2 DEF exp
<1>4. exp(c) \in Int /\ exp(c) # None
  BY <1>2, <1>3, ConstantsAssumption DEF NumericDate
<1>5. ReadTogether(now[c], read_at[c])
  BY DEF ExchangeInv, Timed
<1>6. /\ now[c] \in Nat /\ now[c] <= Horizon /\ read_at[c] \in Nat /\ asked_for(c).at \in Nat
      /\ MaxSkew \in Nat
  BY <1>2, <1>5, ExchangeAssumption DEF ReadTogether, Clock
<1>7. now[c] \in NumericDate /\ now[c] # NDMax
  BY <1>6, ExchangeAssumption, ConstantsAssumption DEF NumericDate
<1>8. verifier.leeway \in Nat
  <2>1. verifier.leeway \in 0 .. MAX_LEEWAY
    BY <1>1, PolicyTypes
  <2>2. QED
    BY <2>1 DEF MAX_LEEWAY
<1>9. Ticks \in Nat \ {0}
  BY MintAssumptions DEF M!MintAssumption
<1>10. now[c] # None
  BY <1>7, ConstantsAssumption
<1>11. now[c] * Ticks - MaxSkew <= read_at[c] /\ read_at[c] < (now[c] + 1) * Ticks + MaxSkew
  BY <1>5 DEF ReadTogether
<1>12. QED
  BY <1>2, <1>3, <1>4, <1>6, <1>7, <1>8, <1>9, <1>10, <1>11

(* clauses never admits a mandate once the ttl that expires_in was given,  *)
(* the leeway and the skew have passed on the issuer's clock, however long *)
(* the builder was kept (mint.rs), the token was carried and the call took *)
(* (verify.rs), and for both clocks' rounding to whole seconds.            *)
THEOREM AdmissionsEnd == Spec => []AdmittedWithinAsked
<1>1. ExchangeInv => AdmittedWithinAsked
  <2>1. SUFFICES ASSUME ExchangeInv, NEW c \in Call, pc[c] = "done", result[c] = "Ok",
                        request[c].terminal = "clauses"
                 PROVE  read_at[c] < asked_for(c).at
                            + (asked_for(c).ttl + verifier.leeway) * Ticks + MaxSkew
    BY DEF AdmittedWithinAsked, V!Done
  <2> DEFINE tok == origin[c].token
  <2>2. \A r \in Reason : r \notin Violations(tok, "clauses", verifier, now[c])
    BY <2>1, Judgment
  <2>3. Authentic(tok, verifier)
    <3>1. ~BreaksEnvelope(tok, verifier, "AuthFailed")
      BY <2>2 DEF Violations, Reason
    <3>2. QED
      BY <3>1 DEF BreaksEnvelope
  <2>4. tok.half.sealed # None
    BY <2>3 DEF Authentic
  <2>5. tok.half.sealed.plain.error = None
    BY <2>1, <2>4, Judgment, FormsMandate
  <2>6. ~BreaksPolicy(tok.half.sealed.plain.fields, verifier, now[c], "Expired")
    BY <2>2, <2>3, <2>5 DEF Violations, Reason, PolicyReason
  <2>7. Judged(c)
    BY <2>1 DEF Judged
  <2>8. /\ asked_for(c).at \in Nat /\ asked_for(c).ttl \in Nat
        /\ exp(c) \in Int /\ exp(c) # None /\ tok.half.sealed.plain.fields.exp = exp(c)
        /\ exp(c) <= (asked_for(c).at \div Ticks) + asked_for(c).ttl
        /\ verifier.leeway \in Nat /\ MaxSkew \in Nat /\ Ticks \in Nat \ {0}
        /\ now[c] \in Nat /\ now[c] # None /\ read_at[c] \in Nat
        /\ read_at[c] < (now[c] + 1) * Ticks + MaxSkew
    BY <2>1, <2>4, <2>7, TimesCompared
  <2>9. ~(now[c] - verifier.leeway >= exp(c))
    BY <2>6, <2>8 DEF BreaksPolicy
  <2>10. now[c] - verifier.leeway < exp(c)
    BY <2>8, <2>9
  <2>11. QED
    BY <2>8, <2>10, LastAdmission
<1>2. QED
  BY <1>1, Invariance, PTL

(* A leeway of at least the skew is enough: no mandate is rejected as      *)
(* expired (verify.rs) before the issuer's clock reaches its exp.          *)
THEOREM SkewIsCovered == Spec => []LeewayCoversSkew
<1>1. ExchangeInv => LeewayCoversSkew
  <2>1. SUFFICES ASSUME ExchangeInv, NEW c \in Call, pc[c] = "done", result[c] = "Expired",
                        verifier.leeway * Ticks >= MaxSkew
                 PROVE  read_at[c] >= exp(c) * Ticks
    BY DEF LeewayCoversSkew, V!Done
  <2> DEFINE tok == origin[c].token
             content == tok.half.sealed.plain
  <2>2. "Expired" \in Violations(tok, request[c].terminal, verifier, now[c])
    BY <2>1, Judgment
  <2>3. ~BreaksEnvelope(tok, verifier, "Expired")
    BY DEF BreaksEnvelope
  <2>4. /\ Authentic(tok, verifier)
        /\ \/ BreaksContent(content, "Expired")
           \/ /\ request[c].terminal = "clauses"
              /\ BreaksPolicy(content.fields, verifier, now[c], "Expired")
    BY <2>2, <2>3 DEF Violations
  <2>5. tok.half.sealed # None
    BY <2>4 DEF Authentic
  <2>6. content.error = None
    BY <2>1, <2>5, Judgment, FormsMandate
  <2>7. ~BreaksContent(content, "Expired")
    BY <2>6, ConstantsAssumption DEF BreaksContent, Reason, PolicyReason
  <2>8. Judged(c)
    BY <2>1, <2>4, <2>7 DEF Judged
  <2>9. now[c] - verifier.leeway >= exp(c)
    BY <2>1, <2>4, <2>5, <2>7, <2>8, TimesCompared DEF BreaksPolicy
  <2>10. QED
    BY <2>1, <2>5, <2>8, <2>9, TimesCompared, FirstRejection
<1>2. QED
  BY <1>1, Invariance, PTL

-----------------------------------------------------------------------------
(* A mandate that mint() made fits every configured Verifier, so the       *)
(* envelope can only be refused for want of its key.                       *)
LEMMA EnvelopeHolds ==
    ASSUME NEW f \in Form, f.token.mandate # "absent", NEW v \in Verifiers,
           NEW r, BreaksEnvelope(f.token, v, r)
    PROVE  r = "AuthFailed" /\ IssuerKey \notin CandidateKeys(v)
<1> DEFINE half == f.token.half
<1>1. /\ f.token \in Token /\ f.mandate_of \in Handed /\ Parses(f.token)
      /\ f.token.mandate = "wellformed" /\ half = f.mandate_of.token.half
      /\ SealedBy(IssuerKey, half)
  BY FormTypes, FormsMandate
<1>2. half.sealed \in Sealed /\ half.sealed.size \in Nat
  BY <1>1, TokenTypes, SealedTypes DEF SealedBy
<1>3. Fits(half.sealed.size, v)
  <2>1. PICK app \in App : half.sealed.size <= app.size + ReservedSize + 2 + AEAD_TAG
    BY <1>1 DEF Handed
  <2>2. /\ app.size + ReservedSize + 2 + AEAD_TAG <= v.max_decoded_len
        /\ v.max_decoded_len \in 0 .. USizeMax
    BY ExchangeAssumption, PolicyTypes
  <2>3. app.size \in Nat /\ ReservedSize \in Nat
    BY MintAssumptions DEF M!MintAssumption, M!AppRecord
  <2>4. half.sealed.size >= MIN_HALF_BYTES
    BY <1>1 DEF SealedBy
  <2>5. half.sealed.size <= v.max_decoded_len
    BY <1>2, <2>1, <2>2, <2>3, ConstantsAssumption DEF AEAD_TAG
  <2>6. QED
    BY <1>2, <2>2, <2>4, <2>5, ConstantsAssumption DEF Fits, MIN_HALF_BYTES
<1>4. from_code(half.alg_code) # None
  BY <1>1, <1>2, ConstantsAssumption DEF SealedBy
<1>5. ~Authentic(f.token, v) => IssuerKey \notin CandidateKeys(v)
  BY <1>1 DEF Authentic, SealedBy
<1>6. QED
  BY <1>1, <1>3, <1>4, <1>5 DEF BreaksEnvelope, SealedBy

(* A mandate that mint() made of a value that decodes is refused for time, *)
(* audience or a missing key only: what mint.rs:206 writes is, carved at   *)
(* verify.rs:378 or put beside another manifest, what verify.rs:242 judges.*)
THEOREM MintedPasses == Spec => []MintedGetsThrough
<1>1. ExchangeInv => MintedGetsThrough
  <2>1. SUFFICES ASSUME ExchangeInv, NEW c \in Call, pc[c] = "done", result[c] # "Ok"
                 PROVE  Refusable(c, result[c])
    BY DEF MintedGetsThrough
  <2> DEFINE tok == origin[c].token
             content == tok.half.sealed.plain
             r == result[c]
  <2>2. /\ origin[c] \in Form /\ verifier \in Verifiers /\ r \in Reason
        /\ r \in Violations(tok, request[c].terminal, verifier, now[c])
    BY <2>1, Judgment
  <2>3. CASE tok.mandate = "absent"
    BY <2>1, <2>3 DEF ExchangeInv, Emptied, Refusable
  <2>4. CASE tok.mandate # "absent"
    <3>1. /\ content.error = None /\ content.fields.tid = "v7"
          /\ content.fields.exp # None
          /\ content.fields.aud = aud(c)
      BY <2>2, <2>4, FormsMandate, ConstantsAssumption DEF aud
    <3>2. CASE BreaksEnvelope(tok, verifier, r)
      BY <2>2, <2>4, <3>2, EnvelopeHolds DEF Refusable
    <3>3. ~BreaksContent(content, r)
      BY <2>2, <3>1, ConstantsAssumption DEF BreaksContent
    <3>4. CASE request[c].terminal = "clauses" /\ BreaksPolicy(content.fields, verifier, now[c], r)
      BY <3>1, <3>4 DEF BreaksPolicy, Refusable
    <3>5. QED
      BY <2>2, <3>2, <3>3, <3>4 DEF Violations
  <2>5. QED
    BY <2>3, <2>4
<1>2. QED
  BY <1>1, Invariance, PTL

-----------------------------------------------------------------------------
(* What a reader without a key gets of a half sealed under the public key. *)
LEMMA ManifestReads ==
    ASSUME NEW h \in Half, SealedBy(ManifestKey, h), NEW e \in Encoding, WellSized(h, e)
    PROVE  openReadable(h) =
               IF h.sealed.size <= DEFAULT_MAX_DECODED_LEN THEN h.sealed.plain ELSE None
<1>1. /\ h.sealed \in Sealed /\ h.sealed.size \in Nat /\ h.len = encoded_len(h.sealed.size, e)
      /\ h.sealed # None /\ h.len \in 0 .. USizeMax
  BY SealedTypes DEF Half, SealedBy, WellSized
<1>2. from_code(h.alg_code) # None
  BY <1>1, ConstantsAssumption DEF SealedBy, Sealed
<1>3. DEFAULT_MAX_DECODED_LEN \in 0 .. USizeMax /\ DEFAULT_MAX_DECODED_LEN \in Nat
  BY ConstantsAssumption DEF DEFAULT_MAX_DECODED_LEN
<1>4. h.sealed.size <= DEFAULT_MAX_DECODED_LEN => h.len <= EncodedCap(DEFAULT_MAX_DECODED_LEN)
  <2>1. h.len <= USizeMax
    BY <1>1, ConstantsAssumption
  <2>2. QED
    BY <1>1, <1>3, <2>1, CheapBoundIsSound
<1>5. h.sealed.size \in MIN_HALF_BYTES .. DEFAULT_MAX_DECODED_LEN
          <=> h.sealed.size <= DEFAULT_MAX_DECODED_LEN
  <2>1. h.sealed.size >= MIN_HALF_BYTES
    BY DEF SealedBy
  <2>2. QED
    BY <1>1, <1>3, <2>1 DEF MIN_HALF_BYTES
<1>6. Readable(h) <=> h.sealed.size <= DEFAULT_MAX_DECODED_LEN
  BY <1>1, <1>2, <1>4, <1>5 DEF Readable
<1>7. open(h.sealed, ManifestKey, from_code(h.alg_code)) = h.sealed.plain
  BY DEF SealedBy, open
<1>8. QED
  BY <1>6, <1>7 DEF openReadable

(* Without a key one reads the manifest that was sealed, up to the fixed   *)
(* cap, whatever mandate it stands beside, and nothing of the mandate: the *)
(* readers and the carving in verify.rs:323-406, for every token that      *)
(* circulates.                                                             *)
THEOREM OnlyTheManifestShows == Spec => []FrontEndSeesOnlyTheManifest
<1>1. ExchangeInv => FrontEndSeesOnlyTheManifest
  <2>1. SUFFICES ASSUME ExchangeInv, NEW f \in Circulating
                 PROVE  claims(f.token) =
                          IF /\ f.token.manifest = "wellformed" /\ f.manifest.sealed.plain.claims
                             /\ f.manifest.sealed.size <= DEFAULT_MAX_DECODED_LEN
                          THEN f.manifest.sealed.plain ELSE None
    BY DEF FrontEndSeesOnlyTheManifest
  <2>2. f \in Form
    BY <2>1, CirculatingForms DEF ExchangeInv
  <2>3. f.token \in Token /\ Parses(f.token) /\ f.manifest \in Half
    BY <2>2, FormTypes
  <2>4. CASE f.token.manifest = "wellformed"
    <3>1. f.token.manifest_half = f.manifest /\ SealedBy(ManifestKey, f.manifest)
      BY <2>2, <2>4, FormTypes
    <3>2. f.token.encoding \in Encoding /\ WellSized(f.manifest, f.token.encoding)
      BY <2>3, <3>1 DEF Token
    <3>3. manifest_plaintext(f.token) =
            IF f.manifest.sealed.size <= DEFAULT_MAX_DECODED_LEN
            THEN f.manifest.sealed.plain ELSE None
      BY <2>3, <2>4, <3>1, <3>2, ManifestReads DEF manifest_plaintext
    <3>4. f.manifest.sealed.plain # None
      <4>1. f.manifest.sealed.plain \in Plain
        BY <2>3, <3>1, SealedTypes DEF Half, SealedBy
      <4>2. QED
        BY <4>1, ConstantsAssumption
    <3>5. QED
      BY <2>4, <3>3, <3>4 DEF claims
  <2>5. CASE f.token.manifest # "wellformed"
    BY <2>5 DEF claims, manifest_plaintext
  <2>6. QED
    BY <2>4, <2>5
<1>2. QED
  BY <1>1, Invariance, PTL
=============================================================================
