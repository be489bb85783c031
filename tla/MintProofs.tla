----------------------------- MODULE MintProofs -----------------------------
(***************************************************************************)
(* Theorems about Mint, for every application value, lifetime, date, clock *)
(* and resolution of the clock, checked by TLAPS.                          *)
(***************************************************************************)
EXTENDS Mint, MandateProofs, FiniteSetTheorems

-----------------------------------------------------------------------------
(* The clock in whole seconds. *)
LEMMA ClockTypes ==
    ASSUME NEW c \in ClockValue
    PROVE  /\ c \in Int /\ seconds(c) \in Int
           /\ now_unix(seconds(c)) \in 0 .. NDMax
           /\ c >= 0 => seconds(c) \in Nat
<1>1. c \in Int /\ c <= NDMax /\ Ticks \in Nat \ {0}
  BY MintAssumption
<1>2. c \div Ticks \in Int
  BY <1>1, DivisionType
<1>3. IF c < 0 THEN c \div Ticks < 0 ELSE c \div Ticks \in 0 .. c
  BY <1>1, DivisionSign
<1>4. QED
  BY <1>1, <1>2, <1>3, ConstantsAssumption DEF seconds, now_unix

LEMMA DatesOfTheClock ==
    ASSUME NEW t \in 0 .. NDMax
    PROVE  t \in NumericDate
BY ConstantsAssumption DEF NumericDate

(* A clock that has come ttl seconds further than it showed at a, or than  *)
(* 1970, is ttl whole seconds ahead, for all the rounding.                 *)
LEMMA SecondsPass ==
    ASSUME NEW c \in ClockValue, NEW a \in ClockValue, NEW ttl \in Nat,
           c >= Since1970(a) + ttl * Ticks
    PROVE  now_unix(seconds(c)) >= now_unix(seconds(a)) + ttl
<1>1. c \in Int /\ a \in Int /\ Ticks \in Nat \ {0}
  BY MintAssumption
<1> DEFINE s == Since1970(a)
           q == s \div Ticks
<1>2. s \in Nat
  BY <1>1 DEF Since1970
<1>3. q \in Int /\ q * Ticks <= s
  <2> HIDE DEF s
  <2>1. s \div Ticks \in Int /\ s % Ticks >= 0 /\ s = Ticks * (s \div Ticks) + (s % Ticks)
    BY <1>1, <1>2, DivisionType
  <2>2. QED
    BY <1>1, <1>2, <2>1, DivisionType
<1>4. q = now_unix(seconds(a))
  <2>1. CASE a < 0
    BY <1>1, <2>1, DivisionSign DEF Since1970, now_unix, seconds
  <2>2. CASE a >= 0
    BY <1>1, <2>2, DivisionSign DEF Since1970, now_unix, seconds
  <2>3. QED
    BY <1>1, <2>1, <2>2
<1>5. c >= s + ttl * Ticks
  OBVIOUS
<1> HIDE DEF q, s
<1>6. (q + ttl) * Ticks <= c
  <2>1. (q + ttl) * Ticks = q * Ticks + ttl * Ticks
    BY <1>1, <1>3
  <2>2. ttl * Ticks \in Int /\ q * Ticks \in Int
    BY <1>1, <1>3
  <2>3. QED
    BY <1>1, <1>2, <1>3, <1>5, <2>1, <2>2
<1>7. q + ttl <= seconds(c)
  <2>1. q + ttl \in Int
    BY <1>3
  <2>2. q + ttl <= c \div Ticks
    BY <1>1, <1>6, <2>1, DivisionReaches
  <2>3. QED
    BY <2>2 DEF seconds
<1>8. seconds(c) <= now_unix(seconds(c))
  BY ClockTypes DEF now_unix
<1>9. QED
  BY <1>3, <1>4, <1>7, <1>8, ClockTypes

(* A later clock shows no earlier second. *)
LEMMA SecondsMonotone ==
    ASSUME NEW a \in ClockValue, NEW c \in ClockValue, a <= c, 0 <= c
    PROVE  now_unix(seconds(a)) <= seconds(c)
<1>1. a \in Int /\ c \in Int /\ Ticks \in Nat \ {0}
  BY MintAssumption
<1>2. seconds(a) <= seconds(c)
  BY <1>1, DivisionMonotone DEF seconds
<1>3. 0 <= seconds(c)
  BY ClockTypes
<1>4. QED
  BY <1>2, <1>3, ClockTypes DEF now_unix

(* What expires_in stores is a date, at most ttl seconds from now.         *)
ExpiryAt(c, ttl) == saturating_add(now_unix(seconds(c)), Least(ttl, NDMax))

LEMMA ExpiryTypes ==
    ASSUME NEW c \in ClockValue, NEW ttl \in Nat
    PROVE  ExpiryAt(c, ttl) \in NumericDate /\ ExpiryAt(c, ttl) <= now_unix(seconds(c)) + ttl
<1>1. now_unix(seconds(c)) \in 0 .. NDMax
  BY ClockTypes
<1>2. QED
  BY <1>1, ConstantsAssumption DEF ExpiryAt, saturating_add, Least, NumericDate

-----------------------------------------------------------------------------
(* A half that was sealed and encoded is a half of a token. *)
LEMMA SealedHalf ==
    ASSUME NEW p \in Plain, NEW k \in MandateKey \cup {ManifestKey}, NEW a \in Alg,
           NEW e \in Encoding, encoded_len(p.size + AEAD_TAG, e) <= USizeMax
    PROVE  /\ seal(p, k, a) \in Sealed
           /\ HalfText(seal(p, k, a), code(a), e) \in Half
           /\ WellSized(HalfText(seal(p, k, a), code(a), e), e)
<1>1. p.size \in Nat
  BY DEF Plain
<1>2. seal(p, k, a) \in Sealed
  BY <1>1 DEF seal, Sealed, AEAD_TAG
<1>3. encoded_len(p.size + AEAD_TAG, e) \in 0 .. USizeMax
  BY <1>1, ConstantsAssumption DEF encoded_len, AEAD_TAG
<1>4. code(a) \in AlgCode
  BY DEF code, AlgCode
<1>5. HalfText(seal(p, k, a), code(a), e) \in Half
  BY <1>2, <1>3, <1>4 DEF HalfText, Half, seal
<1>6. WellSized(HalfText(seal(p, k, a), code(a), e), e)
  BY <1>1 DEF WellSized, HalfText, seal, AEAD_TAG
<1>7. QED
  BY <1>2, <1>5, <1>6

LEMMA AppTypes ==
    ASSUME NEW app \in App
    PROVE  /\ app.size \in Nat
           /\ app.error \in AppError \cup {None}
           /\ app.decode_error \in DecodeReason \cup {None}
BY MintAssumption DEF AppRecord

LEMMA BuilderTypes ==
    ASSUME NEW b \in Builder
    PROVE  /\ b.app \in App
           /\ b.exp \in NumericDate \cup {None}
           /\ b.tid \in GivenTids \cup {None}
           /\ b.aud \in Audiences \cup {None}
           /\ b.texts \in SUBSET Text
           /\ b.manifest \in App \cup {None}
BY DEF Builder

LEMMA TextsCounted ==
    ASSUME NEW texts \in SUBSET Text
    PROVE  /\ Cardinality(texts) \in Nat /\ Cardinality(Text) \in Nat
           /\ Cardinality(texts) <= Cardinality(Text) /\ Cardinality(Text) = 2
<1>1. IsFiniteSet({"iss"}) /\ Cardinality({"iss"}) = 1
  BY FS_Singleton
<1>2. Text = {"iss"} \cup {"sub"} /\ "sub" \notin {"iss"}
  BY DEF Text
<1>3. IsFiniteSet(Text) /\ Cardinality(Text) = 2
  BY <1>1, <1>2, FS_AddElement
<1>4. QED
  BY <1>3, FS_Subset, FS_CardinalityType

(* Longer plaintexts make longer texts. *)
LEMMA EncodingMonotone ==
    ASSUME NEW m \in Nat, NEW n \in Nat, m <= n, NEW e \in Encoding
    PROVE  encoded_len(m, e) <= encoded_len(n, e)
BY DEF encoded_len

(* The two plaintexts are such as can be sealed, and are held in memory.   *)
LEMMA PlaintextTypes ==
    ASSUME TypeOK, builder # None
    PROVE  /\ mandate_plaintext \in Plain
           /\ encoded_len(mandate_plaintext.size + AEAD_TAG, issuer.encoding) <= USizeMax
           /\ builder.manifest # None =>
                /\ manifest_plaintext \in Plain
                /\ encoded_len(manifest_plaintext.size + AEAD_TAG, issuer.encoding) <= USizeMax
<1>1. builder \in Builder /\ issuer.encoding \in Encoding
  BY DEF TypeOK
<1>2. MintedTid.kind \in {"v7", "other"}
  BY <1>1, BuilderTypes, MintAssumption DEF MintedTid, Tid
<1>3. mandate_plaintext.size \in Nat
  BY <1>1, BuilderTypes, AppTypes, TextsCounted, MintAssumption DEF mandate_plaintext
<1>4. builder.aud \in (SUBSET Identifier) \cup {None}
  BY <1>1, BuilderTypes, MintAssumption
<1>5. mandate_plaintext.fields \in MandateFields
  BY <1>1, <1>2, <1>4, BuilderTypes DEF mandate_plaintext, MandateFields
<1>6. mandate_plaintext \in Plain
  <2>1. builder.app.decode_error \in DecodeReason \cup {None}
    BY <1>1, BuilderTypes, AppTypes
  <2>2. QED
    BY <1>3, <1>5, <2>1 DEF mandate_plaintext, Plain
<1>7. encoded_len(mandate_plaintext.size + AEAD_TAG, issuer.encoding) <= USizeMax
  <2> DEFINE most == builder.app.size + (ReservedSize + Cardinality(Text)) + AEAD_TAG
  <2>1. encoded_len(most, issuer.encoding) <= USizeMax
    BY <1>1, BuilderTypes, FitsInMemory
  <2>2. most \in Nat /\ mandate_plaintext.size + AEAD_TAG \in Nat
        /\ mandate_plaintext.size + AEAD_TAG <= most
    BY <1>1, BuilderTypes, AppTypes, TextsCounted, MintAssumption
       DEF mandate_plaintext, AEAD_TAG
  <2> HIDE DEF most
  <2>3. encoded_len(mandate_plaintext.size + AEAD_TAG, issuer.encoding)
            <= encoded_len(most, issuer.encoding)
    BY <1>1, <2>2, EncodingMonotone
  <2>4. encoded_len(most, issuer.encoding) \in Int
        /\ encoded_len(mandate_plaintext.size + AEAD_TAG, issuer.encoding) \in Int
    BY <2>2 DEF encoded_len
  <2>5. QED
    BY <2>1, <2>3, <2>4, ConstantsAssumption
<1>8. ASSUME builder.manifest # None
      PROVE  /\ manifest_plaintext \in Plain
             /\ encoded_len(manifest_plaintext.size + AEAD_TAG, issuer.encoding) <= USizeMax
  <2>1. builder.manifest \in App
    BY <1>1, <1>8, BuilderTypes
  <2>2. manifest_plaintext.size \in Nat /\ builder.manifest.decode_error \in DecodeReason \cup {None}
    BY <2>1, AppTypes, MintAssumption DEF manifest_plaintext
  <2>3. manifest_plaintext.fields \in MandateFields
    BY DEF manifest_plaintext, MandateFields
  <2>4. manifest_plaintext \in Plain
    BY <2>2, <2>3 DEF manifest_plaintext, Plain
  <2>5. encoded_len(manifest_plaintext.size + AEAD_TAG, issuer.encoding) <= USizeMax
    BY <1>1, <2>1, FitsInMemory DEF manifest_plaintext
  <2>6. QED
    BY <2>4, <2>5
<1>9. QED
  BY <1>6, <1>7, <1>8

LEMMA AssembledTypes ==
    ASSUME TypeOK, builder # None
    PROVE  Assembled \in Token /\ Assembled.half.sealed \in Sealed
<1> DEFINE half == HalfText(seal(mandate_plaintext, IssuerKey, issuer.alg),
                            code(issuer.alg), issuer.encoding)
           manifest_half ==
               HalfText(seal(manifest_plaintext, ManifestKey, issuer.manifest_alg),
                        code(issuer.manifest_alg), issuer.encoding)
<1>1. issuer.alg \in Alg /\ issuer.manifest_alg \in Alg /\ issuer.encoding \in Encoding
  BY DEF TypeOK
<1>2. half \in Half /\ WellSized(half, issuer.encoding) /\ half.sealed \in Sealed
  <2>1. half.sealed = seal(mandate_plaintext, IssuerKey, issuer.alg)
    BY DEF HalfText
  <2> HIDE DEF half
  <2>2. QED
    BY <1>1, <2>1, PlaintextTypes, SealedHalf, MintAssumption DEF half
<1>3. builder.manifest # None => manifest_half \in Half /\ WellSized(manifest_half, issuer.encoding)
  BY <1>1, PlaintextTypes, SealedHalf
<1>4. NoHalf \in Half /\ WellSized(NoHalf, issuer.encoding)
  BY ConstantsAssumption DEF NoHalf, Half, WellSized, AlgCode, DEFAULT_MAX_DECODED_LEN
<1> HIDE DEF half, manifest_half
<1>5. Assembled = [ encoding |-> issuer.encoding, mandate |-> "wellformed",
                    manifest |-> IF builder.manifest = None THEN "absent" ELSE "wellformed",
                    half |-> half,
                    manifest_half |-> IF builder.manifest = None THEN NoHalf ELSE manifest_half ]
  BY DEF Assembled, AssembledAs, half, manifest_half
<1>6. QED
  BY <1>1, <1>2, <1>3, <1>4, <1>5 DEF Token, Shape

-----------------------------------------------------------------------------
(* mint() returned what the request it consumed is worth: the first error, *)
(* or the token assembled from it.                                         *)
Accounted ==
    outcome # None =>
        /\ builder # None
        /\ outcome.error = mint_error
        /\ outcome.error = None => outcome.token = Assembled

(* An expires_in() still in force is the expiry of the request.            *)
Remembered ==
    asked # None =>
        builder # None /\ builder.exp = ExpiryAt(asked.at, asked.ttl)

(* On a clock never set back the call is past, and no tid that mint() made *)
(* was stamped before it.                                                  *)
ClockRan == Monotone /\ asked # None => asked.at <= clock

Stamped ==
    Monotone /\ Minted /\ asked # None /\ builder.tid = None =>
        outcome.issued_at >= now_unix(seconds(asked.at))

MintInv == TypeOK /\ Accounted /\ Remembered /\ ClockRan /\ Stamped

LEMMA InvInit == Init => MintInv
BY ConstantsAssumption
   DEF Init, MintInv, TypeOK, Accounted, Remembered, ClockRan, Stamped, Minted, Alg, Encoding

(* What mint() gives does not depend on the clock, but for the tid it      *)
(* stamps.                                                                 *)
LEMMA AssembledUnmoved ==
    ASSUME UNCHANGED <<issuer, builder>>
    PROVE  mint_error' = mint_error /\ Assembled' = Assembled
<1>1. MintedTid.kind' = MintedTid.kind
  BY DEF MintedTid
<1>2. mandate_plaintext' = mandate_plaintext
  BY <1>1 DEF mandate_plaintext
<1>3. manifest_plaintext' = manifest_plaintext
  BY DEF manifest_plaintext
<1>4. Assembled' = Assembled
  BY <1>2, <1>3 DEF Assembled, AssembledAs
<1>5. mint_error' = mint_error
  BY DEF mint_error, mandate_error, manifest_error
<1>6. QED
  BY <1>4, <1>5

LEMMA InvTick ==
    ASSUME MintInv, NEW t \in ClockValue, Tick(t)
    PROVE  MintInv'
<1>1. UNCHANGED <<issuer, builder, outcome, asked>> /\ clock' = t
  BY DEF Tick
<1>2. TypeOK'
  BY <1>1 DEF MintInv, TypeOK
<1>3. Accounted'
  BY <1>1, AssembledUnmoved DEF MintInv, Accounted
<1>4. Remembered'
  BY <1>1 DEF MintInv, Remembered, ExpiryAt, seconds
<1>5. ClockRan'
  <2>1. SUFFICES ASSUME Monotone, asked # None PROVE asked.at <= t
    BY <1>1 DEF ClockRan
  <2>2. clock < t /\ asked.at <= clock
    BY <2>1 DEF Tick, MintInv, ClockRan
  <2>3. clock \in Int /\ t \in Int /\ asked.at \in Int
    BY <2>1, MintAssumption DEF MintInv, TypeOK
  <2>4. QED
    BY <2>2, <2>3
<1>6. Stamped'
  BY <1>1 DEF MintInv, Stamped, Minted, seconds
<1>7. QED
  BY <1>2, <1>3, <1>4, <1>5, <1>6 DEF MintInv

(* A call before there is a builder, of Issuer or Issuer::clauses. *)
LEMMA InvConfigure ==
    ASSUME MintInv, NEW i \in [alg : Alg, manifest_alg : Alg, encoding : Encoding],
           ConfigureIssuer(i)
    PROVE  MintInv'
BY DEF ConfigureIssuer, MintInv, TypeOK, Accounted, Remembered, ClockRan, Stamped, Minted

LEMMA InvBegin ==
    ASSUME MintInv, NEW app \in App, Begin(app)
    PROVE  MintInv'
<1>1. NewBuilder(app) \in Builder
  BY DEF NewBuilder, Builder
<1>2. QED
  BY <1>1 DEF Begin, MintInv, TypeOK, Accounted, Remembered, ClockRan, Stamped, Minted

(* A call of the builder before mint(), which keeps or renews what is      *)
(* remembered of expires_in.                                               *)
LEMMA InvFill ==
    ASSUME MintInv, NEW b \in Builder, Fill(b),
           asked' \in [at : ClockValue, ttl : Ttls] \cup {None},
           asked' # None => b.exp = ExpiryAt(asked'.at, asked'.ttl),
           asked' = asked \/ asked' = None \/ asked'.at = clock
    PROVE  MintInv'
<1>1. b # None
  BY NoBuilderAssumption
<1>2. TypeOK'
  BY DEF Fill, MintInv, TypeOK
<1>3. Accounted' /\ Stamped'
  BY DEF Fill, MintInv, Accounted, Stamped, Minted
<1>4. Remembered'
  BY <1>1 DEF Fill, MintInv, Remembered, ExpiryAt, seconds
<1>5. ClockRan'
  BY MintAssumption DEF Fill, MintInv, ClockRan, TypeOK
<1>6. QED
  BY <1>2, <1>3, <1>4, <1>5 DEF MintInv

LEMMA InvFilled ==
    ASSUME MintInv,
           \/ \E app \in App : SetManifest(app)
           \/ \E t \in Dates : SetExp(t)
           \/ \E ttl \in Ttls : ExpiresIn(ttl)
           \/ \E t \in GivenTids : SetTid(t)
           \/ \E ids \in Audiences : SetAudience(ids)
           \/ \E f \in Text : SetText(f)
    PROVE  MintInv'
<1>1. clock \in ClockValue /\ builder # None /\ builder \in Builder
      /\ asked \in [at : ClockValue, ttl : Ttls] \cup {None}
  BY DEF MintInv, TypeOK, SetManifest, SetExp, ExpiresIn, SetTid, SetAudience, SetText, Fill
<1>2. asked # None => builder.exp = ExpiryAt(asked.at, asked.ttl)
  BY DEF MintInv, Remembered
<1>3. ASSUME NEW app \in App, SetManifest(app) PROVE MintInv'
  <2>1. [builder EXCEPT !.manifest = app] \in Builder
        /\ [builder EXCEPT !.manifest = app].exp = builder.exp
    BY <1>1 DEF Builder
  <2>2. QED
    BY <1>1, <1>2, <1>3, <2>1, InvFill DEF SetManifest
<1>4. ASSUME NEW t \in Dates, SetExp(t) PROVE MintInv'
  <2>1. [builder EXCEPT !.exp = t] \in Builder
    BY <1>1, MintAssumption DEF Builder
  <2>2. QED
    BY <1>4, <2>1, InvFill DEF SetExp
<1>5. ASSUME NEW ttl \in Ttls, ExpiresIn(ttl) PROVE MintInv'
  <2>1. ExpiryIn(ttl) = ExpiryAt(clock, ttl) /\ ExpiryIn(ttl) \in NumericDate
    BY <1>1, ExpiryTypes, MintAssumption DEF ExpiryIn, ExpiryAt
  <2>2. [builder EXCEPT !.exp = ExpiryIn(ttl)] \in Builder
        /\ [builder EXCEPT !.exp = ExpiryIn(ttl)].exp = ExpiryAt(clock, ttl)
    BY <1>1, <2>1 DEF Builder
  <2>3. asked' = [at |-> clock, ttl |-> ttl] /\ Fill([builder EXCEPT !.exp = ExpiryIn(ttl)])
    BY <1>5 DEF ExpiresIn
  <2> HIDE DEF Fill
  <2>4. asked' \in [at : ClockValue, ttl : Ttls] /\ asked'.at = clock /\ asked'.ttl = ttl
    BY <1>1, <2>3
  <2>5. QED
    BY <2>2, <2>3, <2>4, InvFill
<1>6. ASSUME NEW t \in GivenTids, SetTid(t) PROVE MintInv'
  <2>1. [builder EXCEPT !.tid = t] \in Builder
        /\ [builder EXCEPT !.tid = t].exp = builder.exp
    BY <1>1 DEF Builder
  <2>2. QED
    BY <1>1, <1>2, <1>6, <2>1, InvFill DEF SetTid
<1>7. ASSUME NEW ids \in Audiences, SetAudience(ids) PROVE MintInv'
  <2>1. [builder EXCEPT !.aud = ids] \in Builder
        /\ [builder EXCEPT !.aud = ids].exp = builder.exp
    BY <1>1 DEF Builder
  <2>2. QED
    BY <1>1, <1>2, <1>7, <2>1, InvFill DEF SetAudience
<1>8. ASSUME NEW f \in Text, SetText(f) PROVE MintInv'
  <2>1. [builder EXCEPT !.texts = @ \cup {f}] \in Builder
        /\ [builder EXCEPT !.texts = @ \cup {f}].exp = builder.exp
    BY <1>1 DEF Builder
  <2>2. QED
    BY <1>1, <1>2, <1>8, <2>1, InvFill DEF SetText
<1>9. QED
  BY <1>3, <1>4, <1>5, <1>6, <1>7, <1>8

LEMMA MintErrorTypes ==
    ASSUME TypeOK, builder # None
    PROVE  mint_error \in MintError \cup {None}
<1>1. /\ builder.app.error \in AppError \cup {None}
      /\ builder.manifest # None => builder.manifest.error \in AppError \cup {None}
  BY BuilderTypes, AppTypes DEF TypeOK
<1>2. /\ AppError \subseteq MintError
      /\ "MissingExp" \in MintError /\ "EmptyAudience" \in MintError
      /\ "BadTid" \in MintError /\ "UnsupportedAlg" \in MintError
  BY DEF MintError
<1>3. mandate_error \in MintError \cup {None}
  BY <1>1, <1>2 DEF mandate_error
<1>4. manifest_error \in MintError \cup {None}
  BY <1>1, <1>2 DEF manifest_error
<1>5. QED
  BY <1>3, <1>4 DEF mint_error

LEMMA InvMint ==
    ASSUME MintInv, MintToken
    PROVE  MintInv'
<1>1. /\ TypeOK /\ builder # None /\ builder \in Builder /\ clock \in ClockValue
      /\ UNCHANGED <<clock, issuer, builder, asked>>
      /\ ReadsClock => clock >= 0
  BY DEF MintInv, TypeOK, MintToken
<1>2. mint_error' = mint_error /\ Assembled' = Assembled
  BY <1>1, AssembledUnmoved
<1>3. CASE mint_error # None
  <2>1. outcome' = [error |-> mint_error] /\ mint_error \in MintError
    BY <1>1, <1>3, MintErrorTypes DEF MintToken
  <2>2. QED
    BY <1>1, <1>2, <1>3, <2>1
       DEF MintInv, TypeOK, Outcome, Accounted, Remembered, ClockRan, Stamped, Minted,
           ExpiryAt, seconds
<1>4. CASE mint_error = None
  <2>1. outcome' = [error |-> None, token |-> Assembled, issued_at |-> tid_issued_at(MintedTid)]
    BY <1>4 DEF MintToken
  <2>2. /\ MintedTid.stamp \in Nat
        /\ builder.tid = None => MintedTid.stamp = clock /\ clock >= 0
    <3>1. builder.tid = None => clock >= 0
      BY <1>1, <1>4, MintAssumption DEF ReadsClock, MintError
    <3>2. clock \in Int
      BY <1>1, ClockTypes
    <3>3. builder.tid # None => builder.tid.stamp \in Nat
      BY <1>1, BuilderTypes, MintAssumption DEF Tid
    <3>4. QED
      BY <3>1, <3>2, <3>3 DEF MintedTid
  <2>3. tid_issued_at(MintedTid) \in Nat
    BY <2>2, DivisionSign, MintAssumption DEF tid_issued_at, seconds
  <2>4. TypeOK'
    BY <1>1, <2>1, <2>3, AssembledTypes DEF TypeOK, Outcome
  <2>5. Accounted'
    BY <1>1, <1>2, <1>4, <2>1 DEF Accounted
  <2>6. Remembered' /\ ClockRan'
    BY <1>1 DEF MintInv, Remembered, ClockRan, ExpiryAt, seconds
  <2>7. Stamped'
    <3>1. SUFFICES ASSUME Monotone, asked # None, builder.tid = None
                   PROVE  tid_issued_at(MintedTid) >= now_unix(seconds(asked.at))
      BY <1>1, <2>1 DEF Stamped, seconds
    <3>2. asked.at \in ClockValue /\ asked.at <= clock
      BY <3>1 DEF MintInv, TypeOK, ClockRan
    <3>3. tid_issued_at(MintedTid) = seconds(clock)
      BY <2>2, <3>1 DEF tid_issued_at
    <3>4. now_unix(seconds(asked.at)) <= seconds(clock)
      BY <1>1, <2>2, <3>1, <3>2, SecondsMonotone, ClockTypes
    <3>5. QED
      BY <1>1, <3>2, <3>3, <3>4, ClockTypes
  <2>8. QED
    BY <2>4, <2>5, <2>6, <2>7 DEF MintInv
<1>5. QED
  BY <1>3, <1>4

LEMMA InvNext == MintInv /\ [Next]_vars => MintInv'
<1> SUFFICES ASSUME MintInv, [Next]_vars PROVE MintInv'
  OBVIOUS
<1>1. CASE \E t \in ClockValue : Tick(t)
  BY <1>1, InvTick
<1>2. CASE \/ \E a \in Alg : SetAlg(a) \/ SetManifestAlg(a)
           \/ \E e \in Encoding : SetEncoding(e)
  <2>1. issuer \in [alg : Alg, manifest_alg : Alg, encoding : Encoding]
    BY DEF MintInv, TypeOK
  <2>2. PICK i \in [alg : Alg, manifest_alg : Alg, encoding : Encoding] : ConfigureIssuer(i)
    BY <1>2, <2>1 DEF SetAlg, SetManifestAlg, SetEncoding
  <2>3. QED
    BY <2>2, InvConfigure
<1>3. CASE \E app \in App : Begin(app)
  BY <1>3, InvBegin
<1>4. CASE MintToken
  BY <1>4, InvMint
<1>5. CASE Discard
  BY <1>5 DEF Discard, MintInv, TypeOK, Accounted, Remembered, ClockRan, Stamped, Minted
<1>6. CASE UNCHANGED vars
  BY <1>6, AssembledUnmoved
     DEF vars, MintInv, TypeOK, Accounted, Remembered, ClockRan, Stamped, Minted, ExpiryAt, seconds
<1>7. QED
  BY <1>1, <1>2, <1>3, <1>4, <1>5, <1>6, InvFilled DEF Next

LEMMA Invariance == Spec => []MintInv
BY InvInit, InvNext, PTL DEF Spec

(* Every value is what the Rust type of its place allows: the expiry that  *)
(* expires_in computes never overflows, and what mint() returns is a token *)
(* that fits in memory.                                                    *)
THEOREM TypeCorrect == Spec => []TypeOK
<1>1. MintInv => TypeOK
  BY DEF MintInv
<1>2. QED
  BY <1>1, Invariance, PTL

-----------------------------------------------------------------------------
(* The early returns of mint() are its rules: it fails exactly when one is *)
(* broken, with the error of one that is.                                  *)
LEMMA ErrorsAreBreaches ==
    ASSUME TypeOK, builder # None
    PROVE  IF mint_error = None THEN \A r \in MintError : ~Breaks(r) ELSE Breaks(mint_error)
<1>1. /\ builder.app.error \in AppError \cup {None}
      /\ builder.manifest # None => builder.manifest.error \in AppError \cup {None}
      /\ builder.tid # None => builder.tid.kind \in {"v7", "other"}
  BY BuilderTypes, AppTypes, MintAssumption DEF TypeOK, Tid
<1>2. CASE mint_error = None
  <2>1. None \notin MintError
    BY MintAssumption
  <2>2. mandate_error = None /\ manifest_error = None
    BY <1>2 DEF mint_error
  <2>3. /\ builder.exp # None /\ builder.aud # {}
        /\ builder.tid # None => builder.tid.kind = "v7"
        /\ builder.app.error = None /\ issuer.alg \in CompiledAlgs
    BY <2>1, <2>2 DEF mandate_error, MintError
  <2>4. builder.manifest # None =>
            builder.manifest.error = None /\ issuer.manifest_alg \in CompiledAlgs
    BY <2>1, <2>2 DEF manifest_error, MintError
  <2>5. UsedAlgs \subseteq CompiledAlgs /\ \A v \in Values : v.error = None
    BY <2>3, <2>4 DEF UsedAlgs, Values
  <2>6. QED
    BY <1>2, <2>1, <2>3, <2>5 DEF Breaks
<1>3. CASE mint_error # None /\ mandate_error # None
  <2>1. mint_error = mandate_error /\ issuer.alg \in UsedAlgs /\ builder.app \in Values
    BY <1>3 DEF mint_error, UsedAlgs, Values
  <2>2. QED
    BY <1>1, <1>3, <2>1 DEF mandate_error, Breaks
<1>4. CASE mint_error # None /\ mandate_error = None
  <2>1. mint_error = manifest_error /\ builder.manifest # None
    BY <1>4 DEF mint_error, manifest_error
  <2>2. issuer.manifest_alg \in UsedAlgs /\ builder.manifest \in Values
    BY <2>1 DEF UsedAlgs, Values
  <2>3. QED
    BY <1>4, <2>1, <2>2 DEF manifest_error, Breaks
<1>5. QED
  BY <1>2, <1>3, <1>4

(* mint() gives a token exactly when the request breaks none of its rules, *)
(* whatever calls of the builder were made before and in whatever order.   *)
THEOREM MintsExactly == Spec => []MintExact
<1>1. MintInv => MintExact
  <2>1. SUFFICES ASSUME MintInv, outcome # None
                 PROVE  IF Minted THEN \A r \in MintError : ~Breaks(r) ELSE Breaks(outcome.error)
    BY DEF MintExact
  <2>2. TypeOK /\ builder # None /\ outcome.error = mint_error
    BY <2>1 DEF MintInv, Accounted
  <2>3. QED
    BY <2>1, <2>2, ErrorsAreBreaches DEF Minted
<1>2. QED
  BY <1>1, Invariance, PTL

-----------------------------------------------------------------------------
(* What a token that was minted looks like to the verifier. *)
LEMMA MintedForm ==
    ASSUME MintInv, Minted
    PROVE  /\ TypeOK /\ builder # None /\ outcome # None
           /\ token = Assembled /\ mint_error = None
           /\ builder.exp \in NumericDate /\ expiry = builder.exp
           /\ token.half = HalfText(seal(mandate_plaintext, IssuerKey, issuer.alg),
                                    code(issuer.alg), issuer.encoding)
           /\ token.half.sealed \in Sealed
<1>1. TypeOK /\ outcome # None /\ outcome.error = None
  BY DEF MintInv, Minted
<1>2. builder # None /\ mint_error = None /\ token = Assembled
  BY <1>1 DEF MintInv, Accounted, token
<1>3. token.half = HalfText(seal(mandate_plaintext, IssuerKey, issuer.alg),
                           code(issuer.alg), issuer.encoding)
  BY <1>2 DEF Assembled, AssembledAs
<1>4. expiry = builder.exp
  BY <1>3 DEF expiry, HalfText, seal, mandate_plaintext
<1>5. ~Breaks("MissingExp")
  BY <1>1, <1>2, ErrorsAreBreaches DEF MintError
<1>6. builder.exp \in NumericDate
  BY <1>1, <1>2, <1>5, BuilderTypes DEF Breaks, TypeOK
<1>7. token.half.sealed \in Sealed
  BY <1>1, <1>2, AssembledTypes
<1>8. QED
  BY <1>1, <1>2, <1>3, <1>4, <1>6, <1>7

(* Both halves as their readers find them: each sealed with the algorithm  *)
(* it names, the mandate under the issuer's key and the manifest under the *)
(* public one.                                                             *)
LEMMA MintedHalves ==
    ASSUME MintInv, Minted
    PROVE  LET h == token.half
               p == token.manifest_half IN
           /\ token.mandate = "wellformed" /\ token.manifest \in {"absent", "wellformed"}
           /\ h.sealed \in Sealed /\ h.sealed.key = IssuerKey
           /\ from_code(h.alg_code) = h.sealed.alg /\ h.sealed.alg \in CompiledAlgs
           /\ h.sealed.size >= MIN_HALF_BYTES
           /\ h.sealed.size <= builder.app.size + ReservedSize + 2 + AEAD_TAG
           /\ h.sealed.plain.error = builder.app.decode_error
           /\ h.sealed.plain.fields.tid = "v7"
           /\ token.manifest = "wellformed" =>
                /\ p.sealed \in Sealed /\ p.sealed.key = ManifestKey
                /\ from_code(p.alg_code) = p.sealed.alg /\ p.sealed.alg \in CompiledAlgs
                /\ p.sealed.size >= MIN_HALF_BYTES
<1>1. /\ TypeOK /\ builder # None /\ mint_error = None /\ token = Assembled
      /\ builder \in Builder /\ issuer.alg \in Alg /\ issuer.manifest_alg \in Alg
      /\ issuer.encoding \in Encoding
      /\ token.half = HalfText(seal(mandate_plaintext, IssuerKey, issuer.alg),
                               code(issuer.alg), issuer.encoding)
      /\ token.half.sealed \in Sealed
  BY MintedForm DEF TypeOK
<1>2. ~Breaks("UnsupportedAlg") /\ ~Breaks("BadTid")
  BY <1>1, ErrorsAreBreaches DEF MintError
<1>3. \A a \in Alg : from_code(code(a)) = a
  BY DEF from_code, code, Alg
<1>4. /\ token.mandate = "wellformed"
      /\ token.manifest = IF builder.manifest = None THEN "absent" ELSE "wellformed"
      /\ builder.manifest # None =>
            token.manifest_half = HalfText(seal(manifest_plaintext, ManifestKey, issuer.manifest_alg),
                                          code(issuer.manifest_alg), issuer.encoding)
  BY <1>1 DEF Assembled, AssembledAs
<1>5. /\ token.half.sealed.key = IssuerKey /\ token.half.sealed.alg = issuer.alg
      /\ token.half.alg_code = code(issuer.alg)
      /\ token.half.sealed.plain = mandate_plaintext
      /\ token.half.sealed.size = mandate_plaintext.size + AEAD_TAG
  BY <1>1 DEF HalfText, seal
<1>6. issuer.alg \in CompiledAlgs
  BY <1>2 DEF Breaks, UsedAlgs
<1>7. /\ token.half.sealed.size >= MIN_HALF_BYTES
      /\ token.half.sealed.size <= builder.app.size + ReservedSize + 2 + AEAD_TAG
  BY <1>1, <1>5, BuilderTypes, AppTypes, TextsCounted, MintAssumption
     DEF mandate_plaintext, AEAD_TAG, MIN_HALF_BYTES
<1>8. MintedTid.kind = "v7"
  BY <1>1, <1>2, BuilderTypes, MintAssumption DEF MintedTid, Breaks, Tid
<1>9. /\ token.half.sealed.plain.error = builder.app.decode_error
      /\ token.half.sealed.plain.fields.tid = "v7"
  BY <1>5, <1>8 DEF mandate_plaintext
<1>10. ASSUME token.manifest = "wellformed"
       PROVE  /\ token.manifest_half.sealed \in Sealed
              /\ token.manifest_half.sealed.key = ManifestKey
              /\ from_code(token.manifest_half.alg_code) = token.manifest_half.sealed.alg
              /\ token.manifest_half.sealed.alg \in CompiledAlgs
              /\ token.manifest_half.sealed.size >= MIN_HALF_BYTES
  <2>1. builder.manifest # None /\ builder.manifest \in App
    BY <1>1, <1>4, <1>10, BuilderTypes
  <2>2. issuer.manifest_alg \in CompiledAlgs
    BY <1>2, <2>1 DEF Breaks, UsedAlgs
  <2>3. /\ token.manifest_half.sealed = seal(manifest_plaintext, ManifestKey, issuer.manifest_alg)
        /\ token.manifest_half.alg_code = code(issuer.manifest_alg)
    BY <1>4, <2>1 DEF HalfText
  <2>4. seal(manifest_plaintext, ManifestKey, issuer.manifest_alg) \in Sealed
    BY <1>1, <2>1, PlaintextTypes, SealedHalf
  <2>5. manifest_plaintext.size + AEAD_TAG >= MIN_HALF_BYTES
    BY <2>1, AppTypes, MintAssumption DEF manifest_plaintext, AEAD_TAG, MIN_HALF_BYTES
  <2>6. QED
    BY <1>1, <1>3, <2>2, <2>3, <2>4, <2>5 DEF seal
<1>11. QED
  BY <1>1, <1>3, <1>4, <1>5, <1>6, <1>7, <1>9, <1>10

(* The default Verifier that has the issuer's key. *)
LEMMA CheckerKeys ==
    ASSUME NEW id
    PROVE  CandidateKeys(Checker(id)) = {IssuerKey}
BY DEF CandidateKeys, Checker

LEMMA MintedIsAuthentic ==
    ASSUME MintInv, Minted, NEW id
    PROVE  /\ token.half.sealed # None
           /\ token.half.sealed.plain = mandate_plaintext
           /\ from_code(token.half.alg_code) # None
           /\ Authentic(token, Checker(id))
<1>1. token.half.sealed.plain = mandate_plaintext
  BY MintedForm DEF HalfText, seal
<1>2. token.half.sealed # None /\ from_code(token.half.alg_code) # None
  BY MintedHalves, ConstantsAssumption
<1>3. QED
  BY <1>1, <1>2, MintedHalves, CheckerKeys DEF Authentic

(* No rule but expiry is broken by a minted token that fits, is meant for  *)
(* the verifier and decodes; expiry is broken from its date on.            *)
THEOREM MintedAdmitted == Spec => []MintedIsAdmitted
<1>1. MintInv => MintedIsAdmitted
  <2>1. SUFFICES ASSUME MintInv, Minted, NEW id \in Identifier,
                        NEW c \in ClockValue, Intended(id), builder.app.decode_error = None,
                        Fits(token.half.sealed.size, Checker(id))
                 PROVE  Violations(token, "clauses", Checker(id), now_unix(seconds(c)))
                            = IF now_unix(seconds(c)) >= expiry THEN {"Expired"} ELSE {}
    BY DEF MintedIsAdmitted
  <2> DEFINE t == now_unix(seconds(c))
             fields == token.half.sealed.plain.fields
  <2>2. /\ TypeOK /\ builder # None /\ token = Assembled
        /\ builder.exp \in NumericDate /\ expiry = builder.exp /\ mint_error = None
    BY <2>1, MintedForm
  <2>3. t \in NumericDate /\ t <= NDMax
    BY <2>1, ClockTypes, DatesOfTheClock
  <2>4. /\ token.half.sealed # None /\ token.half.sealed.plain = mandate_plaintext
        /\ from_code(token.half.alg_code) # None /\ Authentic(token, Checker(id))
    BY <2>1, MintedIsAuthentic
  <2> HIDE DEF t, fields
  <2>5. /\ token.half.sealed.plain.error = None
        /\ fields.exp = builder.exp /\ fields.tid = MintedTid.kind /\ fields.aud = builder.aud
    BY <2>1, <2>4 DEF mandate_plaintext, fields
  <2>6. fields.tid = "v7"
    <3>1. builder.tid # None => builder.tid.kind \in {"v7", "other"}
      BY <2>2, BuilderTypes, MintAssumption DEF TypeOK, Tid
    <3>2. ~Breaks("BadTid")
      BY <2>2, ErrorsAreBreaches DEF MintError
    <3>3. QED
      BY <2>5, <3>1, <3>2 DEF MintedTid, Breaks
  <2>7. builder.exp # None /\ t # None /\ None \notin Reason
    BY <2>2, <2>3, ConstantsAssumption
  <2>8. \A r \in Reason : ~BreaksEnvelope(token, Checker(id), r)
    <3>1. Parses(token) /\ token.mandate # "absent"
      BY <2>2 DEF Assembled, AssembledAs, Parses
    <3>2. QED
      BY <2>1, <2>4, <3>1 DEF BreaksEnvelope
  <2>9. \A r \in Reason : ~BreaksContent(token.half.sealed.plain, r)
    BY <2>5, <2>6, <2>7 DEF BreaksContent, fields
  <2>10. \A r \in Reason : BreaksPolicy(fields, Checker(id), t, r)
                                <=> r = "Expired" /\ t >= expiry
    <3>1. /\ Checker(id).leeway = 0 /\ Checker(id).audience = id
      BY DEF Checker
    <3>2. (t - 0 >= fields.exp \/ t = NDMax) <=> t >= expiry
      BY <2>2, <2>3, <2>5, ConstantsAssumption DEF NumericDate
    <3>3. ~(fields.aud # None /\ Checker(id).audience \notin fields.aud)
      BY <2>1, <2>5, <3>1 DEF Intended
    <3>4. QED
      BY <2>5, <2>6, <2>7, <3>1, <3>2, <3>3 DEF BreaksPolicy
  <2>11. Violations(token, "clauses", Checker(id), t)
            = { r \in Reason : r = "Expired" /\ t >= expiry }
    BY <2>4, <2>5, <2>8, <2>9, <2>10 DEF Violations, fields
  <2>12. "Expired" \in Reason
    BY DEF Reason, PolicyReason
  <2>13. QED
    BY <2>11, <2>12 DEF t
<1>2. QED
  BY <1>1, Invariance, PTL

-----------------------------------------------------------------------------
(* A default Verifier refuses what was minted once its expiry is past,     *)
(* whatever else it might refuse it for.                                   *)
LEMMA RefusedWhenPast ==
    ASSUME MintInv, Minted, NEW id, NEW t \in NumericDate, t >= expiry
    PROVE  Violations(token, "clauses", Checker(id), t) # {}
<1> DEFINE plain == token.half.sealed.plain
<1>1. /\ TypeOK /\ builder # None /\ builder.exp \in NumericDate /\ expiry = builder.exp
      /\ token.half.sealed.plain = mandate_plaintext /\ Authentic(token, Checker(id))
  BY MintedForm, MintedIsAuthentic
<1>2. CASE plain.error # None
  <2>1. plain.error \in Reason
    BY <1>1, <1>2, BuilderTypes, AppTypes DEF mandate_plaintext, TypeOK, Reason
  <2>2. BreaksContent(plain, plain.error)
    BY DEF BreaksContent
  <2>3. QED
    BY <1>1, <2>1, <2>2 DEF Violations
<1>3. CASE plain.error = None
  <2>1. plain.fields.exp = builder.exp /\ builder.exp # None /\ t # None
    BY <1>1, ConstantsAssumption DEF mandate_plaintext
  <2>2. t - Checker(id).leeway >= plain.fields.exp
    BY <1>1, <2>1, ConstantsAssumption DEF Checker, NumericDate
  <2> HIDE DEF plain
  <2>3. BreaksPolicy(plain.fields, Checker(id), t, "Expired")
    BY <2>1, <2>2 DEF BreaksPolicy
  <2>4. "Expired" \in Reason
    BY DEF Reason, PolicyReason
  <2>5. QED
    BY <1>1, <1>3, <2>3, <2>4 DEF Violations, plain
<1>4. QED
  BY <1>2, <1>3

(* The expiry of a token minted with an expires_in() still in force.       *)
LEMMA MintedExpiry ==
    ASSUME MintInv, Minted, asked # None
    PROVE  /\ asked.at \in ClockValue /\ asked.ttl \in Nat /\ expiry \in NumericDate
           /\ expiry <= now_unix(seconds(asked.at)) + asked.ttl
<1>1. asked.at \in ClockValue /\ asked.ttl \in Nat
  BY MintAssumption DEF MintInv, TypeOK
<1>2. expiry = ExpiryAt(asked.at, asked.ttl)
  BY MintedForm DEF MintInv, Remembered
<1>3. QED
  BY <1>1, <1>2, ExpiryTypes

(* A mandate minted to expire in ttl seconds is not admitted once they     *)
(* have passed since expires_in was called (mint.rs), for all the rounding *)
(* of the clock and the saturation of the sum, and however long the        *)
(* builder was kept.                                                       *)
THEOREM TtlIsKept == Spec => []NeverOutlivesTtl
<1>1. MintInv => NeverOutlivesTtl
  <2>1. SUFFICES ASSUME MintInv, Minted, asked # None, NEW id \in Identifier \cup {None},
                        clock >= Since1970(asked.at) + asked.ttl * Ticks
                 PROVE  Violations(token, "clauses", Checker(id), now_unix(seconds(clock))) # {}
    BY DEF NeverOutlivesTtl
  <2>2. clock \in ClockValue
    BY <2>1 DEF MintInv, TypeOK
  <2>3. /\ asked.at \in ClockValue /\ asked.ttl \in Nat /\ expiry \in NumericDate
        /\ expiry <= now_unix(seconds(asked.at)) + asked.ttl
    BY <2>1, MintedExpiry
  <2>4. now_unix(seconds(clock)) >= now_unix(seconds(asked.at)) + asked.ttl
    BY <2>1, <2>2, <2>3, SecondsPass
  <2>5. now_unix(seconds(clock)) \in 0 .. NDMax /\ now_unix(seconds(asked.at)) \in 0 .. NDMax
    BY <2>2, <2>3, ClockTypes
  <2>6. now_unix(seconds(clock)) >= expiry
    BY <2>3, <2>4, <2>5, ConstantsAssumption DEF NumericDate
  <2>7. QED
    BY <2>1, <2>5, <2>6, DatesOfTheClock, RefusedWhenPast
<1>2. QED
  BY <1>1, Invariance, PTL

(* On a clock that is not set back, the lifetime a reader sees, from the   *)
(* issue time in the tid that mint() stamped to the expiry computed by an  *)
(* earlier call, is at most the ttl that was asked for.                    *)
THEOREM LifetimeIsKept ==
    ASSUME Monotone
    PROVE  Spec => []LifetimeWithinTtl
<1>1. MintInv => LifetimeWithinTtl
  <2>1. SUFFICES ASSUME MintInv, Minted, asked # None, builder.tid = None
                 PROVE  expiry - outcome.issued_at <= asked.ttl
    BY DEF LifetimeWithinTtl
  <2>2. /\ asked.at \in ClockValue /\ asked.ttl \in Nat /\ expiry \in NumericDate
        /\ expiry <= now_unix(seconds(asked.at)) + asked.ttl
    BY <2>1, MintedExpiry
  <2>3. outcome.issued_at >= now_unix(seconds(asked.at))
    BY <2>1 DEF MintInv, Stamped
  <2>4. outcome.issued_at \in Nat
    BY <2>1, MintAssumption DEF MintInv, TypeOK, Outcome, Minted
  <2>5. now_unix(seconds(asked.at)) \in 0 .. NDMax
    BY <2>2, ClockTypes
  <2>6. QED
    BY <2>2, <2>3, <2>4, <2>5, ConstantsAssumption DEF NumericDate
<1>2. QED
  BY <1>1, Invariance, PTL
=============================================================================
