------------------------------ MODULE CliProofs ------------------------------
(***************************************************************************)
(* Theorems about the command line tool, for every set of arguments,       *)
(* standard inputs and clock values, checked by TLAPS.                     *)
(***************************************************************************)
EXTENDS Cli, MandateProofs, FiniteSetTheorems

-----------------------------------------------------------------------------
(* Keys on the command line. *)
LEMMA KeyTypes ==
    ASSUME NEW k \in KeyArg
    PROVE  /\ resolve_key(k) \in KeyBytes \cup {None}
           /\ resolve_key(k) # NoKey
           /\ resolve_key(k) = None <=> No64Bytes(k)
           /\ mandate_key(k) \in MandateKey \cup {None}
           /\ mandate_key(k) = None <=> NoMandateKey(k)
<1>1. /\ None \notin KeyBytes /\ NoKey \notin KeyBytes /\ ZeroKey \notin MandateKey
      /\ ManifestKey # ZeroKey /\ ManifestKey \notin MandateKey /\ TestKey \in MandateKey
      /\ NoKey # None
  BY ConstantsAssumption, ZeroKeyAssumption, CliAssumption, DistinctAssumption DEF KeyBytes
<1>2. /\ None # "IsManifestKey" /\ None # "AllZero"
      /\ None # "BadHexEncoding" /\ None # "BadHexLength"
  BY DistinctAssumption
<1>3. \A x : /\ from_bytes(x).error \in {"IsManifestKey", "AllZero", None}
             /\ from_bytes(x).error # None <=> x \in {ManifestKey, ZeroKey}
  BY <1>2 DEF from_bytes
<1>4. CASE k.word = "manifest"
  BY <1>1, <1>2, <1>3, <1>4
     DEF resolve_key, mandate_key, NoMandateKey, No64Bytes, KeyErrors, KeyBytes
<1>5. CASE k.word = "mandate"
  BY <1>1, <1>2, <1>3, <1>5
     DEF resolve_key, mandate_key, NoMandateKey, No64Bytes, KeyErrors, KeyBytes
<1>6. CASE k.word = "hex"
  <2>1. k.text \in KeyText /\ k.text.canonical \in BOOLEAN /\ k.text.bytes \in KeyBytes \cup {None}
    BY <1>6 DEF KeyArg, KeyText
  <2>2. resolve_key(k) = IF k.text.canonical THEN k.text.bytes ELSE None
    BY <1>6 DEF resolve_key
  <2>3. CASE ~k.text.canonical
    <3>1. from_hex(k.text).error = "BadHexEncoding"
      BY <2>3 DEF from_hex
    <3>2. resolve_key(k) = None /\ mandate_key(k) = None
      BY <2>2, <2>3 DEF mandate_key
    <3>3. KeyErrors(k) = {"BadHexEncoding"}
      BY <1>2, <1>6, <3>1 DEF KeyErrors
    <3>4. No64Bytes(k) /\ NoMandateKey(k)
      BY <3>3 DEF No64Bytes, NoMandateKey
    <3>5. QED
      BY <1>1, <3>2, <3>4
  <2>4. CASE k.text.canonical /\ k.text.bytes = None
    <3>1. from_hex(k.text).error = "BadHexLength"
      BY <2>4 DEF from_hex
    <3>2. resolve_key(k) = None /\ mandate_key(k) = None
      BY <2>2, <2>4 DEF mandate_key
    <3>3. KeyErrors(k) = {"BadHexLength"}
      BY <1>2, <1>6, <3>1 DEF KeyErrors
    <3>4. No64Bytes(k) /\ NoMandateKey(k)
      BY <3>3 DEF No64Bytes, NoMandateKey
    <3>5. QED
      BY <1>1, <3>2, <3>4
  <2>5. CASE k.text.canonical /\ k.text.bytes # None
    <3>1. /\ from_hex(k.text) = from_bytes(k.text.bytes)
          /\ resolve_key(k) = k.text.bytes /\ resolve_key(k) \in KeyBytes
      BY <2>1, <2>2, <2>5 DEF from_hex
    <3>2. mandate_key(k) = IF k.text.bytes \in {ManifestKey, ZeroKey} THEN None ELSE k.text.bytes
      BY <1>1, <1>3, <3>1 DEF mandate_key
    <3>3. KeyErrors(k) = {from_bytes(k.text.bytes).error} \ {None}
      BY <1>6, <3>1 DEF KeyErrors
    <3>4. ~No64Bytes(k)
      BY <1>3, <3>3 DEF No64Bytes
    <3>5. NoMandateKey(k) <=> k.text.bytes \in {ManifestKey, ZeroKey}
      BY <1>3, <1>6, <3>3 DEF NoMandateKey
    <3>6. QED
      BY <1>1, <3>1, <3>2, <3>4, <3>5 DEF KeyBytes
  <2>6. QED
    BY <2>1, <2>3, <2>4, <2>5
<1>7. k.word \in {"manifest", "mandate", "hex"}
  BY DEF KeyArg
<1>8. QED
  BY <1>4, <1>5, <1>6, <1>7

(* A code, and an encoding, is usable unless it is something else. *)
LEMMA CodeTypes ==
    ASSUME NEW c \in AlgCode
    PROVE  /\ parse_alg(c) \in Alg \cup {None}
           /\ parse_alg(c) = None <=> c = "other"
BY ConstantsAssumption DEF AlgCode, parse_alg, from_code, Alg

LEMMA EncodingTypes ==
    ASSUME NEW e \in EncodingArg
    PROVE  /\ parse_encoding(e) \in Encoding \cup {None}
           /\ parse_encoding(e) = None <=> e = "other"
BY DistinctAssumption DEF EncodingArg, parse_encoding, Encoding

LEMMA ObjectTypes ==
    ASSUME NEW v \in JsonObject
    PROVE  /\ v.size \in Nat /\ v.decode_error = None
           /\ v.size + ReservedSize + 2 + AEAD_TAG <= DEFAULT_MAX_DECODED_LEN
BY DEF JsonObject, M!AppRecord

-----------------------------------------------------------------------------
(* The mandate that Mint assembles. *)
LEMMA TextsCounted ==
    ASSUME NEW texts \in SUBSET {"iss", "sub"}
    PROVE  Cardinality(texts) \in 0 .. 2
<1>1. IsFiniteSet({"iss"}) /\ Cardinality({"iss"}) = 1
  BY FS_Singleton
<1>2. IsFiniteSet({"iss", "sub"}) /\ Cardinality({"iss", "sub"}) = 2
  <2>1. {"iss", "sub"} = {"iss"} \cup {"sub"} /\ "sub" \notin {"iss"}
    OBVIOUS
  <2>2. QED
    BY <1>1, <2>1, FS_AddElement
<1>3. /\ IsFiniteSet(texts) /\ Cardinality(texts) \in Nat
      /\ Cardinality(texts) <= Cardinality({"iss", "sub"})
  BY <1>2, FS_Subset, FS_CardinalityType
<1>4. QED
  BY <1>2, <1>3

LEMMA AssembledMandate ==
    ASSUME NEW k \in MandateKey, NEW b,
           NEW i \in [alg : Alg, manifest_alg : Alg, encoding : Encoding],
           b.app \in JsonObject, b.exp \in NumericDate, b.tid = None \/ b.tid.kind = "v7",
           b.aud \in (SUBSET Identifier) \cup {None}, b.texts \in SUBSET {"iss", "sub"}
    PROVE  LET t == M(k, i, b)!Assembled
               s == t.half.sealed IN
           /\ t.mandate = "wellformed" /\ t.manifest \in {"absent", "wellformed"}
           /\ s \in Sealed /\ s.key = k /\ s.alg = from_code(t.half.alg_code)
           /\ s.alg \in Alg
           /\ s.size \in MIN_HALF_BYTES .. DEFAULT_MAX_DECODED_LEN
           /\ s.plain.error = None
           /\ s.plain.fields = [exp |-> b.exp, tid |-> "v7", aud |-> b.aud]
<1> DEFINE p == M(k, i, b)!mandate_plaintext
           t == M(k, i, b)!Assembled
           s == t.half.sealed
<1>1. i.alg \in Alg
  OBVIOUS
<1>2. M(k, i, b)!MintedTid.kind = "v7"
  BY DEF M!MintedTid
<1>3. /\ p.size = b.app.size + ReservedSize + Cardinality(b.texts)
      /\ p.error = None /\ p.claims = FALSE
      /\ p.fields = [exp |-> b.exp, tid |-> "v7", aud |-> b.aud]
      /\ p = [size |-> p.size, error |-> p.error, claims |-> p.claims, fields |-> p.fields]
  <2>1. M(k, i, b)!Cardinality(b.texts) = Cardinality(b.texts)
    BY DEF M!Cardinality, Cardinality
  <2>2. QED
    BY <1>2, <2>1, ObjectTypes DEF M!mandate_plaintext
<1>4. /\ b.app.size \in Nat /\ ReservedSize \in Nat \ {0} /\ Cardinality(b.texts) \in 0 .. 2
      /\ b.app.size + ReservedSize + 2 + AEAD_TAG <= DEFAULT_MAX_DECODED_LEN
  BY ObjectTypes, TextsCounted, CliAssumption
<1>5. p \in Plain
  <2>1. p.size \in Nat
    BY <1>3, <1>4
  <2>2. p.fields \in MandateFields
    BY <1>3 DEF MandateFields
  <2>3. QED
    BY <1>3, <2>1, <2>2 DEF Plain
<1> HIDE DEF p
<1>6. /\ s = [key |-> k, alg |-> i.alg, size |-> p.size + AEAD_TAG, plain |-> p]
      /\ t.half.alg_code = code(i.alg)
      /\ t.mandate = "wellformed" /\ t.manifest \in {"absent", "wellformed"}
  BY DEF M!Assembled, M!AssembledAs, M!HalfText, M!seal, M!code, code, M!AEAD_TAG, AEAD_TAG, p
<1> HIDE DEF t
<1>7. /\ p.size + AEAD_TAG \in MIN_HALF_BYTES .. DEFAULT_MAX_DECODED_LEN
      /\ p.size + AEAD_TAG \in Nat
  <2>1. /\ p.size \in Nat /\ p.size >= 1
        /\ p.size <= b.app.size + ReservedSize + 2
    BY <1>3, <1>4
  <2>2. DEFAULT_MAX_DECODED_LEN \in Nat
    BY DEF DEFAULT_MAX_DECODED_LEN
  <2>3. QED
    BY <1>4, <2>1, <2>2 DEF AEAD_TAG, MIN_HALF_BYTES
<1>8. s \in Sealed
  BY <1>1, <1>5, <1>6, <1>7 DEF Sealed
<1>9. from_code(code(i.alg)) = i.alg
  BY <1>1 DEF from_code, code, Alg
<1>10. QED
  BY <1>1, <1>3, <1>6, <1>7, <1>8, <1>9 DEF t, p

LEMMA AssembledManifest ==
    ASSUME NEW k, NEW i, NEW b
    PROVE  LET t == M(k, i, b)!Assembled IN
           /\ t = [ encoding |-> t.encoding, mandate |-> t.mandate, manifest |-> t.manifest,
                    half |-> t.half, manifest_half |-> t.manifest_half ]
           /\ t.manifest = "wellformed" =>
                 /\ b.manifest # None
                 /\ t.manifest_half.sealed.plain.size = b.manifest.size + IssSize
BY DEF M!Assembled, M!AssembledAs, M!HalfText, M!seal, M!manifest_plaintext

-----------------------------------------------------------------------------
(* What is known of a token that came from mint.  It was minted with       *)
(* usable arguments, and its mandate, where it still has one, says what    *)
(* they asked for.                                                         *)
MintMisused(a) ==
    \/ NoMandateKey(a.key)
    \/ "other" \in {a.alg, a.manifest_alg, a.encoding}
    \/ a.exp = None /\ a.ttl = None
    \/ a.tid \in {"unparsable", "other"}
    \/ NoObject(mint_fields(a))
    \/ a.manifest_iss /\ NoObject(mint_manifest(a))

AudienceAsked(by) == IF by.aud = {} THEN None ELSE by.aud

Says(h) ==
    LET half == h.token.half
        s == half.sealed IN
    /\ s \in Sealed /\ s.key = mandate_key(h.by.key) /\ s.alg = from_code(half.alg_code)
    /\ s.alg \in Alg
    /\ s.size \in MIN_HALF_BYTES .. DEFAULT_MAX_DECODED_LEN
    /\ s.plain.error = None
    /\ s.plain.fields = [exp |-> AskedExp(h), tid |-> "v7", aud |-> AudienceAsked(h.by)]

ManifestSays(h) ==
    /\ h.by.manifest_iss
    /\ h.token.manifest_half.sealed.plain.size = mint_manifest(h.by).size + IssSize

IsToken(t) ==
    t = [ encoding |-> t.encoding, mandate |-> t.mandate, manifest |-> t.manifest,
          half |-> t.half, manifest_half |-> t.manifest_half ]

Mandated(h) ==
    /\ h.by \in Mints /\ ~MintMisused(h.by) /\ mandate_key(h.by.key) \in MandateKey
    /\ IsToken(h.token)
    /\ AskedExp(h) \in NumericDate
    /\ h.token.mandate \in {"absent", "wellformed"}
    /\ h.token.manifest \in {"absent", "wellformed"}
    /\ Parses(h.token)
    /\ h.token.mandate = "wellformed" => Says(h)
    /\ h.token.manifest = "wellformed" => ManifestSays(h)

(* The arguments of mint, one by one. *)
LEMMA MintIssuer ==
    ASSUME NEW a \in MintArg
    PROVE  /\ (\E s \in {"alg", "manifest_alg", "encoding"} : mint_issuer(a)[s] = None)
                  <=> "other" \in {a.alg, a.manifest_alg, a.encoding}
           /\ "other" \notin {a.alg, a.manifest_alg, a.encoding} =>
                  mint_issuer(a) \in [alg : Alg, manifest_alg : Alg, encoding : Encoding]
<1>1. a.alg \in AlgCode /\ a.manifest_alg \in AlgCode /\ a.encoding \in EncodingArg
  BY DEF MintArg
<1>2. /\ mint_issuer(a).alg = parse_alg(a.alg)
      /\ mint_issuer(a).manifest_alg = parse_alg(a.manifest_alg)
      /\ mint_issuer(a).encoding = parse_encoding(a.encoding)
  BY DEF mint_issuer
<1>3. (\E s \in {"alg", "manifest_alg", "encoding"} : mint_issuer(a)[s] = None)
          <=> \/ parse_alg(a.alg) = None \/ parse_alg(a.manifest_alg) = None
              \/ parse_encoding(a.encoding) = None
  BY DEF mint_issuer
<1>4. "other" \notin {a.alg, a.manifest_alg, a.encoding} =>
          /\ parse_alg(a.alg) \in Alg /\ parse_alg(a.manifest_alg) \in Alg
          /\ parse_encoding(a.encoding) \in Encoding
  BY <1>1, CodeTypes, EncodingTypes
<1>5. QED
  BY <1>1, <1>3, <1>4, CodeTypes, EncodingTypes DEF mint_issuer

LEMMA MintExpiry ==
    ASSUME NEW a \in MintArg, clock \in ClockValue
    PROVE  /\ mint_exp(a) \in NumericDate \cup {None}
           /\ mint_exp(a) = None <=> a.exp = None /\ a.ttl = None
           /\ mint_exp(a) # None => \A tok :
                 mint_exp(a) = AskedExp([token |-> tok, by |-> a, at |-> clock])
<1>1. clock \in Nat /\ NDMax \in Nat /\ clock <= NDMax
  BY CliAssumption, ConstantsAssumption
<1>2. None \notin NumericDate /\ a.exp \in NumericDate \cup {None} /\ a.ttl \in Nat \cup {None}
  BY ConstantsAssumption DEF MintArg
<1>3. CASE a.exp # None
  BY <1>2, <1>3 DEF mint_exp, AskedExp
<1>4. CASE a.exp = None /\ a.ttl # None
  <2>1. a.ttl \in Nat
    BY <1>2, <1>4
  <2>2. saturating_add(now_unix(clock), Least(a.ttl, NDMax)) = Least(clock + a.ttl, NDMax)
    BY <1>1, <2>1 DEF saturating_add, now_unix, Least
  <2>3. Least(clock + a.ttl, NDMax) \in NumericDate
    BY <1>1, <2>1 DEF Least, NumericDate
  <2>4. QED
    BY <1>2, <1>4, <2>2, <2>3 DEF mint_exp, AskedExp
<1>5. CASE a.exp = None /\ a.ttl = None
  BY <1>5 DEF mint_exp
<1>6. QED
  BY <1>3, <1>4, <1>5

LEMMA MintInputs ==
    ASSUME NEW a \in MintArg
    PROVE  /\ mint_fields(a) \in JsonObject \cup {NotJson, Unreadable}
           /\ ~a.manifest_iss => mint_manifest(a) = None
           /\ a.manifest_iss =>
                 /\ mint_manifest(a) \in JsonObject \cup {NotJson, Unreadable}
                 /\ mint_manifest(a) =
                        IF a.fields = Dash /\ a.manifest_fields = Dash THEN NotJson
                        ELSE read_input(Default(a.manifest_fields, EmptyObject), a.stdin)
<1>1. /\ a.fields \in JsonObject \cup {NotJson, Dash, None}
      /\ a.manifest_fields \in JsonObject \cup {NotJson, Dash, None}
      /\ a.stdin \in JsonObject \cup {NotJson, Unreadable}
      /\ a.manifest_iss \in BOOLEAN
      /\ EmptyObject \in JsonObject
  BY ArgumentsAssumption DEF MintArg
<1>2. /\ Dash # None /\ NotJson # None /\ NotJson # Dash
      /\ None \notin JsonObject /\ Dash \notin JsonObject
  BY DistinctAssumption
<1>3. mint_fields(a) \in JsonObject \cup {NotJson, Unreadable}
  BY <1>1, <1>2 DEF mint_fields, read_input, Default
<1>4. ~a.manifest_iss => mint_manifest(a) = None
  BY DEF mint_manifest
<1>5. ASSUME a.manifest_iss
      PROVE  /\ mint_manifest(a) \in JsonObject \cup {NotJson, Unreadable}
             /\ mint_manifest(a) =
                    IF a.fields = Dash /\ a.manifest_fields = Dash THEN NotJson
                    ELSE read_input(Default(a.manifest_fields, EmptyObject), a.stdin)
  BY <1>1, <1>2, <1>5 DEF mint_manifest, read_input, Default, Drained
<1>6. QED
  BY <1>3, <1>4, <1>5

(* With usable arguments the library fails for a tid or a value only. *)
LEMMA MintFails ==
    ASSUME NEW a \in MintArg, NEW k, mint_issuer(a).alg \in Alg, mint_issuer(a).manifest_alg \in Alg,
           mint_exp(a) # None, a.tid # "unparsable",
           mint_fields(a) \in JsonObject, mint_manifest(a) \in JsonObject \cup {None}
    PROVE  M(k, mint_issuer(a), mint_builder(a))!mint_error # None <=>
               \/ a.tid = "other" \/ mint_fields(a).error # None
               \/ mint_manifest(a) # None /\ mint_manifest(a).error # None
<1> DEFINE i == mint_issuer(a)
           b == mint_builder(a)
<1>1. /\ b.app = mint_fields(a) /\ b.exp = mint_exp(a) /\ b.manifest = mint_manifest(a)
      /\ b.aud = AudienceAsked(a)
      /\ b.tid = IF a.tid = None THEN None ELSE [kind |-> a.tid, stamp |-> 0]
  BY DEF mint_builder, AudienceAsked
<1>2. b.aud # {}
  BY <1>1, DistinctAssumption DEF AudienceAsked
<1>3. b.tid # None /\ b.tid.kind # "v7" <=> a.tid = "other"
  <2>1. a.tid \in {None, "v7", "other", "unparsable"}
    BY DEF MintArg
  <2>2. a.tid # None => [kind |-> a.tid, stamp |-> 0] \in [kind : {"v7", "other", "unparsable"}, stamp : {0}]
    BY <2>1
  <2>3. QED
    BY <1>1, <2>1, <2>2, DistinctAssumption
<1>4. "BadTid" # None
  BY ConstantsAssumption DEF Reason, PolicyReason
<1>5. i.alg \in CompiledAlgs /\ i.manifest_alg \in CompiledAlgs
  BY CliAssumption
<1> HIDE DEF i, b
<1>6. M(k, i, b)!mandate_error # None <=> a.tid = "other" \/ mint_fields(a).error # None
  BY <1>1, <1>2, <1>3, <1>4, <1>5 DEF M!mandate_error
<1>7. M(k, i, b)!manifest_error # None <=>
          mint_manifest(a) # None /\ mint_manifest(a).error # None
  BY <1>1, <1>5 DEF M!manifest_error
<1>8. QED
  BY <1>6, <1>7 DEF M!mint_error, i, b

LEMMA MintMisuses ==
    ASSUME NEW a \in MintArg, NEW input
    PROVE  Misuses("mint", a, input) <=> MintMisused(a)
<1>1. Misuses("mint", a, input) <=>
            \/ NoMandateKey(a.key)
            \/ "other" \in {a.alg, a.manifest_alg, a.encoding}
            \/ a.exp = None /\ a.ttl = None
            \/ a.tid \in {"unparsable", "other"}
            \/ NoObject(mint_fields(a))
            \/ /\ a.manifest_iss
               /\ \/ a.fields = Dash /\ a.manifest_fields = Dash
                  \/ NoObject(read_input(Default(a.manifest_fields, EmptyObject), a.stdin))
  BY DEF Misuses, mint_fields
<1>2. NoObject(NotJson)
  BY DEF NoObject
<1>3. QED
  BY <1>1, <1>2, MintInputs DEF MintMisused

(* mint fails exactly for arguments that cannot be used, and what it       *)
(* prints is what was asked for.                                           *)
LEMMA MintRuns ==
    ASSUME NEW a \in Mints, clock \in ClockValue, NEW input
    PROVE  /\ cmd_mint(a).exit \in {0, 2}
           /\ cmd_mint(a).exit = 2 <=> Misuses("mint", a, input)
           /\ cmd_mint(a).exit = 0 =>
                 Mandated([token |-> cmd_mint(a).out, by |-> a, at |-> clock])
<1> DEFINE k == mandate_key(a.key)
           i == mint_issuer(a)
           b == mint_builder(a)
           unusable == \/ k = None
                       \/ \E s \in {"alg", "manifest_alg", "encoding"} : i[s] = None
                       \/ mint_fields(a) \in {Unreadable, NotJson}
                       \/ mint_exp(a) = None \/ a.tid = "unparsable"
                       \/ mint_manifest(a) \in {Unreadable, NotJson}
<1>1. a \in MintArg /\ a.key \in KeyArg
  BY ArgumentsAssumption DEF MintArg
<1>2. unusable <=> \/ NoMandateKey(a.key)
                   \/ "other" \in {a.alg, a.manifest_alg, a.encoding}
                   \/ mint_fields(a) \in {Unreadable, NotJson}
                   \/ a.exp = None /\ a.ttl = None
                   \/ a.tid = "unparsable"
                   \/ mint_manifest(a) \in {Unreadable, NotJson}
  BY <1>1, KeyTypes, MintIssuer, MintExpiry
<1>3. CASE unusable
  <2>1. cmd_mint(a) = UsageError
    BY <1>3 DEF cmd_mint
  <2>2. MintMisused(a)
    BY <1>1, <1>2, <1>3, MintInputs, DistinctAssumption DEF MintMisused, NoObject
  <2>3. QED
    BY <1>1, <2>1, <2>2, MintMisuses DEF UsageError, Exits
<1>4. CASE ~unusable
  <2>1. /\ k \in MandateKey /\ i \in [alg : Alg, manifest_alg : Alg, encoding : Encoding]
        /\ mint_exp(a) \in NumericDate /\ a.tid # "unparsable"
        /\ mint_fields(a) \in JsonObject /\ mint_manifest(a) \in JsonObject \cup {None}
        /\ a.manifest_iss <=> mint_manifest(a) # None
    BY <1>1, <1>2, <1>4, KeyTypes, MintIssuer, MintExpiry, MintInputs, DistinctAssumption
  <2>2. cmd_mint(a) = IF M(k, i, b)!mint_error # None THEN UsageError
                      ELSE Exits(0, M(k, i, b)!Assembled)
    BY <1>4 DEF cmd_mint
  <2>3. M(k, i, b)!mint_error # None <=> MintMisused(a)
    <3>1. M(k, i, b)!mint_error # None <=>
               \/ a.tid = "other" \/ mint_fields(a).error # None
               \/ mint_manifest(a) # None /\ mint_manifest(a).error # None
      BY <1>1, <2>1, MintFails, ConstantsAssumption
    <3>2. QED
      BY <1>2, <1>4, <2>1, <3>1, DistinctAssumption DEF MintMisused, NoObject
  <2>4. CASE M(k, i, b)!mint_error # None
    BY <1>1, <2>2, <2>3, <2>4, MintMisuses DEF UsageError, Exits
  <2>5. CASE M(k, i, b)!mint_error = None
    <3> DEFINE h == [token |-> M(k, i, b)!Assembled, by |-> a, at |-> clock]
    <3>1. cmd_mint(a).exit = 0 /\ cmd_mint(a).out = M(k, i, b)!Assembled
      BY <2>2, <2>5 DEF Exits
    <3>2. /\ b.app = mint_fields(a) /\ b.exp = mint_exp(a) /\ b.aud = AudienceAsked(a)
          /\ b.tid = None \/ b.tid.kind = "v7"
          /\ b.texts \in SUBSET {"iss", "sub"}
          /\ b.aud \in (SUBSET Identifier) \cup {None}
      <4>1. a.tid \in {None, "v7"}
        BY <1>1, <2>1, <2>3, <2>5 DEF MintArg, MintMisused
      <4>2. a.texts \in SUBSET {"iss", "sub"} /\ a.aud \in SUBSET Identifier
        BY <1>1 DEF MintArg
      <4>3. QED
        BY <4>1, <4>2 DEF mint_builder, AudienceAsked
    <3>3. AskedExp(h) = mint_exp(a) /\ h.by = a /\ h.token = M(k, i, b)!Assembled
      BY <1>1, <2>1, MintExpiry, ConstantsAssumption
    <3>4. Says(h) /\ h.token.mandate = "wellformed" /\ h.token.manifest \in {"absent", "wellformed"}
      <4> HIDE DEF k, i, b, h
      <4>1. LET t == M(k, i, b)!Assembled
                s == t.half.sealed IN
            /\ t.mandate = "wellformed" /\ t.manifest \in {"absent", "wellformed"}
            /\ s \in Sealed /\ s.key = k /\ s.alg = from_code(t.half.alg_code)
            /\ s.alg \in Alg
            /\ s.size \in MIN_HALF_BYTES .. DEFAULT_MAX_DECODED_LEN
            /\ s.plain.error = None
            /\ s.plain.fields = [exp |-> b.exp, tid |-> "v7", aud |-> b.aud]
        BY <2>1, <3>2, AssembledMandate
      <4>2. QED
        BY <3>2, <3>3, <4>1 DEF Says, k
    <3>5. IsToken(h.token) /\ (h.token.manifest = "wellformed" => ManifestSays(h))
      <4>1. b.manifest = mint_manifest(a)
        BY DEF mint_builder
      <4> HIDE DEF k, i, b, h
      <4>2. QED
        BY <2>1, <3>3, <4>1, AssembledManifest DEF IsToken, ManifestSays
    <3>6. Mandated(h)
      BY <2>1, <2>3, <2>5, <3>3, <3>4, <3>5 DEF Mandated, Parses
    <3>7. QED
      BY <1>1, <2>3, <2>5, <3>1, <3>6, MintMisuses
  <2>6. QED
    BY <2>4, <2>5
<1>5. QED
  BY <1>3, <1>4

-----------------------------------------------------------------------------
(* clauses, of a token that mint printed. *)
UsableKeys(o) == o.key # <<>> /\ \A i \in DOMAIN o.key : mandate_key(o.key[i]) # None

Instant(o) == Default(o.now, now_unix(clock))

LEMMA InstantType ==
    ASSUME NEW o \in ClausesOption, clock \in ClockValue
    PROVE  /\ Instant(o) \in NumericDate /\ Instant(o) # NDMax
           /\ Instant(o) = Default(o.now, clock)
<1>1. clock \in Nat /\ clock <= NDMax - 1 /\ NDMax \in Nat
  BY CliAssumption, ConstantsAssumption
<1>2. now_unix(clock) = clock /\ clock \in NumericDate /\ clock # NDMax
  BY <1>1 DEF now_unix, NumericDate
<1>3. o.now \in (NumericDate \ {NDMax}) \cup {None}
  BY DEF ClausesOption
<1>4. QED
  BY <1>2, <1>3 DEF Instant, Default

LEMMA CliKeys ==
    ASSUME NEW o
    PROVE  CandidateKeys(cli_policy(o)) = { mandate_key(o.key[i]) : i \in DOMAIN o.key }
BY DEF CandidateKeys, cli_policy

(* The rules a printed mandate may break. *)
LEMMA PrintedBreaks ==
    ASSUME NEW o \in ClausesOption, NEW h, Mandated(h), h.token.mandate = "wellformed",
           NEW t \in NumericDate, t # NDMax, NEW r \in Reason
    PROVE  r \in Violations(h.token, "clauses", cli_policy(o), t) <=>
               \/ r = "AuthFailed" /\ mandate_key(h.by.key) \notin CandidateKeys(cli_policy(o))
               \/ /\ mandate_key(h.by.key) \in CandidateKeys(cli_policy(o))
                  /\ \/ r = "Expired" /\ t - Least(o.leeway, MAX_LEEWAY) >= AskedExp(h)
                     \/ r = "AudienceMismatch" /\ h.by.aud # {} /\ o.audience \notin h.by.aud
<1> DEFINE half == h.token.half
           s == half.sealed
           p == cli_policy(o)
<1>1. /\ Says(h) /\ Parses(h.token) /\ AskedExp(h) \in NumericDate
      /\ h.by.aud \in SUBSET Identifier
  BY ArgumentsAssumption DEF Mandated, MintArg
<1>2. /\ s # None /\ s.alg # None /\ from_code(half.alg_code) # None /\ s.alg \in CompiledAlgs
  BY <1>1, ConstantsAssumption, CliAssumption DEF Says
<1>3. Authentic(h.token, p) <=> mandate_key(h.by.key) \in CandidateKeys(p)
  BY <1>1, <1>2 DEF Authentic, Says
<1>4. Fits(s.size, p)
  BY <1>1 DEF Says, Fits, cli_policy
<1>5. BreaksEnvelope(h.token, p, r) <=> r = "AuthFailed" /\ ~Authentic(h.token, p)
  BY <1>1, <1>2, <1>4 DEF BreaksEnvelope
<1>6. /\ s.plain.error = None /\ s.plain.fields.exp = AskedExp(h) /\ s.plain.fields.tid = "v7"
      /\ s.plain.fields.aud = AudienceAsked(h.by)
  BY <1>1 DEF Says
<1>7. AskedExp(h) # None /\ t # None
  BY <1>1, ConstantsAssumption
<1>8. ~BreaksContent(s.plain, r)
  BY <1>6, <1>7, ConstantsAssumption DEF BreaksContent
<1>9. AudienceAsked(h.by) # None <=> h.by.aud # {}
  BY <1>1, DistinctAssumption DEF AudienceAsked
<1>10. BreaksPolicy(s.plain.fields, p, t, r) <=>
           \/ r = "Expired" /\ t - Least(o.leeway, MAX_LEEWAY) >= AskedExp(h)
           \/ r = "AudienceMismatch" /\ h.by.aud # {} /\ o.audience \notin h.by.aud
  <2>1. p.leeway = Least(o.leeway, MAX_LEEWAY) /\ p.audience = o.audience
    BY DEF cli_policy
  <2>2. BreaksPolicy(s.plain.fields, p, t, r) <=>
           \/ r = "Expired" /\ t - p.leeway >= AskedExp(h)
           \/ /\ r = "AudienceMismatch" /\ AudienceAsked(h.by) # None
              /\ o.audience \notin AudienceAsked(h.by)
    BY <1>6, <1>7, <2>1 DEF BreaksPolicy
  <2>3. h.by.aud # {} => AudienceAsked(h.by) = h.by.aud
    BY DEF AudienceAsked
  <2>4. QED
    BY <1>9, <2>1, <2>2, <2>3
<1>11. QED
  BY <1>3, <1>5, <1>6, <1>8, <1>10 DEF Violations

LEMMA ClausesJudge ==
    ASSUME NEW o \in ClausesOption, NEW h, Mandated(h), clock \in ClockValue, UsableKeys(o)
    PROVE  Violations(h.token, "clauses", cli_policy(o), Instant(o)) = {} <=>
               /\ h.token.mandate # "absent"
               /\ \E i \in DOMAIN o.key : mandate_key(o.key[i]) = mandate_key(h.by.key)
               /\ Instant(o) < AskedExp(h) + Least(o.leeway, MAX_LEEWAY)
               /\ h.by.aud = {} \/ o.audience \in h.by.aud
<1> DEFINE t == Instant(o)
           l == Least(o.leeway, MAX_LEEWAY)
           broken == Violations(h.token, "clauses", cli_policy(o), t)
<1>1. t \in NumericDate /\ t # NDMax
  BY InstantType
<1>2. CASE h.token.mandate = "absent"
  <2>1. "EmptyMandate" \in broken
    BY <1>2 DEF Violations, BreaksEnvelope, Reason
  <2>2. QED
    BY <1>2, <2>1
<1>3. CASE h.token.mandate = "wellformed"
  <2>1. broken \subseteq Reason
    BY DEF Violations
  <2>2. "AuthFailed" \in Reason /\ "Expired" \in Reason /\ "AudienceMismatch" \in Reason
    BY DEF Reason, PolicyReason
  <2>3. mandate_key(h.by.key) \in CandidateKeys(cli_policy(o)) <=>
            \E i \in DOMAIN o.key : mandate_key(o.key[i]) = mandate_key(h.by.key)
    BY CliKeys
  <2>4. ~(t - l >= AskedExp(h)) <=> t < AskedExp(h) + l
    <3>1. t \in Int /\ AskedExp(h) \in Int
      BY <1>1, ConstantsAssumption DEF Mandated, NumericDate
    <3>2. l \in Int
      BY DEF ClausesOption, Least, MAX_LEEWAY
    <3> HIDE DEF t, l
    <3>3. QED
      BY <3>1, <3>2
  <2> HIDE DEF t
  <2>5. \A r \in Reason : r \in broken <=>
               \/ r = "AuthFailed" /\ mandate_key(h.by.key) \notin CandidateKeys(cli_policy(o))
               \/ /\ mandate_key(h.by.key) \in CandidateKeys(cli_policy(o))
                  /\ \/ r = "Expired" /\ t - l >= AskedExp(h)
                     \/ r = "AudienceMismatch" /\ h.by.aud # {} /\ o.audience \notin h.by.aud
    BY <1>1, <1>3, PrintedBreaks
  <2> HIDE DEF broken, l
  <2>6. QED
    BY <1>3, <2>1, <2>2, <2>3, <2>4, <2>5 DEF t, l, broken
<1>4. QED
  BY <1>2, <1>3 DEF Mandated

(* What a command makes of a token that is given, or that standard input   *)
(* holds or fails to give. *)
LEMMA TokenRead ==
    ASSUME NEW tok, NEW a \in TokenArg(tok), token(a) # Unreadable
    PROVE  token(a) = tok
BY DEF TokenArg, token, read_input

LEMMA ClausesRuns ==
    ASSUME NEW o \in ClausesOption, NEW a
    PROVE  LET tok == token(a)
               r == cmd_clauses(a, o) IN
           /\ r.exit \in {0, 1, 2}
           /\ r.exit = 2 <=> tok = Unreadable \/ ~UsableKeys(o)
           /\ r.exit = 2 <=> Misuses("clauses", o, tok)
           /\ r.exit # 2 =>
                 /\ r.exit = 0 <=> Violations(tok, "clauses", cli_policy(o), Instant(o)) = {}
                 /\ r.exit = 0 => r.out = tok.half.sealed.plain.fields
<1> DEFINE tok == token(a)
<1>1. cmd_clauses(a, o) =
          IF tok = Unreadable \/ ~UsableKeys(o) THEN UsageError
          ELSE IF Violations(tok, "clauses", cli_policy(o), Instant(o)) = {}
          THEN Exits(0, tok.half.sealed.plain.fields) ELSE Rejected
  BY DEF cmd_clauses, cli_verdict, OnceRead, UsableKeys, Instant
<1> HIDE DEF tok
<1>2. UsageError.exit = 2 /\ Rejected.exit = 1
      /\ \A x : Exits(0, x).exit = 0 /\ Exits(0, x).out = x
  BY DEF UsageError, Rejected, Exits
<1>3. \A i \in DOMAIN o.key : o.key[i] \in KeyArg
  BY DEF ClausesOption
<1>4. tok = Unreadable \/ ~UsableKeys(o) <=> Misuses("clauses", o, tok)
  <2>1. Misuses("clauses", o, tok) <=>
            \/ tok = Unreadable
            \/ o.key = <<>> \/ \E i \in DOMAIN o.key : NoMandateKey(o.key[i])
    BY DEF Misuses
  <2>2. QED
    BY <1>3, <2>1, KeyTypes DEF UsableKeys
<1>5. QED
  BY <1>1, <1>2, <1>4 DEF tok

(* What clauses admits was sealed by a secret key. *)
LEMMA AdmittedKey ==
    ASSUME NEW o \in ClausesOption, NEW a, cmd_clauses(a, o).exit = 0
    PROVE  token(a).half.sealed.key \in MandateKey
<1> DEFINE tok == token(a)
<1>1. /\ UsableKeys(o)
      /\ Violations(tok, "clauses", cli_policy(o), Instant(o)) = {}
  BY ClausesRuns
<1> HIDE DEF tok
<1>2. Authentic(tok, cli_policy(o))
  BY <1>1 DEF Violations, BreaksEnvelope, Reason
<1>3. PICK i \in DOMAIN o.key : tok.half.sealed.key = mandate_key(o.key[i])
  BY <1>2, CliKeys DEF Authentic
<1>4. o.key[i] \in KeyArg
  BY DEF ClausesOption
<1>5. QED
  BY <1>1, <1>3, <1>4, KeyTypes DEF UsableKeys, tok

-----------------------------------------------------------------------------
(* seal and open. *)
SealedAs(text, by) ==
    /\ by \in Seals /\ text \in SealedText
    /\ text.encoding = parse_encoding(by.encoding)
    /\ text.sealed.key = resolve_key(by.key) /\ text.sealed.alg = parse_alg(by.alg)
    /\ text.sealed.alg \in CompiledAlgs
    /\ text.sealed.plain = read_input(by.octets, by.stdin)

LEMMA SealRuns ==
    ASSUME NEW a \in Seals, NEW input
    PROVE  /\ cmd_seal(a).exit \in {0, 2}
           /\ cmd_seal(a).exit = 2 <=> Misuses("seal", a, input)
           /\ cmd_seal(a).exit = 0 => SealedAs(cmd_seal(a).out, a)
<1>1. /\ a \in SealArg /\ a.key \in KeyArg /\ a.alg \in AlgCode /\ a.encoding \in EncodingArg
      /\ a.octets \in Plain \cup {NotHex, Dash} /\ a.stdin \in Plain \cup {NotHex, Unreadable}
  BY ArgumentsAssumption DEF SealArg
<1>2. Misuses("seal", a, input) <=>
            \/ No64Bytes(a.key) \/ "other" \in {a.alg, a.encoding}
            \/ read_input(a.octets, a.stdin) \in {Unreadable, NotHex}
  BY DEF Misuses
<1>3. parse_alg(a.alg) \notin CompiledAlgs <=> a.alg = "other"
  BY <1>1, CodeTypes, CliAssumption, ConstantsAssumption
<1>4. Misuses("seal", a, input) <=>
            \/ read_input(a.octets, a.stdin) \in {Unreadable, NotHex}
            \/ resolve_key(a.key) = None
            \/ parse_alg(a.alg) \notin CompiledAlgs
            \/ parse_encoding(a.encoding) = None
  BY <1>1, <1>2, <1>3, KeyTypes, EncodingTypes
<1>5. cmd_seal(a) = IF Misuses("seal", a, input) THEN UsageError
                    ELSE Exits(0, [encoding |-> parse_encoding(a.encoding), sealed |-> sealed_half(a)])
  BY <1>4 DEF cmd_seal
<1>6. ASSUME ~Misuses("seal", a, input)
      PROVE  SealedAs([encoding |-> parse_encoding(a.encoding), sealed |-> sealed_half(a)], a)
  <2> DEFINE x == read_input(a.octets, a.stdin)
  <2>1. x \in Plain
    BY <1>1, <1>4, <1>6 DEF read_input
  <2>2. x.size + AEAD_TAG \in Nat
    BY <2>1 DEF Plain, AEAD_TAG
  <2>3. resolve_key(a.key) \in KeyBytes
    BY <1>1, <1>4, <1>6, KeyTypes
  <2> HIDE DEF x
  <2>4. sealed_half(a) = [key |-> resolve_key(a.key), alg |-> parse_alg(a.alg),
                          size |-> x.size + AEAD_TAG, plain |-> x]
    BY DEF sealed_half, seal, x
  <2>5. parse_encoding(a.encoding) \in Encoding /\ parse_alg(a.alg) \in Alg
    BY <1>1, <1>4, <1>6, EncodingTypes, CliAssumption
  <2>6. QED
    BY <1>1, <1>4, <1>6, <2>1, <2>2, <2>3, <2>4, <2>5 DEF SealedAs, SealedText, SealedBytes, x
<1>7. QED
  BY <1>5, <1>6 DEF UsageError, Exits

(* open exits with 2 exactly for what it is misused with: a key or an      *)
(* encoding, or an algorithm once the half has decoded.                    *)
LEMMA OpenRuns ==
    ASSUME NEW o \in Opens, NEW sealed
    PROVE  /\ cmd_open(sealed, o).exit \in {0, 1, 2}
           /\ cmd_open(sealed, o).exit = 2 <=> Misuses("open", o, sealed)
<1>1. o.key \in KeyArg /\ o.alg \in AlgCode /\ o.encoding \in EncodingArg
  BY ArgumentsAssumption DEF OpenOption
<1>2. Misuses("open", o, sealed) <=>
          \/ No64Bytes(o.key) \/ o.encoding = "other"
          \/ o.alg = "other" /\ sealed # None
  BY DEF Misuses
<1>3. Misuses("open", o, sealed) <=>
          \/ resolve_key(o.key) = None \/ parse_encoding(o.encoding) = None
          \/ parse_alg(o.alg) = None /\ sealed # None
  BY <1>1, <1>2, KeyTypes, EncodingTypes, CodeTypes
<1>4. /\ UsageError.exit = 2 /\ Rejected.exit = 1
      /\ \A x : OrRejected(x).exit \in {0, 1}
  BY DEF UsageError, Rejected, OrRejected, Exits
<1>5. QED
  BY <1>3, <1>4 DEF cmd_open

(* A half that seal printed, in whatever encoding and under whatever code  *)
(* and key it is opened.                                                   *)
LEMMA OpenJudges ==
    ASSUME NEW o \in Opens, NEW text, NEW by, SealedAs(text, by),
           NEW sealed \in Decodings(text, parse_encoding(o.encoding)),
           cmd_open(sealed, o).exit # 2
    PROVE  /\ cmd_open(sealed, o).exit = 0 <=> Agrees(o, by)
           /\ cmd_open(sealed, o).exit = 0 =>
                 cmd_open(sealed, o).out = read_input(by.octets, by.stdin)
<1> DEFINE k == resolve_key(o.key)
           e == parse_encoding(o.encoding)
           alg == parse_alg(o.alg)
           s == text.sealed
<1>1. /\ o.key \in KeyArg /\ o.alg \in AlgCode /\ o.encoding \in EncodingArg
      /\ by.key \in KeyArg /\ by.alg \in AlgCode /\ by.encoding \in EncodingArg
  BY ArgumentsAssumption DEF OpenOption, SealArg, SealedAs
<1>2. /\ text # Dash /\ text.encoding = parse_encoding(by.encoding) /\ text.encoding # None
      /\ s \in SealedBytes /\ s.key = resolve_key(by.key) /\ s.alg = parse_alg(by.alg)
      /\ s.alg \in CompiledAlgs /\ s.alg # None
      /\ s.plain = read_input(by.octets, by.stdin) /\ s.plain \in Plain
  BY DistinctAssumption, ConstantsAssumption DEF SealedAs, SealedText, SealedBytes
<1>3. k # None /\ e # None
  BY DEF cmd_open, UsageError, Exits
<1>4. e = text.encoding <=> o.encoding = by.encoding
  BY <1>1, <1>2, <1>3 DEF EncodingArg, parse_encoding
<1>5. alg # None => (alg = s.alg <=> o.alg = by.alg)
  BY <1>1, <1>2 DEF AlgCode, parse_alg, from_code
<1>6. k # NoKey
  BY <1>1, KeyTypes
<1>7. /\ Rejected.exit = 1 /\ UsageError.exit = 2
      /\ \A x : x # None => OrRejected(x).exit = 0 /\ OrRejected(x).out = x
      /\ OrRejected(None).exit = 1
  BY DEF UsageError, Rejected, OrRejected, Exits
<1>8. CASE sealed = None
  <2>1. e # text.encoding
    BY <1>2, <1>8, DistinctAssumption DEF Decodings
  <2>2. cmd_open(sealed, o) = Rejected
    BY <1>3, <1>8 DEF cmd_open
  <2>3. QED
    BY <1>4, <1>7, <2>1, <2>2 DEF Agrees
<1>9. CASE sealed # None
  <2>1. alg # None
    BY <1>3, <1>9 DEF cmd_open, UsageError, Exits
  <2>2. cmd_open(sealed, o) = OrRejected(open(sealed, k, alg))
    BY <1>3, <1>9, <2>1 DEF cmd_open
  <2>3. CASE e = text.encoding
    <3>1. sealed = s
      BY <1>2, <2>3 DEF Decodings
    <3>2. open(s, k, alg) = IF s.key = k /\ s.alg = alg THEN s.plain ELSE None
      BY <1>2 DEF open
    <3>3. s.plain # None
      BY <1>2, ConstantsAssumption
    <3>4. s.key = k /\ s.alg = alg <=> Agrees(o, by)
      BY <1>2, <1>4, <1>5, <2>1, <2>3 DEF Agrees
    <3>5. QED
      BY <1>2, <1>7, <2>2, <3>1, <3>2, <3>3, <3>4
  <2>4. CASE e # text.encoding
    <3>1. sealed = [s EXCEPT !.key = NoKey]
      BY <1>2, <1>9, <2>4 DEF Decodings
    <3>2. sealed.key = NoKey
      BY <1>2, <3>1 DEF SealedBytes
    <3>3. open(sealed, k, alg) = None
      BY <1>6, <3>2 DEF open
    <3>4. QED
      BY <1>4, <1>7, <2>2, <2>4, <3>3 DEF Agrees
  <2>5. QED
    BY <2>3, <2>4
<1>10. QED
  BY <1>8, <1>9

-----------------------------------------------------------------------------
(* What is known of the user's world: what is at hand came out of the tool *)
(* or was put together by hand, and the last invocation did as promised.   *)
AdmitsSecretly ==
    last.cmd = "clauses" /\ last.exit = 0 => last.of.token.half.sealed.key \in MandateKey

ShowsManifest ==
    last.cmd = "claims" /\ last.exit = 0 /\ Printed(last.of) =>
        /\ last.of.by \in Mints /\ ~MintMisused(last.of.by) /\ last.of.by.manifest_iss
        /\ last.out.size = mint_manifest(last.of.by).size + IssSize

Told ==
    /\ PrintedTokenVerifies /\ SealedHalfOpens /\ ExitTells
    /\ AdmitsSecretly /\ ShowsManifest

AtHand ==
    /\ held # None => held = [token |-> held.token, by |-> held.by, at |-> held.at]
    /\ Printed(held) => Mandated(held)
    /\ \A h \in halves : SealedAs(h.text, h.by)

CliInv == clock \in ClockValue /\ AtHand /\ Told

LEMMA CliInit == Init => CliInv
BY DistinctAssumption
   DEF Init, CliInv, AtHand, Printed, Told, PrintedTokenVerifies, SealedHalfOpens, ExitTells,
       AdmitsSecretly, ShowsManifest

(* A command that neither judges nor opens is only asked for its exit code.*)
Plainly == {"mint", "parse", "mandate", "manifest", "generate-key", "seal"}

LEMMA PlainlyTold ==
    ASSUME NEW cmd \in Plainly, NEW args, NEW of, NEW input, NEW r,
           Ran(cmd, args, of, input, r), r.exit = 2 <=> Misuses(cmd, args, input)
    PROVE  Told'
<1>1. /\ last'.cmd = cmd /\ last'.args = args /\ last'.input = input /\ last'.exit = r.exit
      /\ cmd \notin {"clauses", "open", "claims"}
  BY DEF Ran, Plainly
<1>2. ExitTells'
  BY <1>1 DEF ExitTells
<1>3. QED
  BY <1>1, <1>2 DEF Told, PrintedTokenVerifies, SealedHalfOpens, AdmitsSecretly, ShowsManifest

LEMMA OrRejectedExits ==
    ASSUME NEW x
    PROVE  /\ OrRejected(x).exit \in {0, 1}
           /\ OrRejected(x).exit = 0 <=> x # None
           /\ OrRejected(x).exit = 0 => OrRejected(x).out = x
BY DEF OrRejected, Rejected, Exits

(* Without options, a command can only fail to read its token. *)
LEMMA OnlyUnread ==
    ASSUME NEW args, NEW input
    PROVE  \A cmd \in {"claims", "parse", "mandate", "manifest"} :
               Misuses(cmd, args, input) <=> input = Unreadable
<1>1. Misuses("claims", args, input) <=> input = Unreadable
  BY DEF Misuses
<1>2. Misuses("parse", args, input) <=> input = Unreadable
  BY DEF Misuses
<1>3. Misuses("mandate", args, input) <=> input = Unreadable
  BY DEF Misuses
<1>4. Misuses("manifest", args, input) <=> input = Unreadable
  BY DEF Misuses
<1>5. QED
  BY <1>1, <1>2, <1>3, <1>4

LEMMA OnceReadExits ==
    ASSUME NEW input, NEW r, r.exit \in {0, 1}
    PROVE  /\ OnceRead(input, r).exit = 2 <=> input = Unreadable
           /\ OnceRead(input, r).exit # 2 => OnceRead(input, r) = r
BY DEF OnceRead, UsageError, Exits

LEMMA CliMint ==
    ASSUME CliInv, NEW a \in Mints, Mint(a)
    PROVE  CliInv'
<1>1. /\ clock \in ClockValue /\ AtHand
      /\ UNCHANGED <<clock, halves>> /\ Ran("mint", a, None, None, cmd_mint(a))
      /\ held' = IF cmd_mint(a).exit = 0
                 THEN [token |-> cmd_mint(a).out, by |-> a, at |-> clock] ELSE held
  BY DEF CliInv, Mint, Prints
<1>2. Told'
  BY <1>1, MintRuns, PlainlyTold DEF Plainly
<1>3. AtHand'
  <2>1. CASE cmd_mint(a).exit = 0
    <3>1. held' = [token |-> cmd_mint(a).out, by |-> a, at |-> clock]
      BY <1>1, <2>1
    <3>2. Mandated([token |-> cmd_mint(a).out, by |-> a, at |-> clock])
      BY <1>1, <2>1, MintRuns
    <3>3. Mandated(held)'
      BY <3>1, <3>2 DEF Mandated, Says, ManifestSays, AskedExp
    <3>4. QED
      BY <1>1, <3>1, <3>3 DEF AtHand
  <2>2. CASE cmd_mint(a).exit # 0
    BY <1>1, <2>2 DEF AtHand, Mandated, Says, ManifestSays
  <2>3. QED
    BY <2>1, <2>2
<1>4. QED
  BY <1>1, <1>2, <1>3 DEF CliInv

LEMMA CliClauses ==
    ASSUME CliInv, NEW o \in Checks, Clauses(o)
    PROVE  CliInv'
<1>0. PICK a \in TokenArg(held.token) : Show("clauses", o, token(a), cmd_clauses(a, o))
  BY DEF Clauses
<1> DEFINE r == cmd_clauses(a, o)
<1>1. /\ clock \in ClockValue /\ AtHand /\ held # None
      /\ UNCHANGED <<clock, held, halves>> /\ Ran("clauses", o, held, token(a), r)
      /\ o \in ClausesOption
  BY <1>0, ArgumentsAssumption DEF CliInv, Clauses, Show
<1>2. /\ last'.cmd = "clauses" /\ last'.args = o /\ last'.of = held /\ last'.at = clock
      /\ last'.input = token(a) /\ last'.exit = r.exit /\ last'.out = r.out
  BY <1>1 DEF Ran
<1>3. ExitTells'
  <2>1. r.exit = 2 <=> Misuses("clauses", o, token(a))
    BY <1>1, ClausesRuns
  <2> HIDE DEF r
  <2>2. QED
    BY <1>2, <2>1 DEF ExitTells
<1>10. r.exit # 2 => token(a) = held.token
  BY <1>1, ClausesRuns, TokenRead
<1>4. AdmitsSecretly'
  <2>1. r.exit = 0 => held.token.half.sealed.key \in MandateKey
    BY <1>1, <1>10, AdmittedKey
  <2> HIDE DEF r
  <2>2. QED
    BY <1>2, <2>1 DEF AdmitsSecretly
<1>5. ASSUME r.exit # 2, Printed(held)
      PROVE  /\ r.exit = 0 <=>
                   /\ held.token.mandate # "absent"
                   /\ \E i \in DOMAIN o.key : mandate_key(o.key[i]) = mandate_key(held.by.key)
                   /\ Instant(o) < AskedExp(held) + Least(o.leeway, MAX_LEEWAY)
                   /\ held.by.aud = {} \/ o.audience \in held.by.aud
             /\ r.exit = 0 =>
                   r.out = [exp |-> AskedExp(held), tid |-> "v7", aud |-> AudienceAsked(held.by)]
  <2>1. Mandated(held) /\ UsableKeys(o)
    BY <1>1, <1>5, ClausesRuns DEF AtHand
  <2>2. /\ r.exit = 0 <=> Violations(held.token, "clauses", cli_policy(o), Instant(o)) = {}
        /\ r.exit = 0 => r.out = held.token.half.sealed.plain.fields
    BY <1>1, <1>5, <1>10, ClausesRuns
  <2> HIDE DEF r
  <2>3. r.exit = 0 <=>
            /\ held.token.mandate # "absent"
            /\ \E i \in DOMAIN o.key : mandate_key(o.key[i]) = mandate_key(held.by.key)
            /\ Instant(o) < AskedExp(held) + Least(o.leeway, MAX_LEEWAY)
            /\ held.by.aud = {} \/ o.audience \in held.by.aud
    BY <1>1, <2>1, <2>2, ClausesJudge
  <2>4. r.exit = 0 => Says(held)
    BY <2>1, <2>3 DEF Mandated
  <2>5. QED
    BY <2>2, <2>3, <2>4 DEF Says
<1>6. PrintedTokenVerifies'
  <2>1. Instant(o) = Now'
    BY <1>1, <1>2, InstantType DEF Now
  <2> HIDE DEF r
  <2>2. QED
    BY <1>2, <1>5, <2>1 DEF PrintedTokenVerifies, AudienceAsked
<1>7. SealedHalfOpens' /\ ShowsManifest'
  BY <1>2 DEF SealedHalfOpens, ShowsManifest
<1>8. AtHand'
  BY <1>1 DEF AtHand, Mandated, Says, ManifestSays
<1>9. QED
  BY <1>1, <1>3, <1>4, <1>6, <1>7, <1>8 DEF CliInv, Told

LEMMA CliClaims ==
    ASSUME CliInv, Claims
    PROVE  CliInv'
<1>0. PICK a \in TokenArg(held.token) : Show("claims", None, token(a), cmd_claims(a))
  BY DEF Claims
<1> DEFINE r == cmd_claims(a)
<1>1. /\ clock \in ClockValue /\ AtHand /\ held # None
      /\ UNCHANGED <<clock, held, halves>> /\ Ran("claims", None, held, token(a), r)
  BY <1>0 DEF CliInv, Claims, Show
<1>2. /\ last'.cmd = "claims" /\ last'.args = None /\ last'.of = held
      /\ last'.input = token(a) /\ last'.exit = r.exit /\ last'.out = r.out
  BY <1>1 DEF Ran
<1>3. /\ r.exit = 2 <=> token(a) = Unreadable
      /\ r.exit = 0 => claims(held.token) # None /\ r.out = claims(held.token)
  <2>1. /\ r.exit = 2 <=> token(a) = Unreadable
        /\ r.exit # 2 => r = OrRejected(claims(token(a)))
    BY OrRejectedExits, OnceReadExits DEF cmd_claims
  <2>2. r.exit # 2 => token(a) = held.token
    BY <2>1, TokenRead
  <2>3. r.exit # 2 => r = OrRejected(claims(held.token))
    BY <2>1, <2>2
  <2> HIDE DEF r
  <2>4. QED
    BY <2>1, <2>3, OrRejectedExits
<1>4. claims(held.token) # None =>
          /\ held.token.manifest = "wellformed"
          /\ claims(held.token) = held.token.manifest_half.sealed.plain
  BY DEF claims, manifest_plaintext, openReadable, open
<1>5. ShowsManifest'
  <2> HIDE DEF r
  <2> SUFFICES ASSUME r.exit = 0, Printed(held)
               PROVE  /\ held.by \in Mints /\ ~MintMisused(held.by) /\ held.by.manifest_iss
                      /\ r.out.size = mint_manifest(held.by).size + IssSize
    BY <1>1, <1>2 DEF ShowsManifest
  <2>1. Mandated(held)
    BY <1>1 DEF AtHand
  <2>2. QED
    BY <1>3, <1>4, <2>1 DEF Mandated, ManifestSays
<1>6. ExitTells'
  <2> HIDE DEF r
  <2>1. QED
    BY <1>2, <1>3, OnlyUnread DEF ExitTells
<1>7. PrintedTokenVerifies' /\ SealedHalfOpens' /\ AdmitsSecretly'
  BY <1>2 DEF PrintedTokenVerifies, SealedHalfOpens, AdmitsSecretly
<1>8. AtHand'
  BY <1>1 DEF AtHand, Mandated, Says, ManifestSays
<1>9. QED
  BY <1>1, <1>5, <1>6, <1>7, <1>8 DEF CliInv, Told

(* Carving keeps what is said of the half that stays. *)
LEMMA CarvedMandated ==
    ASSUME NEW h, Mandated(h), NEW out, out # None,
           out = mandate(h.token) \/ out = manifest(h.token),
           h = [token |-> h.token, by |-> h.by, at |-> h.at]
    PROVE  Mandated([h EXCEPT !.token = out])
<1> DEFINE g == [h EXCEPT !.token = out]
           tok == h.token
<1>1. g.token = out /\ g.by = h.by /\ g.at = h.at /\ AskedExp(g) = AskedExp(h)
  BY DEF AskedExp
<1>2. IsToken(tok) /\ Mandated(h)
  BY DEF Mandated
<1>3. CASE out = mandate(tok)
  <2>1. /\ tok.mandate = "wellformed"
        /\ out = [tok EXCEPT !.manifest = "absent", !.manifest_half = NoHalf]
    BY <1>3 DEF mandate
  <2>2. /\ out = [ encoding |-> tok.encoding, mandate |-> tok.mandate, manifest |-> "absent",
                   half |-> tok.half, manifest_half |-> NoHalf ]
    BY <1>2, <2>1 DEF IsToken
  <2> HIDE DEF g
  <2>3. QED
    BY <1>1, <1>2, <2>1, <2>2 DEF Mandated, IsToken, Says, Parses, g
<1>4. CASE out = manifest(tok)
  <2>1. /\ tok.manifest = "wellformed"
        /\ out = [tok EXCEPT !.mandate = "absent", !.half = NoHalf]
    BY <1>4 DEF manifest
  <2>2. /\ out = [ encoding |-> tok.encoding, mandate |-> "absent", manifest |-> tok.manifest,
                   half |-> NoHalf, manifest_half |-> tok.manifest_half ]
    BY <1>2, <2>1 DEF IsToken
  <2> HIDE DEF g
  <2>3. QED
    BY <1>1, <1>2, <2>1, <2>2 DEF Mandated, IsToken, ManifestSays, Parses, g
<1>5. QED
  BY <1>3, <1>4

LEMMA CliCarve ==
    ASSUME CliInv, CarveMandate \/ CarveManifest
    PROVE  CliInv'
<1>0. PICK a \in TokenArg(held.token) :
          \/ Carve("mandate", token(a), OnceRead(token(a), OrRejected(mandate(token(a)))))
          \/ Carve("manifest", token(a), OnceRead(token(a), OrRejected(manifest(token(a)))))
  BY DEF CarveMandate, CarveManifest, cmd_mandate, cmd_manifest
<1>1. PICK cmd \in {"mandate", "manifest"}, half \in {mandate(token(a)), manifest(token(a))} :
          Carve(cmd, token(a), OnceRead(token(a), OrRejected(half)))
  BY <1>0
<1> DEFINE r == OnceRead(token(a), OrRejected(half))
<1>2. /\ clock \in ClockValue /\ AtHand /\ held # None
      /\ UNCHANGED <<clock, halves>> /\ Ran(cmd, None, held, token(a), r)
      /\ held' = IF r.exit = 0 THEN [held EXCEPT !.token = r.out] ELSE held
  BY <1>1 DEF CliInv, Carve, Prints, CarveMandate, CarveManifest
<1>3. /\ r.exit = 2 <=> token(a) = Unreadable
      /\ r.exit # 2 => r = OrRejected(half)
  BY OrRejectedExits, OnceReadExits
<1> HIDE DEF r
<1>4. Told'
  <2>1. r.exit = 2 <=> Misuses(cmd, None, token(a))
    BY <1>3, OnlyUnread
  <2>2. cmd \in Plainly
    BY DEF Plainly
  <2>3. QED
    BY <1>2, <2>1, <2>2, PlainlyTold
<1>5. CASE r.exit # 0
  <2>1. UNCHANGED <<clock, held, halves>>
    BY <1>2, <1>5
  <2>2. AtHand'
    BY <1>2, <2>1 DEF AtHand, Mandated, Says, ManifestSays, SealedAs
  <2>3. QED
    BY <1>2, <1>4, <2>1, <2>2 DEF CliInv
<1>6. CASE r.exit = 0
  <2>1. half # None /\ held' = [held EXCEPT !.token = half] /\ token(a) # Unreadable
    BY <1>2, <1>3, <1>6, OrRejectedExits
  <2>2. held = [token |-> held.token, by |-> held.by, at |-> held.at]
    BY <1>2 DEF AtHand
  <2>3. /\ held' = [token |-> held'.token, by |-> held'.by, at |-> held'.at]
        /\ held'.by = held.by
    BY <2>1, <2>2
  <2>4. half = mandate(held.token) \/ half = manifest(held.token)
    BY <2>1, TokenRead
  <2>5. ASSUME Printed(held)' PROVE Mandated(held)'
    <3>1. Mandated(held)
      BY <1>2, <2>3, <2>5 DEF AtHand, Printed
    <3>2. Mandated([held EXCEPT !.token = half])
      BY <2>1, <2>2, <2>4, <3>1, CarvedMandated
    <3>3. QED
      BY <2>1, <3>2 DEF Mandated, Says, ManifestSays, AskedExp
  <2>6. QED
    BY <1>2, <1>4, <2>3, <2>5 DEF CliInv, AtHand
<1>7. QED
  BY <1>5, <1>6

LEMMA CliQuiet ==
    ASSUME CliInv, Parse \/ \E draw \in KeyBytes : GenerateKey(draw)
    PROVE  CliInv'
<1>1. /\ clock \in ClockValue /\ AtHand
      /\ UNCHANGED <<clock, held, halves>>
  BY DEF CliInv, Parse, Show, GenerateKey
<1>2. Told'
  <2>1. CASE Parse
    <3>1. PICK a \in TokenArg(held.token) : Ran("parse", None, held, token(a), cmd_parse(a))
      BY <2>1 DEF Parse, Show
    <3>2. cmd_parse(a).exit = 2 <=> token(a) = Unreadable
      BY OnceReadExits DEF cmd_parse, Exits, Rejected
    <3>3. cmd_parse(a).exit = 2 <=> Misuses("parse", None, token(a))
      BY <3>2, OnlyUnread
    <3>4. QED
      BY <3>1, <3>3, PlainlyTold DEF Plainly
  <2>2. ASSUME NEW draw \in KeyBytes, GenerateKey(draw) PROVE Told'
    <3>1. Ran("generate-key", None, None, None, cmd_generate_key(draw))
      BY <2>2 DEF GenerateKey
    <3>2. cmd_generate_key(draw).exit = 2 <=> Misuses("generate-key", None, None)
      BY DEF cmd_generate_key, Exits, Misuses
    <3>3. QED
      BY <3>1, <3>2, PlainlyTold DEF Plainly
  <2>3. QED
    BY <2>1, <2>2
<1>3. AtHand'
  BY <1>1 DEF AtHand, Mandated, Says, ManifestSays
<1>4. QED
  BY <1>1, <1>2, <1>3 DEF CliInv

LEMMA CliSeal ==
    ASSUME CliInv, NEW a \in Seals, Seal(a)
    PROVE  CliInv'
<1>1. /\ clock \in ClockValue /\ AtHand
      /\ UNCHANGED <<clock, held>> /\ Ran("seal", a, None, None, cmd_seal(a))
      /\ halves' = IF cmd_seal(a).exit = 0
                   THEN halves \cup {[text |-> cmd_seal(a).out, by |-> a]} ELSE halves
  BY DEF CliInv, Seal
<1>2. Told'
  BY <1>1, SealRuns, PlainlyTold DEF Plainly
<1>3. \A h \in halves' : SealedAs(h.text, h.by)
  BY <1>1, SealRuns DEF AtHand
<1>4. AtHand'
  BY <1>1, <1>3 DEF AtHand, Mandated, Says, ManifestSays, SealedAs
<1>5. QED
  BY <1>1, <1>2, <1>4 DEF CliInv

LEMMA CliOpen ==
    ASSUME CliInv, NEW o \in Opens, NEW h \in halves \cup {[text |-> Dash, by |-> None]},
           Open(h, o)
    PROVE  CliInv'
<1>1. PICK sealed \in Decodings(h.text, parse_encoding(o.encoding)) :
          Ran("open", o, h, sealed, cmd_open(sealed, o))
  BY DEF Open
<1>2. clock \in ClockValue /\ AtHand /\ UNCHANGED <<clock, held, halves>>
  BY DEF CliInv, Open
<1> DEFINE r == cmd_open(sealed, o)
<1>3. /\ last'.cmd = "open" /\ last'.args = o /\ last'.of = h /\ last'.input = sealed
      /\ last'.exit = r.exit /\ last'.out = r.out
  BY <1>1 DEF Ran
<1>4. r.exit = 2 <=> Misuses("open", o, sealed)
  BY OpenRuns
<1>5. ASSUME r.exit # 2, h.by # None
      PROVE  /\ r.exit = 0 <=> Agrees(o, h.by)
             /\ r.exit = 0 => r.out = read_input(h.by.octets, h.by.stdin)
  <2>1. SealedAs(h.text, h.by)
    BY <1>2, <1>5 DEF AtHand
  <2>2. QED
    BY <1>5, <2>1, OpenJudges
<1> HIDE DEF r
<1>6. ExitTells' /\ SealedHalfOpens'
  BY <1>3, <1>4, <1>5 DEF ExitTells, SealedHalfOpens
<1>7. PrintedTokenVerifies' /\ AdmitsSecretly' /\ ShowsManifest'
  BY <1>3 DEF PrintedTokenVerifies, AdmitsSecretly, ShowsManifest
<1>8. AtHand'
  BY <1>2 DEF AtHand, Mandated, Says, ManifestSays, SealedAs
<1>9. QED
  BY <1>2, <1>6, <1>7, <1>8 DEF CliInv, Told

LEMMA CliByHand ==
    ASSUME CliInv, NEW g \in halves, NEW h \in halves, NEW c \in AlgCode, Paste(g, h, c)
    PROVE  CliInv'
<1>1. /\ clock \in ClockValue /\ clock' = clock
      /\ halves' = {} /\ last' = [cmd |-> None] /\ held'.by = None
      /\ held' = [token |-> held'.token, by |-> held'.by, at |-> held'.at]
  BY DEF CliInv, Paste
<1>2. Told'
  BY <1>1, DistinctAssumption
     DEF Told, PrintedTokenVerifies, SealedHalfOpens, ExitTells, AdmitsSecretly, ShowsManifest
<1>3. QED
  BY <1>1, <1>2 DEF CliInv, AtHand, Printed

LEMMA CliUnmoved ==
    ASSUME CliInv, UNCHANGED <<held, halves, last>>, clock' \in ClockValue
    PROVE  CliInv'
BY DEF CliInv, AtHand, Mandated, Says, ManifestSays, SealedAs, Told, PrintedTokenVerifies,
       SealedHalfOpens, ExitTells, AdmitsSecretly, ShowsManifest, Now

LEMMA Invariance == Spec => []CliInv
<1>1. ASSUME CliInv, [Next]_vars PROVE CliInv'
  <2>1. ASSUME NEW t \in ClockValue, Tick(t) PROVE CliInv'
    BY <1>1, <2>1, CliUnmoved DEF Tick
  <2>2. CASE UNCHANGED vars
    BY <1>1, <2>2, CliUnmoved DEF vars, CliInv
  <2>3. QED
    BY <1>1, <2>1, <2>2, CliMint, CliClauses, CliClaims, CliCarve, CliQuiet, CliSeal, CliOpen,
       CliByHand DEF Next
<1>2. QED
  BY <1>1, CliInit, PTL DEF Spec

-----------------------------------------------------------------------------
(* What mint printed (main.rs:187), clauses reads back (main.rs:229) with  *)
(* the clauses that were asked for, however it was carved, and rejects for *)
(* time, audience, the key or a mandate that is gone only.                 *)
THEOREM PrintedVerifies == Spec => []PrintedTokenVerifies
<1>1. CliInv => PrintedTokenVerifies
  BY DEF CliInv, Told
<1>2. QED
  BY <1>1, Invariance, PTL

(* What seal printed, open reads back, and under no other key, algorithm   *)
(* or encoding than it was sealed with (main.rs:322, main.rs:336).         *)
THEOREM SealedOpens == Spec => []SealedHalfOpens
<1>1. CliInv => SealedHalfOpens
  BY DEF CliInv, Told
<1>2. QED
  BY <1>1, Invariance, PTL

(* A command exits with 2 exactly when it could not be run with its        *)
(* arguments and what it read from standard input (main.rs:163), open's    *)
(* --alg counting only once the half has decoded (main.rs:339).            *)
THEOREM ExitCodesTell == Spec => []ExitTells
<1>1. CliInv => ExitTells
  BY DEF CliInv, Told
<1>2. QED
  BY <1>1, Invariance, PTL

(* Nothing is admitted, and no mandate printed, but under a secret key:    *)
(* mandate_key refuses the public one however it is spelt (main.rs:188).   *)
THEOREM SecretKeysAdmit == Spec => []OnlySecretKeysAdmit
<1>1. CliInv => OnlySecretKeysAdmit
  <2> SUFFICES ASSUME CliInv PROVE OnlySecretKeysAdmit
    OBVIOUS
  <2>1. AdmitsSecretly
    BY DEF CliInv, Told
  <2>2. ASSUME Printed(held), held.token.mandate = "wellformed"
        PROVE  held.token.half.sealed.key \in MandateKey
    BY <2>2 DEF CliInv, AtHand, Mandated, Says
  <2>3. QED
    BY <2>1, <2>2 DEF OnlySecretKeysAdmit, AdmitsSecretly
<1>2. QED
  BY <1>1, Invariance, PTL

(* The secret fields read from standard input do not come out again as the *)
(* manifest's: standard input is read once (main.rs:420).                  *)
THEOREM InputStaysSealed == ASSUME SizesTell PROVE Spec => []SealedInputIsNotShown
<1>1. CliInv => SealedInputIsNotShown
  <2>1. SUFFICES ASSUME CliInv, last.cmd = "claims", last.exit = 0, Printed(last.of),
                        last.of.by.fields = Dash
                 PROVE  last.out.size # last.of.by.stdin.size + IssSize
    BY DEF SealedInputIsNotShown
  <2> DEFINE by == last.of.by
             m == Default(by.manifest_fields, EmptyObject)
  <2>2. /\ by \in Mints /\ by \in MintArg /\ ~MintMisused(by) /\ by.manifest_iss
        /\ last.out.size = mint_manifest(by).size + IssSize
    BY <2>1, ArgumentsAssumption DEF CliInv, Told, ShowsManifest
  <2>3. /\ mint_fields(by) = by.stdin /\ ~NoObject(by.stdin)
    BY <2>1, <2>2, DistinctAssumption DEF mint_fields, read_input, Default, MintMisused
  <2>4. ~NoObject(mint_manifest(by)) /\ mint_manifest(by) # NotJson
    BY <2>2 DEF MintMisused, NoObject
  <2>5. m # Dash /\ mint_manifest(by) = m
    BY <2>1, <2>2, <2>4 DEF mint_manifest, read_input, Drained
  <2>6. m.size # by.stdin.size
    BY <2>2, <2>3, <2>4, <2>5 DEF SizesTell
  <2>7. m \in JsonObject /\ by.stdin \in JsonObject
    BY <2>2, <2>3, <2>4, <2>5, MintInputs DEF NoObject, MintArg
  <2>8. m.size \in Nat /\ by.stdin.size \in Nat /\ IssSize \in Nat
    BY <2>7, ObjectTypes, CliAssumption
  <2> HIDE DEF m, by
  <2>9. QED
    BY <2>2, <2>5, <2>6, <2>8 DEF by
<1>2. QED
  BY <1>1, Invariance, PTL
=============================================================================
