------------------------------- MODULE Serial -------------------------------
(***************************************************************************)
(* Canonical serialization (serial.rs): an issuer assembles a half's       *)
(* plaintext, or one arrives that some other holder of the key sealed, and *)
(* the two decoders read it: from_mandate_plaintext, which stops at the    *)
(* first error, and from_manifest_plaintext, which then shows nothing.     *)
(***************************************************************************)
EXTENDS Cbor

CONSTANTS
    AppValue,       \* application values handed to mint
    Clauses,        \* reserved clauses handed to mint
    WireValue,      \* decoded plaintexts sealed by others
    NDMax,          \* i64::MAX
    None

VARIABLES
    source,         \* what the plaintext was minted from, or None
    plain,          \* the plaintext, or the MintError
    rest,           \* each decoder's entries still to be classified
    got,            \* each decoder's reserved fields so far
    opaque,         \* each decoder's application entries so far
    out             \* each decoder's outcome

vars == <<source, plain, rest, got, opaque, out>>

Kind == {"mandate", "manifest"}
Key == [tid |-> -1, exp |-> -2, aud |-> -3, sub |-> -4, iss |-> -5]
RESERVED == DOMAIN Key

(* A plaintext is its decoded value, if it decodes, and whether its bytes  *)
(* are the ones encode gives for that value (exact): shortest forms,       *)
(* definite lengths, nothing after the end.                                *)
Plaintext(decodes, value, exact) ==
    [error |-> None, decodes |-> decodes, value |-> value, exact |-> exact]

Init ==
    /\ source = None
    /\ plain = None
    /\ rest = [kind \in Kind |-> None]
    /\ got = [kind \in Kind |-> [f \in RESERVED |-> None]]
    /\ opaque = [kind \in Kind |-> <<>>]
    /\ out = [kind \in Kind |-> None]

-----------------------------------------------------------------------------
(* Minting. *)

app_error(app) ==
    IF app.t = "unserializable" THEN "Serialization"
    ELSE IF app.t # "map" THEN "AppNotMap"
    ELSE IF \E i \in DOMAIN app.s : is_negative_int(app.s[i].k) THEN "ReservedKey"
    ELSE IF \E i \in DOMAIN app.s : contains_nan(app.s[i].v) THEN "Nan"
    ELSE None

assembleUnsorted(entries) == MapOf(entries)                 \* mutant

assemble(entries) == canonicalize(MapOf(entries))

(* The entry of a clause, when it is set.                                  *)
Put(clauses, f) ==
    IF clauses[f] = None THEN <<>> ELSE <<Entry(ikey(Key[f]), clauses[f])>>

ReservedEntries(kind, clauses) ==
    IF kind = "manifest" THEN Put(clauses, "iss")
    ELSE Put(clauses, "tid") \o Put(clauses, "exp") \o Put(clauses, "aud")
             \o Put(clauses, "sub") \o Put(clauses, "iss")

Required(kind) == IF kind = "mandate" THEN {"tid", "exp"} ELSE {"iss"}

to_plaintext(kind, clauses, app) ==
    assemble(app.s \o ReservedEntries(kind, clauses))

Mint(kind, clauses, app) ==
    /\ plain = None
    /\ \A f \in Required(kind) : clauses[f] # None
    /\ source' = [kind |-> kind, clauses |-> clauses, app |-> app]
    /\ plain' = IF app_error(app) # None
                THEN [error |-> app_error(app)]
                ELSE Plaintext(TRUE, to_plaintext(kind, clauses, app), TRUE)
    /\ UNCHANGED <<rest, got, opaque, out>>

Receive(value, decodes, exact) ==
    /\ plain = None
    /\ plain' = Plaintext(decodes, value, exact)
    /\ UNCHANGED <<source, rest, got, opaque, out>>

-----------------------------------------------------------------------------
(* Reading. *)

Repeats(entries) ==
    \E i, j \in DOMAIN entries : i < j /\ encode(entries[i].k) = encode(entries[j].k)

strict_errorRepeats(p) ==                                   \* mutant
    IF ~p.decodes \/ p.value.t # "map" THEN "Malformed"
    ELSE IF \/ contains_nan(p.value)
            \/ has_invalid_map_key(p.value)
            \/ ~p.exact \/ encode(canonicalize(p.value)) # encode(p.value)
    THEN "NonCanonical"
    ELSE None

strict_error(p) ==
    IF ~p.decodes \/ p.value.t # "map" THEN "Malformed"
    ELSE IF \/ contains_nan(p.value)
            \/ has_invalid_map_key(p.value)
            \/ Repeats(p.value.s)
            \/ ~p.exact \/ encode(canonicalize(p.value)) # encode(p.value)
    THEN "NonCanonical"
    ELSE None

classify(k) ==
    IF \E f \in RESERVED : k = ikey(Key[f]) THEN CHOOSE f \in RESERVED : k = ikey(Key[f])
    ELSE IF is_negative_int(k) THEN "unknown"
    ELSE IF BadKey(k) THEN "invalid" ELSE "app"

read_int(v) == v.t = "int" /\ v.n \in -(NDMax + 1) .. NDMax

(* read_tid, read_int, read_text and read_aud: the value's type is right.  *)
Reads(field, v) ==
    \/ field = "tid" /\ v.t = "bytes" /\ v.n = 16
    \/ field = "exp" /\ read_int(v)
    \/ field = "aud" /\ v.t = "array" /\ \A i \in DOMAIN v.s : v.s[i].t = "text"
    \/ field \in {"sub", "iss"} /\ v.t = "text"

(* A manifest that cannot be read is nothing to show, for any reason.      *)
Return(kind, outcome) ==
    /\ out' = [out EXCEPT ![kind] = IF kind = "manifest" /\ outcome # "Ok"
                                    THEN "Nothing" ELSE outcome]
    /\ UNCHANGED <<source, plain, rest, got, opaque>>

Open(kind) ==
    /\ plain # None /\ plain.error = None
    /\ rest[kind] = None /\ out[kind] = None
    /\ IF strict_error(plain) # None
       THEN Return(kind, strict_error(plain))
       ELSE /\ rest' = [rest EXCEPT ![kind] = plain.value.s]
            /\ UNCHANGED <<source, plain, got, opaque, out>>

RecognizesMore(kind) == RESERVED                            \* mutant

(* The reserved keys with a match arm of their own.                        *)
Recognized(kind) == IF kind = "mandate" THEN RESERVED ELSE {"iss", "exp"}

(* The error of the arm an entry is matched by, if it has one.             *)
arm_error(kind, e) ==
    LET c == classify(e.k) IN
    IF c = "app" THEN None
    ELSE IF c = "invalid" THEN "NonCanonical"
    ELSE IF c \notin Recognized(kind) THEN "UnknownReservedKey"
    ELSE IF Reads(c, e.v) THEN None ELSE "BadType"

Running(kind) == rest[kind] # None /\ out[kind] = None

Take(kind) ==
    /\ Running(kind) /\ rest[kind] # <<>>
    /\ LET e == Head(rest[kind])
           c == classify(e.k)
       IN  IF arm_error(kind, e) # None THEN Return(kind, arm_error(kind, e))
           ELSE /\ got' = IF c = "app" THEN got ELSE [got EXCEPT ![kind][c] = e.v]
                /\ opaque' = IF c = "app" THEN [opaque EXCEPT ![kind] = Append(@, e)]
                                          ELSE opaque
                /\ rest' = [rest EXCEPT ![kind] = Tail(@)]
                /\ UNCHANGED <<source, plain, out>>

(* The caller's type may refuse the application entries; a manifest must   *)
(* have its iss.                                                           *)
Finish(kind) ==
    /\ Running(kind) /\ rest[kind] = <<>>
    /\ IF kind = "manifest" /\ got[kind]["iss"] = None
       THEN Return(kind, "Nothing")
       ELSE Return(kind, "Malformed") \/ Return(kind, "Ok")

-----------------------------------------------------------------------------
Next ==
    \/ \E kind \in Kind, clauses \in Clauses, app \in AppValue : Mint(kind, clauses, app)
    \/ \E value \in WireValue, decodes, exact \in BOOLEAN : Receive(value, decodes, exact)
    \/ \E kind \in Kind : Open(kind) \/ Take(kind) \/ Finish(kind)

Spec == Init /\ [][Next]_vars

-----------------------------------------------------------------------------
(* The reference: canonical form over all the values inside a value. *)
Ascending(m) ==
    \A i, j \in DOMAIN m.s : i < j => ~Before(encode(m.s[j].k), encode(m.s[i].k))

StrictlyAscending(m) ==
    \A i, j \in DOMAIN m.s : i < j => Before(encode(m.s[i].k), encode(m.s[j].k))

Portable(v) ==
    \A x \in Inside(v) :
        /\ x # Leaf("float", 1)
        /\ x.t = "map" => \A i \in DOMAIN x.s : x.s[i].k.t \in {"int", "text"}

Canonical(p) ==
    /\ p.decodes /\ p.exact /\ p.value.t = "map" /\ Portable(p.value)
    /\ StrictlyAscending(p.value)
    /\ \A x \in Inside(p.value) : x.t = "map" => Ascending(x)

(* Every entry is an application entry or a field this kind of half has.   *)
Entitled(kind, value) ==
    \A i \in DOMAIN value.s :
        LET e == value.s[i] IN
        e.k.t = "int" /\ e.k.n < 0 =>
            \E f \in Recognized(kind) : Key[f] = e.k.n /\ Reads(f, e.v)

Field(value, n) == { value.s[i].v : i \in { j \in DOMAIN value.s :
                        value.s[j].k.t = "int" /\ value.s[j].k.n = n } }

(* A half is decoded exactly if its bytes are the canonical form of a map  *)
(* of entries it may have, whatever order and types it arrived in, and     *)
(* what is read are its fields.  Past that only the caller's type, or a    *)
(* manifest without its iss, can still fail, when nothing is left to read. *)
DecodesExactly ==
    \A kind \in Kind : out[kind] # None =>
        /\ out[kind] = "Ok" => Canonical(plain) /\ Entitled(kind, plain.value)
        /\ rest[kind] # <<>> => ~(Canonical(plain) /\ Entitled(kind, plain.value))
        /\ out[kind] = "Ok" => \A f \in RESERVED :
              Field(plain.value, Key[f]) =
                  IF got[kind][f] = None THEN {} ELSE {got[kind][f]}

(* A decoder never meets a key it would have to refuse a second time, and  *)
(* never a field it has already read: the Invalid arm and the overwriting  *)
(* of a field are out of reach behind strict_map.                          *)
EachFieldReadOnce ==
    \A kind \in Kind : Running(kind) /\ rest[kind] # <<>> =>
        LET c == classify(Head(rest[kind]).k) IN
        c # "invalid" /\ (c \in RESERVED => got[kind][c] = None)

(* No plaintext passes for both halves: what shows as a manifest lacks the *)
(* tid a mandate must have, so an issuer's mandate never opens as one.     *)
NeverBoth ==
    ~(out["mandate"] = "Ok" /\ got["mandate"]["tid"] # None /\ out["manifest"] = "Ok")

Minted == source # None /\ plain.error = None

(* What is minted from portable values without a repeated key reads back,  *)
(* clause for clause, and is refused at most by the caller's own type.     *)
MintedReadsBack ==
    Minted /\ Portable(source.app) /\ ~Repeats(source.app.s) =>
        LET kind == source.kind IN
        /\ out[kind] # None => rest[kind] = <<>>
        /\ out[kind] = "Ok" => \A f \in RESERVED :
              got[kind][f] = IF f \in Recognized(kind) /\ (kind = "mandate" \/ f = "iss")
                             THEN source.clauses[f] ELSE None
        /\ out[kind] = "Ok" =>
              encode(MapOf(opaque[kind])) = encode(canonicalize(source.app))

(* "Identical fields mint byte-identical tokens" (serial.rs:5): the order  *)
(* in which the application lists its entries does not show, unless two    *)
(* keys became one in canonical form, which no verifier accepts.           *)
Reordered(s) == [i \in DOMAIN s |-> s[Len(s) + 1 - i]]

OrderDoesNotShow ==
    Minted /\ ~Repeats(plain.value.s) =>
        encode(plain.value) = encode(to_plaintext(source.kind, source.clauses,
                                                  MapOf(Reordered(source.app.s))))

(* serial.rs:10: "A verifier rejects a half that ... repeats a key", and   *)
(* serial.rs:235: "Canonical CBOR forbids duplicate keys".                 *)
NoKeyRepeatsInside ==
    \A kind \in Kind : out[kind] = "Ok" =>
        \A x \in Inside(plain.value) : x.t = "map" => ~Repeats(x.s)

(* serial.rs:81, of NaN: "mint refuses to emit one".                       *)
MintEmitsNoNan == Minted => ~contains_nan(plain.value)
-----------------------------------------------------------------------------
(* A clause is what Issuer and MintBuilder hold: the type its reader wants.*)
ClauseOf(f) == { clauses[f] : clauses \in Clauses } \ {None}

ASSUME ClausesAssumption ==
    \A f \in RESERVED : ClauseOf(f) \subseteq Value /\ \A v \in ClauseOf(f) : Reads(f, v)

(* The values in play include every plaintext.                             *)
AppMap == { app \in AppValue : app.t = "map" }

ASSUME PlayAssumption ==
    /\ WireValue \cup AppMap \subseteq Value
    /\ { MapOf(app.s \o ReservedEntries(kind, clauses)) :
            app \in AppMap, kind \in Kind, clauses \in Clauses } \subseteq Value
    /\ { MapOf(Reordered(app.s) \o ReservedEntries(kind, clauses)) :
            app \in AppMap, kind \in Kind, clauses \in Clauses } \subseteq Value

MintError == {"Serialization", "AppNotMap", "ReservedKey", "Nan"}
Outcome == {"Malformed", "NonCanonical", "UnknownReservedKey", "BadType", "Nothing", "Ok"}

ASSUME NoneAssumption ==
    /\ None \notin Value \cup Seq(Entries) \cup MintError \cup Outcome
    /\ \A decodes, exact \in BOOLEAN, value \in Value :
          None # Plaintext(decodes, value, exact)
    /\ \A error \in MintError : None # [error |-> error]
    /\ \A kind \in Kind, clauses \in Clauses, app \in AppValue :
          None # [kind |-> kind, clauses |-> clauses, app |-> app]
=============================================================================
