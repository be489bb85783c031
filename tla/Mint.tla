-------------------------------- MODULE Mint --------------------------------
(***************************************************************************)
(* Minting: an Issuer is configured, lends itself to a MintBuilder, the    *)
(* builder is filled in by calls in any order, and mint() turns it into a  *)
(* token or an error.  The clock is read twice, by expires_in when it is   *)
(* called and by Uuid::now_v7 inside mint(), and moves in between.  The    *)
(* CBOR of the two plaintexts is in Serial: here an application value is   *)
(* its size, the error serializing it gives, and what decoding the result  *)
(* strictly gives.                                                         *)
(***************************************************************************)
EXTENDS AdmissionRules, FiniteSets

CONSTANTS
    IssuerKey,      \* the issuer's mandate key
    App,            \* application values, for either half
    Ticks,          \* clock ticks in a second (the code's are milliseconds)
    ClockValue,     \* what the system clock may show, in ticks since 1970
    Monotone,       \* TRUE: the system clock is never set back
    Dates,          \* bound: arguments of exp()
    Ttls,           \* bound: arguments of expires_in(), whole seconds
    GivenTids,      \* bound: arguments of tid()
    Audiences,      \* bound: arguments of audience()
    ReservedSize,   \* bytes the reserved entries of a mandate take, at least
    IssSize         \* bytes the iss of a manifest takes, at least

AppError == {"Serialization", "AppNotMap", "ReservedKey", "Nan"}
MintError == AppError \cup {"MissingExp", "EmptyAudience", "BadTid", "UnsupportedAlg"}
AppRecord == [error : AppError \cup {None}, size : Nat, decode_error : DecodeReason \cup {None}]
Tid == [kind : {"v7", "other"}, stamp : Nat]
Text == {"iss", "sub"}

ASSUME MintAssumption ==
    /\ IssuerKey \in MandateKey
    /\ App \subseteq AppRecord
    /\ Ticks \in Nat \ {0}
    /\ ClockValue \subseteq Int /\ \A t \in ClockValue : t <= NDMax
    /\ Monotone \in BOOLEAN
    /\ Dates \subseteq NumericDate
    /\ Ttls \subseteq Nat
    /\ GivenTids \subseteq Tid /\ None \notin Tid
    /\ Audiences \subseteq SUBSET Identifier
    /\ ReservedSize \in Nat \ {0} /\ IssSize \in Nat \ {0}
    /\ None \notin MintError

(* A half that is assembled is a string in memory.                         *)
ASSUME FitsInMemory ==
    \A app \in App, e \in Encoding, n \in {ReservedSize + Cardinality(Text), IssSize} :
        encoded_len(app.size + n + AEAD_TAG, e) <= USizeMax

VARIABLES
    clock,          \* the system clock
    issuer,         \* the Issuer
    builder,        \* the MintBuilder, once clauses() has made it
    outcome,        \* what mint() returned
    asked           \* history: the last expires_in() still in force

vars == <<clock, issuer, builder, outcome, asked>>

Init ==
    /\ clock \in ClockValue
    /\ issuer = [alg |-> "Siv", manifest_alg |-> "Siv", encoding |-> "B64"]
    /\ builder = None
    /\ outcome = None
    /\ asked = None

Tick(t) ==
    /\ t # clock
    /\ Monotone => t > clock
    /\ clock' = t
    /\ UNCHANGED <<issuer, builder, outcome, asked>>

(* NumericDates are whole seconds.                                         *)
seconds(ticks) == ticks \div Ticks

-----------------------------------------------------------------------------
(* The Issuer's own settings, made before it is lent. *)

ConfigureIssuer(i) ==
    /\ builder = None
    /\ issuer' = i
    /\ UNCHANGED <<clock, builder, outcome, asked>>

SetAlg(a) == ConfigureIssuer([issuer EXCEPT !.alg = a])
SetManifestAlg(a) == ConfigureIssuer([issuer EXCEPT !.manifest_alg = a])
SetEncoding(e) == ConfigureIssuer([issuer EXCEPT !.encoding = e])

NewBuilder(app) ==
    [ app |-> app, exp |-> None, tid |-> None, aud |-> None, texts |-> {},
      manifest |-> None ]

Begin(app) ==
    /\ builder = None
    /\ builder' = NewBuilder(app)
    /\ UNCHANGED <<clock, issuer, outcome, asked>>

-----------------------------------------------------------------------------
(* The builder's calls.  Each replaces what the same call set before. *)

Fill(b) ==
    /\ builder # None /\ outcome = None
    /\ builder' = b
    /\ UNCHANGED <<clock, issuer, outcome>>

SetExp(t) == Fill([builder EXCEPT !.exp = t]) /\ asked' = None

ExpiryUnsaturated(ttl) == now_unix(seconds(clock)) + ttl    \* mutant

ExpiryRoundedUp(ttl) == saturating_add(seconds(clock + Ticks - 1), Least(ttl, NDMax)) \* mutant

ExpiryIn(ttl) == saturating_add(now_unix(seconds(clock)), Least(ttl, NDMax))

ExpiresIn(ttl) ==
    /\ Fill([builder EXCEPT !.exp = ExpiryIn(ttl)])
    /\ asked' = [at |-> clock, ttl |-> ttl]

SetTid(t) == Fill([builder EXCEPT !.tid = t]) /\ UNCHANGED asked

SetAudience(ids) == Fill([builder EXCEPT !.aud = ids]) /\ UNCHANGED asked

(* issuer() and subject(): the mandate's iss and sub.                      *)
SetText(f) == Fill([builder EXCEPT !.texts = @ \cup {f}]) /\ UNCHANGED asked

(* The manifest's plaintext is made here, its error reported by mint().    *)
SetManifest(claims) ==
    Fill([builder EXCEPT !.manifest = claims]) /\ UNCHANGED asked

-----------------------------------------------------------------------------
(* The errors of mint(), in the order of its early returns: the mandate's  *)
(* first, and only then what went wrong with the manifest.                 *)
mandate_error ==
    IF builder.exp = None THEN "MissingExp"
    ELSE IF builder.aud = {} THEN "EmptyAudience"
    ELSE IF builder.tid # None /\ builder.tid.kind # "v7" THEN "BadTid"
    ELSE IF builder.app.error # None THEN builder.app.error
    ELSE IF issuer.alg \notin CompiledAlgs THEN "UnsupportedAlg" ELSE None

manifest_error ==
    IF builder.manifest = None THEN None
    ELSE IF builder.manifest.error # None THEN builder.manifest.error
    ELSE IF issuer.manifest_alg \notin CompiledAlgs THEN "UnsupportedAlg" ELSE None

mint_errorMandateOnly == mandate_error                      \* mutant

mint_error == IF mandate_error # None THEN mandate_error ELSE manifest_error

(* A tid that was not given is stamped with the clock.  What Uuid::now_v7  *)
(* does on a clock set before 1970 is the library's affair: no such call   *)
(* is modelled.                                                            *)
MintedTid ==
    IF builder.tid = None THEN [kind |-> "v7", stamp |-> clock] ELSE builder.tid

mandate_plaintext ==
    [ size |-> builder.app.size + ReservedSize + Cardinality(builder.texts),
      error |-> builder.app.decode_error, claims |-> FALSE,
      fields |-> [exp |-> builder.exp, tid |-> MintedTid.kind, aud |-> builder.aud] ]

(* The only reserved entry of a minted manifest is its iss: read as a      *)
(* mandate it lacks the clauses of one.                                    *)
manifest_plaintext ==
    [ size |-> builder.manifest.size + IssSize,
      error |-> builder.manifest.decode_error,
      claims |-> builder.manifest.decode_error = None,
      fields |-> [exp |-> None, tid |-> "absent", aud |-> None] ]

(* The token, its mandate showing the code of alg.                         *)
AssembledAs(alg) ==
    [ encoding |-> issuer.encoding, mandate |-> "wellformed",
      manifest |-> IF builder.manifest = None THEN "absent" ELSE "wellformed",
      half |-> HalfText(seal(mandate_plaintext, IssuerKey, issuer.alg),
                        code(alg), issuer.encoding),
      manifest_half |->
          IF builder.manifest = None THEN NoHalf
          ELSE HalfText(seal(manifest_plaintext, ManifestKey, issuer.manifest_alg),
                        code(issuer.manifest_alg), issuer.encoding) ]

AssembledWithManifestCode == AssembledAs(issuer.manifest_alg)   \* mutant

Assembled == AssembledAs(issuer.alg)

tid_issued_at(tid) == seconds(tid.stamp)

ReadsClock == builder.tid = None /\ mint_error \notin {"MissingExp", "EmptyAudience"}

MintToken ==
    /\ builder # None /\ outcome = None
    /\ ReadsClock => clock >= 0
    /\ outcome' = IF mint_error # None
                  THEN [error |-> mint_error]
                  ELSE [error |-> None, token |-> Assembled,
                        issued_at |-> tid_issued_at(MintedTid)]
    /\ UNCHANGED <<clock, issuer, builder, asked>>

(* mint() consumed the builder, or its owner drops it: the Issuer is free  *)
(* again, to be configured or to begin another.                            *)
Discard ==
    /\ builder # None
    /\ builder' = None /\ outcome' = None /\ asked' = None
    /\ UNCHANGED <<clock, issuer>>

-----------------------------------------------------------------------------
Next ==
    \/ \E t \in ClockValue : Tick(t)
    \/ \E a \in Alg : SetAlg(a) \/ SetManifestAlg(a)
    \/ \E e \in Encoding : SetEncoding(e)
    \/ \E app \in App : Begin(app) \/ SetManifest(app)
    \/ \E t \in Dates : SetExp(t)
    \/ \E ttl \in Ttls : ExpiresIn(ttl)
    \/ \E t \in GivenTids : SetTid(t)
    \/ \E ids \in Audiences : SetAudience(ids)
    \/ \E f \in Text : SetText(f)
    \/ MintToken
    \/ Discard

Spec == Init /\ [][Next]_vars

-----------------------------------------------------------------------------
(* The types of the Rust values. *)
Builder ==
    [ app : App, exp : NumericDate \cup {None}, tid : GivenTids \cup {None},
      aud : Audiences \cup {None}, texts : SUBSET Text, manifest : App \cup {None} ]

ASSUME NoBuilderAssumption == None \notin Builder

Outcome ==
    [error : MintError] \cup
    [error : {None}, token : Token, issued_at : Nat]

(* Every variable holds values the code's types allow: an expiry that      *)
(* expires_in computes is a date, and a minted token is a token.           *)
TypeOK ==
    /\ clock \in ClockValue
    /\ issuer \in [alg : Alg, manifest_alg : Alg, encoding : Encoding]
    /\ builder = None \/ builder \in Builder
    /\ outcome = None \/ outcome \in Outcome
    /\ asked = None \/ asked \in [at : ClockValue, ttl : Ttls]

Minted == IF outcome = None THEN FALSE ELSE outcome.error = None

(* Rules a request to mint may break, in no order.  A half that is not     *)
(* there breaks none.                                                      *)
Values == {builder.app} \cup ({builder.manifest} \ {None})

UsedAlgs ==
    {issuer.alg} \cup IF builder.manifest = None THEN {} ELSE {issuer.manifest_alg}

Breaks(r) ==
    \/ r = "MissingExp" /\ builder.exp = None
    \/ r = "EmptyAudience" /\ builder.aud = {}
    \/ r = "BadTid" /\ builder.tid # None /\ builder.tid.kind = "other"
    \/ r = "UnsupportedAlg" /\ ~(UsedAlgs \subseteq CompiledAlgs)
    \/ \E v \in Values : v.error = r

(* mint() gives a token exactly when no rule is broken, whatever calls     *)
(* were made before and in whatever order: a manifest that could not be    *)
(* serialized is reported though the call that made it returned a builder, *)
(* and a later manifest() call takes the error back.                       *)
MintExact ==
    outcome # None =>
        IF Minted THEN \A r \in MintError : ~Breaks(r) ELSE Breaks(outcome.error)

(* The default Verifier, with the issuer's key and an identifier.          *)
Checker(id) ==
    [ keys |-> <<IssuerKey>>, audience |-> id, leeway |-> 0, now |-> None,
      max_decoded_len |-> DEFAULT_MAX_DECODED_LEN ]

token == outcome.token
expiry == token.half.sealed.plain.fields.exp

Intended(id) ==
    builder.aud = None \/ id \in builder.aud

(* What was minted is admitted: by a default Verifier that has the key and *)
(* is in the audience, until it expires and not after.  Only a half above  *)
(* the Verifier's size cap, or application entries that do not decode      *)
(* strictly, which mint() does not look for, are refused.                  *)
MintedIsAdmitted ==
    Minted => \A id \in Identifier : \A t \in { now_unix(seconds(c)) : c \in ClockValue } :
        /\ Intended(id)
        /\ builder.app.decode_error = None
        /\ Fits(token.half.sealed.size, Checker(id))
        => Violations(token, "clauses", Checker(id), t) =
               IF t >= expiry THEN {"Expired"} ELSE {}

(* Time the code can tell: nothing before 1970.                            *)
Since1970(c) == IF c < 0 THEN 0 ELSE c

(* A mandate minted to expire in ttl seconds is not admitted once they     *)
(* have passed since expires_in was called, however long the builder was   *)
(* held before mint(), and for all the rounding to whole seconds.          *)
NeverOutlivesTtl ==
    Minted /\ asked # None => \A id \in Identifier \cup {None} :
        clock >= Since1970(asked.at) + asked.ttl * Ticks =>
            Violations(token, "clauses", Checker(id), now_unix(seconds(clock))) # {}

(* While the clock is not set back, the lifetime a reader of the token     *)
(* sees, from the issue time in a tid that mint() made to exp, is at most  *)
(* the ttl asked for.                                                      *)
LifetimeWithinTtl ==
    Minted /\ asked # None /\ builder.tid = None =>
        expiry - outcome.issued_at <= asked.ttl
=============================================================================
