------------------------------ MODULE Exchange ------------------------------
(***************************************************************************)
(* The parts at work together: an Issuer on one host mints, front ends     *)
(* without any key show the manifest and carve halves out, and the         *)
(* Verifier of a backend on another host judges what reaches it, however   *)
(* late.  The hosts' clocks differ by up to MaxSkew, which is what a       *)
(* leeway is for.  Issuer and Verifier are configured when a behaviour     *)
(* starts; how they get there is in Mint and in Verifier.                  *)
(***************************************************************************)
EXTENDS FrontEnd, FiniteSets

CONSTANTS
    IssuerKey, App, Ticks, Ttls, Audiences, ReservedSize, IssSize,
    Call,           \* the calls made of the Verifier
    Issuers,        \* configured Issuers
    Verifiers,      \* configured Verifiers, which read the system clock
    OtherManifests, \* halves others sealed under the public key
    MaxSkew,        \* how far the two clocks may be apart, in ticks
    Horizon,        \* bound: the last tick of either clock
    MaxMints        \* bound: tokens handed over

VARIABLES
    issuer_clock, verifier_clock,
    issuer, builder, outcome, asked,                    \* the Issuer's host
    verifier, pc, request, next, plain, now, result,    \* the Verifier's
    minted,         \* the tokens handed over, each with the ttl asked for
    origin,         \* history: the form each call was given
    read_at         \* history: the issuer's clock when a call read its own

issuing == <<issuer, builder, outcome, asked>>
verifying == <<verifier, pc, request, next, plain, now, result>>
history == <<origin, read_at>>
vars == <<issuer_clock, verifier_clock, issuing, verifying, minted, history>>

Clock == 0 .. Horizon

I == INSTANCE Mint
        WITH clock <- issuer_clock, ClockValue <- Clock, Monotone <- TRUE, GivenTids <- {}, Dates <- {}

V == INSTANCE Verifier
        WITH clock <- verifier_clock \div Ticks, ClockValue <- Clock, Monotone <- TRUE,
             Presented <- {}, MaxKeys <- 0, Durations <- {}, Pins <- {}, Caps <- {}

(* Nothing is minted that does not serialize, decode and fit, and time     *)
(* ends before the last date.                                              *)
ASSUME ExchangeAssumption ==
    /\ MaxSkew \in Nat /\ Horizon \in Nat /\ MaxMints \in Nat
    /\ Horizon < NDMax
    /\ None \notin [at : Clock, ttl : Ttls]
    /\ Issuers \subseteq [alg : Alg, manifest_alg : Alg, encoding : Encoding]
    /\ \A a \in App : a.error = None /\ a.decode_error = None
    /\ \A v \in Verifiers :
          /\ v \in Policy /\ v.now = None
          /\ \A a \in App : a.size + ReservedSize + 2 + AEAD_TAG <= v.max_decoded_len
    /\ OtherManifests \subseteq Half
    /\ \A h \in OtherManifests :
          /\ h.sealed # None /\ h.sealed.key = ManifestKey
          /\ from_code(h.alg_code) = h.sealed.alg /\ h.sealed.alg \in CompiledAlgs
          /\ h.sealed.size \in MIN_HALF_BYTES .. DEFAULT_MAX_DECODED_LEN

ASSUME PartsAssumption ==
    /\ I!MintAssumption /\ I!FitsInMemory /\ I!NoBuilderAssumption
    /\ V!VerifierAssumption /\ V!NoRequestAssumption

Init ==
    /\ issuer_clock = 0 /\ verifier_clock = 0
    /\ issuer \in Issuers /\ builder = None /\ outcome = None /\ asked = None
    /\ verifier \in Verifiers
    /\ pc = [c \in Call |-> "idle"]
    /\ request = [c \in Call |-> None]
    /\ next = [c \in Call |-> 0]
    /\ plain = [c \in Call |-> None]
    /\ now = [c \in Call |-> None]
    /\ result = [c \in Call |-> None]
    /\ minted = {}
    /\ origin = [c \in Call |-> None]
    /\ read_at = [c \in Call |-> None]

-----------------------------------------------------------------------------
(* The two clocks. *)

TickIssuer ==
    /\ issuer_clock < Horizon /\ issuer_clock - verifier_clock < MaxSkew
    /\ I!Tick(issuer_clock + 1)
    /\ UNCHANGED <<verifier_clock, verifying, minted, history>>

TickVerifier ==
    /\ verifier_clock < Horizon /\ verifier_clock - issuer_clock < MaxSkew
    /\ verifier_clock' = verifier_clock + 1
    /\ UNCHANGED <<issuer_clock, issuing, verifying, minted, history>>

-----------------------------------------------------------------------------
(* The Issuer's host. *)

Request ==
    \/ \E app \in App : I!Begin(app) \/ I!SetManifest(app)
    \/ \E ttl \in Ttls : I!ExpiresIn(ttl)
    \/ \E ids \in Audiences : I!SetAudience(ids)
    \/ I!MintToken
    \/ I!Discard

Issue ==
    /\ Cardinality(minted) < MaxMints
    /\ Request
    /\ UNCHANGED <<verifier_clock, verifying, minted, history>>

(* A minted token goes to its holder and mint() is over.                   *)
HandOver ==
    /\ I!Minted
    /\ minted' = minted \cup {[token |-> outcome.token, asked |-> asked]}
    /\ I!Discard
    /\ UNCHANGED <<verifier_clock, verifying, history>>

-----------------------------------------------------------------------------
(* Between the hosts.  A form is a token together with the minted token    *)
(* its mandate is from and the half its manifest is.                       *)

From(f, token) == IF token = None THEN {} ELSE {[f EXCEPT !.token = token]}

(* The mandate also travels in a header, whose scheme the backend takes    *)
(* off again.                                                              *)
Forwarded(f) ==
    LET header == authorization_header(f.token, "Bearer") IN
    IF header = None THEN {} ELSE From(f, header.credentials)

(* The manifest's key is public and nothing binds the halves together: a   *)
(* holder may put a manifest of another's making before a mandate.         *)
Spliced(f) ==
    IF f.token.mandate = "wellformed"
    THEN { [f EXCEPT !.token.manifest = "wellformed", !.token.manifest_half = h,
                     !.manifest = h] :
             h \in { m \in OtherManifests : WellSized(m, f.token.encoding) } }
    ELSE {}

Derived(forms) ==
    UNION { {f} \cup From(f, mandate(f.token)) \cup From(f, manifest(f.token))
                \cup Forwarded(f) \cup Spliced(f) : f \in forms }

(* Two rounds: a half carved out and carried on, alone or with another.    *)
Circulating ==
    Derived(Derived({ [token |-> m.token, mandate_of |-> m, manifest |-> m.token.manifest_half] :
                        m \in minted }))

-----------------------------------------------------------------------------
(* The Verifier's host. *)

Present(c, terminal, f) ==
    /\ UNCHANGED <<verifier_clock, issuer_clock, issuing, minted, read_at>>
    /\ V!Start(c, terminal, f.token)
    /\ origin' = [origin EXCEPT ![c] = f]

Judge(c) ==
    /\ UNCHANGED <<verifier_clock, issuer_clock, issuing, minted, origin>>
    /\ V!CheckExp(c)
    /\ read_at' = [read_at EXCEPT ![c] = issuer_clock]

Proceed(c) ==
    /\ UNCHANGED <<verifier_clock, issuer_clock, issuing, minted, history>>
    /\ \/ V!Parse(c) \/ V!Measure(c) \/ V!Trial(c) \/ V!Decode(c)
       \/ V!Presence(c) \/ V!CheckTid(c) \/ V!CheckAud(c)

Next ==
    \/ TickIssuer \/ TickVerifier
    \/ Issue \/ HandOver
    \/ \E c \in Call, terminal \in Terminal, f \in Circulating : Present(c, terminal, f)
    \/ \E c \in Call : Judge(c) \/ Proceed(c)

Spec == Init /\ [][Next]_vars

-----------------------------------------------------------------------------
exp(c) == origin[c].mandate_of.token.half.sealed.plain.fields.exp
aud(c) == origin[c].mandate_of.token.half.sealed.plain.fields.aud
asked_for(c) == origin[c].mandate_of.asked

(* However the two clocks run within the skew, whatever time the builder,  *)
(* the carving and the call took, clauses never admits a mandate once the  *)
(* ttl the issuer asked for, counted on the issuer's clock, and the leeway *)
(* and the skew have passed.                                               *)
AdmittedWithinAsked ==
    \A c \in Call :
        V!Done(c, {"Ok"}) /\ request[c].terminal = "clauses" =>
            read_at[c] <
                asked_for(c).at + (asked_for(c).ttl + verifier.leeway) * Ticks + MaxSkew

(* A leeway of at least the skew does its work: no mandate is rejected as  *)
(* expired while the issuer's clock says it is not.                        *)
LeewayCoversSkew ==
    \A c \in Call :
        V!Done(c, {"Expired"}) /\ verifier.leeway * Ticks >= MaxSkew =>
            read_at[c] >= exp(c) * Ticks

(* The reasons a minted mandate may be refused for.                        *)
Refusable(c, r) ==
    \/ r = "EmptyMandate" /\ origin[c].token.mandate = "absent"
    \/ r = "AuthFailed" /\ IssuerKey \notin CandidateKeys(verifier)
    \/ request[c].terminal = "clauses" /\ r = "Expired"
    \/ /\ request[c].terminal = "clauses" /\ r = "AudienceMismatch"
       /\ aud(c) # None /\ verifier.audience \notin aud(c)

(* Minting, carving, splicing and verifying agree on what a mandate is:    *)
(* one that mint() made, of a value that decodes and fits, reaches its     *)
(* clauses through carving and forwarding and beside any other manifest,   *)
(* and is refused for time, audience or a missing key only.                *)
MintedGetsThrough ==
    \A c \in Call : pc[c] = "done" => result[c] = "Ok" \/ Refusable(c, result[c])

(* Without a key one sees the manifest that was sealed, whatever mandate   *)
(* stands beside it, and nothing that reads as a mandate.  A manifest may be minted   *)
(* larger than the fixed cap its readers have: nobody reads it.            *)
FrontEndSeesOnlyTheManifest ==
    \A f \in Circulating :
        LET shown == f.manifest.sealed IN
        claims(f.token) =
            IF /\ f.token.manifest = "wellformed" /\ shown.plain.claims
               /\ shown.size <= DEFAULT_MAX_DECODED_LEN
            THEN shown.plain ELSE None
=============================================================================
