------------------------------- MODULE Verifier -------------------------------
(***************************************************************************)
(* obsigil's Verifier: a value configured by builder calls and then lent,  *)
(* unchanged, to any number of concurrent calls of its three terminals     *)
(* (clauses, clauses_unchecked, mandate_plaintext).  A call is the         *)
(* pipeline of authenticate, from_mandate_plaintext and clauses_inner, cut *)
(* at its early returns, at each trial decryption and where it reads the   *)
(* clock, so that other calls and the clock move in between.               *)
(***************************************************************************)
EXTENDS AdmissionRules

CONSTANTS
    Call,           \* the calls made in a behaviour
    Presented,      \* the tokens they may be given
    ClockValue,     \* what the system clock may show, in seconds since 1970
    Monotone,       \* TRUE: the system clock is never set back
    MaxKeys,        \* bound: candidate keys added
    Durations,      \* bound: arguments of leeway(), whole seconds
    Pins,           \* bound: arguments of now()
    Caps            \* bound: arguments of max_decoded_len()

ASSUME VerifierAssumption ==
    /\ Presented \subseteq Token
    /\ ClockValue \subseteq Int /\ \A t \in ClockValue : t <= NDMax
    /\ Monotone \in BOOLEAN
    /\ MaxKeys \in Nat
    /\ Durations \subseteq Nat
    /\ Pins \subseteq NumericDate
    /\ Caps \subseteq 0 .. USizeMax

VARIABLES
    verifier,       \* the Verifier
    clock,          \* the system clock
    pc,             \* where each call is
    request,        \* each call's terminal and token
    next,           \* each call's position in verifier.keys
    plain,          \* each call's opened plaintext
    now,            \* the time a call compared exp with
    result          \* "Ok" or the reason of the error

locals == <<request, next, plain, now, result>>
vars == <<verifier, clock, pc, locals>>

Stage == {"idle", "parse", "measure", "trial", "decode", "presence",
          "tid", "exp", "aud", "done"}

Request == [terminal : Terminal, token : Token]

ASSUME NoRequestAssumption == None \notin Request

token(c) == request[c].token
half(c) == token(c).half
fields(c) == plain[c].fields

NewVerifier ==
    [ keys |-> <<>>, audience |-> None, leeway |-> 0, now |-> None,
      max_decoded_len |-> DEFAULT_MAX_DECODED_LEN ]

Init ==
    /\ verifier = NewVerifier
    /\ clock \in ClockValue
    /\ pc = [c \in Call |-> "idle"]
    /\ request = [c \in Call |-> None]
    /\ next = [c \in Call |-> 0]
    /\ plain = [c \in Call |-> None]
    /\ now = [c \in Call |-> None]
    /\ result = [c \in Call |-> None]

-----------------------------------------------------------------------------
(* Configuration.  The builder calls consume the Verifier, so none happens *)
(* once a call has borrowed it.                                            *)

Configure(policy) ==
    /\ \A c \in Call : pc[c] = "idle"
    /\ verifier' = policy
    /\ UNCHANGED <<clock, pc, locals>>

AddKey(k) ==
    /\ Len(verifier.keys) < MaxKeys
    /\ Configure([verifier EXCEPT !.keys = Append(@, k)])

SetAudience(id) == Configure([verifier EXCEPT !.audience = id])

SetLeewayUnclamped(d) == Configure([verifier EXCEPT !.leeway = d])  \* mutant

SetLeeway(d) == Configure([verifier EXCEPT !.leeway = Least(d, MAX_LEEWAY)])

PinNow(t) == Configure([verifier EXCEPT !.now = t])

SetMaxDecodedLen(n) == Configure([verifier EXCEPT !.max_decoded_len = n])

-----------------------------------------------------------------------------
Tick(t) ==
    /\ t # clock
    /\ Monotone => t > clock
    /\ clock' = t
    /\ UNCHANGED <<verifier, pc, locals>>

-----------------------------------------------------------------------------
(* The stages of a call. *)

Goto(c, l) == pc' = [pc EXCEPT ![c] = l] /\ UNCHANGED result

Return(c, r) ==
    /\ pc' = [pc EXCEPT ![c] = "done"]
    /\ result' = [result EXCEPT ![c] = r]

Start(c, terminal, tok) ==
    /\ pc[c] = "idle"
    /\ request' = [request EXCEPT ![c] = [terminal |-> terminal, token |-> tok]]
    /\ Goto(c, "parse")
    /\ UNCHANGED <<verifier, clock, next, plain, now>>

Parse(c) ==
    /\ pc[c] = "parse"
    /\ \/ ~Parses(token(c)) /\ Return(c, "Malformed")
       \/ /\ Parses(token(c))
          /\ \/ token(c).mandate = "absent" /\ Return(c, "EmptyMandate")
             \/ /\ token(c).mandate = "wellformed"
                /\ IF from_code(half(c).alg_code) = None
                   THEN Return(c, "Unsupported")
                   ELSE Goto(c, "measure")
    /\ UNCHANGED <<verifier, clock, request, next, plain, now>>

TooLong(c) == half(c).len > EncodedCap(verifier.max_decoded_len)

WrongSizeNoCap(sealed) == sealed.size < MIN_HALF_BYTES      \* mutant

WrongSize(sealed) ==
    sealed.size < MIN_HALF_BYTES \/ sealed.size > verifier.max_decoded_len

Measure(c) ==
    /\ pc[c] = "measure"
    /\ IF TooLong(c) \/ half(c).sealed = None \/ WrongSize(half(c).sealed)
       THEN Return(c, "Malformed") /\ UNCHANGED next
       ELSE Goto(c, "trial") /\ next' = [next EXCEPT ![c] = 1]
    /\ UNCHANGED <<verifier, clock, request, plain, now>>

(* One candidate key: the first that opens the half ends the search.       *)
ExhaustedLate(c) == next[c] > Len(verifier.keys) + 1        \* mutant

KeysExhausted(c) == next[c] > Len(verifier.keys)

Opened(c) ==
    open(half(c).sealed, verifier.keys[next[c]], from_code(half(c).alg_code))

AfterAuthenticate(c) ==
    IF request[c].terminal = "mandate_plaintext"
    THEN Return(c, "Ok")
    ELSE Goto(c, "decode")

Trial(c) ==
    /\ pc[c] = "trial"
    /\ \/ KeysExhausted(c) /\ Return(c, "AuthFailed") /\ UNCHANGED <<next, plain>>
       \/ /\ next[c] \in DOMAIN verifier.keys /\ Opened(c) = None
          /\ next' = [next EXCEPT ![c] = @ + 1]
          /\ UNCHANGED <<pc, plain, result>>
       \/ /\ next[c] \in DOMAIN verifier.keys /\ Opened(c) # None
          /\ plain' = [plain EXCEPT ![c] = Opened(c)]
          /\ AfterAuthenticate(c)
          /\ UNCHANGED next
    /\ UNCHANGED <<verifier, clock, request, now>>

Decode(c) ==
    /\ pc[c] = "decode"
    /\ IF plain[c].error # None
       THEN Return(c, plain[c].error)
       ELSE Goto(c, IF request[c].terminal = "clauses" THEN "tid" ELSE "presence")
    /\ UNCHANGED <<verifier, clock, request, next, plain, now>>

CurrentTime == IF verifier.now = None THEN now_unix(clock) ELSE verifier.now

UncheckedNoExp(c) ==                                        \* mutant
    IF fields(c).tid = "absent" THEN "BadTid" ELSE "Ok"

UncheckedExpires(c) ==                                      \* mutant
    IF fields(c).exp = None THEN "MissingClause"
    ELSE IF CurrentTime >= fields(c).exp THEN "Expired" ELSE "Ok"

(* clauses_unchecked asks only that the two required clauses be there.     *)
UncheckedVerdict(c) ==
    IF fields(c).tid = "absent" THEN "BadTid"
    ELSE IF fields(c).exp = None THEN "MissingClause" ELSE "Ok"

Presence(c) ==
    /\ pc[c] = "presence"
    /\ Return(c, UncheckedVerdict(c))
    /\ UNCHANGED <<verifier, clock, request, next, plain, now>>

CheckTid(c) ==
    /\ pc[c] = "tid"
    /\ IF fields(c).tid # "v7" THEN Return(c, "BadTid") ELSE Goto(c, "exp")
    /\ UNCHANGED <<verifier, clock, request, next, plain, now>>

CheckExpEarly(c) ==                                         \* mutant
    /\ pc[c] = "exp"
    /\ now' = [now EXCEPT ![c] = CurrentTime]
    /\ IF CurrentTime + verifier.leeway >= fields(c).exp
       THEN Return(c, "Expired") ELSE Goto(c, "aud")
    /\ UNCHANGED <<verifier, clock, request, next, plain>>

(* The only stage that reads the clock.                                    *)
CheckExp(c) ==
    /\ pc[c] = "exp"
    /\ IF fields(c).exp = None
       THEN Return(c, "MissingClause") /\ UNCHANGED now
       ELSE /\ now' = [now EXCEPT ![c] = CurrentTime]
            /\ IF CurrentTime >= saturating_add(fields(c).exp, verifier.leeway)
               THEN Return(c, "Expired")
               ELSE Goto(c, "aud")
    /\ UNCHANGED <<verifier, clock, request, next, plain>>

AudienceSkipped(aud) ==                                     \* mutant
    aud # None /\ verifier.audience # None /\ ~aud_contains(aud, verifier.audience)

AudienceRefused(aud) ==
    /\ aud # None
    /\ \/ aud = {}
       \/ verifier.audience = None
       \/ ~aud_contains(aud, verifier.audience)

AudienceVerdict(c) ==
    IF AudienceRefused(fields(c).aud) THEN "AudienceMismatch" ELSE "Ok"

CheckAud(c) ==
    /\ pc[c] = "aud"
    /\ Return(c, AudienceVerdict(c))
    /\ UNCHANGED <<verifier, clock, request, next, plain, now>>

-----------------------------------------------------------------------------
Step(c) ==
    \/ Parse(c) \/ Measure(c) \/ Trial(c) \/ Decode(c)
    \/ Presence(c) \/ CheckTid(c) \/ CheckExp(c) \/ CheckAud(c)

Build ==
    \/ \E k \in MandateKey : AddKey(k)
    \/ \E id \in Identifier : SetAudience(id)
    \/ \E d \in Durations : SetLeeway(d)
    \/ \E t \in Pins : PinNow(t)
    \/ \E n \in Caps : SetMaxDecodedLen(n)

Next ==
    \/ Build
    \/ \E t \in ClockValue : Tick(t)
    \/ \E c \in Call : \E terminal \in Terminal, tok \in Presented :
          Start(c, terminal, tok)
    \/ \E c \in Call : Step(c)

Spec == Init /\ [][Next]_vars

(* A call is a function running on its caller's thread: once entered, it   *)
(* takes its next step.  Nobody promises to make a call, and the clock     *)
(* owes nothing.                                                           *)
FairSpec == Spec /\ \A c \in Call : WF_vars(Step(c))

-----------------------------------------------------------------------------
(* Every variable holds values the code's types allow, and a Verifier's    *)
(* leeway never exceeds the hard maximum whatever leeway() was given.      *)
TypeOK ==
    /\ verifier \in Policy
    /\ clock \in ClockValue
    /\ pc \in [Call -> Stage]
    /\ request \in [Call -> Request \cup {None}]
    /\ next \in [Call -> Nat]
    /\ plain \in [Call -> Plain \cup {None}]
    /\ now \in [Call -> NumericDate \cup {None}]
    /\ result \in [Call -> Reason \cup {"Ok", None}]

Done(c, results) == pc[c] = "done" /\ result[c] \in results

(* A finished call accepted exactly the tokens that break no rule, at the  *)
(* time it read, and a rejection names a rule the token does break: no     *)
(* order of the candidate keys, no arithmetic at the limits of the date    *)
(* and length types, and no early return changes who is admitted.          *)
Exact(c) ==
    LET broken == Violations(token(c), request[c].terminal, verifier, now[c])
    IN  IF result[c] = "Ok" THEN broken = {} ELSE result[c] \in broken

VerdictExact == \A c \in Call : pc[c] = "done" => Exact(c)

(* A reason that depends on the sealed content is only ever given for a    *)
(* mandate that a candidate key opened: forged or foreign bytes learn      *)
(* nothing from the later stages, and neither does a manifest moved into   *)
(* the mandate's place.                                                    *)
Revealing ==
    {"Ok"} \cup PolicyReason \cup (DecodeReason \ {"Malformed"})

HoldsOpened(c) ==
    Authentic(token(c), verifier) /\ plain[c] = half(c).sealed.plain

NoVerdictOnUnauthenticContent ==
    \A c \in Call : Done(c, Revealing) =>
        HoldsOpened(c) /\ half(c).sealed.key # ManifestKey

(* What a call knows at each stage: the inductive strengthening of the two *)
(* properties above.  A later stage knows what the earlier ones checked,   *)
(* and a search under way has only met keys that open nothing.             *)
Enforcing == {"tid", "exp", "aud"}
Checking == {"presence"} \cup Enforcing
Opening == {"decode"} \cup Checking
Sized == {"trial"} \cup Opening
Parsed == {"measure"} \cup Sized

Unopened(c, k) ==
    LET s == half(c).sealed
        alg == from_code(half(c).alg_code)
    IN  ~(s.key = k /\ s.alg = alg /\ s.alg \in CompiledAlgs)

Knows(c) ==
    /\ pc[c] = "idle" => next[c] = 0
    /\ pc[c] # "idle" => request[c] \in Request
    /\ pc[c] # "done" => result[c] = None
    /\ pc[c] \in Parsed =>
          /\ Parses(token(c)) /\ token(c).mandate = "wellformed"
          /\ from_code(half(c).alg_code) # None
    /\ next[c] > 0 \/ pc[c] \in Sized =>
          half(c).sealed # None /\ Fits(half(c).sealed.size, verifier)
    /\ next[c] <= Len(verifier.keys) + 1
    /\ pc[c] = "trial" =>
          next[c] > 0 /\ \A i \in 1 .. next[c] - 1 : Unopened(c, verifier.keys[i])
    /\ pc[c] \in Opening =>
          request[c].terminal # "mandate_plaintext" /\ HoldsOpened(c)
    /\ pc[c] \in Checking =>
          /\ plain[c].error = None
          /\ pc[c] \in Enforcing <=> request[c].terminal = "clauses"
    /\ pc[c] \in {"exp", "aud"} => fields(c).tid = "v7"
    /\ pc[c] = "aud" =>
          /\ fields(c).exp # None /\ now[c] # None
          /\ now[c] < saturating_add(fields(c).exp, verifier.leeway)
    /\ pc[c] = "done" => Exact(c) /\ (result[c] \in Revealing => HoldsOpened(c))

StageInv == \A c \in Call : Knows(c)

(* No AEAD is attempted on a half outside the configured size, and a call  *)
(* attempts at most one per candidate key.                                 *)
BoundedTrial ==
    \A c \in Call : next[c] > 0 =>
        /\ Fits(half(c).sealed.size, verifier)
        /\ next[c] <= Len(verifier.keys) + 1

(* The three terminals of one Verifier form a chain: what clauses admits,  *)
(* clauses_unchecked returns, and what that returns, mandate_plaintext     *)
(* opens, to the same plaintext, whenever and in whatever order the calls  *)
(* ran.                                                                    *)
Strictness(terminal) ==
    CASE terminal = "clauses" -> 3
      [] terminal = "clauses_unchecked" -> 2
      [] terminal = "mandate_plaintext" -> 1

Stricter(c, d) ==
    /\ token(c) = token(d)
    /\ Strictness(request[c].terminal) > Strictness(request[d].terminal)

TerminalsAgree ==
    \A c, d \in Call :
        Done(c, {"Ok"}) /\ pc[d] = "done" /\ Stricter(c, d) =>
            result[d] = "Ok" /\ plain[d] = plain[c]

(* The accessors of a returned Clauses cannot panic: both of its required  *)
(* clauses are there.                                                      *)
AccessorsTotal ==
    \A c \in Call :
        Done(c, {"Ok"}) /\ request[c].terminal # "mandate_plaintext" =>
            fields(c).exp # None /\ fields(c).tid # "absent"

(* d is a call of clauses on the mandate that c was given.                 *)
Enforces(d, c) ==
    IF request[c] = None \/ request[d] = None THEN FALSE
    ELSE request[d].terminal = "clauses" /\ half(d) = half(c)

(* While the clock is not set back, a mandate that one call rejected as    *)
(* expired is not admitted by any call entered later.                      *)
ExpiredStaysExpired ==
    \A c, d \in Call :
        [](Done(c, {"Expired"}) /\ pc[d] = "idle" =>
              [](Done(d, {"Ok"}) => ~Enforces(d, c)))

(* Every call that is entered returns.                                     *)
EveryCallReturns == \A c \in Call : pc[c] # "idle" ~> pc[c] = "done"

(* verify.rs:150 says of clauses that "the manifest is never parsed or     *)
(* trusted": at one and the same time, a Verifier that admits a mandate    *)
(* alone admits it behind any manifest.                                    *)
AdmitsAlone(c, d) ==
    /\ Done(c, Reason) /\ Done(d, {"Ok"})
    /\ request[c].terminal = "clauses"
    /\ request[d] = [request[c] EXCEPT !.token.manifest = "absent", !.token.manifest_half = NoHalf]

ManifestNeverParsed ==
    verifier.now # None => \A c, d \in Call : ~AdmitsAlone(c, d)

(* error.rs:16 says of Unsupported "the algorithm code is not implemented  *)
(* by this build": AuthFailed is not what such a code gives.               *)
UnsupportedIsReported ==
    \A c \in Call : Done(c, {"AuthFailed"}) =>
        from_code(half(c).alg_code) \in CompiledAlgs

(* Concurrent calls are as good as instantaneous: each is judged where it  *)
(* compares exp with the time, the audience check after it being settled   *)
(* by then, and a call that never gets there, where it returns.            *)
Abstract ==
    INSTANCE Admission
        WITH policy <- verifier, Pending <- None,
             verdict <- [c \in Call |-> CASE pc[c] = "aud" -> AudienceVerdict(c)
                                          [] OTHER -> result[c]]

JudgedAtOneInstant == Abstract!ASpec
=============================================================================
