-------------------------- MODULE VerifierRefinement --------------------------
(***************************************************************************)
(* The Verifier implements Admission, for any number of concurrent calls:  *)
(* every step of the code is one step of the abstract specification or     *)
(* none, each call being judged at one instant.                            *)
(***************************************************************************)
EXTENDS VerifierProofs

(* A call that was not made has no request and has said nothing.           *)
Unasked == \A c \in Call : pc[c] = "idle" => request[c] = None

Inv == TypeInv /\ StageInv /\ Unasked

LEMMA UnaskedInductive == TypeInv /\ Unasked /\ [Next]_vars => Unasked'
<1> SUFFICES ASSUME TypeInv, Unasked, [Next]_vars PROVE Unasked'
  OBVIOUS
<1>1. ASSUME UNCHANGED <<pc, request>> PROVE Unasked'
  BY <1>1 DEF Unasked
<1>2. CASE Build
  BY <1>1, <1>2 DEF Build, AddKey, SetAudience, SetLeeway, PinNow, SetMaxDecodedLen,
                    Configure, locals
<1>3. ASSUME NEW c \in Call, NEW terminal \in Terminal, NEW tok \in Presented,
             Start(c, terminal, tok)
      PROVE  Unasked'
  BY <1>3 DEF Start, Goto, Unasked, TypeInv, TypeOK
<1>4. ASSUME NEW c \in Call, Step(c) PROVE Unasked'
  BY <1>4 DEF Step, Parse, Measure, Trial, Decode, Presence, CheckTid, CheckExp, CheckAud,
              AfterAuthenticate, Goto, Return, Unasked, TypeInv, TypeOK
<1>5. QED
  BY <1>1, <1>2, <1>3, <1>4 DEF Next, Tick, vars, locals

LEMMA Invariance == Spec => []Inv
<1>1. Init => Unasked
  BY DEF Init, Unasked
<1>2. QED
  BY <1>1, UnaskedInductive, TypeCorrect, StageInvariant, PTL DEF Spec, Inv

-----------------------------------------------------------------------------
(* The verdict the abstract specification sees, and what judging a call at *)
(* this instant may say.                                                   *)
Verdict(c) == CASE pc[c] = "aud" -> AudienceVerdict(c) [] OTHER -> result[c]

Broken(c, t) == Violations(token(c), request[c].terminal, verifier, t)

JudgedNow(c, r) ==
    IF r = "Ok" THEN Broken(c, CurrentTime) = {} ELSE r \in Broken(c, CurrentTime)

(* Only expiry depends on the time, and only clauses asks about it.        *)
LEMMA OnlyExpiryIsTimed ==
    ASSUME NEW tok, NEW terminal, NEW policy, NEW t, NEW u, NEW r \in Reason,
           r # "Expired" \/ terminal # "clauses"
    PROVE  r \in Violations(tok, terminal, policy, t)
               <=> r \in Violations(tok, terminal, policy, u)
BY DEF Violations, BreaksPolicy

(* A stage before the audience check decides nothing, or returns what is   *)
(* judged at this instant.                                                 *)
LEMMA ReturnsJudge ==
    ASSUME TypeInv, NEW c \in Call, Knows(c), Knows(c)', NEW r \in Reason \cup {"Ok"},
           Return(c, r), verifier' = verifier, request' = request,
           pc[c] \notin {"idle", "aud", "done"},
           now'[c] = CurrentTime \/ (r # "Expired" /\ (r = "Ok" => request[c].terminal # "clauses"))
    PROVE  Verdict(c) = None /\ Verdict(c)' = r /\ JudgedNow(c, r)
<1>1. pc'[c] = "done" /\ result'[c] = r /\ result[c] = None
  BY DEF Return, TypeInv, TypeOK, Knows
<1>2. IF r = "Ok" THEN Broken(c, now'[c]) = {} ELSE r \in Broken(c, now'[c])
  BY <1>1 DEF Knows, Exact, Broken, token
<1>3. JudgedNow(c, r)
  <2>1. CASE now'[c] = CurrentTime
    BY <1>2, <2>1 DEF JudgedNow
  <2>2. CASE r = "Ok" /\ request[c].terminal # "clauses"
    BY <1>2, <2>2, OnlyExpiryIsTimed DEF JudgedNow, Broken, Violations
  <2>3. CASE r # "Ok" /\ r # "Expired"
    BY <1>2, <2>3, OnlyExpiryIsTimed DEF JudgedNow, Broken
  <2>4. QED
    BY <2>1, <2>2, <2>3
<1>4. QED
  BY <1>1, <1>3 DEF Verdict

LEMMA GoesOn ==
    ASSUME TypeInv, NEW c \in Call, Knows(c), NEW l \in Stage \ {"aud"}, Goto(c, l),
           pc[c] \notin {"aud", "done"}
    PROVE  Verdict(c)' = Verdict(c)
BY DEF Goto, Verdict, TypeInv, TypeOK

Decides(c) ==
    \/ Verdict(c)' = Verdict(c)
    \/ Verdict(c) = None /\ JudgedNow(c, Verdict(c)')

(* The instant of a call that reaches the audience check is the one at     *)
(* which it compares exp with the time.                                    *)
LEMMA CheckExpDecides ==
    ASSUME TypeInv, NEW c \in Call, Knows(c), Knows(c)', CheckExp(c)
    PROVE  Decides(c)
<1>1. /\ verifier' = verifier /\ request' = request /\ plain' = plain
      /\ pc[c] = "exp" /\ result[c] = None
  BY DEF CheckExp, Knows
<1>2. CASE Return(c, "MissingClause")
  BY <1>1, <1>2, ReturnsJudge DEF Decides, Reason, PolicyReason
<1>3. CASE Return(c, "Expired") /\ now' = [now EXCEPT ![c] = CurrentTime]
  <2>1. now'[c] = CurrentTime
    BY <1>3 DEF TypeInv, TypeOK
  <2>2. QED
    BY <1>1, <1>3, <2>1, ReturnsJudge DEF Decides, Reason, PolicyReason
<1>4. CASE /\ Goto(c, "aud") /\ fields(c).exp # None
           /\ ~(CurrentTime >= saturating_add(fields(c).exp, verifier.leeway))
  <2>1. CurrentTime \in NumericDate
    BY CurrentTimeType DEF TypeInv
  <2>2. JudgedNow(c, AudienceVerdict(c))
    BY <1>1, <1>4, <2>1, AudienceSettles DEF JudgedNow, Broken
  <2>3. pc'[c] = "aud" /\ Verdict(c) = None
    BY <1>1, <1>4 DEF Goto, Verdict, TypeInv, TypeOK
  <2>4. Verdict(c)' = AudienceVerdict(c)
    BY <1>1, <2>3 DEF Verdict, AudienceVerdict, AudienceRefused, fields
  <2>5. QED
    BY <2>2, <2>3, <2>4 DEF Decides
<1>5. QED
  BY <1>2, <1>3, <1>4 DEF CheckExp

LEMMA StepDecides ==
    ASSUME TypeInv, NEW c \in Call, Knows(c), Knows(c)', Step(c)
    PROVE  Decides(c)
<1>1. CASE Parse(c)
  BY <1>1, ReturnsJudge, GoesOn DEF Parse, Decides, Stage, Reason, DecodeReason
<1>2. CASE Measure(c)
  BY <1>2, ReturnsJudge, GoesOn DEF Measure, Decides, Stage, Reason, DecodeReason
<1>3. CASE Trial(c)
  <2>1. CASE Return(c, "AuthFailed")
    BY <1>3, <2>1, ReturnsJudge DEF Trial, Decides, Reason
  <2>2. CASE UNCHANGED <<pc, plain, result>>
    BY <1>3, <2>2 DEF Trial, Decides, Verdict
  <2>3. CASE AfterAuthenticate(c)
    <3>1. CASE request[c].terminal = "mandate_plaintext"
      BY <1>3, <2>3, <3>1, ReturnsJudge DEF Trial, Decides, AfterAuthenticate
    <3>2. CASE request[c].terminal # "mandate_plaintext"
      BY <1>3, <2>3, <3>2, GoesOn DEF Trial, Decides, AfterAuthenticate, Stage
    <3>3. QED
      BY <3>1, <3>2
  <2>4. QED
    BY <1>3, <2>1, <2>2, <2>3 DEF Trial
<1>4. CASE Decode(c)
  <2>1. CASE plain[c].error # None
    <3>1. plain[c] \in Plain
      BY <1>4 DEF Decode, TypeInv, Holds, Opening
    <3>2. plain[c].error \in DecodeReason
      BY <2>1, <3>1, PlainTypes
    <3>3. QED
      BY <1>4, <2>1, <3>2, ReturnsJudge DEF Decode, Decides, Reason, DecodeReason
  <2>2. CASE plain[c].error = None
    BY <1>4, <2>2, GoesOn DEF Decode, Decides, Stage
  <2>3. QED
    BY <2>1, <2>2
<1>5. CASE Presence(c)
  <2>1. request[c].terminal # "clauses"
    BY <1>5 DEF Presence, Knows, Checking, Enforcing
  <2>2. UncheckedVerdict(c) \in {"Ok", "BadTid", "MissingClause"}
    BY DEF UncheckedVerdict
  <2>3. QED
    BY <1>5, <2>1, <2>2, ReturnsJudge DEF Presence, Decides, Reason, PolicyReason
<1>6. CASE CheckTid(c)
  BY <1>6, ReturnsJudge, GoesOn DEF CheckTid, Decides, Stage, Reason, PolicyReason
<1>7. CASE CheckExp(c)
  BY <1>7, CheckExpDecides
<1>8. CASE CheckAud(c)
  BY <1>8 DEF CheckAud, Return, Decides, Verdict, TypeInv, TypeOK
<1>9. QED
  BY <1>1, <1>2, <1>3, <1>4, <1>5, <1>6, <1>7, <1>8 DEF Step

-----------------------------------------------------------------------------
(* The instance's rules and types are those of AdmissionRules.             *)
LEMMA SameRules ==
    ASSUME NEW tok, NEW terminal, NEW policy, NEW t
    PROVE  Abstract!Violations(tok, terminal, policy, t)
               = Violations(tok, terminal, policy, t)
BY DEF Violations, BreaksEnvelope, BreaksContent, BreaksPolicy, Authentic, CandidateKeys,
       Fits, Parses, Reason, DecodeReason, PolicyReason, from_code, MIN_HALF_BYTES,
       Abstract!Violations, Abstract!BreaksEnvelope, Abstract!BreaksContent,
       Abstract!BreaksPolicy, Abstract!Authentic, Abstract!CandidateKeys, Abstract!Fits,
       Abstract!Parses, Abstract!Reason, Abstract!DecodeReason, Abstract!PolicyReason,
       Abstract!from_code, Abstract!MIN_HALF_BYTES

LEMMA SameTypes == Abstract!Policy = Policy /\ Abstract!Terminal = Terminal
BY DEF Policy, Terminal, NumericDate, MAX_LEEWAY, Abstract!Policy, Abstract!Terminal,
       Abstract!NumericDate, Abstract!MAX_LEEWAY

LEMMA SameInstant == Abstract!Instant = CurrentTime
BY DEF Abstract!Instant, CurrentTime, now_unix

Verdicts == [c \in Call |-> Verdict(c)]

LEMMA InitRefines == Init => Abstract!AInit
<1> SUFFICES ASSUME Init PROVE Abstract!AInit
  OBVIOUS
<1>1. verifier \in Policy
  BY TypeInit DEF TypeInv, TypeOK
<1>2. Verdicts = [c \in Call |-> None]
  BY DEF Verdicts, Verdict, Init
<1>3. QED
  BY <1>1, <1>2, SameTypes DEF Abstract!AInit, Init, Verdicts, Verdict

LEMMA StepRefines ==
    ASSUME Inv, Inv', NEW c \in Call, Step(c)
    PROVE  Abstract!Judge(c) \/ UNCHANGED Abstract!avars
<1>1. /\ verifier' = verifier /\ clock' = clock /\ request' = request
      /\ request[c] # None
      /\ \A d \in Call \ {c} : pc'[d] = pc[d] /\ result'[d] = result[d] /\ plain'[d] = plain[d]
  <2>1. pc[c] # "idle"
    BY DEF Step, Parse, Measure, Trial, Decode, Presence, CheckTid, CheckExp, CheckAud
  <2>2. request[c] # None
    BY <2>1, NoRequestAssumption DEF Inv, TypeInv, Entered
  <2>3. QED
    BY <2>2 DEF Step, Parse, Measure, Trial, Decode, Presence, CheckTid, CheckExp, CheckAud,
                AfterAuthenticate, Goto, Return, Inv, TypeInv, TypeOK
<1>2. Verdicts' = [Verdicts EXCEPT ![c] = Verdict(c)']
  <2>1. \A d \in Call \ {c} : Verdict(d)' = Verdict(d)
    BY <1>1 DEF Verdict, AudienceVerdict, AudienceRefused, fields
  <2>2. QED
    BY <2>1 DEF Verdicts
<1>3. Decides(c)
  BY StepDecides DEF Inv, StageInv
<1>4. CASE Verdict(c)' = Verdict(c)
  <2>1. Verdicts' = Verdicts
    BY <1>2, <1>4 DEF Verdicts
  <2>2. QED
    BY <1>1, <2>1 DEF Abstract!avars, Verdicts, Verdict
<1>5. CASE Verdict(c) = None /\ JudgedNow(c, Verdict(c)')
  <2>1. Verdicts[c] = None
    BY <1>5 DEF Verdicts
  <2>2. IF Verdict(c)' = "Ok" THEN Broken(c, CurrentTime) = {}
        ELSE Verdict(c)' \in Broken(c, CurrentTime)
    BY <1>5 DEF JudgedNow
  <2>3. Broken(c, CurrentTime) =
            Abstract!Violations(request[c].token, request[c].terminal, verifier,
                                Abstract!Instant)
    BY SameRules, SameInstant DEF Broken, token
  <2>4. QED
    BY <1>1, <1>2, <2>1, <2>2, <2>3 DEF Abstract!Judge, Verdicts, Verdict
<1>6. QED
  BY <1>3, <1>4, <1>5 DEF Decides

LEMMA NextRefines == Inv /\ Inv' /\ [Next]_vars => [Abstract!ANext]_(Abstract!avars)
<1> SUFFICES ASSUME Inv, Inv', [Next]_vars PROVE [Abstract!ANext]_(Abstract!avars)
  OBVIOUS
<1>0. ASSUME UNCHANGED <<verifier, pc, plain, result>> PROVE Verdicts' = Verdicts
  BY <1>0 DEF Verdicts, Verdict, AudienceVerdict, AudienceRefused, fields
<1>1. CASE Build
  <2>1. (\A c \in Call : pc[c] = "idle") /\ UNCHANGED <<clock, pc, locals>>
    BY <1>1 DEF Build, AddKey, SetAudience, SetLeeway, PinNow, SetMaxDecodedLen, Configure
  <2>2. verifier' \in Policy /\ \A c \in Call : request[c] = None
    BY <2>1 DEF Inv, TypeInv, TypeOK, Unasked
  <2>3. Verdicts' = Verdicts
    BY <2>1 DEF Verdicts, Verdict, locals
  <2>4. Abstract!Settle
    BY <2>1, <2>2, <2>3, SameTypes DEF Abstract!Settle, locals, Verdicts, Verdict
  <2>5. QED
    BY <2>4 DEF Abstract!ANext
<1>2. ASSUME NEW t \in ClockValue, Tick(t) PROVE Abstract!Pass
  BY <1>0, <1>2 DEF Tick, Abstract!Pass, locals, Verdicts, Verdict
<1>3. ASSUME NEW c \in Call, NEW terminal \in Terminal, NEW tok \in Presented,
             Start(c, terminal, tok)
      PROVE  Abstract!Submit(c)
  <2>1. request[c] = None
    BY <1>3 DEF Start, Inv, Unasked
  <2>2. Verdicts' = Verdicts
    BY <1>3 DEF Start, Goto, Verdicts, Verdict, AudienceVerdict, AudienceRefused, fields,
                Inv, TypeInv, TypeOK
  <2>3. QED
    BY <1>3, <2>1, <2>2, SameTypes DEF Start, Abstract!Submit, Verdicts, Verdict
<1>4. CASE UNCHANGED vars
  BY <1>0, <1>4 DEF vars, locals, Abstract!avars, Verdicts, Verdict
<1>5. QED
  BY <1>1, <1>2, <1>3, <1>4, StepRefines DEF Next, Abstract!ANext

(* Concurrent calls are as good as instantaneous (verify.rs shares the     *)
(* Verifier by reference and reads the clock once per call): each is       *)
(* judged at one instant between its entry and its return.                 *)
THEOREM Refinement == Spec => JudgedAtOneInstant
<1>1. Spec => Abstract!ASpec
  BY InitRefines, NextRefines, Invariance, PTL DEF Spec, Abstract!ASpec
<1>2. QED
  BY <1>1 DEF JudgedAtOneInstant

-----------------------------------------------------------------------------
(* A clock that is not set back carries the times of later calls past      *)
(* those of earlier ones.                                                  *)
NowIsPast ==
    \A c \in Call : now[c] # None => pc[c] # "idle" /\ now[c] <= CurrentTime

LEMMA TimeAdvances ==
    ASSUME Monotone, TypeInv, TypeInv', [Next]_vars,
           \E c \in Call : pc[c] # "idle"
    PROVE  verifier' = verifier /\ CurrentTime <= CurrentTime'
<1>1. verifier' = verifier /\ (clock' = clock \/ clock' > clock)
  BY DEF Next, Build, AddKey, SetAudience, SetLeeway, PinNow, SetMaxDecodedLen, Configure,
         Tick, Start, Step, Parse, Measure, Trial, Decode, Presence, CheckTid, CheckExp,
         CheckAud, vars, locals
<1>2. clock \in Int /\ clock' \in Int
  BY VerifierAssumption DEF TypeInv, TypeOK
<1>3. CurrentTime \in Int
  BY CurrentTimeType DEF TypeInv, NumericDate
<1>4. QED
  BY <1>1, <1>2, <1>3 DEF CurrentTime, now_unix

(* A step leaves a call alone, enters it, or is a step of it.              *)
LEMMA CallSteps ==
    ASSUME TypeInv, [Next]_vars, NEW c \in Call
    PROVE  \/ /\ pc'[c] = pc[c] /\ result'[c] = result[c] /\ request'[c] = request[c]
              /\ now'[c] = now[c]
           \/ pc[c] = "idle" /\ pc'[c] = "parse" /\ now'[c] = now[c]
           \/ Step(c)
<1>1. ASSUME UNCHANGED <<pc, locals>>
      PROVE  /\ pc'[c] = pc[c] /\ result'[c] = result[c] /\ request'[c] = request[c]
             /\ now'[c] = now[c]
  BY <1>1 DEF locals
<1>2. CASE Build
  BY <1>1, <1>2 DEF Build, AddKey, SetAudience, SetLeeway, PinNow, SetMaxDecodedLen, Configure
<1>3. ASSUME NEW d \in Call, NEW terminal \in Terminal, NEW tok \in Presented,
             Start(d, terminal, tok)
      PROVE  \/ /\ pc'[c] = pc[c] /\ result'[c] = result[c] /\ request'[c] = request[c]
                /\ now'[c] = now[c]
             \/ pc[c] = "idle" /\ pc'[c] = "parse" /\ now'[c] = now[c]
  BY <1>3 DEF Start, Goto, TypeInv, TypeOK
<1>4. ASSUME NEW d \in Call, Step(d), d # c
      PROVE  /\ pc'[c] = pc[c] /\ result'[c] = result[c] /\ request'[c] = request[c]
             /\ now'[c] = now[c]
  BY <1>4 DEF Step, Parse, Measure, Trial, Decode, Presence, CheckTid, CheckExp, CheckAud,
              AfterAuthenticate, Goto, Return, TypeInv, TypeOK
<1>5. QED
  BY <1>1, <1>2, <1>3, <1>4 DEF Next, Tick, vars

(* What a step may do to the time a call read and where it stands.         *)
LEMMA NowSteps ==
    ASSUME TypeInv, [Next]_vars, NEW c \in Call
    PROVE  \/ now'[c] = now[c] /\ (pc'[c] = pc[c] \/ pc'[c] # "idle")
           \/ pc[c] # "idle" /\ pc'[c] # "idle" /\ now'[c] = CurrentTime
BY CallSteps DEF Step, Parse, Measure, Trial, Decode, Presence, CheckTid, CheckExp,
       CheckAud, AfterAuthenticate, Goto, Return, TypeInv, TypeOK

LEMMA NowIsPastInductive ==
    Monotone /\ TypeInv /\ TypeInv' /\ NowIsPast /\ [Next]_vars => NowIsPast'
<1> SUFFICES ASSUME Monotone, TypeInv, TypeInv', NowIsPast, [Next]_vars,
                    NEW c \in Call, now'[c] # None
             PROVE  pc'[c] # "idle" /\ now'[c] <= CurrentTime'
  BY DEF NowIsPast
<1>1. pc[c] # "idle" /\ pc'[c] # "idle" /\ (now'[c] = now[c] \/ now'[c] = CurrentTime)
  BY NowSteps DEF NowIsPast
<1>2. CurrentTime <= CurrentTime'
  BY <1>1, TimeAdvances
<1>3. now'[c] <= CurrentTime
  <2>1. CurrentTime \in Int
    BY CurrentTimeType DEF TypeInv, NumericDate
  <2>2. QED
    BY <1>1, <2>1 DEF NowIsPast
<1>4. CurrentTime \in Int /\ CurrentTime' \in Int /\ now'[c] \in Int
  <2>1. verifier' = verifier /\ clock' \in Int
    BY <1>1, TimeAdvances, VerifierAssumption DEF TypeInv, TypeOK
  <2>2. CurrentTime \in Int
    BY CurrentTimeType DEF TypeInv, NumericDate
  <2>3. QED
    BY <2>1, <2>2 DEF CurrentTime, now_unix, TypeInv, TypeOK, NumericDate
<1>5. QED
  BY <1>1, <1>2, <1>3, <1>4

(* c was rejected as expired, and d is not past its own look at the clock  *)
(* or looked no earlier than c.                                            *)
Overtaken(c, d) ==
    /\ Done(c, {"Expired"}) /\ request[c] \in Request
    /\ now[c] \in NumericDate /\ now[c] <= CurrentTime
    /\ pc[d] = "aud" \/ (Done(d, {"Ok"}) /\ request[d].terminal = "clauses") =>
           now[d] \in NumericDate /\ now[c] <= now[d]

(* An expired verdict was reached by comparing exp with a time.            *)
LEMMA ExpiredByTime ==
    ASSUME TypeInv, StageInv, NEW c \in Call, Done(c, {"Expired"})
    PROVE  /\ request[c] \in Request /\ plain[c] \in Plain
           /\ HoldsOpened(c)
           /\ plain[c].error = None /\ fields(c).exp # None
           /\ now[c] \in NumericDate
           /\ now[c] - verifier.leeway >= fields(c).exp \/ now[c] = NDMax
<1>1. /\ request[c] \in Request /\ HoldsOpened(c)
      /\ "Expired" \in Violations(token(c), request[c].terminal, verifier, now[c])
  BY DEF Done, StageInv, Knows, Exact, Revealing, PolicyReason
<1>2. plain[c] \in Plain
  <2>1. token(c) \in Token
    BY <1>1, RequestTypes DEF token
  <2>2. half(c).sealed \in Sealed
    BY <1>1, <2>1, TokenTypes DEF HoldsOpened, Authentic, half
  <2>3. QED
    BY <1>1, <2>2, SealedTypes DEF HoldsOpened
<1>3. /\ plain[c].error = None
      /\ BreaksPolicy(fields(c), verifier, now[c], "Expired")
  <2>1. ~BreaksEnvelope(token(c), verifier, "Expired")
    BY DEF BreaksEnvelope
  <2>2. plain[c].error # "Expired"
    BY <1>2, PlainTypes, ConstantsAssumption DEF DecodeReason, Reason, PolicyReason
  <2>3. QED
    BY <1>1, <2>1, <2>2 DEF Violations, BreaksContent, HoldsOpened, half, fields
<1>4. QED
  BY <1>1, <1>2, <1>3 DEF BreaksPolicy, TypeInv, TypeOK

LEMMA OvertakenStarts ==
    ASSUME TypeInv, StageInv, NowIsPast, NEW c \in Call, NEW d \in Call,
           Done(c, {"Expired"}), pc[d] = "idle"
    PROVE  Overtaken(c, d)
<1>1. now[c] # None
  BY ExpiredByTime, ConstantsAssumption
<1>2. QED
  BY <1>1, ExpiredByTime DEF Overtaken, NowIsPast, Done

(* Only the exp stage takes a call of clauses to the audience check, and   *)
(* only that check ends it well.                                           *)
LEMMA AudienceIsReached ==
    ASSUME TypeInv, StageInv, NEW d \in Call, Step(d),
           pc'[d] = "aud" \/ (Done(d, {"Ok"})' /\ request'[d].terminal = "clauses")
    PROVE  \/ CheckExp(d) /\ now'[d] = CurrentTime
           \/ pc[d] = "aud" /\ now'[d] = now[d]
<1>1. request'[d] = request[d] /\ result[d] = None
  BY DEF Step, Parse, Measure, Trial, Decode, Presence, CheckTid, CheckExp, CheckAud,
         StageInv, Knows
<1>2. CASE pc'[d] = "aud"
  BY <1>2 DEF Step, Parse, Measure, Trial, Decode, Presence, CheckTid, CheckExp, CheckAud,
              AfterAuthenticate, Goto, Return, TypeInv, TypeOK
<1>3. CASE pc'[d] = "done" /\ result'[d] = "Ok" /\ request[d].terminal = "clauses"
  <2>1. ~Presence(d)
    BY <1>3 DEF Presence, StageInv, Knows, Checking, Enforcing
  <2>2. ASSUME Decode(d) PROVE FALSE
    <3>1. plain[d] \in Plain
      BY <2>2 DEF Decode, TypeInv, Holds, Opening
    <3>2. plain[d].error # "Ok"
      BY <3>1, PlainTypes, ConstantsAssumption DEF DecodeReason
    <3>3. QED
      BY <1>3, <2>2, <3>2 DEF Decode, Goto, Return, TypeInv, TypeOK
  <2>3. CASE CheckAud(d)
    BY <2>3 DEF CheckAud
  <2>4. CASE CheckExp(d)
    BY <1>3, <2>4 DEF CheckExp, Goto, Return, TypeInv, TypeOK
  <2>5. CASE Parse(d) \/ Measure(d) \/ Trial(d) \/ CheckTid(d)
    BY <1>3, <2>5 DEF Parse, Measure, Trial, CheckTid, AfterAuthenticate, Goto, Return,
                      TypeInv, TypeOK
  <2>6. QED
    BY <2>1, <2>2, <2>3, <2>4, <2>5 DEF Step
<1>4. QED
  BY <1>1, <1>2, <1>3 DEF Done

LEMMA OvertakenLasts ==
    ASSUME Monotone, TypeInv, TypeInv', StageInv, NEW c \in Call, NEW d \in Call,
           Overtaken(c, d), [Next]_vars
    PROVE  Overtaken(c, d)'
<1>1. /\ pc'[c] = pc[c] /\ result'[c] = result[c] /\ request'[c] = request[c]
      /\ now'[c] = now[c]
  BY CallSteps DEF Overtaken, Done, Step, Parse, Measure, Trial, Decode, Presence,
                   CheckTid, CheckExp, CheckAud
<1>2. CurrentTime \in NumericDate /\ CurrentTime <= CurrentTime' /\ CurrentTime' \in Int
  <2>1. verifier' = verifier /\ CurrentTime <= CurrentTime'
    BY TimeAdvances DEF Overtaken, Done
  <2>2. clock' \in Int
    BY VerifierAssumption DEF TypeInv, TypeOK
  <2>3. CurrentTime \in NumericDate
    BY CurrentTimeType DEF TypeInv
  <2>4. CurrentTime \in Int
    BY <2>3, ConstantsAssumption DEF NumericDate
  <2>5. CurrentTime' \in Int
    BY <2>1, <2>2, <2>4 DEF CurrentTime, now_unix
  <2>6. QED
    BY <2>1, <2>3, <2>5
<1>3. ASSUME pc'[d] = "aud" \/ (Done(d, {"Ok"})' /\ request'[d].terminal = "clauses")
      PROVE  now'[d] \in NumericDate /\ now[c] <= now'[d]
  <2>1. CASE pc'[d] = pc[d] /\ result'[d] = result[d] /\ request'[d] = request[d]
             /\ now'[d] = now[d]
    BY <1>3, <2>1 DEF Overtaken, Done
  <2>2. CASE pc'[d] = "parse"
    BY <1>3, <2>2 DEF Done
  <2>3. CASE Step(d)
    BY <1>2, <1>3, <2>3, AudienceIsReached DEF Overtaken
  <2>4. QED
    BY <2>1, <2>2, <2>3, CallSteps
<1>4. now[c] <= CurrentTime'
  BY <1>2, ConstantsAssumption DEF Overtaken, NumericDate
<1>5. QED
  BY <1>1, <1>3, <1>4 DEF Overtaken, Done

LEMMA OvertakenRefuses ==
    ASSUME TypeInv, StageInv, NEW c \in Call, NEW d \in Call,
           Overtaken(c, d), Done(d, {"Ok"})
    PROVE  ~Enforces(d, c)
<1> SUFFICES ASSUME Enforces(d, c) PROVE FALSE
  OBVIOUS
<1>1. request[d].terminal = "clauses" /\ half(d) = half(c)
  BY DEF Enforces
<1>2. /\ HoldsOpened(d)
      /\ Violations(token(d), "clauses", verifier, now[d]) = {}
  BY <1>1 DEF Done, StageInv, Knows, Exact, Revealing
<1>3. plain[d] = plain[c]
  BY <1>1, <1>2, ExpiredByTime DEF Overtaken, HoldsOpened
<1>4. ~BreaksPolicy(fields(c), verifier, now[d], "Expired")
  BY <1>2, <1>3, ExpiredByTime
     DEF Overtaken, Violations, HoldsOpened, half, fields, Reason, PolicyReason
<1>5. /\ now[c] \in Int /\ now[d] \in Int /\ now[c] <= now[d] /\ now[d] <= NDMax
      /\ verifier.leeway \in Int /\ NDMax \in Int /\ now[d] # None
  <2>1. now[c] \in NumericDate /\ now[d] \in NumericDate /\ now[c] <= now[d]
    BY <1>1 DEF Overtaken
  <2>2. verifier.leeway \in 0 .. MAX_LEEWAY
    BY PolicyTypes DEF TypeInv, TypeOK
  <2>3. QED
    BY <2>1, <2>2, ConstantsAssumption DEF NumericDate, MAX_LEEWAY
<1>6. fields(c).exp \in Int
  BY ExpiredByTime, PlainTypes, ConstantsAssumption DEF Overtaken, fields, NumericDate
<1>7. QED
  BY <1>4, <1>5, <1>6, ExpiredByTime DEF Overtaken, BreaksPolicy

(* A rejection as expired is final while the clock is not set back: no     *)
(* call entered later, on any thread, admits that mandate (verify.rs reads *)
(* the clock once in each call, after it was entered).                     *)
THEOREM ExpiredIsFinal ==
    ASSUME Monotone
    PROVE  Spec => ExpiredStaysExpired
<1> DEFINE Meets(c, d) == Done(c, {"Expired"}) /\ pc[d] = "idle"
           Refuses(c, d) == Done(d, {"Ok"}) => ~Enforces(d, c)
<1>1. Spec => []NowIsPast
  <2>1. Init => NowIsPast
    BY DEF Init, NowIsPast
  <2>2. TypeInv /\ TypeInv' /\ NowIsPast /\ [Next]_vars => NowIsPast'
    BY NowIsPastInductive
  <2>3. QED
    BY <2>1, <2>2, TypeCorrect, PTL DEF Spec
<1>2. ASSUME NEW c \in Call, NEW d \in Call
      PROVE  Spec => [](Meets(c, d) => []Refuses(c, d))
  <2>1. TypeInv /\ StageInv /\ NowIsPast /\ Meets(c, d) => Overtaken(c, d)
    BY OvertakenStarts
  <2>2. TypeInv /\ TypeInv' /\ StageInv /\ Overtaken(c, d) /\ [Next]_vars
            => Overtaken(c, d)'
    BY OvertakenLasts
  <2>3. TypeInv /\ StageInv /\ Overtaken(c, d) => Refuses(c, d)
    BY OvertakenRefuses
  <2>4. QED
    BY <1>1, <2>1, <2>2, <2>3, TypeCorrect, StageInvariant, PTL DEF Spec
<1>3. QED
  BY <1>2 DEF ExpiredStaysExpired
=============================================================================
