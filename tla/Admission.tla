------------------------------ MODULE Admission ------------------------------
(***************************************************************************)
(* What a Verifier promises its callers: each call is judged at a single   *)
(* instant between its entry and its return, by the policy it was entered  *)
(* with and the time of that instant.  Calls do not influence one another. *)
(***************************************************************************)
EXTENDS AdmissionRules

CONSTANTS Call, Presented, ClockValue, Pending

VARIABLES policy, clock, request, verdict

avars == <<policy, clock, request, verdict>>

(* The instant's time: the pinned one, or the clock's, never before 1970.  *)
Instant ==
    IF policy.now # None THEN policy.now ELSE IF clock < 0 THEN 0 ELSE clock

AInit ==
    /\ policy \in Policy
    /\ clock \in ClockValue
    /\ request = [c \in Call |-> None]
    /\ verdict = [c \in Call |-> Pending]

(* The policy may change only until the first request.                     *)
Settle ==
    /\ \A c \in Call : request[c] = None
    /\ policy' \in Policy
    /\ UNCHANGED <<clock, request, verdict>>

Submit(c) ==
    /\ request[c] = None
    /\ \E terminal \in Terminal, tok \in Presented :
          request' = [request EXCEPT ![c] = [terminal |-> terminal, token |-> tok]]
    /\ UNCHANGED <<policy, clock, verdict>>

Judge(c) ==
    /\ request[c] # None /\ verdict[c] = Pending
    /\ LET broken ==
             Violations(request[c].token, request[c].terminal, policy, Instant)
       IN  \/ broken = {} /\ verdict' = [verdict EXCEPT ![c] = "Ok"]
           \/ \E r \in broken : verdict' = [verdict EXCEPT ![c] = r]
    /\ UNCHANGED <<policy, clock, request>>

Pass == clock' \in ClockValue /\ UNCHANGED <<policy, request, verdict>>

ANext ==
    \/ Settle
    \/ Pass
    \/ \E c \in Call : Submit(c) \/ Judge(c)

ASpec == AInit /\ [][ANext]_avars
=============================================================================
