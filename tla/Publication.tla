---------------------------- MODULE Publication ----------------------------
(***************************************************************************)
(* DatabaseAgentClient.publish_backtest_run (app/database_client.py) and   *)
(* the part of Database_Agent it relies on: POST one run, and when the     *)
(* answer leaves doubt, look the run up until it is found, found to be     *)
(* another one, or the attempts are used up.                               *)
(*                                                                         *)
(* Several publishers share one run_id: the run_id is a hash of the data   *)
(* and the parameters, and the scheduled and the post-merge workflow, the  *)
(* API service and reruns of any of them compute the same one.  Only the   *)
(* server's Handle and HandleLate are not in this repository.              *)
(***************************************************************************)
EXTENDS Naturals

CONSTANTS
  Publishers, Identities, Contexts, Nothing,   \* see EvidenceStore
  ReconciliationAttempts,
  MaxRuns              \* bound of the model: publications per publisher

ASSUME PublicationAssumption ==
  /\ Nothing \notin [identity : Identities, context : Contexts]
  /\ ReconciliationAttempts \in 1..6
  /\ MaxRuns \in Nat \ {0}

VARIABLES
  configured,  \* DATABASE_AGENT_URL is set for this publisher
  payload,     \* what the publisher publishes
  pc,          \* where its call of publish_backtest_run is
  answer,      \* of its POST: "pending" until the server has handled it
  attempt,     \* of the reconciliation
  runs,
  stored,      \* the run in the database
  late         \* POSTs given up on that the server may still handle

vars == <<configured, payload, pc, answer, attempt, runs, stored, late>>

Payloads == [identity : Identities, context : Contexts]

Final == {"confirmed", "failed", "skipped"}

(* "conflict" is HTTP 409, "error" HTTP 500, "refused" every other answer  *)
(* that is not a document with status "success".                           *)
Answers == {"success", "conflict", "error", "refused"}

(* _existing_run_matches_payload.                                          *)
Matches(run, q) == run.identity = q.identity

Init ==
  /\ configured \in [Publishers -> BOOLEAN]
  /\ payload \in [Publishers -> Payloads]
  /\ pc = [p \in Publishers |-> "idle"]
  /\ answer = [p \in Publishers |-> "none"]
  /\ attempt = [p \in Publishers |-> 0]
  /\ runs = [p \in Publishers |-> 0]
  /\ stored = Nothing
  /\ late = {}

Goto(p, place) == pc' = [pc EXCEPT ![p] = place]

Publish(p) ==
  /\ pc[p] = "idle"
  /\ IF configured[p]
     THEN Goto(p, "posting") /\ answer' = [answer EXCEPT ![p] = "pending"]
     ELSE Goto(p, "skipped") /\ UNCHANGED answer
  /\ runs' = [runs EXCEPT ![p] = @ + 1]
  /\ UNCHANGED <<configured, payload, attempt, stored, late>>

(* The server stores a run once.  It says so, or fails after the commit;   *)
(* a second run under the same id is an error unless it is the same, byte  *)
(* for byte, and even then the server may not recognise it.                *)
Handle(p) ==
  /\ answer[p] = "pending"
  /\ \/ /\ stored = Nothing
        /\ stored' = payload[p]
        /\ \E a \in Answers \ {"conflict"} : answer' = [answer EXCEPT ![p] = a]
     \/ /\ stored = payload[p]
        /\ \E a \in Answers : answer' = [answer EXCEPT ![p] = a]
        /\ UNCHANGED stored
     \/ /\ stored \notin {Nothing, payload[p]}
        /\ \E a \in Answers \ {"success"} : answer' = [answer EXCEPT ![p] = a]
        /\ UNCHANGED stored
     \/ /\ stored = Nothing
        /\ \E a \in {"error", "refused"} : answer' = [answer EXCEPT ![p] = a]
        /\ UNCHANGED stored
  /\ UNCHANGED <<configured, payload, pc, attempt, runs, late>>

(* A POST nobody waits for any more arrives after all, or never.           *)
HandleLate ==
  /\ \E q \in late :
       /\ late' = late \ {q}
       /\ stored' \in {stored, IF stored = Nothing THEN q ELSE stored}
  /\ UNCHANGED <<configured, payload, pc, answer, attempt, runs>>

(* TimeoutException or TransportError: the request or its answer is lost.  *)
GiveUp(p) ==
  /\ pc[p] = "posting"
  /\ late' = IF answer[p] = "pending" THEN late \cup {payload[p]} ELSE late
  /\ answer' = [answer EXCEPT ![p] = "none"]
  /\ attempt' = [attempt EXCEPT ![p] = 1]
  /\ Goto(p, "reconciling")
  /\ UNCHANGED <<configured, payload, runs, stored>>

Fault_ConflictIsSuccess(p) ==
  /\ pc[p] = "posting" /\ answer[p] \in Answers
  /\ Goto(p, IF answer[p] \in {"success", "conflict"} THEN "confirmed"
             ELSE IF answer[p] = "error" THEN "reconciling" ELSE "failed")
  /\ attempt' = [attempt EXCEPT ![p] = IF answer[p] = "error" THEN 1 ELSE @]
  /\ answer' = [answer EXCEPT ![p] = "none"]
  /\ UNCHANGED <<configured, payload, runs, stored, late>>

Fault_ConflictFails(p) ==
  /\ pc[p] = "posting" /\ answer[p] \in Answers
  /\ Goto(p, CASE answer[p] = "success" -> "confirmed"
               [] answer[p] = "error"   -> "reconciling"
               [] answer[p] \in {"conflict", "refused"} -> "failed")
  /\ attempt' = [attempt EXCEPT ![p] = IF pc'[p] = "reconciling" THEN 1 ELSE @]
  /\ answer' = [answer EXCEPT ![p] = "none"]
  /\ UNCHANGED <<configured, payload, runs, stored, late>>

(* An answer: only 409 and 500 are worth a look, every other error is      *)
(* raised.                                                                 *)
Hear(p) ==
  /\ pc[p] = "posting" /\ answer[p] \in Answers
  /\ Goto(p, CASE answer[p] = "success"               -> "confirmed"
               [] answer[p] \in {"conflict", "error"} -> "reconciling"
               [] answer[p] = "refused"               -> "failed")
  /\ attempt' = [attempt EXCEPT ![p] = IF pc'[p] = "reconciling" THEN 1 ELSE @]
  /\ answer' = [answer EXCEPT ![p] = "none"]
  /\ UNCHANGED <<configured, payload, runs, stored, late>>

Fault_StartOver(p) ==
  /\ pc[p] = "reconciling"
  /\ attempt' = [attempt EXCEPT ![p] = IF @ < ReconciliationAttempts THEN @ + 1 ELSE 1]
  /\ UNCHANGED <<configured, payload, pc, answer, runs, stored, late>>

(* A look that brings nothing: 404, 5xx, a timeout.  The last one raises.  *)
LookInVain(p) ==
  /\ pc[p] = "reconciling"
  /\ IF attempt[p] < ReconciliationAttempts
     THEN attempt' = [attempt EXCEPT ![p] = @ + 1] /\ UNCHANGED pc
     ELSE Goto(p, "failed") /\ UNCHANGED attempt
  /\ UNCHANGED <<configured, payload, answer, runs, stored, late>>

Fault_AnyRunWillDo(p) ==
  /\ pc[p] = "reconciling"
  /\ Goto(p, IF stored # Nothing THEN "confirmed" ELSE "failed")
  /\ UNCHANGED <<configured, payload, answer, attempt, runs, stored, late>>

(* A look that decides: the run is there, it is this one or another; or    *)
(* the server refuses the look (another 4xx, a malformed document).        *)
Decide(p) ==
  /\ pc[p] = "reconciling"
  /\ \/ stored # Nothing /\ Matches(stored, payload[p]) /\ Goto(p, "confirmed")
     \/ Goto(p, "failed")
  /\ UNCHANGED <<configured, payload, answer, attempt, runs, stored, late>>

(* The next schedule, or a rerun of a failed workflow, publishes the same  *)
(* run again, in another context.                                          *)
Rerun(p) ==
  /\ pc[p] \in Final /\ runs[p] < MaxRuns
  /\ Goto(p, "idle")
  /\ \E c \in Contexts : payload' = [payload EXCEPT ![p].context = c]
  /\ UNCHANGED <<configured, answer, attempt, runs, stored, late>>

Client(p) == GiveUp(p) \/ Hear(p) \/ LookInVain(p) \/ Decide(p)

Next ==
  \/ HandleLate
  \/ \E p \in Publishers : Publish(p) \/ Handle(p) \/ Client(p) \/ Rerun(p)

Spec == Init /\ [][Next]_vars

(* Every request has a timeout and every wait between them an end, so the  *)
(* client always takes another step.                                       *)
FairSpec == Spec /\ \A p \in Publishers : WF_vars(Client(p))
-----------------------------------------------------------------------------
TypeOK ==
  /\ configured \in [Publishers -> BOOLEAN]
  /\ payload \in [Publishers -> Payloads]
  /\ pc \in [Publishers -> {"idle", "posting", "reconciling"} \cup Final]
  /\ answer \in [Publishers -> {"none", "pending"} \cup Answers]
  /\ attempt \in [Publishers -> 0..ReconciliationAttempts]
  /\ runs \in [Publishers -> Nat]
  /\ stored \in Payloads \cup {Nothing}
  /\ late \subseteq Payloads

(* A publisher that is told "success" has its own evidence in the          *)
(* database, even when its POST was lost, came late, lost the race against *)
(* another publisher's, or failed after the commit                         *)
(* (database_client.py:285-323).                                           *)
ConfirmedIsStored ==
  \A p \in Publishers :
    pc[p] = "confirmed" => stored # Nothing /\ Matches(stored, payload[p])

(* Every call of publish_backtest_run returns or raises.                   *)
CallEnds ==
  \A p \in Publishers : pc[p] = "posting" ~> pc[p] \in Final

Store == INSTANCE EvidenceStore WITH
  offer <- payload,
  verdict <- [p \in Publishers |-> IF pc[p] \in Final THEN pc[p] ELSE "open"]

(* The protocol implements the promise: evidence is kept once, and every   *)
(* verdict is one the promise allows.                                      *)
ImplementsEvidenceStore == Store!Spec
=============================================================================
