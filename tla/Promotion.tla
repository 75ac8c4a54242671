----------------------------- MODULE Promotion -----------------------------
(***************************************************************************)
(* create_and_advance_backtest_promotion (app/promotion_lifecycle.py): a   *)
(* runner creates or finds the promotion of its run and attests it state   *)
(* by state up to ROBUSTNESS_PASSED, while other runners do the same and   *)
(* the manager approves, observes or ends the promotion.                   *)
(*                                                                         *)
(* Database_Agent is not in this repository: it is modelled as the client, *)
(* its comments and docs/BACKTEST_PROMOTION_INTEGRATION.md use it.  It     *)
(* compares the expected state and version with the current ones, answers  *)
(* a create with the current record and an identical transition with the   *)
(* record that transition made.  It knows no order of the states.          *)
(***************************************************************************)
EXTENDS Naturals, Sequences

CONSTANTS
  Runners,    \* processes that promote the same run
  MaxRuns     \* bound of the model: how often each of them does it

ASSUME PromotionAssumption == MaxRuns \in [Runners -> Nat \ {0}]

VARIABLES
  history,   \* the states the promotion has had: its version is the length
  pc,        \* where the call of each runner is
  request,   \* what it last asked of the database
  reply,     \* the answer, if there is one
  current,   \* the last record it was given
  runs,
  late,      \* requests given up on that the database may still handle
  floor      \* observer: the version when the run began

vars == <<history, pc, request, reply, current, runs, late, floor>>

Fault_SkipStage == { <<"GENERATED", "VALIDATED">>, <<"VALIDATED", "ROBUSTNESS_PASSED">>,
                     <<"OOS_PASSED", "ROBUSTNESS_PASSED">> }

Fault_Revalidate == { <<"GENERATED", "VALIDATED">>, <<"VALIDATED", "OOS_PASSED">>,
                      <<"OOS_PASSED", "ROBUSTNESS_PASSED">>, <<"EXPIRED", "VALIDATED">> }

OwnedTransitions == { <<"GENERATED", "VALIDATED">>, <<"VALIDATED", "OOS_PASSED">>,
                      <<"OOS_PASSED", "ROBUSTNESS_PASSED">> }

DownstreamStates == {"ROBUSTNESS_PASSED", "APPROVED_FOR_PAPER", "PAPER_OBSERVING"}
TerminalStates == {"REJECTED", "FAILED", "EXPIRED", "REVOKED"}
AttestedStates == {"VALIDATED", "OOS_PASSED", "ROBUSTNESS_PASSED"}
States == {"GENERATED", "VALIDATED", "OOS_PASSED"} \cup DownstreamStates \cup TerminalStates

Record == [state : States, version : Nat \ {0}]
Transition == [from : States, to : States, version : Nat \ {0}]

(* What is not a record or a transition has the same shape.                *)
Unanswered == [state |-> "none", version |-> 0]
Refused == [state |-> "refused", version |-> 0]
Create == [from |-> "none", to |-> "GENERATED", version |-> 0]

Latest == [state |-> history[Len(history)], version |-> Len(history)]

Applies(q) ==
  IF q = Create THEN history = <<>>
  ELSE q.version = Len(history) /\ history[Len(history)] = q.from

Replays(q) ==
  IF q = Create THEN history # <<>>
  ELSE q.version < Len(history) /\ history[q.version] = q.from
                                /\ history[q.version + 1] = q.to

HistoryAfter(q) == IF Applies(q) THEN Append(history, q.to) ELSE history

AnswerTo(q) ==
  IF ~Applies(q) /\ ~Replays(q) THEN Refused
  ELSE IF q = Create /\ history # <<>> THEN Latest
  ELSE [state |-> q.to, version |-> q.version + 1]

Init ==
  /\ history = <<>>
  /\ pc = [r \in Runners |-> "idle"]
  /\ request = [r \in Runners |-> Create]
  /\ reply = [r \in Runners |-> Unanswered]
  /\ current = [r \in Runners |-> Unanswered]
  /\ runs = [r \in Runners |-> 0]
  /\ late = {}
  /\ floor = [r \in Runners |-> 0]

Goto(r, place) == pc' = [pc EXCEPT ![r] = place]

Ask(r, q) ==
  /\ request' = [request EXCEPT ![r] = q]
  /\ reply' = [reply EXCEPT ![r] = Unanswered]
  /\ Goto(r, "waiting")

(* Every run begins with the create request; so does the next hour's, or a *)
(* rerun of one that failed.                                               *)
Begin(r) ==
  /\ pc[r] # "waiting" /\ runs[r] < MaxRuns[r]
  /\ Ask(r, Create)
  /\ runs' = [runs EXCEPT ![r] = @ + 1]
  /\ floor' = [floor EXCEPT ![r] = Len(history)]
  /\ UNCHANGED <<history, current, late>>

Handle(r) ==
  /\ pc[r] = "waiting" /\ reply[r] = Unanswered
  /\ history' = HistoryAfter(request[r])
  /\ reply' = [reply EXCEPT ![r] = AnswerTo(request[r])]
  /\ UNCHANGED <<pc, request, current, runs, late, floor>>

(* A request whose sender gave up arrives after all, or never.             *)
HandleLate ==
  /\ \E q \in late : /\ late' = late \ {q}
                     /\ history' \in {history, HistoryAfter(q)}
  /\ UNCHANGED <<pc, request, reply, current, runs, floor>>

(* The manager's transitions: approval, observation, and the end of a      *)
(* promotion, whatever state it is in.                                     *)
Manage ==
  /\ history # <<>>
  /\ \E s \in States :
       /\ \/ Latest.state = "ROBUSTNESS_PASSED" /\ s = "APPROVED_FOR_PAPER"
          \/ Latest.state = "APPROVED_FOR_PAPER" /\ s = "PAPER_OBSERVING"
          \/ Latest.state \notin TerminalStates /\ s \in TerminalStates
       /\ history' = Append(history, s)
  /\ UNCHANGED <<pc, request, reply, current, runs, late, floor>>

(* Timeouts, lost connections, server errors and malformed answers all end *)
(* the run with an exception.                                              *)
Lose(r) ==
  /\ pc[r] = "waiting"
  /\ late' = IF reply[r] = Unanswered THEN late \cup {request[r]} ELSE late
  /\ Goto(r, "failed")
  /\ UNCHANGED <<history, request, reply, current, runs, floor>>

Fault_AssumeGenerated(r) ==
  IF request[r] = Create THEN [state |-> "GENERATED", version |-> 1] ELSE reply[r]

Fault_KeepFirstRecord(r) ==
  IF request[r] = Create THEN reply[r] ELSE current[r]

(* The record the loop goes on with.                                       *)
Given(r) == reply[r]

(* One round of the loop: done in a downstream state, out of the question  *)
(* in a terminal one, and otherwise the next transition this agent owns.   *)
Advance(r) ==
  /\ pc[r] = "waiting" /\ reply[r] \notin {Unanswered, Refused}
  /\ current' = [current EXCEPT ![r] = Given(r)]
  /\ \/ Given(r).state \in DownstreamStates /\ Goto(r, "done") /\ UNCHANGED <<request, reply>>
     \/ \E s \in States :
          /\ <<Given(r).state, s>> \in OwnedTransitions
          /\ Ask(r, [from |-> Given(r).state, to |-> s, version |-> Given(r).version])
     \/ /\ Given(r).state \notin DownstreamStates
        /\ \A s \in States : <<Given(r).state, s>> \notin OwnedTransitions
        /\ Goto(r, "failed") /\ UNCHANGED <<request, reply>>
  /\ UNCHANGED <<history, runs, late, floor>>

(* A stale version or another HTTP error: stop, do not guess the state.    *)
Stop(r) ==
  /\ pc[r] = "waiting" /\ reply[r] = Refused
  /\ Goto(r, "failed")
  /\ UNCHANGED <<history, request, reply, current, runs, late, floor>>

Runner(r) == Lose(r) \/ Advance(r) \/ Stop(r)

Next ==
  \/ HandleLate
  \/ Manage
  \/ \E r \in Runners : Begin(r) \/ Handle(r) \/ Runner(r)

Spec == Init /\ [][Next]_vars

(* httpx gives up on every request in the end.                             *)
FairSpec == Spec /\ \A r \in Runners : WF_vars(Runner(r))
-----------------------------------------------------------------------------
TypeOK ==
  /\ history \in Seq(States)
  /\ pc \in [Runners -> {"idle", "waiting", "done", "failed"}]
  /\ request \in [Runners -> Transition \cup {Create}]
  /\ reply \in [Runners -> Record \cup {Unanswered, Refused}]
  /\ current \in [Runners -> Record \cup {Unanswered}]
  /\ runs \in [Runners -> Nat] /\ floor \in [Runners -> Nat]
  /\ late \subseteq Transition \cup {Create}

(* However runners, retries and late requests interleave, a promotion      *)
(* passes every stage: it is never attested a state without having been in *)
(* the state before (promotion_lifecycle.py:9-13, :109-117).               *)
AttestedInOrder ==
  \A v \in 1..(Len(history) - 1) :
    history[v + 1] \in AttestedStates =>
      <<history[v], history[v + 1]>> \in
        { <<"GENERATED", "VALIDATED">>, <<"VALIDATED", "OOS_PASSED">>,
          <<"OOS_PASSED", "ROBUSTNESS_PASSED">> }

(* No retry and no late request revives a promotion that was rejected,     *)
(* failed, expired or revoked (promotion_lifecycle.py:20, :105-108).       *)
TerminalIsFinal ==
  \A v \in 1..Len(history) : history[v] \in TerminalStates => v = Len(history)

(* The history of a promotion is one this agent may have written: stages   *)
(* in their order, and nothing after an end.                               *)
HistoryIsLegal == AttestedInOrder /\ TerminalIsFinal

(* No false green: a runner reports a promotion only in a downstream state *)
(* that the promotion had, under that version, during this run and not     *)
(* before it, although a replayed answer may be older than the record      *)
(* (docs/BACKTEST_PROMOTION_INTEGRATION.md:39, promotion_lifecycle.py:103).*)
NoFalseGreen ==
  \A r \in Runners : pc[r] = "done" =>
    /\ current[r].state \in DownstreamStates
    /\ current[r].version \in floor[r]..Len(history)
    /\ history[current[r].version] = current[r].state

(* What has become of the promotion, as PromotionRecord tells it apart.    *)
Stage ==
  IF history = <<>> THEN "none"
  ELSE CASE Latest.state \in {"GENERATED", "VALIDATED", "OOS_PASSED"} -> "begun"
         [] Latest.state = "ROBUSTNESS_PASSED"                        -> "robust"
         [] Latest.state \in {"APPROVED_FOR_PAPER", "PAPER_OBSERVING"} -> "approved"
         [] Latest.state \in TerminalStates                           -> "ended"

Abstract == INSTANCE PromotionRecord WITH
  Promotions <- {"promotion"}, stage <- [p \in {"promotion"} |-> Stage]

(* The calls of all runners, with their retries, replays and late          *)
(* requests, implement the record: once a promotion is robust nothing this *)
(* agent sends moves it, however old what it knows                         *)
(* (promotion_lifecycle.py:103-141).                                       *)
ImplementsPromotionRecord == Abstract!Spec

(* Every run returns a record or raises: no answer keeps the loop going    *)
(* for ever (promotion_lifecycle.py:103-141).                              *)
RunEnds ==
  \A r \in Runners : pc[r] = "waiting" ~> pc[r] \in {"done", "failed"}
=============================================================================
