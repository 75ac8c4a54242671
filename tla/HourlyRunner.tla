---------------------------- MODULE HourlyRunner ----------------------------
(***************************************************************************)
(* run_nested_hourly_backtest (app/hourly_promotion_runner.py) with the two  *)
(* adapters that reclassify its failures (app/nested_validation_v4.py and    *)
(* app/insufficient_history_rejection_policy.py): per symbol it fetches,     *)
(* selects, validates, opens the sealed holdout, publishes and promotes, and *)
(* only at the end writes its reports.                                      *)
(*                                                                         *)
(* Two workflows may run at once, any of them may be cancelled between two  *)
(* steps, and each is started again on the same or newer bars.  What the    *)
(* bars of a symbol on a day show is fixed: the set of the checks they fail. *)
(* The identity of a run is the symbol and the day, as _run_id hashes the    *)
(* data and the policies and nothing of the workflow.                       *)
(***************************************************************************)
EXTENDS Naturals, Sequences, SequencesExt, FiniteSets

CONSTANTS
    Runners,            \* workflows that run the script
    Symbols,
    MaxDay,             \* bound of the model: days on which new bars arrive
    MaxRuns,            \* bound of the model: how often each workflow starts
    Outlooks,           \* sets of checks that the bars of a day may fail
    Settings,           \* how the workflows may be configured
    None

\* Everything between the bars and the database that may turn a symbol down.
Checks == {"history", "selection", "completeness", "statistics", "robustness",
           "gates", "holdout"}

ASSUME HourlyAssumption ==
    /\ Settings \subseteq [symbols : Seq(Symbols), publishing : SUBSET Runners]
    /\ \A s \in Settings : IsInjective(s.symbols)
    /\ Outlooks \subseteq SUBSET Checks
    /\ MaxDay \in Nat \ {0} /\ MaxRuns \in Nat

Ids == Symbols \X (1 .. MaxDay)

VARIABLES
    setting,    \* the symbols, and the workflows that set PUBLISH_TO_DATABASE
    outlook,    \* the checks that the bars of a symbol fail on a day
    today,      \* the newest day with bars
    pc,         \* where a runner is
    id,         \* the symbol and day it works on
    items,      \* its results so far
    unsealed,   \* the identities whose holdout this run has executed
    report,     \* the report it has written, or None
    runs,       \* how often it has started
    store,      \* identities the database holds
    late,       \* identities of publications given up on that may still arrive
    promotion   \* what has become of the promotion of an identity

shared == <<store, late, promotion>>
local == <<pc, id, items, unsealed, report, runs>>
vars == <<setting, outlook, today, local, shared>>

\* _symbols_from_env: the symbols of a run, in order and without repetition.
SymbolList == setting.symbols

Publishes(r) == r \in setting.publishing

Init ==
    /\ setting \in Settings
    /\ outlook \in [Ids -> Outlooks]
    /\ today = 1
    /\ pc = [r \in Runners |-> "idle"]
    /\ id = [r \in Runners |-> None]
    /\ items = [r \in Runners |-> << >>]
    /\ unsealed = [r \in Runners |-> {}]
    /\ report = [r \in Runners |-> None]
    /\ runs = [r \in Runners |-> 0]
    /\ store = {}
    /\ late = {}
    /\ promotion = [i \in Ids |-> "none"]

Goto(r, place) == pc' = [pc EXCEPT ![r] = place]

-----------------------------------------------------------------------------
(* Items of the report.                                                     *)

Failed(i, why) ==
    [id |-> i, status |-> "failed", published |-> FALSE, promoted |-> FALSE,
     error |-> why, holdout |-> "unstated"]

Rejected(i, stage, holdout) ==
    [id |-> i, status |-> "no_eligible_strategy", published |-> FALSE,
     promoted |-> FALSE, error |-> stage, holdout |-> holdout]

Found(i, published) ==
    [id |-> i, status |-> "eligible_strategy_found", published |-> published,
     promoted |-> published, error |-> "none", holdout |-> "passed"]

Fault_Record(r, item) ==
    /\ items' = IF item.status = "failed" THEN items
                ELSE [items EXCEPT ![r] = Append(@, item)]
    /\ Goto(r, "fetch")

\* The item ends its symbol, and the loop goes to the next one.
Record(r, item) ==
    /\ items' = [items EXCEPT ![r] = Append(@, item)]
    /\ Goto(r, "fetch")

-----------------------------------------------------------------------------
(* The pipeline of one symbol.                                              *)

Begin(r) ==
    /\ pc[r] \in {"idle", "done"} /\ runs[r] < MaxRuns
    /\ runs' = [runs EXCEPT ![r] = @ + 1]
    /\ items' = [items EXCEPT ![r] = << >>]
    /\ unsealed' = [unsealed EXCEPT ![r] = {}]
    /\ report' = [report EXCEPT ![r] = None]
    /\ Goto(r, "fetch")
    /\ UNCHANGED <<setting, outlook, today, id, shared>>

\* The bars, split into research bars and the sealed tail.  Too short a
\* history is an error like any other here, and so is a provider that fails.
HistoryTooShort(i) == "history" \in outlook[i]

Fetch(r) ==
    /\ pc[r] = "fetch" /\ Len(items[r]) < Len(SymbolList)
    /\ LET i == <<SymbolList[Len(items[r]) + 1], today>>
       IN  /\ id' = [id EXCEPT ![r] = i]
           /\ \/ Record(r, Failed(i, "market_data"))
              \/ HistoryTooShort(i) /\ Record(r, Failed(i, "history"))
              \/ ~HistoryTooShort(i) /\ Goto(r, "select") /\ UNCHANGED items
    /\ UNCHANGED <<setting, outlook, today, unsealed, report, runs, shared>>

Select(r) ==
    /\ pc[r] = "select"
    /\ IF "selection" \in outlook[id[r]]
       THEN Record(r, Rejected(id[r], "selection", "sealed_not_opened"))
       ELSE Goto(r, "validate") /\ UNCHANGED items
    /\ UNCHANGED <<setting, outlook, today, id, unsealed, report, runs, shared>>

\* _pre_holdout_metadata raises at the first of these that fails.
PreHoldoutChecks == <<"completeness", "statistics", "robustness", "gates">>

Fault_PreHoldoutFailures(i) ==
    {k \in DOMAIN PreHoldoutChecks : /\ PreHoldoutChecks[k] # "robustness"
                                     /\ PreHoldoutChecks[k] \in outlook[i]}

PreHoldoutFailures(i) ==
    {k \in DOMAIN PreHoldoutChecks : PreHoldoutChecks[k] \in outlook[i]}

FirstFailure(i) ==
    PreHoldoutChecks[CHOOSE k \in PreHoldoutFailures(i) :
                        \A l \in PreHoldoutFailures(i) : k <= l]

Validate(r) ==
    /\ pc[r] = "validate"
    /\ IF PreHoldoutFailures(id[r]) # {}
       THEN Record(r, Failed(id[r], FirstFailure(id[r])))
       ELSE Goto(r, "holdout") /\ UNCHANGED items
    /\ UNCHANGED <<setting, outlook, today, id, unsealed, report, runs, shared>>

Fault_HoldoutRejects(i) == FALSE

HoldoutRejects(i) == "holdout" \in outlook[i]

OpenHoldout(r) ==
    /\ pc[r] = "holdout"
    /\ unsealed' = [unsealed EXCEPT ![r] = @ \cup {id[r]}]
    /\ \/ HoldoutRejects(id[r]) /\ Record(r, Failed(id[r], "holdout"))
       \/ /\ ~HoldoutRejects(id[r])
          /\ IF Publishes(r) THEN Goto(r, "publish") /\ UNCHANGED items
                             ELSE Record(r, Found(id[r], FALSE))
    /\ UNCHANGED <<setting, outlook, today, id, report, runs, shared>>

\* What is confirmed is stored (module Publication); what is not confirmed may
\* be stored, or still be.
Publish(r) ==
    /\ pc[r] = "publish"
    /\ \/ /\ store' = store \cup {id[r]}
          /\ Goto(r, "promote")
          /\ UNCHANGED <<items, late>>
       \/ /\ late' = late \cup {id[r]}
          /\ Record(r, Failed(id[r], "publish"))
          /\ UNCHANGED store
    /\ UNCHANGED <<setting, outlook, today, id, unsealed, report, runs,
                   promotion>>

LatePublication ==
    /\ \E i \in late : store' = store \cup {i} /\ late' = late \ {i}
    /\ UNCHANGED <<setting, outlook, today, local, promotion>>

\* The states of a promotion (module Promotion) as far as the runner tells
\* them apart: "begun" is any state before ROBUSTNESS_PASSED.
Unfinished == {"none", "begun"}
Downstream == {"robust", "approved"}

Fault_Advanced(p) == "robust"

Advanced(p) == IF p \in Unfinished THEN "robust" ELSE p

\* A call that fails may have got any part of the way, and one whose answers
\* were all replays returns a state that has been passed since.
Promote(r) ==
    /\ pc[r] = "promote"
    /\ \/ /\ promotion' = [promotion EXCEPT ![id[r]] = Advanced(@)]
          /\ Record(r, Found(id[r], TRUE))
       \/ /\ \E p \in {promotion[id[r]], Advanced(promotion[id[r]])} \cup
                      (IF promotion[id[r]] = "none" THEN {"begun"} ELSE {}) :
                 promotion' = [promotion EXCEPT ![id[r]] = p]
          /\ Record(r, Failed(id[r], "promotion"))
    /\ UNCHANGED <<setting, outlook, today, id, unsealed, report, runs, store,
                   late>>

-----------------------------------------------------------------------------
(* The reports.                                                             *)

Having(list, status) == {i \in DOMAIN list : list[i].status = status}

Summary(r, list) ==
    LET eligible == Cardinality(Having(list, "eligible_strategy_found"))
        published == Cardinality({i \in DOMAIN list : list[i].published})
        promoted == Cardinality({i \in DOMAIN list : list[i].promoted})
        succeeded == Having(list, "failed") = {}
        complete == /\ succeeded /\ published = eligible
                    /\ Publishes(r) => promoted = eligible
    IN  [items |-> list,
         status |-> IF succeeded THEN "success" ELSE "error",
         published |-> complete,
         publish_status |->
             IF complete THEN "success"
             ELSE IF Cardinality(Having(list, "failed")) < Len(list)
             THEN "partial_failure" ELSE "failed"]

Write(r) ==
    /\ pc[r] = "fetch" /\ Len(items[r]) = Len(SymbolList)
    /\ report' = [report EXCEPT ![r] = Summary(r, items[r])]
    /\ Goto(r, "reclassify_gates")
    /\ UNCHANGED <<setting, outlook, today, id, items, unsealed, runs, shared>>

\* An item is reclassified by the text of its error, when that is one of
\* those in the domain of holdout, and never when something was published or
\* promoted; holdout says what each tells of the final holdout.
Reclassify(r, holdout, next) ==
    /\ LET list == [k \in DOMAIN items[r] |->
                       LET x == items[r][k] IN
                       IF /\ x.status = "failed"
                          /\ ~x.published /\ ~x.promoted
                          /\ x.error \in DOMAIN holdout
                       THEN Rejected(x.id, x.error, holdout[x.error]) ELSE x]
       IN  /\ items' = [items EXCEPT ![r] = list]
           /\ report' = [report EXCEPT ![r] =
                  IF list = items[r] THEN @ ELSE Summary(r, list)]
    /\ Goto(r, next)
    /\ UNCHANGED <<setting, outlook, today, id, unsealed, runs, shared>>

Fault_GateRejections == {"statistics", "robustness", "holdout", "promotion"}

\* The stages whose error messages _EXPECTED_REJECTION_PREFIXES lists.
GateRejections == {"statistics", "robustness", "holdout"}

Fault_ReclassifyGates(r) ==
    /\ pc[r] = "reclassify_gates"
    /\ Reclassify(r, [e \in GateRejections |-> "sealed_not_opened"],
           "reclassify_history")

ReclassifyGates(r) ==
    /\ pc[r] = "reclassify_gates"
    /\ Reclassify(r,
           [e \in GateRejections |->
               IF e = "holdout" THEN "opened_rejected" ELSE "sealed_not_opened"],
           "reclassify_history")

ReclassifyHistory(r) ==
    /\ pc[r] = "reclassify_history"
    /\ Reclassify(r, [e \in {"history"} |-> "sealed_not_opened"], "done")

-----------------------------------------------------------------------------
(* The world around a run.                                                  *)

\* The workflow is cancelled or its machine lost: what it wrote stays.
Crash(r) ==
    /\ pc[r] \notin {"idle", "done"}
    /\ Goto(r, "idle")
    /\ items' = [items EXCEPT ![r] = << >>]
    /\ late' = IF pc[r] = "publish" THEN late \cup {id[r]} ELSE late
    /\ UNCHANGED <<setting, outlook, today, id, unsealed, report, runs, store,
                   promotion>>

NewBars ==
    /\ today < MaxDay
    /\ today' = today + 1
    /\ UNCHANGED <<setting, outlook, local, shared>>

\* The manager approves what reached ROBUSTNESS_PASSED and may end anything.
Manage ==
    /\ \E i \in Ids :
           \/ /\ promotion[i] = "robust"
              /\ promotion' = [promotion EXCEPT ![i] = "approved"]
           \/ /\ promotion[i] \notin {"none", "ended"}
              /\ promotion' = [promotion EXCEPT ![i] = "ended"]
    /\ UNCHANGED <<setting, outlook, today, local, store, late>>

Step(r) ==
    \/ Fetch(r) \/ Select(r) \/ Validate(r) \/ OpenHoldout(r)
    \/ Publish(r) \/ Promote(r)
    \/ Write(r) \/ ReclassifyGates(r) \/ ReclassifyHistory(r)

Next ==
    \/ \E r \in Runners : Begin(r) \/ Step(r) \/ Crash(r)
    \/ LatePublication \/ NewBars \/ Manage

Spec == Init /\ [][Next]_vars /\ \A r \in Runners : WF_vars(Step(r))

-----------------------------------------------------------------------------
(* Properties.                                                              *)

Places == {"idle", "fetch", "select", "validate", "holdout", "publish",
           "promote", "reclassify_gates", "reclassify_history", "done"}

\* The types of the variables.
TypeOK ==
    /\ setting \in Settings
    /\ outlook \in [Ids -> SUBSET Checks]
    /\ today \in 1 .. MaxDay
    /\ pc \in [Runners -> Places]
    /\ id \in [Runners -> Ids \cup {None}]
    /\ \A r \in Runners :
           pc[r] \in {"select", "validate", "holdout", "publish", "promote"}
               => id[r] \in Ids
    /\ runs \in [Runners -> 0 .. MaxRuns]
    /\ unsealed \in [Runners -> SUBSET Ids]
    /\ store \subseteq Ids
    /\ late \subseteq Ids
    /\ promotion \in [Ids -> Unfinished \cup Downstream \cup {"ended"}]

PreHoldoutPassed(i) ==
    outlook[i] \cap {"history", "selection", "completeness", "statistics",
                     "robustness", "gates"} = {}

\* The seal (run_nested_hourly_backtest around _pre_holdout_metadata): no run,
\* however often it is cancelled and started again, executes the holdout of data
\* that failed any check before it.
SealKept ==
    \A r \in Runners : \A i \in unsealed[r] : PreHoldoutPassed(i)

\* Only evidence whose every check passed, the holdout included, can reach the
\* database or have a promotion (_attach_holdout_evidence before
\* publish_backtest_result and create_and_advance_backtest_promotion), though
\* a publication may arrive after its run gave up on it or was cancelled.
OnlyPassedEvidence ==
    \A i \in Ids :
        /\ (i \in store \cup late \/ promotion[i] # "none") => outlook[i] = {}
        /\ promotion[i] # "none" => i \in store

\* What a report claims of an item it has not failed is true, at any time a
\* report lies on disk (the three writes of the runner and its two adapters): a
\* published item is stored and was promoted, a holdout said to be sealed was
\* not executed by this run, one said to be rejected was.
ClaimsAreTrue ==
    \A r \in Runners : report[r] # None =>
        \A k \in DOMAIN report[r].items :
            LET x == report[r].items[k] IN
            /\ x.published => x.id \in store
            /\ x.promoted => promotion[x.id] \notin Unfinished
            /\ x.holdout = "sealed_not_opened" => x.id \notin unsealed[r]
            /\ x.holdout \in {"opened_rejected", "passed"} =>
                   x.id \in unsealed[r]

\* No operational failure is filed as a decision not to trade (the error texts
\* _reclassify_expected_gate_rejections and _history_counts recognise): what a
\* report calls not eligible failed a check, and a run that reports success
\* has settled every symbol, by a rejection or in the database.
NothingSwallowed ==
    \A r \in Runners : report[r] # None =>
        /\ \A k \in DOMAIN report[r].items :
               LET x == report[r].items[k] IN
               (x.status = "no_eligible_strategy" => outlook[x.id] # {})
        /\ report[r].status = "success" /\ Publishes(r) =>
               /\ Len(report[r].items) = Len(SymbolList)
               /\ \A k \in DOMAIN SymbolList :
                      LET x == report[r].items[k] IN
                      /\ x.id[1] = SymbolList[k]
                      /\ outlook[x.id] # {} \/ promotion[x.id] \notin Unfinished

\* A report neither claims what is not so nor hides what went wrong
\* (run_nested_hourly_backtest and its two adapters).
ReportsAreTrue == ClaimsAreTrue /\ NothingSwallowed

\* A rerun on the same data never undoes a decision downstream of it: a
\* promotion that was approved or ended is left alone by every later run.
NeverStepsBack ==
    \A i \in Ids :
        /\ promotion[i] = "approved" => promotion'[i] \in {"approved", "ended"}
        /\ promotion[i] = "ended" => promotion'[i] = "ended"
        /\ promotion[i] = "robust" => promotion'[i] # "begun"

PromotionNeverStepsBack == [][NeverStepsBack]_vars

Abstract == INSTANCE PromotionRecord WITH Promotions <- Ids, stage <- promotion

\* What the steps of a run, of its reruns and of the manager do to promotions is
\* what PromotionRecord allows, which the calls themselves implement (module
\* Promotion): the call of a run may be taken for one step
\* (create_and_advance_backtest_promotion in run_nested_hourly_backtest).
ImplementsPromotionRecord == Abstract!Spec

\* One bad symbol does not stop the run (the try around each symbol): a run that
\* is not cancelled ends with a report that has an item for every symbol.
RunEnds ==
    \A r \in Runners :
        pc[r] = "fetch" ~>
            \/ pc[r] = "idle"
            \/ (pc[r] = "done" /\ Len(report[r].items) = Len(SymbolList))
=============================================================================
