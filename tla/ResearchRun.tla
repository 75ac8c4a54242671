----------------------------- MODULE ResearchRun -----------------------------
(***************************************************************************)
(* The sealed research workflow: run_pre_holdout_research                  *)
(* (app/pre_holdout_research.py) takes every symbol through its gates,     *)
(* publish_research_report_if_enabled (app/phase17_research_storage.py)    *)
(* stores the evidence of each and reads it back, and a separate job step  *)
(* (app/phase18_research_publish_audit.py) audits the report.              *)
(*                                                                         *)
(* The workflow may be cancelled anywhere and is started again on the same *)
(* or newer bars.  An evidence_id is a hash of the document, and the       *)
(* document a function of the symbol and its bars, so the symbol and the   *)
(* day stand for both.  PUBLISH_TO_DATABASE is false in this workflow, or  *)
(* the run refuses to start.                                               *)
(***************************************************************************)
EXTENDS Naturals, Sequences, SequencesExt, FiniteSets

CONSTANTS
    Symbols,      \* the symbols of a run, a sequence without repetition
    MaxDay,       \* bound of the model: days on which new bars arrive
    MaxRuns,      \* bound of the model: how often the workflow starts
    Outlooks,     \* sets of gates that the bars of a day may fail
    None

AllGates == <<"selection", "pbo", "cost", "metadata">>

\* What the database may hold under an id: the document, or not quite it.
Rows == {"document", "altered"}

ASSUME ResearchAssumption ==
    /\ Symbols \in Seq(Range(Symbols)) /\ IsInjective(Symbols) /\ Symbols # << >>
    /\ Outlooks \subseteq SUBSET Range(AllGates)
    /\ MaxDay \in Nat \ {0} /\ MaxRuns \in Nat
    /\ None \notin Rows

\* How a run may be configured: the profile is v6 or later, so that PBO and
\* cost stress are gates; BACKTEST_RESEARCH_EVIDENCE_PUBLISH and the audit's
\* copy of it; the database's address and key.
Settings == [strict : BOOLEAN, publishing : BOOLEAN, configured : BOOLEAN]

Ids == Range(Symbols) \X (1 .. MaxDay)

VARIABLES
    setting,   \* of the workflow, one of Settings
    outlook,   \* the gates that the bars of a symbol fail on a day
    today,     \* the newest day with bars
    pc,        \* where the workflow is
    items,     \* the results of the symbols evaluated so far
    place,     \* the item whose evidence is published
    answer,    \* of its POST: "pending" until the server has handled it
    records,   \* the ids that were stored and read back
    sent,      \* the ids this run has posted, in order
    report,    \* the report on disk, or None
    verdict,   \* of the workflow: "open", "green" or "red"
    runs,      \* how often it has started
    trouble,   \* something outside the run has gone wrong since it began
    rows,      \* the research evidence in the database
    late       \* POSTs given up on that the server may still handle

database == <<rows, late>>
local == <<pc, items, place, answer, records, sent, report, verdict, trouble>>
vars == <<setting, outlook, today, runs, local, database>>

Init ==
    /\ setting \in Settings
    /\ outlook \in [Ids -> Outlooks]
    /\ today = 1
    /\ pc = "idle" /\ verdict = "open" /\ runs = 0 /\ trouble = FALSE
    /\ items = << >> /\ place = 1 /\ answer = "none"
    /\ records = << >> /\ sent = << >> /\ report = None
    /\ rows = [i \in Ids |-> None]
    /\ late = {}

Ended == {"idle", "over"}

Fault_Abort == pc' = "over" /\ answer' = "none" /\ UNCHANGED verdict

\* Any exception of the run, and its cancellation, turn the workflow red; a
\* report that is not written by then never is.
Abort == pc' = "over" /\ verdict' = "red" /\ answer' = "none"

-----------------------------------------------------------------------------
(* The evaluation of the symbols.                                           *)

Begin ==
    /\ pc \in Ended /\ runs < MaxRuns
    /\ pc' = "evaluate" /\ verdict' = "open" /\ runs' = runs + 1
    /\ items' = << >> /\ records' = << >> /\ sent' = << >> /\ place' = 1
    /\ report' = None /\ trouble' = FALSE
    /\ UNCHANGED <<setting, outlook, today, answer, database>>

Gates == IF setting.strict THEN AllGates ELSE <<"selection", "metadata">>

FailedGates(i) == {k \in DOMAIN Gates : Gates[k] \in outlook[i]}

\* The first gate that does not pass ends the symbol.
Stage(i) ==
    IF FailedGates(i) = {} THEN "passed"
    ELSE Gates[CHOOSE k \in FailedGates(i) : \A l \in FailedGates(i) : k <= l]

Fault_Diagnosed(stage) == TRUE

\* The stages whose item carries phase9_oos_fill_evidence, where the
\* diagnostics of phases 13 to 16 are, and parameter_stability.
Diagnosed(stage) == stage \in {"selection", "pbo", "passed"}

Item(i) ==
    [id |-> i, stage |-> Stage(i), diagnosed |-> Diagnosed(Stage(i)),
     status |-> IF Stage(i) = "passed" THEN "pre_holdout_candidate"
                ELSE "no_eligible_strategy"]

FailedItem(i) ==
    [id |-> i, stage |-> "none", diagnosed |-> FALSE, status |-> "failed"]

Evaluate ==
    /\ pc = "evaluate" /\ Len(items) < Len(Symbols)
    /\ LET i == <<Symbols[Len(items) + 1], today>> IN
         \/ items' = Append(items, Item(i)) /\ UNCHANGED trouble
         \/ items' = Append(items, FailedItem(i)) /\ trouble' = TRUE
    /\ UNCHANGED <<setting, outlook, today, runs, pc, place, answer, records, sent, report,
                   verdict, database>>

-----------------------------------------------------------------------------
(* The report, written once publication has raised nothing.                 *)

Failures == {k \in DOMAIN items : items[k].status = "failed"}

Storage ==
    IF ~setting.publishing
    THEN [enabled |-> FALSE, status |-> "disabled", count |-> 0, skipped |-> 0,
          records |-> << >>]
    ELSE [enabled |-> TRUE,
          status |-> IF records = << >> THEN "no_eligible_research" ELSE "stored",
          count |-> Len(records), skipped |-> Cardinality(Failures),
          records |-> records]

Evaluated == pc = "evaluate" /\ Len(items) = Len(Symbols)
Published == pc = "publish" /\ place > Len(items)

\* main() exits with 1 for a report with failed symbols, and the audit step
\* of the workflow is then skipped.
Write ==
    /\ (Evaluated /\ ~setting.publishing) \/ Published
    /\ report' = [status |-> IF Failures = {} THEN "success" ELSE "error",
                  items |-> items, storage |-> Storage]
    /\ IF Failures = {} THEN pc' = "audit" /\ UNCHANGED verdict
                        ELSE pc' = "over" /\ verdict' = "red"
    /\ UNCHANGED <<setting, outlook, today, runs, items, place, answer, records, sent,
                   trouble, database>>

Fault_Open ==
    /\ Evaluated
    /\ pc' = "publish"
    /\ UNCHANGED <<setting, outlook, today, runs, items, place, answer, records, sent,
                   report, verdict, trouble, database>>

Open ==
    /\ Evaluated /\ setting.publishing
    /\ pc' = "publish"
    /\ UNCHANGED <<setting, outlook, today, runs, items, place, answer, records, sent,
                   report, verdict, trouble, database>>

-----------------------------------------------------------------------------
(* The evidence of one item: a POST without a second try, then a GET.       *)

Fault_Skip ==
    /\ pc = "publish" /\ place <= Len(items) /\ items[place].status = "failed"
    /\ UNCHANGED vars

Skip ==
    /\ pc = "publish" /\ place <= Len(items) /\ items[place].status = "failed"
    /\ place' = place + 1
    /\ UNCHANGED <<setting, outlook, today, runs, pc, items, answer, records, sent, report,
                   verdict, trouble, database>>

Buildable(x) == x.diagnosed

\* build_research_evidence raises, or there is no database to talk to.
Refuse ==
    /\ pc = "publish" /\ place <= Len(items) /\ items[place].status # "failed"
    /\ ~(Buildable(items[place]) /\ setting.configured)
    /\ Abort
    /\ UNCHANGED <<setting, outlook, today, runs, items, place, records, sent, report,
                   trouble, database>>

Post ==
    /\ pc = "publish" /\ place <= Len(items) /\ items[place].status # "failed"
    /\ Buildable(items[place]) /\ setting.configured
    /\ sent' = Append(sent, items[place].id)
    /\ answer' = "pending"
    /\ pc' = "posting"
    /\ UNCHANGED <<setting, outlook, today, runs, items, place, records, report, verdict,
                   trouble, database>>

\* The server keeps a row for good.  A new one it may keep as it came, keep
\* altered or not keep; "replayed" is success for a row that was there.  An
\* acknowledgement does not say what is kept, and "bad" is every answer that
\* is not one.
Handle ==
    /\ pc = "posting" /\ answer = "pending"
    /\ LET i == items[place].id IN
         \/ rows[i] = "document" /\ answer' = "replayed" /\ UNCHANGED <<rows, trouble>>
         \/ /\ rows[i] = None
            /\ rows' = [rows EXCEPT ![i] = "document"]
            /\ answer' = "acknowledged" /\ UNCHANGED trouble
         \/ /\ rows' \in {rows} \cup {[rows EXCEPT ![i] = r] : r \in
                                         IF rows[i] = None THEN Rows ELSE {}}
            /\ answer' \in {"acknowledged", "bad"}
            /\ trouble' = TRUE
    /\ UNCHANGED <<setting, outlook, today, runs, pc, items, place, records, sent, report,
                   verdict, late>>

\* A POST nobody waits for any more arrives after all, or never.
HandleLate ==
    /\ \E i \in late :
         /\ late' = late \ {i}
         /\ rows' \in {rows, IF rows[i] = None
                             THEN [rows EXCEPT ![i] = "document"] ELSE rows}
    /\ UNCHANGED <<setting, outlook, today, runs, local>>

Abandoned == IF answer = "pending" THEN late \cup {items[place].id} ELSE late

Fault_GiveUp ==
    /\ pc \in {"posting", "reading"}
    /\ late' = Abandoned
    /\ trouble' = TRUE
    /\ pc' = "publish" /\ answer' = "none"
    /\ UNCHANGED <<setting, outlook, today, runs, items, place, records, sent, report,
                   verdict, rows>>

\* httpx raises after thirty seconds, and nothing tries again.
GiveUp ==
    /\ pc \in {"posting", "reading"}
    /\ late' = Abandoned
    /\ trouble' = TRUE
    /\ Abort
    /\ UNCHANGED <<setting, outlook, today, runs, items, place, records, sent, report, rows>>

Fault_Hear ==
    /\ pc = "posting" /\ answer \in {"acknowledged", "replayed", "bad"}
    /\ IF answer # "acknowledged" THEN Abort
       ELSE pc' = "reading" /\ answer' = "none" /\ UNCHANGED verdict
    /\ UNCHANGED <<setting, outlook, today, runs, items, place, records, sent, report,
                   trouble, database>>

Fault_HearIsEnough ==
    /\ pc = "posting" /\ answer \in {"acknowledged", "replayed", "bad"}
    /\ answer' = "none"
    /\ IF answer = "bad" THEN Abort /\ UNCHANGED <<records, place>>
       ELSE /\ records' = Append(records, items[place].id)
            /\ place' = place + 1
            /\ pc' = "publish" /\ UNCHANGED verdict
    /\ UNCHANGED <<setting, outlook, today, runs, items, sent, report, trouble, database>>

\* An acknowledgement leads to the GET, any other answer raises.
Hear ==
    /\ pc = "posting" /\ answer \in {"acknowledged", "replayed", "bad"}
    /\ IF answer = "bad" THEN Abort
       ELSE pc' = "reading" /\ answer' = "none" /\ UNCHANGED verdict
    /\ UNCHANGED <<setting, outlook, today, runs, items, place, records, sent, report,
                   trouble, database>>

Fault_ReadBack ==
    /\ pc = "reading"
    /\ IF rows[items[place].id] # None
       THEN /\ records' = Append(records, items[place].id)
            /\ place' = place + 1
            /\ pc' = "publish"
            /\ UNCHANGED <<answer, verdict>>
       ELSE Abort /\ UNCHANGED <<records, place>>
    /\ UNCHANGED <<setting, outlook, today, runs, items, sent, report, trouble, database>>

\* Only the very document may be under the id.
ReadBack ==
    /\ pc = "reading"
    /\ IF rows[items[place].id] = "document"
       THEN /\ records' = Append(records, items[place].id)
            /\ place' = place + 1
            /\ pc' = "publish"
            /\ UNCHANGED <<answer, verdict>>
       ELSE Abort /\ UNCHANGED <<records, place>>
    /\ UNCHANGED <<setting, outlook, today, runs, items, sent, report, trouble, database>>

-----------------------------------------------------------------------------
(* The audit of the report.                                                 *)

SafeReport == report.status = "success" /\ report.items # << >>

Complete ==
    LET s == report.storage IN
      /\ s.enabled /\ s.status = "stored" /\ s.skipped = 0
      /\ s.count = Len(report.items) /\ Len(s.records) = Len(report.items)
      /\ IsInjective(s.records)

Fault_Disabled == Complete

Disabled ==
    /\ ~report.storage.enabled /\ report.storage.status = "disabled"
    /\ report.storage.count = 0 /\ report.storage.records = << >>

\* phase18_storage_checks and the checks the workflow adds to it.
AuditPasses ==
    /\ SafeReport
    /\ IF setting.publishing THEN Complete ELSE Disabled
    /\ \A k \in DOMAIN report.items : report.items[k].diagnosed

Audit ==
    /\ pc = "audit"
    /\ pc' = "over"
    /\ verdict' = IF AuditPasses THEN "green" ELSE "red"
    /\ UNCHANGED <<setting, outlook, today, runs, items, place, answer, records, sent,
                   report, trouble, database>>

-----------------------------------------------------------------------------

\* A newer dispatch cancels the one in progress.
Cancel ==
    /\ pc \notin Ended
    /\ late' = Abandoned
    /\ trouble' = TRUE
    /\ Abort
    /\ UNCHANGED <<setting, outlook, today, runs, items, place, records, sent, report, rows>>

\* The end of the bars is fixed when a run starts.
NewBars ==
    /\ pc \in Ended /\ today < MaxDay
    /\ today' = today + 1
    /\ UNCHANGED <<setting, outlook, runs, local, database>>

Step == \/ Evaluate \/ Write \/ Open \/ Skip \/ Refuse \/ Post \/ Hear
        \/ ReadBack \/ GiveUp \/ Audit

Next == Begin \/ Step \/ Handle \/ HandleLate \/ Cancel \/ NewBars

\* Each statement of the script is executed, and a request times out; of the
\* server and of the bars nothing is expected.
Spec == Init /\ [][Next]_vars /\ WF_vars(Step)
-----------------------------------------------------------------------------
(* Properties.                                                              *)

Places == {"idle", "evaluate", "publish", "posting", "reading", "audit", "over"}

\* The state is well formed, and a workflow has a verdict exactly when it is
\* over; what is audited is a report of the run's own items.
TypeOK ==
    /\ setting \in Settings /\ outlook \in [Ids -> Outlooks] /\ today \in 1 .. MaxDay
    /\ pc \in Places /\ runs \in 0 .. MaxRuns /\ trouble \in BOOLEAN
    /\ \A k \in DOMAIN items :
         \/ items[k] = Item(items[k].id)
         \/ items[k] = FailedItem(items[k].id) /\ trouble
    /\ place \in 1 .. Len(Symbols) + 1
    /\ answer \in {"none", "pending", "acknowledged", "replayed", "bad"}
    /\ verdict \in {"open", "green", "red"}
    /\ (verdict # "open") <=> (pc = "over")
    /\ (verdict = "green" \/ pc = "audit") =>
         report = [status |-> "success", items |-> items, storage |-> Storage]
    /\ rows \in [Ids -> Rows \cup {None}] /\ late \subseteq Ids

\* A green workflow that was to publish has every symbol it evaluated in the
\* database, as the very document, whatever it and earlier runs went through;
\* one that was not to publish has posted nothing
\* (phase18_storage_checks, publish_research_evidence).
StoredWhenGreen ==
    verdict = "green" =>
      IF setting.publishing
      THEN \A k \in 1 .. Len(Symbols) :
             /\ items[k].status # "failed"
             /\ rows[items[k].id] = "document"
      ELSE sent = << >>

\* What a run counts as stored is what the database keeps, even when the run
\* fails later (verify_research_evidence_readback).
RecordsAreKept == \A i \in Range(records) : rows[i] = "document"

\* A run posts symbols that did not fail, once each and in their order; it
\* posts one only when all before it are confirmed, so that what is posted
\* and in doubt is the last thing posted (publish_research_evidence never
\* repeats a POST).
PostedOnceInOrder ==
    /\ Range(sent) \subseteq {x.id : x \in Range(items)}
    /\ \A k, l \in DOMAIN sent : k < l =>
         \E m, n \in DOMAIN items :
           m < n /\ sent[k] = items[m].id /\ sent[l] = items[n].id
    /\ \A n \in DOMAIN items : items[n].id \in Range(sent) =>
         /\ items[n].status # "failed"
         /\ \A m \in 1 .. n - 1 :
              items[m].status # "failed" => items[m].id \in Range(records)
    /\ \/ sent = records
       \/ pc # "publish" /\ \E i \in Ids : sent = Append(records, i)

\* A run to which nothing happens from outside ends green, whatever earlier
\* runs left in the database or on the way to it, unless a symbol has no
\* diagnostics (publish_research_evidence accepts a replay).
CleanRunIsGreen ==
    (/\ pc = "over" /\ ~trouble /\ (setting.publishing => setting.configured)
     /\ \A k \in DOMAIN items : items[k].diagnosed) => (verdict = "green")

\* Green means stored, and nothing else than trouble outside, or a symbol
\* without diagnostics, keeps a run from it; what a run did before it ended
\* red stands.
GreenIsStored ==
    StoredWhenGreen /\ RecordsAreKept /\ PostedOnceInOrder /\ CleanRunIsGreen

\* A run ends, however the server behaves: every request has a timeout.
RunEnds == (pc = "evaluate") ~> (pc = "over")

\* What the documents promise: a symbol without a trade is stored like any
\* other, so that a run to which nothing happens stores them all.
NoTradeIsStored ==
    (pc = "over" /\ ~trouble /\ setting.publishing /\ setting.configured) =>
      \A k \in DOMAIN items : rows[items[k].id] = "document"
=============================================================================
