------------------------------ MODULE BatchRun ------------------------------
(***************************************************************************)
(* Backtests that are run and published on request: run-and-publish and    *)
(* run-and-publish-batch (app/main.py), the contract their requests have   *)
(* to meet (app/api_contracts.py), and scripts/run_hourly_backtest.py,     *)
(* which calls the same functions and turns the response into an exit      *)
(* code.  The API handles calls in threads, and the script is one more     *)
(* caller.                                                                 *)
(*                                                                         *)
(* Of a request matter its symbols and their spelling, the versions of     *)
(* their bars, the account, and whether the metadata name the fingerprint  *)
(* of all its bars, as those of the script do; the policies are fixed, so  *)
(* that the metrics of a symbol are told apart by its bars.  What          *)
(* publishing does is the promise of EvidenceStore, one store per run_id.  *)
(***************************************************************************)
EXTENDS Naturals, Sequences, SequencesExt, FiniteSets

CONSTANTS
    Callers,      \* API threads, and the script
    Requests,     \* the requests they may make
    Names,        \* symbols that match the pattern of the contract
    MaxCalls,     \* bound of the model: calls of each caller
    Absent

Spellings == {"upper", "lower"}

ASSUME BatchAssumption ==
    /\ \A q \in Requests :
         /\ q.symbols \in Seq([name : STRING, spelling : Spellings])
         /\ q.bars \in Seq([name : STRING, spelling : Spellings, version : Nat])
         /\ q.batch \in BOOLEAN /\ q.publish \in BOOLEAN
         /\ q.fingerprinted \in BOOLEAN
    /\ MaxCalls \in Nat

VARIABLES
    hasDatabase,   \* DATABASE_AGENT_URL is set, for good
    phase,         \* where the call of a caller is
    request,       \* what it asked for
    done,          \* the symbols done so far
    response,      \* what it was answered
    calls,         \* how often it has called
    stored         \* the database: what is under the run_ids

callVars == <<hasDatabase, phase, request, done, response, calls, stored>>

-----------------------------------------------------------------------------
(* The contract.  A key is a name in some spelling; normalising drops the   *)
(* spelling.                                                                *)

Normalized(keys) == [k \in DOMAIN keys |-> keys[k].name]

WellNamed(keys) ==
    /\ Range(Normalized(keys)) \subseteq Names
    /\ IsInjective(Normalized(keys))

Fault_Accepted(q) ==
    /\ q.symbols # << >>
    /\ WellNamed(q.symbols)
    /\ Range(Normalized(q.symbols)) = Range(Normalized(q.bars))

\* Both lists are normalised without a duplicate, and name the same symbols.
Accepted(q) ==
    /\ q.symbols # << >>
    /\ WellNamed(q.symbols) /\ WellNamed(q.bars)
    /\ Range(Normalized(q.symbols)) = Range(Normalized(q.bars))

\* The first list of bars under the name.
BarsOf(q, name) ==
    LET k == CHOOSE i \in DOMAIN q.bars :
               q.bars[i].name = name /\ \A j \in 1 .. i - 1 : q.bars[j].name # name
    IN  q.bars[k].version

-----------------------------------------------------------------------------
(* What a run is published as.                                              *)

Fault_SymbolRunId(q, name) == <<"symbol", name>>

\* The id of a symbol is made of its own bars and of policies: neither the
\* account nor the metadata are in it.
SymbolRunId(q, name) == <<"symbol", name, BarsOf(q, name)>>

Fault_RunId(c, name) ==
    LET q == request[c] IN
      IF q.runId # Absent THEN <<"given", q.runId>>
      ELSE IF q.batch THEN SymbolRunId(q, name) ELSE <<"fresh", c, calls[c]>>

\* A batch gives each symbol its own id; a single run has the id of the
\* request, or a new one.
RunId(c, name) ==
    LET q == request[c] IN
      IF q.batch THEN SymbolRunId(q, name)
      ELSE IF q.runId # Absent THEN <<"given", q.runId>>
      ELSE <<"fresh", c, calls[c]>>

\* A batch copies its metadata to every symbol: the fingerprint is that of all
\* its bars.
Dataset(q) ==
    IF q.fingerprinted
    THEN {<<q.bars[k].name, q.bars[k].version>> : k \in DOMAIN q.bars}
    ELSE Absent

Row(c, name) ==
    [id |-> RunId(c, name), name |-> name, version |-> BarsOf(request[c], name),
     account |-> request[c].account, dataset |-> Dataset(request[c])]

\* What the client takes for the row it sends, _existing_run_matches_payload: a
\* fingerprint is compared when the row has one.
Agrees(r, row) ==
    /\ r.id = row.id /\ r.name = row.name /\ r.version = row.version
    /\ r.account = row.account
    /\ row.dataset \in {Absent, r.dataset}

Holding(id) == {r \in stored : r.id = id}

Taken(row) == \E r \in Holding(row.id) : ~Agrees(r, row)

With(row) == IF Holding(row.id) = {} THEN stored \cup {row} ELSE stored

-----------------------------------------------------------------------------

NoRequest == [symbols |-> << >>, bars |-> << >>, batch |-> FALSE, publish |-> FALSE,
              runId |-> Absent, account |-> Absent, fingerprinted |-> FALSE]

CallsInit ==
    /\ hasDatabase \in BOOLEAN
    /\ phase = [c \in Callers |-> "idle"]
    /\ request = [c \in Callers |-> NoRequest]
    /\ done = [c \in Callers |-> << >>]
    /\ response = [c \in Callers |-> Absent]
    /\ calls = [c \in Callers |-> 0]
    /\ stored = {}

Goto(c, place) == phase' = [phase EXCEPT ![c] = place]

Failure(status) == [status |-> status, published |-> FALSE, items |-> << >>,
                    publishStatus |-> "none", count |-> 0]

Respond(c, r) == response' = [response EXCEPT ![c] = r] /\ Goto(c, "idle")

\* A request that breaks the contract, or a single run of several symbols, is
\* answered with 422 before anything is run.
Call(c) ==
    /\ phase[c] = "idle" /\ calls[c] < MaxCalls
    /\ calls' = [calls EXCEPT ![c] = @ + 1]
    /\ done' = [done EXCEPT ![c] = << >>]
    /\ \E q \in Requests :
         /\ request' = [request EXCEPT ![c] = q]
         /\ IF Accepted(q) /\ (q.batch \/ Len(q.symbols) = 1)
            THEN Goto(c, "running") /\ response' = [response EXCEPT ![c] = Absent]
            ELSE Respond(c, Failure("invalid"))
    /\ UNCHANGED <<hasDatabase, stored>>

Symbol(c) == request[c].symbols[Len(done[c]) + 1].name

More(c) == phase[c] = "running" /\ Len(done[c]) < Len(request[c].symbols)

Record(c, outcome) == done' = [done EXCEPT ![c] = Append(@, outcome)]

Outcome(c, status, published, publishStatus) ==
    [symbol |-> Symbol(c), id |-> RunId(c, Symbol(c)), status |-> status,
     published |-> published, publishStatus |-> publishStatus]

Fault_Raise(c) == Respond(c, Failure("error")) /\ UNCHANGED done

Fault_RaiseOnly(c) ==
    IF request[c].batch THEN UNCHANGED <<phase, response, done>>
    ELSE Respond(c, Failure("error")) /\ UNCHANGED done

\* An exception: the batch notes it and goes on, a single run ends with it.
Raise(c) ==
    IF request[c].batch
    THEN Record(c, Outcome(c, "failed", FALSE, "failed")) /\ UNCHANGED <<phase, response>>
    ELSE Respond(c, Failure("error")) /\ UNCHANGED done

\* The simulation of a symbol, or any step before publication, raises.  What
\* a batch does before that, outside of its try, is to cut the request of the
\* symbol out of one that is Accepted: it has bars, and nothing to raise.
SimulationFails(c) ==
    /\ More(c)
    /\ Raise(c)
    /\ UNCHANGED <<hasDatabase, request, calls, stored>>

\* Nothing to publish.
Simulated(c) ==
    /\ More(c) /\ ~request[c].publish
    /\ Record(c, Outcome(c, "success", FALSE, "skipped"))
    /\ UNCHANGED <<hasDatabase, phase, request, response, calls, stored>>

PublishConfirmed(c) ==
    /\ More(c) /\ request[c].publish /\ hasDatabase
    /\ LET row == Row(c, Symbol(c)) IN
         ~Taken(row) /\ stored' = With(row)
    /\ Record(c, Outcome(c, "success", TRUE, "success"))
    /\ UNCHANGED <<hasDatabase, phase, request, response, calls>>

\* A failed publication promises nothing about what is stored.
PublishFails(c) ==
    /\ More(c) /\ request[c].publish /\ hasDatabase
    /\ LET row == Row(c, Symbol(c)) IN
         stored' \in {stored, IF Taken(row) THEN stored ELSE With(row)}
    /\ Raise(c)
    /\ UNCHANGED <<hasDatabase, request, calls>>

Fault_PublishSkipped(c) ==
    /\ More(c) /\ request[c].publish /\ ~hasDatabase
    /\ Record(c, Outcome(c, "success", FALSE, "skipped"))
    /\ UNCHANGED <<hasDatabase, phase, request, response, calls, stored>>

\* Without a database the client skips: a batch raises, a single run reports
\* its result with an error.
PublishSkipped(c) ==
    /\ More(c) /\ request[c].publish /\ ~hasDatabase
    /\ IF request[c].batch THEN Raise(c)
       ELSE /\ Record(c, Outcome(c, "failed", FALSE, "skipped"))
            /\ UNCHANGED <<phase, response>>
    /\ UNCHANGED <<hasDatabase, request, calls, stored>>

-----------------------------------------------------------------------------

Having(list, status) == {k \in DOMAIN list : list[k].status = status}
PublishedOf(list) == {k \in DOMAIN list : list[k].published}

BatchStatus(q, list) ==
    IF Having(list, "failed") # {} /\ Having(list, "success") # {} THEN "partial_failure"
    ELSE IF Having(list, "failed") # {} THEN "failed"
    ELSE IF q.publish THEN "success" ELSE "skipped"

Summary(q, list) ==
    LET allSucceeded == Having(list, "failed") = {} IN
      [status |-> IF allSucceeded THEN "success" ELSE "error",
       published |-> /\ q.publish /\ allSucceeded
                     /\ Cardinality(PublishedOf(list)) = Len(list),
       items |-> list,
       publishStatus |-> IF q.batch THEN BatchStatus(q, list)
                         ELSE list[1].publishStatus,
       count |-> Cardinality(PublishedOf(list))]

Finish(c) ==
    /\ phase[c] = "running" /\ Len(done[c]) = Len(request[c].symbols)
    /\ Respond(c, Summary(request[c], done[c]))
    /\ UNCHANGED <<hasDatabase, request, done, calls, stored>>

Fault_ExitCode(q, r) == IF r.status \in {"invalid", "error"} /\ r.count = 0 THEN 1 ELSE 0

\* Of the script: a batch has to succeed as a whole, a single run only has to
\* be published when it should be.
ExitCode(q, r) ==
    IF r.items = << >> THEN 1
    ELSE IF Len(q.symbols) = 1
    THEN IF q.publish /\ ~r.published THEN 1 ELSE 0
    ELSE IF r.status = "success" THEN 0 ELSE 1

Progress(c) == \/ SimulationFails(c) \/ Simulated(c) \/ PublishConfirmed(c)
               \/ PublishFails(c) \/ PublishSkipped(c) \/ Finish(c)

CallsNext == \E c \in Callers : Call(c) \/ Progress(c)

\* Simulation and publication return or raise (see Engine and Publication).
CallsSpec ==
    /\ CallsInit /\ [][CallsNext]_callVars /\ \A c \in Callers : WF_callVars(Progress(c))
-----------------------------------------------------------------------------
(* Properties.                                                              *)

\* The script exits with 0, and a batch says that all succeeded, only when
\* every symbol asked for has its own evidence stored under its run_id, or
\* nothing was to be published; other callers, earlier failures and ids in
\* use change nothing about that (main(), backtest_run_and_publish_batch).
StoredOnExitZero ==
    \A c \in Callers :
      (response[c] # Absent /\ request[c].publish /\ ExitCode(request[c], response[c]) = 0) =>
        \A k \in DOMAIN request[c].symbols :
          LET name == request[c].symbols[k].name IN
            /\ \E r \in stored : Agrees(r, Row(c, name))
            /\ response[c].items[k].published

\* A batch answers for every symbol, in the order asked for: a failure of one
\* hides neither the others nor itself (docs/API_CONTRACT.md:172).
EverySymbolAnswered ==
    \A c \in Callers :
      (response[c] # Absent /\ request[c].batch /\ response[c].status # "invalid") =>
        LET r == response[c] IN
          /\ [k \in DOMAIN r.items |-> r.items[k].symbol] = Normalized(request[c].symbols)
          /\ (r.publishStatus = "partial_failure") <=>
               (\E k, l \in DOMAIN r.items :
                  r.items[k].status = "success" /\ r.items[l].status = "failed")
          /\ r.count = Cardinality({row \in stored : \E k \in DOMAIN r.items :
                           r.items[k].published /\ r.items[k].id = row.id})

\* What the caller is told of its symbols, and the exit code it takes from
\* that, agree with what is stored.
ExitZeroIsStored == StoredOnExitZero /\ EverySymbolAnswered

\* What stands under the id of a batch's symbol is evidence of this symbol on
\* these bars, whatever other symbols the batch has, whatever run_id it came
\* with and whoever else publishes (_single_symbol_batch_request,
\* docs/API_CONTRACT.md:166-172).  It may still refuse what the batch computed:
\* for the account, or for a fingerprint of the other symbols' bars, neither of
\* which is in the id (run_identity.py:12-18, database_client.py:187-218); one
\* that names no fingerprint is refused for its account alone.
BatchIdsAreOwn ==
    \A c \in Callers :
      (phase[c] = "running" /\ request[c].batch) =>
        \A k \in DOMAIN request[c].symbols :
          LET row == Row(c, request[c].symbols[k].name) IN
            /\ \A r \in Holding(row.id) : r.name = row.name /\ r.version = row.version
            /\ (Taken(row) /\ ~request[c].fingerprinted) =>
                 \E r \in Holding(row.id) : r.account # row.account

\* Every list of bars that an accepted request brings is run, and only it
\* (_normalize_bars, _validate_dataset).
NoBarsUnused ==
    \A c \in Callers :
      phase[c] = "running" =>
        \A k \in DOMAIN request[c].bars :
          BarsOf(request[c], request[c].bars[k].name) = request[c].bars[k].version

\* No symbol of a request takes the place of another: neither its id in the
\* database nor its bars.
SymbolsStayApart == BatchIdsAreOwn /\ NoBarsUnused

\* Every call is answered.
CallEnds == \A c \in Callers : (phase[c] = "running") ~> (phase[c] = "idle")
=============================================================================
