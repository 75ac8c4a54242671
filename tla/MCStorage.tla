----------------------------- MODULE MCStorage -----------------------------
(***************************************************************************)
(* Small instances of the two workflows that store what they computed and  *)
(* say with their exit code whether they did.  They share nothing.  The    *)
(* subject of a behaviour is one of                                        *)
(*   calls      the script and an API thread publish backtests, the        *)
(*              thread on sound requests with the newer bars, or the       *)
(*              script alone tries to without a database                   *)
(*   research   the sealed research of two symbols, published over two     *)
(*              days, or with every gate failing and not published         *)
(***************************************************************************)
EXTENDS BatchRun, ResearchRun

CONSTANTS script, api

VARIABLE subject

-----------------------------------------------------------------------------
(* Requests for one or two symbols in two spellings, with bars of two      *)
(* versions, that break the contract in every way it names, share ids and  *)
(* share symbols.                                                          *)

Key(name, spelling) == [name |-> name, spelling |-> spelling]
Bars(name, spelling, version) ==
    [name |-> name, spelling |-> spelling, version |-> version]

Ask(symbols, bars, batch, publish, runId) ==
    [symbols |-> symbols, bars |-> bars, batch |-> batch, publish |-> publish,
     runId |-> runId, account |-> "1", fingerprinted |-> TRUE]

Apple == <<Key("AAPL", "upper")>>
Both == <<Key("MSFT", "lower"), Key("AAPL", "upper")>>
AppleBars(v) == <<Bars("AAPL", "upper", v)>>
BothBars(v) == <<Bars("AAPL", "lower", v), Bars("MSFT", "upper", 1)>>
Twice == <<Bars("AAPL", "lower", 1), Bars("AAPL", "upper", 2)>>

Broken == {
    Ask(<<Key("AAPL", "lower"), Key("AAPL", "upper")>>, AppleBars(1), TRUE, TRUE, Absent),
    Ask(Apple, BothBars(1), FALSE, TRUE, Absent),
    Ask(Both, BothBars(1), FALSE, TRUE, Absent),
    Ask(<<Key("?", "upper")>>, <<Bars("?", "upper", 1)>>, TRUE, TRUE, Absent),
    Ask(Apple, Twice, TRUE, TRUE, Absent) }

Sound ==
    {Ask(Apple, AppleBars(v), batch, TRUE, id) :
        v \in 1 .. 2, batch \in BOOLEAN, id \in {"run-1", Absent}}
    \cup {Ask(Both, BothBars(v), TRUE, TRUE, id) : v \in 1 .. 2, id \in {"run-1", Absent}}

FromScript == Broken \cup Sound \cup {Ask(Both, BothBars(1), TRUE, FALSE, Absent),
                                      Ask(Apple, AppleBars(1), FALSE, FALSE, Absent)}

(* The thread names no fingerprint, and comes with another account when it *)
(* chooses the run_id.                                                     *)
Newer == {q \in Sound : \E k \in DOMAIN q.bars : q.bars[k].version = 2}
FromApi == {[q EXCEPT !.fingerprinted = FALSE,
                      !.account = IF q.runId = Absent THEN "1" ELSE "2"] : q \in Newer}

MCRequests == FromScript \cup FromApi

MCCallers == {script, api}
MCNames == {"AAPL", "MSFT"}

(* Two symbols are enough for a partial write, a failure before and after  *)
(* a stored symbol and a mixture of stages; two days for a rerun on newer  *)
(* bars.                                                                   *)
MCSymbols == <<"AAPL", "MSFT">>
MCOutlooks == SUBSET Range(AllGates)

Published7 == [strict |-> TRUE, publishing |-> TRUE, configured |-> TRUE]
Sealed5 == [strict |-> FALSE, publishing |-> FALSE, configured |-> TRUE]

OutlooksOf(s, i) ==
  IF s = Published7 THEN {{}, {"pbo", "cost"}, {"metadata"}}
  ELSE IF i[2] = 1 THEN MCOutlooks ELSE {{}}
-----------------------------------------------------------------------------
MCInit ==
  /\ CallsInit
  /\ \/ subject = "calls" /\ setting = Sealed5 /\ outlook = [i \in Ids |-> {}]
     \/ /\ subject = "research" /\ ~hasDatabase
        /\ setting \in {Published7, Sealed5}
        /\ outlook \in [Ids -> MCOutlooks]
        /\ \A i \in Ids : outlook[i] \in OutlooksOf(setting, i)
  /\ Init

MCNext ==
  /\ UNCHANGED subject
  /\ \/ /\ subject = "calls" /\ CallsNext /\ UNCHANGED vars
        /\ request'[script] \in {NoRequest} \cup FromScript
        /\ request'[api] \in {NoRequest} \cup IF hasDatabase THEN FromApi ELSE {}
     \/ /\ subject = "research" /\ Next /\ UNCHANGED callVars
        /\ (setting = Sealed5 => today' = 1)

(* The fairness of BatchRun and of ResearchRun, of the script without a    *)
(* database and of the published research: what they share, actions and    *)
(* all, with the others.                                                   *)
Alone == subject = "calls" /\ ~hasDatabase
Sharing == subject = "research" /\ setting = Published7

MCSpec ==
  /\ MCInit /\ [][MCNext]_<<subject, callVars, vars>>
  /\ WF_callVars(Alone /\ Progress(script))
  /\ WF_vars(Sharing /\ Step)
-----------------------------------------------------------------------------
(* BatchRun, ResearchRun: every call is answered, and a run ends, however  *)
(* the server behaves.                                                     *)
CallsAndRunsEnd == (Alone => CallEnds) /\ (Sharing => RunEnds)
=============================================================================
