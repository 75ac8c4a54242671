---------------------------- MODULE MCSelection ----------------------------
(***************************************************************************)
(* Small instances of what decides which strategy may trade: the nested    *)
(* walk-forward of the profiles v4 and v3, the candidate policies of the   *)
(* Manager, and the evidence of the market regime.  The subject of a       *)
(* behaviour is the instance that runs; the others rest.  Ratios of the    *)
(* walk-forward are in tenths.                                             *)
(***************************************************************************)
EXTENDS WalkForward, CandidatePolicy, RegimeEvidence

CONSTANTS AAPL, MSFT

VARIABLES subject, v3Start, v3Training, v3Windows, v3Verdict

v3Vars == <<v3Start, v3Training, v3Windows, v3Verdict>>
allVars == <<subject, vars, v3Vars, policyVars, historyVars>>
-----------------------------------------------------------------------------
(* Walk-forward: two candidates, and for each slice a backtest that        *)
(* separates the gates.                                                    *)

MCCandidates == {1, 2}

MCSelectionCriteria ==
  [min_trades |-> 2, min_annual |-> 1, min_sharpe |-> 8, min_pf |-> 12,
   drawdown_floor |-> -2, min_excess |-> 0, max_kills |-> 0]

MCStatistics ==
  [enabled |-> TRUE, time_series |-> TRUE, block |-> 2,
   min_observations |-> 4, min_trades |-> 2]

MCCriteria ==
  [train_bars |-> 3, test_bars |-> 2, step_bars |-> 2, embargo_bars |-> 1,
   allow_overlap |-> FALSE, unit |-> 10,
   min_windows |-> 2, min_window_trades |-> 1, min_train_eligible_rate |-> 50,
   min_eligible_selection_rate |-> 50, max_abstention_rate |-> 50,
   min_profitable_rate |-> 60, min_sharpe |-> 7, min_pf |-> 11,
   drawdown_floor |-> -2, max_kills |-> 0]

V3Criteria ==
  [MCCriteria EXCEPT !.step_bars = 1, !.embargo_bars = 0, !.allow_overlap = TRUE]

(* Training: every gate passed; safe but weak, with a better score; as     *)
(* weak but with too deep a drawdown; no trade at all.                     *)
Strong == [trades |-> 3, ret |-> 2, annual |-> 2, sharpe |-> 9, pf |-> 15,
           drawdown |-> -1, excess |-> 1, kills |-> 0, observations |-> 5,
           significant |-> TRUE, score |-> 3]
Weak == [Strong EXCEPT !.sharpe = 2, !.pf = None, !.significant = FALSE, !.score = 4]
Deep == [Weak EXCEPT !.drawdown = -3]
Idle == [Strong EXCEPT !.trades = 0, !.ret = 0, !.annual = 0, !.sharpe = None,
                       !.pf = None, !.observations = 1, !.significant = FALSE,
                       !.score = 0]

(* Testing: a gain, a gain without a losing trade, a loss, and no trade.   *)
Gain == [trades |-> 2, ret |-> 2, sharpe |-> 12, pf |-> 20, wins_only |-> FALSE,
         drawdown |-> -1, kills |-> 0]
Wins == [Gain EXCEPT !.pf = None, !.wins_only = TRUE]
Loss == [Gain EXCEPT !.ret = -1, !.sharpe = 1, !.pf = 4]
Crash == [Gain EXCEPT !.drawdown = -3, !.kills = 1]
Flat == [Gain EXCEPT !.trades = 0, !.ret = 0, !.sharpe = None, !.pf = None]

MCTrainRuns == {Strong, Weak, Deep}
MCTestRuns == {Gain, Loss}

V3 == INSTANCE WalkForward WITH
  Profile <- "v3", Bars <- 6, Criteria <- V3Criteria,
  TrainRuns <- {Strong, Weak, Deep, Idle}, TestRuns <- {Wins, Crash, Flat},
  testStart <- v3Start, training <- v3Training, windows <- v3Windows,
  verdict <- v3Verdict
-----------------------------------------------------------------------------
(* Candidate policies: one default strategy of each family, and a fast     *)
(* variant of two of them that only the expanded suite has.                *)

MCExpanded == {"sma-fast", "sma", "trend-fast", "trend", "mean", "breakout"}
MCBalanced == {"sma", "trend", "mean", "breakout"}
MCFamily ==
  [c \in MCExpanded |->
     CASE c \in {"sma-fast", "sma"}     -> "sma_crossover"
       [] c \in {"trend-fast", "trend"} -> "trend_following"
       [] c = "mean"                    -> "mean_reversion"
       [] c = "breakout"                -> "breakout"]
MCRunSymbols == <<AAPL, MSFT>>

(* Every gate passed, with a thousand trades; as good, but one trade only. *)
MCNewestRuns == {[Strong EXCEPT !.trades = 1000], [Strong EXCEPT !.trades = 1]}

Position(s, bucket) ==
  [symbol |-> s, bucket |-> bucket, passed |-> TRUE, classified |-> TRUE]
Sound ==
  {Position(AAPL, "core_dividend"), Position(AAPL, "value_rebound"),
   Position(AAPL, "exploratory"), Position(MSFT, "news_momentum")}
Unsound ==
  {Position(AAPL, "income"),
   [Position(MSFT, "news_momentum") EXCEPT !.passed = FALSE],
   [Position(AAPL, "core_dividend") EXCEPT !.classified = FALSE]}
Lanes == {{p, q} : p, q \in Sound \cup Unsound} \cup {{}, None}

Reported(research, legacy, expected) ==
  [switch |-> None, env |-> None,
   report |-> [research |-> research, legacy |-> legacy, expected |-> expected]]

Unreported ==
  [switch : {None, TRUE, FALSE},
   env : {None, [s \in {AAPL} |-> "news_momentum"], [s \in {MSFT} |-> "income"]},
   report : {None}]

(* Everything a Manager may have left, for one process.                    *)
AllBuckets ==
  {Reported(lane, {Position(AAPL, "core_dividend")}, expected) :
     lane \in Lanes, expected \in {{}, {AAPL, MSFT}}}
  \cup {Reported(None, None, {})} \cup Unreported
  \cup {[Reported({Position(AAPL, "income")}, None, {}) EXCEPT !.switch = FALSE]}

(* What changes from one hour to the next.                                 *)
SomeBuckets ==
  {Reported({p}, None, {}) : p \in Sound \cup Unsound}
  \cup {[switch |-> FALSE, env |-> None, report |-> None]}

SomeContexts ==
  {None, [tradeable |-> FALSE, allowed |-> {}]}
  \cup {[tradeable |-> TRUE, allowed |-> fs] :
          fs \in {{"trend_following"}, {"mean_reversion", "breakout"}, Families}}
AllContexts ==
  SomeContexts
  \cup {[tradeable |-> TRUE, allowed |-> fs] : fs \in {None, {}, {"future_magic"}}}

MCBuckets == AllBuckets \cup SomeBuckets
MCContexts == AllContexts
-----------------------------------------------------------------------------
(* Regime evidence: two folds of two moments, one symbol beside the one of *)
(* the report.                                                             *)

MCSymbols == {AAPL, MSFT}
MCFolds == <<[start |-> 1, end |-> 2], [start |-> 3, end |-> 4]>>

ASSUME V3Assumption == V3!WindowAssumption
-----------------------------------------------------------------------------
V3Rests == v3Start = 0 /\ v3Training = None /\ v3Windows = << >> /\ v3Verdict = None

PolicyRests ==
  /\ buckets = [switch |-> FALSE, env |-> None, report |-> None] /\ context = None
  /\ pc = "resting" /\ hooks = << >>
  /\ bucketOf = None /\ regime = None /\ observing = FALSE
  /\ items = << >> /\ store = {} /\ cycle = 1

HistoryRests ==
  /\ now = 0 /\ published = {} /\ current = {} /\ archive = {} /\ registered = {}
  /\ decision = << >> /\ trades = {} /\ file = {} /\ honest = "undecided"

(* What a subject has of what may happen.  One process meets everything    *)
(* that a Manager may have left; of two, the second meets one of a few     *)
(* changes.  A provider that does not alter its file publishes for both    *)
(* symbols.  One that does has an archive and a registry beside it, and    *)
(* hands its file over when there is something to compare it with: without *)
(* a trade, an archive or a registration phase 15 refuses any file.        *)
OneProcess == cycle' = 1
TwoProcesses == buckets' \in SomeBuckets /\ context' \in SomeContexts
OnlyJoined == archive' = {} /\ registered' = {} /\ honest' \in {"undecided", "none"}
Archived ==
  /\ \A o \in published' : o.symbol = Symbol
  /\ honest' # "undecided" => trades # {} /\ archive # {} /\ registered # {}

MCInit ==
  /\ Init   \* a walk-forward of v4 that has not begun
  /\ \/ subject = "v4" /\ V3Rests /\ PolicyRests /\ HistoryRests
     \/ subject = "v3" /\ V3!Init /\ PolicyRests /\ HistoryRests
     \/ /\ subject = "hour" /\ V3Rests /\ PolicyInit /\ HistoryRests
        /\ buckets \in AllBuckets
     \/ /\ subject = "hours" /\ V3Rests /\ PolicyInit /\ HistoryRests
        /\ buckets \in SomeBuckets /\ context \in SomeContexts
     \/ subject \in {"join", "archive"} /\ V3Rests /\ PolicyRests /\ HistoryInit

MCNext ==
  /\ UNCHANGED subject
  /\ \/ subject = "v4" /\ Next /\ UNCHANGED <<v3Vars, policyVars, historyVars>>
     \/ subject = "v3" /\ V3!Next /\ UNCHANGED <<vars, policyVars, historyVars>>
     \/ /\ subject = "hour" /\ PolicyNext /\ OneProcess
        /\ UNCHANGED <<vars, v3Vars, historyVars>>
     \/ /\ subject = "hours" /\ PolicyNext /\ TwoProcesses
        /\ UNCHANGED <<vars, v3Vars, historyVars>>
     \/ /\ subject = "join" /\ HistoryNext /\ OnlyJoined
        /\ UNCHANGED <<vars, v3Vars, policyVars>>
     \/ /\ subject = "archive" /\ HistoryNext /\ Archived
        /\ UNCHANGED <<vars, v3Vars, policyVars>>

MCSpec == MCInit /\ [][MCNext]_allVars
-----------------------------------------------------------------------------
(* WalkForward over the overlapping windows of v3, with tests that lose    *)
(* nothing and tests that trade nothing: a strategy is eligible only when  *)
(* every window was evaluated and the record of all of them earns it       *)
(* (multi_strategy_walk_forward.py, _summarize_windows).                   *)
OverlapIsEarned == V3!PromotionsAreEarned
=============================================================================
