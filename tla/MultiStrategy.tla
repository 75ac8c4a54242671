---------------------------- MODULE MultiStrategy ----------------------------
(***************************************************************************)
(* Choosing a strategy from one slice of bars: app/multi_strategy.py and    *)
(* the gates of app/statistical_validation.py.                             *)
(*                                                                         *)
(* A backtest of a candidate over a slice is a record of the metrics the    *)
(* gates read, in whole units; a ratio the code reports as null is None.    *)
(* The statistics behind the significance gates are floating point: the     *)
(* record only says whether they were met ("significant").                  *)
(***************************************************************************)
EXTENDS Integers, FiniteSets

CONSTANTS
    None,               \* a metric, or a choice, that does not exist
    Selection,          \* StrategySelectionCriteria
    Statistics          \* StatisticalValidationCriteria

\* Gates under one roof; their names differ.
Joined(gates, more) ==
    [g \in DOMAIN gates \cup DOMAIN more |->
        IF g \in DOMAIN gates THEN gates[g] ELSE more[g]]

\* Gates that compare a metric which may be null: null never passes.
AtLeast(value, floor) == value # None /\ value >= floor

PerformanceGates(m) ==
    [trade_count        |-> m.trades >= Selection.min_trades,
     annualized_return  |-> AtLeast(m.annual, Selection.min_annual),
     sharpe_ratio       |-> AtLeast(m.sharpe, Selection.min_sharpe),
     profit_factor      |-> AtLeast(m.pf, Selection.min_pf),
     max_drawdown       |-> m.drawdown >= Selection.drawdown_floor,
     excess_return      |-> AtLeast(m.excess, Selection.min_excess),
     kill_switch_safety |-> m.kills <= Selection.max_kills]

(***************************************************************************)
(* run_statistical_validation.  Switched off it passes and names no other   *)
(* gate; too few returns for a bootstrap fail all of significance; and a    *)
(* bootstrap that ignores the order of the returns has no authority.        *)
(***************************************************************************)
DisabledGates == [statistical_enabled |-> TRUE]

Testable(m) ==
    /\ m.observations >= 2
    /\ Statistics.time_series => m.observations >= 2 * Statistics.block

SampleGates(m) ==
    [statistical_observation_count |->
         m.observations >= Statistics.min_observations,
     statistical_trade_count |-> m.trades >= Statistics.min_trades,
     statistical_time_series_bootstrap_authority |-> Statistics.time_series]

SignificanceGates(met) ==
    [statistical_significance |-> met,
     statistical_bootstrap_lower_bound |-> met /\ Statistics.time_series]

StatisticalGates(m) ==
    IF ~Statistics.enabled THEN DisabledGates
    ELSE Joined(SampleGates(m), SignificanceGates(Testable(m) /\ m.significant))

Gates(m) == Joined(PerformanceGates(m), StatisticalGates(m))

Eligible(m) == \A g \in DOMAIN Gates(m) : Gates(m)[g]

(***************************************************************************)
(* The gates a candidate must pass in training under profile v4: that it    *)
(* traded enough, was observed long enough, and did no harm.                *)
(***************************************************************************)
Fault_InnerSelectionGates ==
    {"max_drawdown", "kill_switch_safety", "statistical_observation_count"}

InnerSelectionGates ==
    {"trade_count", "max_drawdown", "kill_switch_safety",
     "statistical_observation_count"}

\* Why v4 turns a candidate down: a gate it needs is missing, or not passed.
MissingGates(m) == InnerSelectionGates \ DOMAIN Gates(m)
FailedGates(m) ==
    MissingGates(m) \cup
        {g \in InnerSelectionGates \cap DOMAIN Gates(m) : ~Gates(m)[g]}

Fault_InnerSafe(m) ==
    \A g \in InnerSelectionGates \ {"max_drawdown"} :
        g \in DOMAIN Gates(m) /\ Gates(m)[g]

InnerSafe(m) ==
    \A g \in InnerSelectionGates : g \in DOMAIN Gates(m) /\ Gates(m)[g]

Fault_Outranks(runs, c, d) ==
    LET x == runs[c]
        y == runs[d]
    IN  \/ x.score > y.score
        \/ x.score = y.score /\ x.ret > y.ret
        \/ x.score = y.score /\ x.ret = y.ret /\ c < d

(***************************************************************************)
(* The ranking: eligible candidates first, then score, then return, then    *)
(* the identifier. Identifiers are unique, so the order is total.           *)
(***************************************************************************)
Outranks(runs, c, d) ==
    LET x == runs[c]
        y == runs[d]
    IN  \/ Eligible(x) /\ ~Eligible(y)
        \/ /\ Eligible(x) <=> Eligible(y)
           /\ \/ x.score > y.score
              \/ x.score = y.score /\ x.ret > y.ret
              \/ x.score = y.score /\ x.ret = y.ret /\ c < d

\* The first of the ranking among the candidates that are Allowed.
FirstOf(runs, Allowed) ==
    IF Allowed = {} THEN None
    ELSE CHOOSE c \in Allowed : \A d \in Allowed \ {c} : Outranks(runs, c, d)

BestEligible(runs) ==
    FirstOf(runs, {c \in DOMAIN runs : Eligible(runs[c])})

==============================================================================
