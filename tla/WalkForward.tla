----------------------------- MODULE WalkForward -----------------------------
(***************************************************************************)
(* Nested walk-forward selection: app/multi_strategy_walk_forward.py, and   *)
(* app/nested_validation_v4.py for the inner selection of profile v4.       *)
(*                                                                         *)
(* The bars of a symbol are the numbers 0 .. Bars-1 in time order, a slice  *)
(* is an interval [from, to) of them.  What a candidate earns on a slice is *)
(* any record of TrainRuns or TestRuns: the engine is modelled elsewhere.   *)
(* Rates are percentages compared by cross-multiplication, and a median is  *)
(* kept doubled, so that every number is an integer.                        *)
(***************************************************************************)
EXTENDS MultiStrategy, Sequences, SequencesExt

CONSTANTS
    Candidates,         \* strategy identifiers, integers in their sort order
    Profile,            \* "v3" or "v4": who may be selected in training
    Bars,               \* length of the history
    Criteria,           \* WalkForwardStabilityCriteria
    TrainRuns,          \* what a candidate may show on a training slice
    TestRuns            \* what a candidate may show on a test slice

WindowAssumption ==
    /\ Bars \in Nat
    /\ Criteria.train_bars \in Nat \ {0}
    /\ Criteria.test_bars \in Nat \ {0}
    /\ Criteria.step_bars \in Nat \ {0}
    /\ Criteria.embargo_bars \in Nat
    /\ Criteria.allow_overlap \in BOOLEAN
    /\ ~Criteria.allow_overlap => Criteria.step_bars >= Criteria.test_bars
    /\ Candidates \subseteq Int /\ IsFiniteSet(Candidates) /\ None \notin Candidates
    /\ \A m \in TrainRuns : m.score \in Int /\ m.ret \in Int
    /\ None \notin TestRuns /\ \A m \in TestRuns : m.pf \in Int \cup {None}
    /\ Criteria.unit \in Int /\ Criteria.min_pf \in Int

ASSUME WindowAssumption

VARIABLES
    testStart,      \* first bar of the next test slice
    training,       \* what the candidates showed on the newest training slice
    windows,        \* the evaluated windows, oldest first
    verdict         \* the result, once every window is evaluated, or None

vars == <<testStart, training, windows, verdict>>

Fault_Init ==
    /\ testStart = Criteria.train_bars + Criteria.test_bars
    /\ training = None
    /\ windows = << >>
    /\ verdict = None

Init ==
    /\ testStart = Criteria.train_bars + Criteria.embargo_bars
    /\ training = None
    /\ windows = << >>
    /\ verdict = None

-----------------------------------------------------------------------------
(* One window: select on the training slice, run on the test slice.         *)

SelectInTraining(runs) ==
    IF Profile = "v3" THEN BestEligible(runs)
    ELSE FirstOf(runs, {c \in DOMAIN runs : InnerSafe(runs[c])})

Fault_Profitable(m) == m.ret >= 0

Profitable(m) == m.trades >= Criteria.min_window_trades /\ m.ret > 0

Fault_WindowEmbargo(runs, tests) ==
    LET chosen == SelectInTraining(runs)
        trade == chosen # None
    IN  [train    |-> [from |-> testStart - Criteria.train_bars,
                       to |-> testStart],
         test     |-> [from |-> testStart,
                       to |-> testStart + Criteria.test_bars],
         decision |-> IF trade THEN "TRADE" ELSE "NO_TRADE",
         selected |-> chosen,
         eligible |-> trade,
         deployed |-> trade,
         profitable |-> trade /\ Profitable(tests[chosen]),
         metrics  |-> IF trade THEN tests[chosen] ELSE None,
         tests    |-> tests]

\* A window without a selection holds cash: nothing deployed, no profit.
Window(runs, tests) ==
    LET chosen == SelectInTraining(runs)
        trade == chosen # None
        trainEnd == testStart - Criteria.embargo_bars
    IN  [train    |-> [from |-> trainEnd - Criteria.train_bars, to |-> trainEnd],
         test     |-> [from |-> testStart,
                       to |-> testStart + Criteria.test_bars],
         decision |-> IF trade THEN "TRADE" ELSE "NO_TRADE",
         selected |-> chosen,
         eligible |-> trade,
         deployed |-> trade,
         profitable |-> trade /\ Profitable(tests[chosen]),
         metrics  |-> IF trade THEN tests[chosen] ELSE None,
         tests    |-> tests]

Fault_Evaluate ==
    /\ testStart + Criteria.test_bars <= Bars
    /\ \E runs \in [Candidates -> TrainRuns], tests \in [Candidates -> TestRuns] :
           /\ training' = runs
           /\ windows' = Append(windows, Window(runs, tests))
    /\ testStart' = testStart + Criteria.embargo_bars
    /\ UNCHANGED verdict

Evaluate ==
    /\ testStart + Criteria.test_bars <= Bars
    /\ \E runs \in [Candidates -> TrainRuns], tests \in [Candidates -> TestRuns] :
           /\ training' = runs
           /\ windows' = Append(windows, Window(runs, tests))
    /\ testStart' = testStart + Criteria.step_bars
    /\ UNCHANGED verdict

-----------------------------------------------------------------------------
(* The summary of a sequence of windows.                                    *)

\* share of the windows, in percent: count / all >= percent / 100
RateAtLeast(count, all, percent) ==
    IF all = 0 THEN percent = 0 ELSE 100 * count >= percent * all
RateAtMost(count, all, percent) ==
    IF all = 0 THEN TRUE ELSE 100 * count <= percent * all

\* The k-th smallest of values, which are a function on a finite set.
Ranked(values, k) ==
    CHOOSE v \in {values[i] : i \in DOMAIN values} :
        /\ Cardinality({i \in DOMAIN values : values[i] < v}) < k
        /\ k <= Cardinality({i \in DOMAIN values : values[i] <= v})

\* The sum of the two middle values, which is twice the median.
Median2(values) ==
    LET n == Cardinality(DOMAIN values) IN
      IF n = 0 THEN None
      ELSE Ranked(values, (n + 1) \div 2) + Ranked(values, (n + 2) \div 2)

\* A run that only wins has no profit factor; it counts as ten.
ProfitFactor(m) ==
    IF m.pf # None THEN m.pf ELSE IF m.wins_only THEN 10 * Criteria.unit ELSE 0

\* The windows that hold a position, and what they show.
Deployed(ws) == {i \in DOMAIN ws : ws[i].deployed}
Sharpes(ws) ==
    [i \in {j \in Deployed(ws) : ws[j].metrics.sharpe # None} |-> ws[i].metrics.sharpe]
ProfitFactors(ws) == [i \in Deployed(ws) |-> ProfitFactor(ws[i].metrics)]
Kills(ws) ==
    FoldFunction(+, 0, [i \in Deployed(ws) |-> ws[i].metrics.kills])

StabilityGates(ws) ==
    LET n == Len(ws)
        elected == Cardinality({i \in DOMAIN ws : ws[i].eligible})
        traded == Cardinality({i \in DOMAIN ws : ws[i].decision = "TRADE"})
        profits == Cardinality({i \in DOMAIN ws : ws[i].profitable})
        held == Deployed(ws)
    IN  [window_count |-> n >= Criteria.min_windows,
         train_eligible_window_rate |->
             RateAtLeast(elected, n, Criteria.min_train_eligible_rate),
         eligible_selection_rate |->
             RateAtLeast(elected, n, Criteria.min_eligible_selection_rate),
         max_abstention_rate |->
             RateAtMost(n - traded, n, Criteria.max_abstention_rate),
         profitable_window_rate |->
             RateAtLeast(profits, n, Criteria.min_profitable_rate),
         median_sharpe_ratio |-> AtLeast(Median2(Sharpes(ws)), 2 * Criteria.min_sharpe),
         median_profit_factor |->
             AtLeast(Median2(ProfitFactors(ws)), 2 * Criteria.min_pf),
         worst_max_drawdown |->
             /\ held # {}
             /\ \A i \in held : ws[i].metrics.drawdown >= Criteria.drawdown_floor,
         kill_switch_safety |-> Kills(ws) <= Criteria.max_kills]

Passed(ws) == LET gates == StabilityGates(ws) IN \A g \in DOMAIN gates : gates[g]

Fault_LatestSelection(ws) ==
    IF Deployed(ws) # {} THEN ws[Max(Deployed(ws))].selected ELSE None

\* The window a promotion rests on is the newest one, and it must trade.
LatestSelection(ws) ==
    IF ws # << >> /\ Last(ws).decision = "TRADE" /\ Last(ws).eligible
    THEN Last(ws).selected ELSE None

\* The windows a candidate would have had, were it held throughout.
FixedWindows(c) ==
    [i \in DOMAIN windows |->
        [windows[i] EXCEPT !.decision = "TRADE", !.selected = c,
            !.eligible = TRUE, !.deployed = TRUE,
            !.profitable = Profitable(windows[i].tests[c]),
            !.metrics = windows[i].tests[c]]]

\* full is the diagnostic backtest of every candidate over the whole history.
Result(full) ==
    LET chosen == IF Passed(windows) THEN LatestSelection(windows) ELSE None
    IN  [status   |-> IF Len(windows) >= Criteria.min_windows
                      THEN "completed" ELSE "insufficient_history",
         eligible |-> {c \in Candidates : c = chosen},
         \* the diagnostics that travel with every candidate
         full_period |-> {c \in Candidates : Eligible(full[c])},
         fixed_oos   |-> {c \in Candidates : Passed(FixedWindows(c))},
         \* the bars the published result of the selection is run on
         trained_on  |-> IF chosen = None THEN None ELSE Last(windows).train]

Conclude ==
    /\ testStart + Criteria.test_bars > Bars
    /\ verdict = None
    /\ \E full \in [Candidates -> TrainRuns] : verdict' = Result(full)
    /\ UNCHANGED <<testStart, training, windows>>

Next == Evaluate \/ Conclude

Spec == Init /\ [][Next]_vars

-----------------------------------------------------------------------------
(* Properties.                                                              *)

Slices == [from : 0 .. Bars, to : 0 .. Bars]

\* The types of the variables; a window's metrics exist when it trades.
TypeOK ==
    /\ testStart \in Nat
    /\ training = None \/ training \in [Candidates -> TrainRuns]
    /\ \A i \in DOMAIN windows :
           /\ windows[i].train \in Slices /\ windows[i].test \in Slices
           /\ windows[i].selected \in Candidates \cup {None}
           /\ windows[i].metrics \in TestRuns \cup {None}
           /\ windows[i].deployed <=> windows[i].metrics # None
    /\ verdict = None \/ verdict.eligible \subseteq Candidates

\* No look-ahead (_window_slices): a training slice is complete, lies in the
\* history, and ends at least the embargo before the test slice of its own
\* and of every later window.
NoLookAhead ==
    \A i, j \in DOMAIN windows : i <= j =>
        /\ windows[i].train.from >= 0
        /\ windows[i].train.to - windows[i].train.from = Criteria.train_bars
        /\ windows[i].train.to + Criteria.embargo_bars <= windows[j].test.from

\* Unless overlap was asked for, no bar is evidence twice (_window_slices with
\* validate_window_independence): the test slices are pairwise disjoint and
\* inside the history.
TestedOnce ==
    /\ \A i \in DOMAIN windows : windows[i].test.to <= Bars
    /\ ~Criteria.allow_overlap =>
           \A i, j \in DOMAIN windows :
               i < j => windows[i].test.to <= windows[j].test.from

\* The windows are apart in time, in both directions (_window_slices).
WindowsApart == NoLookAhead /\ TestedOnce

\* When the result is drawn, every window that fits the history was evaluated
\* (_window_slices): the first starts right after the training bars, and the
\* bars left over are too few for another one.
EveryWindowUsed ==
    verdict # None =>
        {windows[i].test.from : i \in DOMAIN windows} =
            {b \in 0 .. Bars :
                /\ b + Criteria.test_bars <= Bars
                /\ b >= Criteria.train_bars + Criteria.embargo_bars
                /\ (b - Criteria.train_bars - Criteria.embargo_bars)
                       % Criteria.step_bars = 0}

\* A strategy is eligible for promotion only on the record of the windows
\* (_summarize_windows, run_walk_forward_multi_strategy_backtest): cash windows
\* count against it as abstentions and as unprofitable, half of the windows that
\* traded reached the profit factor, none broke the drawdown floor, and the
\* newest window traded this very strategy.
PromotionEarned ==
    verdict # None => \A c \in verdict.eligible :
        LET n == Len(windows)
            traded == {i \in 1 .. n : windows[i].metrics # None}
            gains == {i \in traded :
                /\ windows[i].metrics.ret > 0
                /\ windows[i].metrics.trades >= Criteria.min_window_trades}
            strong == {i \in traded :
                ProfitFactor(windows[i].metrics) >= Criteria.min_pf}
        IN  /\ n >= Criteria.min_windows
            /\ n \in traded /\ windows[n].selected = c
            /\ 100 * (n - Cardinality(traded)) <= Criteria.max_abstention_rate * n
            /\ 100 * Cardinality(gains) >= Criteria.min_profitable_rate * n
            /\ 2 * Cardinality(strong) >= Cardinality(traded)
            /\ \A i \in traded :
                   windows[i].metrics.drawdown >= Criteria.drawdown_floor
            /\ verdict.trained_on.to + Criteria.embargo_bars
                   = windows[n].test.from

\* A promotion rests on every window there is, and on a record that earns it.
PromotionsAreEarned == PromotionEarned /\ EveryWindowUsed

\* The inner policy of v4 is a relaxation that never prefers an unproven
\* candidate (_select_inner_training_candidate over the ranking of
\* run_multi_strategy_backtest): where the strict policy has a choice, and its
\* statistics are on, v4 makes the same one.
StrictChoiceKept ==
    Statistics.enabled /\ windows # << >> =>
        BestEligible(training) \in {None, Last(windows).selected}

\* Abstention is explained (training_evidence against
\* _select_inner_training_candidate): a v4 window holds cash exactly when the
\* diagnostics name a failed or missing inner gate for every candidate, and
\* never trades a candidate they turn down.
AbstentionExplained ==
    Profile = "v4" /\ windows # << >> =>
        LET chosen == Last(windows).selected
        IN  IF chosen = None
            THEN \A c \in Candidates : FailedGates(training[c]) # {}
            ELSE FailedGates(training[chosen]) = {}

\* The relaxed selection of v4 never displaces a candidate that is fully
\* proven, and abstains only when nothing is safe
\* (nested_validation_v4.py, _select_inner_training_candidate).
ChoiceExplained == StrictChoiceKept /\ AbstentionExplained
=============================================================================
