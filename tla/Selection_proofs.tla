-------------------------- MODULE Selection_proofs --------------------------
(***************************************************************************)
(* What decides which strategy may trade, for all values of the constants. *)
(*                                                                         *)
(* The walk-forward: for any history, window lengths, step, embargo,       *)
(* candidates and outcomes no window looks ahead, no bar is tested twice,  *)
(* and choices and promotions are explained by their gates.  Disjointness  *)
(* of all pairs of test slices would be a product of the step and the      *)
(* distance of two windows; the inductive invariant avoids it: the windows *)
(* are ordered, and the next one starts after all of them.                 *)
(*                                                                         *)
(* The candidate policies: for any suite, symbols, Manager and number of   *)
(* processes, what is eligible is allowed by every policy in force.        *)
(*                                                                         *)
(* The market regime: for any provider, archive and folds, the label of a  *)
(* trade is what was known at its entry.                                   *)
(***************************************************************************)
EXTENDS WalkForward, CandidatePolicy, RegimeEvidence,
        SequenceTheorems, FiniteSetTheorems, WellFoundedInduction, TLAPS

(***************************************************************************)
(* The walk-forward.                                                       *)
(***************************************************************************)

(* The windows are a sequence, of whatever records they are.               *)
AreSequence == \E S : windows \in Seq(S)

(* Every slice has its length, and the training slice ends an embargo      *)
(* before its test slice.                                                  *)
SlicesFit ==
  /\ testStart \in Nat
  /\ testStart >= Criteria.train_bars + Criteria.embargo_bars
  /\ \A i \in DOMAIN windows :
       LET w == windows[i] IN
       /\ w.test.from \in Nat
       /\ w.test.from >= Criteria.train_bars + Criteria.embargo_bars
       /\ w.test.to = w.test.from + Criteria.test_bars
       /\ w.test.to <= Bars
       /\ w.train.to = w.test.from - Criteria.embargo_bars
       /\ w.train.from = w.train.to - Criteria.train_bars

(* The window to come starts behind every window so far.                   *)
NextIsBehind ==
  \A i \in DOMAIN windows :
    /\ windows[i].test.from <= testStart
    /\ ~Criteria.allow_overlap => windows[i].test.to <= testStart

(* Test slices start in the order of the windows.                          *)
InOrder ==
  \A i, j \in DOMAIN windows : i <= j => windows[i].test.from <= windows[j].test.from

IInv == AreSequence /\ SlicesFit /\ NextIsBehind /\ InOrder /\ TestedOnce

LEMMA InitIInv == Init => IInv
<1> SUFFICES ASSUME Init PROVE IInv
  OBVIOUS
<1>1. windows = << >> /\ DOMAIN windows = {}
  BY DEF Init
<1>2. windows \in Seq({})
  BY <1>1
<1>3. AreSequence
  BY <1>2 DEF AreSequence
<1>4. testStart = Criteria.train_bars + Criteria.embargo_bars /\ testStart \in Nat
  BY WindowAssumption DEF Init, WindowAssumption
<1> QED
  BY <1>1, <1>3, <1>4, WindowAssumption
  DEF IInv, SlicesFit, NextIsBehind, InOrder, TestedOnce, WindowAssumption

(* Where the slices of an evaluated window lie.                            *)
LEMMA WindowSlices ==
  ASSUME NEW runs, NEW tests
  PROVE  /\ Window(runs, tests).test.from = testStart
         /\ Window(runs, tests).test.to = testStart + Criteria.test_bars
         /\ Window(runs, tests).train.to = testStart - Criteria.embargo_bars
         /\ Window(runs, tests).train.from =
              (testStart - Criteria.embargo_bars) - Criteria.train_bars
BY DEF Window

LEMMA EvaluateIInv == IInv /\ Evaluate => IInv'
<1> SUFFICES ASSUME IInv, Evaluate PROVE IInv'
  OBVIOUS
<1>1. PICK runs \in [Candidates -> TrainRuns], tests \in [Candidates -> TestRuns] :
         windows' = Append(windows, Window(runs, tests))
  BY DEF Evaluate
<1>2. /\ testStart' = testStart + Criteria.step_bars
      /\ testStart + Criteria.test_bars <= Bars
  BY DEF Evaluate
<1> DEFINE w == Window(runs, tests)
<1>3. PICK S : windows \in Seq(S)
  BY DEF IInv, AreSequence
<1>4. windows \in Seq(S \cup {w})
  BY <1>3
<1>5. /\ windows' \in Seq(S \cup {w})
      /\ DOMAIN windows' = 1 .. (Len(windows) + 1)
      /\ DOMAIN windows = 1 .. Len(windows)
      /\ Len(windows) \in Nat
      /\ \A i \in DOMAIN windows : windows'[i] = windows[i]
      /\ windows'[Len(windows) + 1] = w
  BY <1>1, <1>4
<1>6. /\ w.test.from = testStart
      /\ w.test.to = testStart + Criteria.test_bars
      /\ w.train.to = testStart - Criteria.embargo_bars
      /\ w.train.from = (testStart - Criteria.embargo_bars) - Criteria.train_bars
  BY WindowSlices
<1> HIDE DEF w
<1>7. AreSequence'
  BY <1>5 DEF AreSequence
<1>8. \A i \in DOMAIN windows' : i \in DOMAIN windows \/ i = Len(windows) + 1
  BY <1>5
<1>9. testStart \in Nat /\ testStart' \in Nat /\ testStart' > testStart
  BY <1>2, WindowAssumption DEF IInv, SlicesFit, WindowAssumption
<1>10. SlicesFit'
  <2>1. testStart' >= Criteria.train_bars + Criteria.embargo_bars
    BY <1>9, WindowAssumption DEF IInv, SlicesFit, WindowAssumption
  <2>2. ASSUME NEW i \in DOMAIN windows'
        PROVE  /\ windows'[i].test.from \in Nat
               /\ windows'[i].test.from >= Criteria.train_bars + Criteria.embargo_bars
               /\ windows'[i].test.to = windows'[i].test.from + Criteria.test_bars
               /\ windows'[i].test.to <= Bars
               /\ windows'[i].train.to = windows'[i].test.from - Criteria.embargo_bars
               /\ windows'[i].train.from = windows'[i].train.to - Criteria.train_bars
    <3>1. CASE i \in DOMAIN windows
      BY <3>1, <1>5 DEF IInv, SlicesFit
    <3>2. CASE i = Len(windows) + 1
      BY <3>2, <1>2, <1>5, <1>6, <1>9 DEF IInv, SlicesFit
    <3> QED
      BY <3>1, <3>2, <1>8
  <2> QED
    BY <1>9, <2>1, <2>2 DEF SlicesFit
<1>11. ~Criteria.allow_overlap => testStart + Criteria.test_bars <= testStart'
  BY <1>2, <1>9, WindowAssumption DEF WindowAssumption
<1>12. NextIsBehind'
  <2> SUFFICES ASSUME NEW i \in DOMAIN windows'
               PROVE  /\ windows'[i].test.from <= testStart'
                      /\ ~Criteria.allow_overlap => windows'[i].test.to <= testStart'
    BY DEF NextIsBehind
  <2>1. CASE i = Len(windows) + 1
    BY <2>1, <1>5, <1>6, <1>9, <1>11
  <2>2. CASE i \in DOMAIN windows
    <3>1. /\ windows[i].test.from \in Nat
          /\ windows[i].test.to = windows[i].test.from + Criteria.test_bars
      BY <2>2 DEF IInv, SlicesFit
    <3>2. /\ windows[i].test.from <= testStart
          /\ ~Criteria.allow_overlap => windows[i].test.to <= testStart
      BY <2>2 DEF IInv, NextIsBehind
    <3> QED
      BY <2>2, <3>1, <3>2, <1>5, <1>9, WindowAssumption DEF WindowAssumption
  <2> QED
    BY <2>1, <2>2, <1>8
<1>13. InOrder'
  <2> SUFFICES ASSUME NEW i \in DOMAIN windows', NEW j \in DOMAIN windows', i <= j
               PROVE  windows'[i].test.from <= windows'[j].test.from
    BY DEF InOrder
  <2>1. CASE j \in DOMAIN windows
    BY <2>1, <1>5 DEF IInv, InOrder
  <2>2. CASE j = Len(windows) + 1 /\ i \in DOMAIN windows
    BY <2>2, <1>5, <1>6 DEF IInv, NextIsBehind
  <2>3. CASE j = Len(windows) + 1 /\ i = Len(windows) + 1
    BY <2>3, <1>5, <1>6, <1>9
  <2> QED
    BY <2>1, <2>2, <2>3, <1>8
<1>14. TestedOnce'
  <2>1. \A i \in DOMAIN windows' : windows'[i].test.to <= Bars
    BY <1>10 DEF SlicesFit
  <2>2. ASSUME ~Criteria.allow_overlap, NEW i \in DOMAIN windows', NEW j \in DOMAIN windows', i < j
        PROVE  windows'[i].test.to <= windows'[j].test.from
    <3>1. i \in DOMAIN windows
      BY <2>2, <1>5
    <3>2. CASE j \in DOMAIN windows
      BY <2>2, <3>1, <3>2, <1>5 DEF IInv, TestedOnce
    <3>3. CASE j = Len(windows) + 1
      BY <2>2, <3>1, <3>3, <1>5, <1>6 DEF IInv, NextIsBehind
    <3> QED
      BY <3>2, <3>3, <1>8
  <2> QED
    BY <2>1, <2>2 DEF TestedOnce
<1> QED
  BY <1>7, <1>10, <1>12, <1>13, <1>14 DEF IInv

LEMMA StepIInv == IInv /\ [Next]_vars => IInv'
<1> SUFFICES ASSUME IInv, [Next]_vars PROVE IInv'
  OBVIOUS
<1>1. CASE Evaluate
  BY <1>1, EvaluateIInv
<1>2. CASE UNCHANGED <<testStart, windows>>
  BY <1>2 DEF IInv, AreSequence, SlicesFit, NextIsBehind, InOrder, TestedOnce
<1> QED
  BY <1>1, <1>2 DEF Next, Conclude, vars

LEMMA Inductive == Spec => []IInv
BY InitIInv, StepIInv, PTL DEF Spec

(* Unless overlap was asked for, the test slices of _window_slices are     *)
(* pairwise disjoint, whatever their number: no bar is evidence twice.     *)
THEOREM SpecTestedOnce == Spec => []TestedOnce
<1>1. IInv => TestedOnce
  BY DEF IInv
<1> QED
  BY <1>1, Inductive, PTL

(* The training slice of a window of _window_slices ends at least an       *)
(* embargo before the test slice of that window and of every later one.    *)
THEOREM SpecNoLookAhead == Spec => []NoLookAhead
<1>1. IInv => NoLookAhead
  <2> SUFFICES ASSUME IInv, NEW i \in DOMAIN windows, NEW j \in DOMAIN windows, i <= j
               PROVE  /\ windows[i].train.from >= 0
                      /\ windows[i].train.to - windows[i].train.from = Criteria.train_bars
                      /\ windows[i].train.to + Criteria.embargo_bars <= windows[j].test.from
    BY DEF NoLookAhead
  <2>1. /\ windows[i].test.from \in Nat
        /\ windows[i].test.from >= Criteria.train_bars + Criteria.embargo_bars
        /\ windows[i].train.to = windows[i].test.from - Criteria.embargo_bars
        /\ windows[i].train.from = windows[i].train.to - Criteria.train_bars
    BY DEF IInv, SlicesFit
  <2>2. windows[j].test.from \in Nat /\ windows[i].test.from <= windows[j].test.from
    BY DEF IInv, SlicesFit, InOrder
  <2> QED
    BY <2>1, <2>2, WindowAssumption DEF WindowAssumption
<1> QED
  BY <1>1, Inductive, PTL

(* The windows of _window_slices are apart in time, in both directions.    *)
THEOREM SpecWindowsApart == Spec => []WindowsApart
BY SpecNoLookAhead, SpecTestedOnce, PTL DEF WindowsApart

-----------------------------------------------------------------------------
(* The choice in training.  The ranking is a strict total order, so among  *)
(* finitely many candidates there is a first one: otherwise the sets of    *)
(* candidates ahead of each would descend for ever.                        *)

Runs == [Candidates -> TrainRuns]

LEMMA RankingIsTotal ==
  ASSUME NEW runs \in Runs
  PROVE  \A c, d \in Candidates : c # d => Outranks(runs, c, d) \/ Outranks(runs, d, c)
<1> SUFFICES ASSUME NEW c \in Candidates, NEW d \in Candidates, c # d
             PROVE  Outranks(runs, c, d) \/ Outranks(runs, d, c)
  OBVIOUS
<1>1. /\ c \in Int /\ d \in Int
      /\ runs[c].score \in Int /\ runs[c].ret \in Int
      /\ runs[d].score \in Int /\ runs[d].ret \in Int
  BY WindowAssumption DEF WindowAssumption, Runs
<1> QED
  BY <1>1 DEF Outranks

LEMMA RankingIsOrder ==
  ASSUME NEW runs \in Runs, NEW c \in Candidates, NEW d \in Candidates, NEW e \in Candidates
  PROVE  /\ ~Outranks(runs, c, c)
         /\ Outranks(runs, c, d) /\ Outranks(runs, d, e) => Outranks(runs, c, e)
<1>1. /\ c \in Int /\ d \in Int /\ e \in Int
      /\ runs[c].score \in Int /\ runs[c].ret \in Int
      /\ runs[d].score \in Int /\ runs[d].ret \in Int
      /\ runs[e].score \in Int /\ runs[e].ret \in Int
  BY WindowAssumption DEF WindowAssumption, Runs
<1> QED
  BY <1>1 DEF Outranks

LEMMA FirstExists ==
  ASSUME NEW runs \in Runs, NEW Allowed, Allowed \subseteq Candidates, Allowed # {}
  PROVE  \E c \in Allowed : \A d \in Allowed \ {c} : Outranks(runs, c, d)
<1> DEFINE Ahead(c) == {d \in Allowed : Outranks(runs, d, c)}
           T == {Ahead(c) : c \in Allowed}
<1>1. T \subseteq FiniteSubsetsOf(Candidates) /\ T # {}
  <2>1. \A c \in Allowed : Ahead(c) \in SUBSET Candidates
    OBVIOUS
  <2>2. \A X \in SUBSET Candidates : IsFiniteSet(X)
    BY WindowAssumption, FS_Subset DEF WindowAssumption
  <2> QED
    BY <2>1, <2>2 DEF FiniteSubsetsOf
<1>2. PICK X \in T : \A Y \in T : ~(<<Y, X>> \in StrictSubsetOrdering(Candidates))
  <2>1. IsWellFoundedOn(StrictSubsetOrdering(Candidates), FiniteSubsetsOf(Candidates))
    BY FS_StrictSubsetOrderingWellFounded
  <2> HIDE DEF T
  <2> QED
    BY <1>1, <2>1, WFMin
<1>3. PICK c \in Allowed : X = Ahead(c)
  BY <1>2
<1>4. Ahead(c) = {}
  <2> SUFFICES ASSUME NEW d \in Ahead(c) PROVE FALSE
    OBVIOUS
  <2>1. d \in Allowed /\ Outranks(runs, d, c)
    OBVIOUS
  <2>2. Ahead(d) \subseteq Ahead(c)
    BY <2>1, RankingIsOrder
  <2>3. d \notin Ahead(d)
    BY <2>1, RankingIsOrder
  <2>4. Ahead(d) \in T /\ Ahead(d) \in SUBSET Candidates /\ Ahead(c) \in SUBSET Candidates
    BY <2>1
  <2>5. <<Ahead(d), Ahead(c)>> \in StrictSubsetOrdering(Candidates)
    BY <2>2, <2>3, <2>4 DEF StrictSubsetOrdering
  <2> QED
    BY <1>2, <1>3, <2>4, <2>5
<1>5. \A d \in Allowed \ {c} : Outranks(runs, c, d)
  BY <1>4, RankingIsTotal
<1> QED
  BY <1>5

(* What the choice returns: nothing exactly when nobody is allowed, and    *)
(* otherwise the one allowed candidate that is ahead of all others.        *)
LEMMA FirstIsFirst ==
  ASSUME NEW runs \in Runs, NEW Allowed, Allowed \subseteq Candidates
  PROVE  /\ FirstOf(runs, Allowed) = None <=> Allowed = {}
         /\ Allowed # {} =>
              /\ FirstOf(runs, Allowed) \in Allowed
              /\ \A d \in Allowed \ {FirstOf(runs, Allowed)} :
                   Outranks(runs, FirstOf(runs, Allowed), d)
<1>1. None \notin Allowed
  BY WindowAssumption DEF WindowAssumption
<1>2. CASE Allowed = {}
  BY <1>2 DEF FirstOf
<1>3. CASE Allowed # {}
  <2>1. \E c \in Allowed : \A d \in Allowed \ {c} : Outranks(runs, c, d)
    BY <1>3, FirstExists
  <2> QED
    BY <1>1, <1>3, <2>1 DEF FirstOf
<1> QED
  BY <1>2, <1>3

(* A first candidate stays first when fewer are allowed.                   *)
LEMMA FirstStays ==
  ASSUME NEW runs \in Runs, NEW Many, NEW Few, Many \subseteq Candidates, Few \subseteq Many,
         Few # {}, \A c \in Few, d \in Many \ Few : Outranks(runs, c, d)
  PROVE  FirstOf(runs, Many) = FirstOf(runs, Few)
<1> DEFINE f == FirstOf(runs, Few)
           m == FirstOf(runs, Many)
<1>1. f \in Few /\ \A d \in Few \ {f} : Outranks(runs, f, d)
  BY FirstIsFirst
<1>2. m \in Many /\ \A d \in Many \ {m} : Outranks(runs, m, d)
  BY FirstIsFirst
<1>3. f # m => Outranks(runs, f, m) /\ Outranks(runs, m, f)
  BY <1>1, <1>2
<1> QED
  BY <1>1, <1>2, <1>3, RankingIsOrder

(* A candidate that passed every gate passed those of v4, when there are   *)
(* statistics (with them off, v4 finds a gate missing).                    *)
LEMMA EligibleIsSafe ==
  ASSUME Statistics.enabled, NEW run, Eligible(run)
  PROVE  InnerSafe(run)
<1>1. /\ {"trade_count", "max_drawdown", "kill_switch_safety"}
           \subseteq DOMAIN PerformanceGates(run)
      /\ "statistical_observation_count" \in DOMAIN SampleGates(run)
  BY DEF PerformanceGates, SampleGates
<1>2. InnerSelectionGates \subseteq DOMAIN Gates(run)
  <2>1. StatisticalGates(run) =
          Joined(SampleGates(run), SignificanceGates(Testable(run) /\ run.significant))
    BY DEF StatisticalGates
  <2>2. DOMAIN SampleGates(run) \subseteq DOMAIN StatisticalGates(run)
    BY <2>1 DEF Joined
  <2>3. DOMAIN Gates(run) = DOMAIN PerformanceGates(run) \cup DOMAIN StatisticalGates(run)
    BY DEF Gates, Joined
  <2> QED
    BY <1>1, <2>2, <2>3 DEF InnerSelectionGates
<1> QED
  BY <1>2 DEF Eligible, InnerSafe

LEMMA SafeMeansNoFailedGate ==
  ASSUME NEW run PROVE InnerSafe(run) <=> FailedGates(run) = {}
BY DEF InnerSafe, FailedGates, MissingGates

(* The newest window trades what was chosen on the newest training slice.  *)
ChosenInTraining ==
  windows # << >> =>
    training \in Runs /\ Last(windows).selected = SelectInTraining(training)

LEMMA ChoiceIsInductive == Spec => []ChosenInTraining
<1>1. Init => ChosenInTraining
  BY DEF Init, ChosenInTraining
<1>2. IInv /\ ChosenInTraining /\ [Next]_vars => ChosenInTraining'
  <2> SUFFICES ASSUME IInv, ChosenInTraining, [Next]_vars PROVE ChosenInTraining'
    OBVIOUS
  <2>1. CASE Evaluate
    <3>1. PICK runs \in Runs, tests \in [Candidates -> TestRuns] :
            training' = runs /\ windows' = Append(windows, Window(runs, tests))
      BY <2>1 DEF Evaluate, Runs
    <3>2. PICK S : windows \in Seq(S)
      BY DEF IInv, AreSequence
    <3> DEFINE w == Window(runs, tests)
    <3>3. Last(windows') = w
      <4>1. windows \in Seq(S \cup {w}) /\ w \in S \cup {w}
        BY <3>2
      <4> HIDE DEF w
      <4>2. /\ Len(Append(windows, w)) = Len(windows) + 1
            /\ Append(windows, w)[Len(windows) + 1] = w
        BY <4>1
      <4> QED
        BY <3>1, <4>2 DEF Last, w
    <3>4. w.selected = SelectInTraining(runs)
      BY DEF Window
    <3> QED
      BY <3>1, <3>3, <3>4 DEF ChosenInTraining
  <2>2. CASE Conclude
    BY <2>2 DEF Conclude, ChosenInTraining
  <2>3. CASE UNCHANGED vars
    BY <2>3 DEF vars, ChosenInTraining
  <2> QED
    BY <2>1, <2>2, <2>3 DEF Next
<1> QED
  BY <1>1, <1>2, Inductive, PTL DEF Spec

(* For every set of candidates and whatever they show in training: profile *)
(* v4 makes the strict choice whenever there is one, abstains exactly when *)
(* every candidate is turned down by a gate it names, and trades nobody    *)
(* that is (nested_validation_v4.py:39-53, fold_evidence.py:23-58).        *)
THEOREM SpecChoiceExplained == Spec => []ChoiceExplained
<1> DEFINE Strict == {c \in DOMAIN training : Eligible(training[c])}
           Safe == {c \in DOMAIN training : InnerSafe(training[c])}
<1>1. ChosenInTraining => StrictChoiceKept
  <2> SUFFICES ASSUME ChosenInTraining, Statistics.enabled, windows # << >>,
                      BestEligible(training) # None
               PROVE  BestEligible(training) = Last(windows).selected
    BY DEF StrictChoiceKept
  <2>1. training \in Runs /\ Last(windows).selected = SelectInTraining(training)
    BY DEF ChosenInTraining
  <2>2. Strict \subseteq Safe /\ Safe \subseteq Candidates
    BY <2>1, EligibleIsSafe DEF Runs
  <2>3. BestEligible(training) = FirstOf(training, Strict) /\ Strict # {}
    BY DEF BestEligible, FirstOf
  <2>4. \A c \in Strict, d \in Safe \ Strict : Outranks(training, c, d)
    BY DEF Outranks
  <2> HIDE DEF Strict, Safe
  <2>5. FirstOf(training, Safe) = FirstOf(training, Strict)
    BY <2>1, <2>2, <2>3, <2>4, FirstStays
  <2> QED
    BY <2>1, <2>3, <2>5 DEF SelectInTraining, Safe
<1>2. ChosenInTraining => AbstentionExplained
  <2> SUFFICES ASSUME ChosenInTraining, Profile = "v4", windows # << >>
               PROVE  LET chosen == Last(windows).selected IN
                        IF chosen = None
                        THEN \A c \in Candidates : FailedGates(training[c]) # {}
                        ELSE FailedGates(training[chosen]) = {}
    BY DEF AbstentionExplained
  <2>1. training \in Runs /\ DOMAIN training = Candidates
    BY DEF ChosenInTraining, Runs
  <2>2. Last(windows).selected = FirstOf(training, Safe)
    BY DEF ChosenInTraining, SelectInTraining
  <2>3. Safe \subseteq Candidates
    BY <2>1
  <2>4. /\ FirstOf(training, Safe) = None <=> Safe = {}
        /\ Safe # {} => FirstOf(training, Safe) \in Safe
    <3> HIDE DEF Safe
    <3> QED
      BY <2>1, <2>3, FirstIsFirst
  <2> QED
    BY <2>1, <2>2, <2>4, SafeMeansNoFailedGate
<1> QED
  BY <1>1, <1>2, ChoiceIsInductive, PTL DEF ChoiceExplained

-----------------------------------------------------------------------------
(* Order statistics.  A largest value exists, for otherwise the sets of    *)
(* positions above each value would descend for ever; so do the smallest   *)
(* and, by counting, the k-th.                                             *)

LEMMA LargestExists ==
  ASSUME NEW D, IsFiniteSet(D), D # {}, NEW f \in [D -> Int]
  PROVE  \E j \in D : \A i \in D : f[i] <= f[j]
<1> DEFINE Above(j) == {i \in D : f[i] > f[j]}
           T == {Above(j) : j \in D}
<1>1. T \subseteq FiniteSubsetsOf(D) /\ T # {}
  <2>1. \A j \in D : Above(j) \in SUBSET D
    OBVIOUS
  <2>2. \A X \in SUBSET D : IsFiniteSet(X)
    BY FS_Subset
  <2>3. \A j \in D : Above(j) \in FiniteSubsetsOf(D)
    <3> HIDE DEF Above
    <3> QED
      BY <2>1, <2>2 DEF FiniteSubsetsOf
  <2>4. PICK j \in D : TRUE
    OBVIOUS
  <2>5. Above(j) \in T
    BY <2>4
  <2> HIDE DEF Above
  <2> QED
    BY <2>3, <2>5
<1>2. PICK X \in T : \A Y \in T : ~(<<Y, X>> \in StrictSubsetOrdering(D))
  <2>1. IsWellFoundedOn(StrictSubsetOrdering(D), FiniteSubsetsOf(D))
    BY FS_StrictSubsetOrderingWellFounded
  <2> HIDE DEF T
  <2> QED
    BY <1>1, <2>1, WFMin
<1>3. PICK j \in D : X = Above(j)
  BY <1>2
<1>4. Above(j) = {}
  <2> SUFFICES ASSUME NEW i \in Above(j) PROVE FALSE
    OBVIOUS
  <2>1. i \in D /\ f[i] > f[j]
    OBVIOUS
  <2>2. Above(i) \subseteq Above(j) /\ i \notin Above(i)
    BY <2>1
  <2>3. <<Above(i), Above(j)>> \in StrictSubsetOrdering(D) /\ Above(i) \in T
    BY <2>1, <2>2 DEF StrictSubsetOrdering
  <2> QED
    BY <1>2, <1>3, <2>3
<1> QED
  BY <1>4

LEMMA CountSubset ==
  ASSUME NEW D, IsFiniteSet(D), NEW E, E \subseteq D
  PROVE  /\ IsFiniteSet(E) /\ Cardinality(E) \in Nat /\ Cardinality(E) <= Cardinality(D)
         /\ Cardinality(D \ E) = Cardinality(D) - Cardinality(E)
<1>1. IsFiniteSet(E) /\ Cardinality(E) <= Cardinality(D)
  BY FS_Subset
<1>2. Cardinality(E) \in Nat
  BY <1>1, FS_CardinalityType
<1>3. Cardinality(D \ E) = Cardinality(D) - Cardinality(D \cap E)
  BY FS_Difference
<1>4. D \cap E = E
  OBVIOUS
<1> QED
  BY <1>1, <1>2, <1>3, <1>4

LEMMA RankedFacts ==
  ASSUME NEW D, IsFiniteSet(D), NEW f \in [D -> Int], NEW k \in Nat,
         1 <= k, k <= Cardinality(D)
  PROVE  /\ Ranked(f, k) \in Int
         /\ Cardinality({i \in D : f[i] < Ranked(f, k)}) < k
         /\ k <= Cardinality({i \in D : f[i] <= Ranked(f, k)})
<1> DEFINE UpTo(v) == {i \in D : f[i] <= v}
           Below(v) == {i \in D : f[i] < v}
           E == {j \in D : k <= Cardinality(UpTo(f[j]))}
           g == [j \in E |-> 0 - f[j]]
<1>0. Cardinality(D) \in Nat /\ D # {} /\ Cardinality({}) = 0
  BY FS_CardinalityType, FS_EmptySet
<1>1. IsFiniteSet(E) /\ E # {}
  <2>1. PICK j \in D : \A i \in D : f[i] <= f[j]
    BY <1>0, LargestExists
  <2>2. UpTo(f[j]) = D
    BY <2>1
  <2>3. E \subseteq D /\ j \in E
    BY <2>2
  <2> HIDE DEF E
  <2> QED
    BY <2>3, FS_Subset
<1>2. PICK j \in E : \A i \in E : f[j] <= f[i]
  <2>1. g \in [E -> Int]
    OBVIOUS
  <2>2. PICK j \in E : \A i \in E : g[i] <= g[j]
    <3> HIDE DEF E, g
    <3> QED
      BY <1>1, <2>1, LargestExists
  <2>3. \A i \in E : f[i] \in Int /\ g[i] = 0 - f[i]
    OBVIOUS
  <2> HIDE DEF E, g
  <2> QED
    BY <2>2, <2>3
<1>3. Cardinality(Below(f[j])) < k
  <2>1. CASE Below(f[j]) = {}
    BY <1>0, <2>1
  <2>2. CASE Below(f[j]) # {}
    <3> DEFINE L == Below(f[j])
               h == [i \in L |-> f[i]]
    <3>1. L \subseteq D /\ h \in [L -> Int]
      OBVIOUS
    <3>2. IsFiniteSet(L) /\ Cardinality(L) \in Nat
      <4> HIDE DEF L
      <4> QED
        BY <3>1, CountSubset
    <3>3. PICK l \in L : \A i \in L : h[i] <= h[l]
      <4> HIDE DEF L, h
      <4> QED
        BY <2>2, <3>1, <3>2, LargestExists DEF L
    <3>4. UpTo(f[l]) = L
      BY <3>3
    <3>5. f[l] < f[j] /\ l \in D /\ f[l] \in Int /\ f[j] \in Int
      BY <3>3
    <3>6. l \notin E
      <4> HIDE DEF E
      <4> QED
        BY <1>2, <3>5
    <3> QED
      BY <3>2, <3>4, <3>5, <3>6
  <2> QED
    BY <2>1, <2>2
<1>4. k <= Cardinality(UpTo(f[j])) /\ j \in D
  BY <1>2
<1>5. \E v \in {f[i] : i \in DOMAIN f} :
        /\ Cardinality({i \in DOMAIN f : f[i] < v}) < k
        /\ k <= Cardinality({i \in DOMAIN f : f[i] <= v})
  <2>1. DOMAIN f = D
    OBVIOUS
  <2> QED
    BY <1>3, <1>4, <2>1
<1>6. Ranked(f, k) \in {f[i] : i \in DOMAIN f}
  BY <1>5 DEF Ranked
<1> QED
  BY <1>5, <1>6 DEF Ranked

(* At least half of the values reach a median.                             *)
LEMMA HalfReachesMedian ==
  ASSUME NEW D, IsFiniteSet(D), D # {}, NEW f \in [D -> Int], NEW m \in Int,
         Median2(f) >= 2 * m
  PROVE  2 * Cardinality({i \in D : f[i] >= m}) >= Cardinality(D)
<1> DEFINE n == Cardinality(D)
           low == Ranked(f, (n + 1) \div 2)
           high == Ranked(f, (n + 2) \div 2)
           Below == {i \in D : f[i] < high}
           Reach == {i \in D : f[i] >= m}
<1>1. n \in Nat /\ n # 0
  BY FS_CardinalityType, FS_EmptySet
<1>2. /\ (n + 1) \div 2 \in Nat /\ 1 <= (n + 1) \div 2 /\ (n + 1) \div 2 <= n
      /\ (n + 2) \div 2 \in Nat /\ 1 <= (n + 2) \div 2 /\ (n + 2) \div 2 <= n
      /\ (n + 1) \div 2 <= (n + 2) \div 2 /\ 2 * ((n + 2) \div 2) <= n + 2
  <2> HIDE DEF n
  <2> QED
    BY <1>1
<1>3. Median2(f) = low + high
  <2>1. DOMAIN f = D
    OBVIOUS
  <2> QED
    BY <1>1, <2>1 DEF Median2
<1>4. /\ low \in Int /\ high \in Int
      /\ Cardinality({i \in D : f[i] < low}) < (n + 1) \div 2
      /\ Cardinality(Below) < (n + 2) \div 2
      /\ (n + 2) \div 2 <= Cardinality({i \in D : f[i] <= high})
  BY <1>2, RankedFacts
<1>5. low <= high
  <2> SUFFICES ASSUME low > high PROVE FALSE
    BY <1>4
  <2> DEFINE A == {i \in D : f[i] <= high}
             B == {i \in D : f[i] < low}
  <2>1. A \subseteq B /\ B \subseteq D
    BY <1>4
  <2>2. IsFiniteSet(B) /\ Cardinality(B) \in Nat
    <3> HIDE DEF B
    <3> QED
      BY <2>1, CountSubset
  <2>3. Cardinality(A) \in Nat /\ Cardinality(A) <= Cardinality(B)
    <3> HIDE DEF A, B
    <3> QED
      BY <2>1, <2>2, CountSubset
  <2>4. Cardinality(B) < (n + 1) \div 2 /\ (n + 2) \div 2 <= Cardinality(A)
    BY <1>4
  <2> HIDE DEF A, B, n
  <2> QED
    BY <1>2, <2>2, <2>3, <2>4
<1>6. high >= m
  <2> HIDE DEF low, high
  <2> QED
    BY <1>3, <1>4, <1>5
<1>7. Below \subseteq D /\ Reach \subseteq D /\ D \ Below \subseteq Reach
  BY <1>4, <1>6
<1> HIDE DEF Below, Reach
<1>8. /\ Cardinality(Below) \in Nat /\ IsFiniteSet(Reach) /\ Cardinality(Reach) \in Nat
      /\ Cardinality(D \ Below) = n - Cardinality(Below)
  BY <1>7, CountSubset
<1>9. Cardinality(D \ Below) <= Cardinality(Reach)
  BY <1>7, <1>8, CountSubset
<1>10. 2 * Cardinality(Reach) >= n
  <2> HIDE DEF n, high
  <2> QED
    BY <1>1, <1>2, <1>4, <1>8, <1>9
<1> QED
  BY <1>10 DEF Reach

-----------------------------------------------------------------------------
(* The record a promotion rests on.                                        *)

FirstStart == Criteria.train_bars + Criteria.embargo_bars

(* A window trades, is deployed, counts as a selection and may count as    *)
(* profitable when, and only when, a candidate was selected for it.        *)
WindowIsTrue(w) ==
  /\ w.metrics = None \/ w.metrics \in TestRuns
  /\ w.decision = "TRADE" <=> w.metrics # None
  /\ w.deployed <=> w.metrics # None
  /\ w.profitable <=> w.metrics # None /\ Profitable(w.metrics)

(* Every start of the grid of _window_slices before the next is used.      *)
StartsUsed ==
  /\ (testStart - FirstStart) % Criteria.step_bars = 0
  /\ {windows[i].test.from : i \in DOMAIN windows} =
       {b \in 0 .. Bars : /\ b >= FirstStart /\ b < testStart
                          /\ (b - FirstStart) % Criteria.step_bars = 0}

(* The verdict is drawn from the windows as they are, when none is left.   *)
VerdictIsDrawn ==
  verdict # None =>
    /\ testStart + Criteria.test_bars > Bars
    /\ \E full \in [Candidates -> TrainRuns] : verdict = Result(full)

RecordInv ==
  /\ \A i \in DOMAIN windows : WindowIsTrue(windows[i])
  /\ StartsUsed /\ VerdictIsDrawn

LEMMA OneMoreWindow ==
  ASSUME IInv, NEW w, windows' = Append(windows, w)
  PROVE  /\ DOMAIN windows' = DOMAIN windows \cup {Len(windows) + 1}
         /\ Len(windows) + 1 \notin DOMAIN windows
         /\ \A i \in DOMAIN windows : windows'[i] = windows[i]
         /\ windows'[Len(windows) + 1] = w
<1>1. PICK S : windows \in Seq(S)
  BY DEF IInv, AreSequence
<1>2. windows \in Seq(S \cup {w})
  BY <1>1
<1> QED
  BY <1>2

LEMMA SelectedIsCandidate ==
  ASSUME NEW runs \in Runs
  PROVE  SelectInTraining(runs) \in Candidates \cup {None}
<1> DEFINE Strict == {c \in DOMAIN runs : Eligible(runs[c])}
           Safe == {c \in DOMAIN runs : InnerSafe(runs[c])}
<1>1. Strict \subseteq Candidates /\ Safe \subseteq Candidates
  BY DEF Runs
<1>2. SelectInTraining(runs) \in {FirstOf(runs, Strict), FirstOf(runs, Safe)}
  BY DEF SelectInTraining, BestEligible
<1> HIDE DEF Strict, Safe
<1>3. FirstOf(runs, Strict) \in Candidates \cup {None}
  BY <1>1, FirstIsFirst
<1>4. FirstOf(runs, Safe) \in Candidates \cup {None}
  BY <1>1, FirstIsFirst
<1> QED
  BY <1>2, <1>3, <1>4

LEMMA WindowsAreTrue ==
  ASSUME NEW runs \in Runs, NEW tests \in [Candidates -> TestRuns]
  PROVE  WindowIsTrue(Window(runs, tests))
<1> DEFINE chosen == SelectInTraining(runs)
           w == Window(runs, tests)
<1>1. chosen \in Candidates \cup {None} /\ None \notin TestRuns
  BY SelectedIsCandidate, WindowAssumption DEF WindowAssumption
<1>2. /\ w.metrics = IF chosen # None THEN tests[chosen] ELSE None
      /\ w.decision = IF chosen # None THEN "TRADE" ELSE "NO_TRADE"
      /\ w.deployed = (chosen # None)
      /\ w.profitable = (chosen # None /\ Profitable(tests[chosen]))
  BY DEF Window
<1> HIDE DEF w, chosen
<1>3. WindowIsTrue(w)
  BY <1>1, <1>2 DEF WindowIsTrue
<1> QED
  BY <1>3 DEF w

(* The grid: multiples of the step are a step apart.                       *)
LEMMA Remainder ==
  ASSUME NEW s \in Nat \ {0}, NEW q \in Int, NEW d \in 0 .. s - 1
  PROVE  (s * q + d) % s = d
<1> DEFINE x == s * q + d
           p == x \div s
           r == x % s
<1>1. x \in Int
  OBVIOUS
<1>2. p \in Int /\ r \in 0 .. s - 1 /\ x = s * p + r
  <2> HIDE DEF x
  <2> QED
    BY <1>1
<1>3. s * (p - q) = d - r
  <2> HIDE DEF p, r
  <2> QED
    BY <1>2
<1>4. p - q <= 0
  <2> SUFFICES ASSUME p - q >= 1 PROVE FALSE
    <3> HIDE DEF p
    <3> QED
      BY <1>2
  <2>1. s * (p - q) >= s
    <3> DEFINE k == p - q
    <3>1. k \in Int /\ k >= 1
      BY <1>2
    <3> HIDE DEF k
    <3> QED
      BY <3>1
  <2> HIDE DEF p, r
  <2> QED
    BY <1>2, <1>3, <2>1
<1>5. p - q >= 0
  <2> SUFFICES ASSUME p - q <= 0 - 1 PROVE FALSE
    <3> HIDE DEF p
    <3> QED
      BY <1>2
  <2>1. s * (p - q) <= 0 - s
    <3> DEFINE k == p - q
    <3>1. k \in Int /\ k <= 0 - 1
      BY <1>2
    <3> HIDE DEF k
    <3> QED
      BY <3>1
  <2> HIDE DEF p, r
  <2> QED
    BY <1>2, <1>3, <2>1
<1>6. p = q
  <2> HIDE DEF p
  <2> QED
    BY <1>2, <1>4, <1>5
<1> QED
  BY <1>2, <1>3, <1>6

LEMMA NextMultiple ==
  ASSUME NEW a \in Nat, NEW s \in Nat \ {0}, a % s = 0, NEW d \in 0 .. s - 1
  PROVE  (a + s) % s = 0 /\ ((a + d) % s = 0 <=> d = 0)
<1> DEFINE q == a \div s
<1>1. q \in Int /\ a = s * q
  OBVIOUS
<1> HIDE DEF q
<1>2. (a + d) % s = d
  BY <1>1, Remainder
<1>3. a + s = s * (q + 1) + 0 /\ q + 1 \in Int /\ 0 \in 0 .. s - 1
  BY <1>1
<1>4. (s * (q + 1) + 0) % s = 0
  BY <1>3, Remainder
<1> QED
  BY <1>2, <1>3, <1>4

LEMMA EvaluateRecord == IInv /\ RecordInv /\ Evaluate => RecordInv'
<1> SUFFICES ASSUME IInv, RecordInv, Evaluate PROVE RecordInv'
  OBVIOUS
<1>1. PICK runs \in [Candidates -> TrainRuns], tests \in [Candidates -> TestRuns] :
         windows' = Append(windows, Window(runs, tests))
  BY DEF Evaluate
<1>2. /\ testStart' = testStart + Criteria.step_bars
      /\ testStart + Criteria.test_bars <= Bars
      /\ verdict' = verdict
  BY DEF Evaluate
<1> DEFINE w == Window(runs, tests)
           k == Len(windows) + 1
<1>3. WindowIsTrue(w) /\ w.test.from = testStart
  BY WindowsAreTrue, WindowSlices DEF Runs
<1> HIDE DEF w
<1>4. /\ DOMAIN windows' = DOMAIN windows \cup {k} /\ k \notin DOMAIN windows
      /\ \A i \in DOMAIN windows : windows'[i] = windows[i]
      /\ windows'[k] = w
  BY <1>1, OneMoreWindow DEF w
<1> HIDE DEF k
<1>5. \A i \in DOMAIN windows' : WindowIsTrue(windows'[i])
  BY <1>3, <1>4 DEF RecordInv
<1>6. /\ Criteria.step_bars \in Nat \ {0} /\ FirstStart \in Nat /\ Bars \in Nat
      /\ Criteria.test_bars \in Nat
      /\ testStart \in Nat /\ testStart >= FirstStart
  BY WindowAssumption DEF WindowAssumption, FirstStart, IInv, SlicesFit
<1>7. StartsUsed'
  <2> DEFINE s == Criteria.step_bars
             a == testStart - FirstStart
  <2>1. a \in Nat /\ a % s = 0 /\ s \in Nat \ {0}
    BY <1>6 DEF RecordInv, StartsUsed
  <2>2. (a + s) % s = 0
    <3> HIDE DEF a, s
    <3>1. 0 \in 0 .. s - 1
      BY <2>1
    <3> QED
      BY <2>1, <3>1, NextMultiple
  <2>3. testStart' - FirstStart = a + s
    BY <1>2, <1>6
  <2>4. {windows'[i].test.from : i \in DOMAIN windows'} =
          {windows[i].test.from : i \in DOMAIN windows} \cup {testStart}
    BY <1>3, <1>4
  <2>5. {b \in 0 .. Bars : /\ b >= FirstStart /\ b < testStart'
                           /\ (b - FirstStart) % s = 0} =
        {b \in 0 .. Bars : /\ b >= FirstStart /\ b < testStart
                           /\ (b - FirstStart) % s = 0} \cup {testStart}
    <3>1. ASSUME NEW b \in 0 .. Bars, b >= testStart, b < testStart'
          PROVE  (b - FirstStart) % s = 0 <=> b = testStart
      <4> DEFINE d == b - testStart
      <4>1. d \in 0 .. s - 1 /\ b - FirstStart = a + d /\ (b = testStart <=> d = 0)
        BY <1>2, <1>6, <3>1
      <4>2. (a + d) % s = 0 <=> d = 0
        <5> HIDE DEF a, s, d
        <5> QED
          BY <2>1, <4>1, NextMultiple
      <4> HIDE DEF a, d
      <4> QED
        BY <4>1, <4>2
    <3>2. testStart \in 0 .. Bars /\ testStart < testStart'
      BY <1>2, <1>6
    <3>3. (testStart - FirstStart) % s = 0
      BY <2>1
    <3> DEFINE OnGrid(b) == b >= FirstStart /\ (b - FirstStart) % s = 0
    <3>4. \A b \in 0 .. Bars :
            OnGrid(b) /\ b < testStart' <=> (OnGrid(b) /\ b < testStart) \/ b = testStart
      <4> SUFFICES ASSUME NEW b \in 0 .. Bars
                   PROVE  OnGrid(b) /\ b < testStart' <=>
                            (OnGrid(b) /\ b < testStart) \/ b = testStart
        OBVIOUS
      <4>1. b >= testStart /\ b < testStart' => (OnGrid(b) <=> b = testStart)
        BY <1>6, <3>1
      <4>2. OnGrid(testStart)
        BY <1>6, <3>3
      <4>3. b \in Int /\ testStart \in Int /\ testStart' \in Int
        BY <1>2, <1>6
      <4> HIDE DEF OnGrid
      <4> QED
        BY <3>2, <4>1, <4>2, <4>3
    <3> QED
      BY <3>2, <3>4
  <2> QED
    BY <2>2, <2>3, <2>4, <2>5 DEF RecordInv, StartsUsed, FirstStart
<1>8. VerdictIsDrawn'
  BY <1>2, <1>6 DEF RecordInv, VerdictIsDrawn
<1> QED
  BY <1>5, <1>7, <1>8 DEF RecordInv

LEMMA RecordIsInductive == Spec => []RecordInv
<1>1. Init => RecordInv
  <2> SUFFICES ASSUME Init PROVE RecordInv
    OBVIOUS
  <2>1. windows = << >> /\ DOMAIN windows = {} /\ verdict = None /\ testStart = FirstStart
    BY DEF Init, FirstStart
  <2>2. /\ Criteria.step_bars \in Nat \ {0} /\ FirstStart \in Nat /\ Bars \in Nat
    BY WindowAssumption DEF WindowAssumption, FirstStart
  <2>3. 0 % Criteria.step_bars = 0 /\ testStart - FirstStart = 0
    BY <2>1, <2>2
  <2>4. StartsUsed
    BY <2>1, <2>2, <2>3 DEF StartsUsed
  <2> QED
    BY <2>1, <2>4 DEF RecordInv, VerdictIsDrawn
<1>2. IInv /\ RecordInv /\ [Next]_vars => RecordInv'
  <2> SUFFICES ASSUME IInv, RecordInv, [Next]_vars PROVE RecordInv'
    OBVIOUS
  <2>1. CASE Evaluate
    BY <2>1, EvaluateRecord
  <2>2. CASE Conclude
    <3>1. /\ testStart' = testStart /\ windows' = windows
          /\ testStart + Criteria.test_bars > Bars
          /\ \E full \in [Candidates -> TrainRuns] : verdict' = Result(full)
      BY <2>2 DEF Conclude
    <3>2. VerdictIsDrawn'
      BY <3>1 DEF VerdictIsDrawn, Result, LatestSelection, FixedWindows
    <3>3. StartsUsed'
      BY <3>1 DEF RecordInv, StartsUsed
    <3> QED
      BY <3>1, <3>2, <3>3 DEF RecordInv
  <2>3. CASE UNCHANGED vars
    <3>1. testStart' = testStart /\ windows' = windows /\ verdict' = verdict
      BY <2>3 DEF vars
    <3>2. VerdictIsDrawn'
      BY <3>1 DEF RecordInv, VerdictIsDrawn, Result, LatestSelection, FixedWindows
    <3>3. StartsUsed'
      BY <3>1 DEF RecordInv, StartsUsed
    <3> QED
      BY <3>1, <3>2, <3>3 DEF RecordInv
  <2> QED
    BY <2>1, <2>2, <2>3 DEF Next
<1> QED
  BY <1>1, <1>2, Inductive, PTL DEF Spec

LEMMA StartsAllUsed == IInv /\ RecordInv => EveryWindowUsed
<1> SUFFICES ASSUME IInv, RecordInv, verdict # None
             PROVE  {windows[i].test.from : i \in DOMAIN windows} =
                      {b \in 0 .. Bars :
                         /\ b + Criteria.test_bars <= Bars
                         /\ b >= Criteria.train_bars + Criteria.embargo_bars
                         /\ (b - Criteria.train_bars - Criteria.embargo_bars)
                              % Criteria.step_bars = 0}
  BY DEF EveryWindowUsed
<1>1. /\ Criteria.train_bars \in Nat /\ Criteria.embargo_bars \in Nat
      /\ Criteria.test_bars \in Nat /\ Bars \in Nat /\ testStart \in Nat
      /\ testStart + Criteria.test_bars > Bars
  BY WindowAssumption DEF WindowAssumption, IInv, SlicesFit, RecordInv, VerdictIsDrawn
<1>2. \A b \in 0 .. Bars :
        b - Criteria.train_bars - Criteria.embargo_bars = b - FirstStart
  BY <1>1 DEF FirstStart
<1>3. \A i \in DOMAIN windows :
        /\ windows[i].test.from \in Nat
        /\ windows[i].test.from + Criteria.test_bars <= Bars
  BY DEF IInv, SlicesFit
<1> DEFINE OnGrid(b) == b >= FirstStart /\ (b - FirstStart) % Criteria.step_bars = 0
           Starts == {windows[i].test.from : i \in DOMAIN windows}
<1>4. Starts = {b \in 0 .. Bars : OnGrid(b) /\ b < testStart}
  BY DEF RecordInv, StartsUsed
<1>5. \A b \in Starts : b + Criteria.test_bars <= Bars
  BY <1>3
<1>6. \A b \in 0 .. Bars : b + Criteria.test_bars <= Bars => b < testStart
  BY <1>1
<1>7. Starts = {b \in 0 .. Bars : OnGrid(b) /\ b + Criteria.test_bars <= Bars}
  <2> HIDE DEF Starts, OnGrid
  <2> QED
    BY <1>4, <1>5, <1>6
<1>8. \A b \in 0 .. Bars :
        OnGrid(b) <=> /\ b >= Criteria.train_bars + Criteria.embargo_bars
                      /\ (b - Criteria.train_bars - Criteria.embargo_bars)
                           % Criteria.step_bars = 0
  BY <1>2 DEF FirstStart
<1> HIDE DEF OnGrid
<1> QED
  BY <1>7, <1>8

(* What the gates say of the windows that traded.                          *)
LEMMA GatesAreAboutTrades ==
  ASSUME IInv, RecordInv, Passed(windows)
  PROVE  LET n == Len(windows)
             traded == {i \in 1 .. n : windows[i].metrics # None}
             gains == {i \in traded : Profitable(windows[i].metrics)}
             strong == {i \in traded : ProfitFactor(windows[i].metrics) >= Criteria.min_pf}
         IN  /\ n >= Criteria.min_windows
             /\ n # 0 => /\ 100 * (n - Cardinality(traded)) <= Criteria.max_abstention_rate * n
                         /\ 100 * Cardinality(gains) >= Criteria.min_profitable_rate * n
             /\ 2 * Cardinality(strong) >= Cardinality(traded)
             /\ \A i \in traded : windows[i].metrics.drawdown >= Criteria.drawdown_floor
<1> DEFINE n == Len(windows)
           traded == {i \in 1 .. n : windows[i].metrics # None}
           gains == {i \in traded : Profitable(windows[i].metrics)}
           strong == {i \in traded : ProfitFactor(windows[i].metrics) >= Criteria.min_pf}
           factors == [i \in traded |-> ProfitFactor(windows[i].metrics)]
           g == StabilityGates(windows)
<1>1. n \in Nat /\ DOMAIN windows = 1 .. n
  BY DEF IInv, AreSequence
<1>2. \A i \in 1 .. n : WindowIsTrue(windows[i])
  BY <1>1 DEF RecordInv
<1>3. /\ {i \in DOMAIN windows : windows[i].decision = "TRADE"} = traded
      /\ {i \in DOMAIN windows : windows[i].profitable} = gains
      /\ Deployed(windows) = traded
  BY <1>1, <1>2 DEF WindowIsTrue, Deployed
<1>4. \A i \in traded : windows[i].metrics \in TestRuns
  BY <1>2 DEF WindowIsTrue
<1>5. IsFiniteSet(traded)
  <2>1. IsFiniteSet(1 .. n)
    <3>1. 1 \in Int /\ n \in Int
      BY <1>1
    <3> QED
      BY <3>1, FS_Interval
  <2>2. traded \subseteq 1 .. n
    OBVIOUS
  <2> HIDE DEF traded
  <2> QED
    BY <2>1, <2>2, FS_Subset
<1>6. factors \in [traded -> Int]
  BY <1>4, WindowAssumption DEF WindowAssumption, ProfitFactor
<1>7. ProfitFactors(windows) = factors
  BY <1>3 DEF ProfitFactors
<1>8. /\ "window_count" \in DOMAIN g /\ "max_abstention_rate" \in DOMAIN g
      /\ "profitable_window_rate" \in DOMAIN g /\ "median_profit_factor" \in DOMAIN g
      /\ "worst_max_drawdown" \in DOMAIN g
  BY DEF StabilityGates
<1>9. /\ g.window_count /\ g.max_abstention_rate /\ g.profitable_window_rate
      /\ g.median_profit_factor /\ g.worst_max_drawdown
  <2> HIDE DEF g
  <2> QED
    BY <1>8 DEF Passed, g
<1>10. /\ n >= Criteria.min_windows
       /\ RateAtMost(n - Cardinality(traded), n, Criteria.max_abstention_rate)
       /\ RateAtLeast(Cardinality(gains), n, Criteria.min_profitable_rate)
       /\ AtLeast(Median2(factors), 2 * Criteria.min_pf)
       /\ traded # {}
       /\ \A i \in traded : windows[i].metrics.drawdown >= Criteria.drawdown_floor
  <2> HIDE DEF traded, gains, factors
  <2> QED
    BY <1>3, <1>7, <1>9 DEF StabilityGates
<1>11. 2 * Cardinality({i \in traded : factors[i] >= Criteria.min_pf}) >= Cardinality(traded)
  <2>1. Median2(factors) >= 2 * Criteria.min_pf /\ Criteria.min_pf \in Int
    BY <1>10, WindowAssumption DEF AtLeast, WindowAssumption
  <2> HIDE DEF traded, factors
  <2> QED
    BY <1>5, <1>6, <1>10, <2>1, HalfReachesMedian
<1>12. {i \in traded : factors[i] >= Criteria.min_pf} = strong
  OBVIOUS
<1> HIDE DEF n, traded, gains, strong, factors, g
<1>13. n # 0 => /\ 100 * (n - Cardinality(traded)) <= Criteria.max_abstention_rate * n
                /\ 100 * Cardinality(gains) >= Criteria.min_profitable_rate * n
  BY <1>10 DEF RateAtMost, RateAtLeast
<1> QED
  BY <1>10, <1>11, <1>12, <1>13 DEF n, traded, gains, strong

LEMMA EligibleHasEarnedIt == IInv /\ RecordInv => PromotionEarned
<1> SUFFICES ASSUME IInv, RecordInv, verdict # None, NEW c \in verdict.eligible
             PROVE  LET n == Len(windows)
                        traded == {i \in 1 .. n : windows[i].metrics # None}
                        gains == {i \in traded :
                            /\ windows[i].metrics.ret > 0
                            /\ windows[i].metrics.trades >= Criteria.min_window_trades}
                        strong == {i \in traded :
                            ProfitFactor(windows[i].metrics) >= Criteria.min_pf}
                    IN  /\ n >= Criteria.min_windows
                        /\ n \in traded /\ windows[n].selected = c
                        /\ 100 * (n - Cardinality(traded)) <= Criteria.max_abstention_rate * n
                        /\ 100 * Cardinality(gains) >= Criteria.min_profitable_rate * n
                        /\ 2 * Cardinality(strong) >= Cardinality(traded)
                        /\ \A i \in traded :
                               windows[i].metrics.drawdown >= Criteria.drawdown_floor
                        /\ verdict.trained_on.to + Criteria.embargo_bars
                               = windows[n].test.from
  BY DEF PromotionEarned
<1> DEFINE n == Len(windows)
<1>1. PICK full \in [Candidates -> TrainRuns] : verdict = Result(full)
  BY DEF RecordInv, VerdictIsDrawn
<1> DEFINE chosen == IF Passed(windows) THEN LatestSelection(windows) ELSE None
<1>2. /\ verdict.eligible = {d \in Candidates : d = chosen}
      /\ verdict.trained_on = IF chosen = None THEN None ELSE Last(windows).train
  BY <1>1 DEF Result
<1>3. c \in Candidates /\ c = chosen /\ c # None
  BY <1>2, WindowAssumption DEF WindowAssumption
<1>4. /\ Passed(windows) /\ c = LatestSelection(windows)
      /\ verdict.trained_on = Last(windows).train
  BY <1>2, <1>3
<1>5. /\ windows # << >> /\ Last(windows).decision = "TRADE" /\ Last(windows).selected = c
  BY <1>3, <1>4 DEF LatestSelection
<1>6. n \in Nat /\ n # 0 /\ n \in 1 .. n /\ DOMAIN windows = 1 .. n
      /\ Last(windows) = windows[n]
  <2>1. PICK S : windows \in Seq(S)
    BY DEF IInv, AreSequence
  <2>2. n \in Nat /\ n # 0 /\ DOMAIN windows = 1 .. n
    BY <1>5, <2>1, EmptySeq
  <2> QED
    BY <2>2 DEF Last
<1>7. windows[n].metrics # None /\ windows[n].selected = c
  BY <1>5, <1>6 DEF RecordInv, WindowIsTrue
<1>8. verdict.trained_on.to + Criteria.embargo_bars = windows[n].test.from
  <2>1. /\ windows[n].test.from \in Nat /\ Criteria.embargo_bars \in Nat
        /\ windows[n].train.to = windows[n].test.from - Criteria.embargo_bars
    BY <1>6, WindowAssumption DEF IInv, SlicesFit, WindowAssumption
  <2> QED
    BY <1>4, <1>6, <2>1
<1> HIDE DEF chosen
<1> QED
  BY <1>4, <1>6, <1>7, <1>8, GatesAreAboutTrades DEF Profitable

(* For every history, grid, candidates and gates: a strategy is eligible   *)
(* for promotion only when every window of the grid was evaluated, enough  *)
(* of all windows traded and gained, half of those that traded reached the *)
(* profit factor, none broke the drawdown floor, and the newest traded     *)
(* this strategy, trained on the bars it is published with                 *)
(* (multi_strategy_walk_forward.py:309-430, :726-823).                     *)
THEOREM SpecPromotionsAreEarned == Spec => []PromotionsAreEarned
<1>1. IInv /\ RecordInv => PromotionsAreEarned
  BY StartsAllUsed, EligibleHasEarnedIt DEF PromotionsAreEarned
<1> QED
  BY <1>1, Inductive, RecordIsInductive, PTL

(* The types of the variables of the walk-forward; a window has metrics    *)
(* when it is deployed (run_nested_walk_forward_stability_v4).             *)
WindowTyped(w) ==
  /\ w.train \in Slices /\ w.test \in Slices
  /\ w.selected \in Candidates \cup {None}

AreTyped ==
  /\ training = None \/ training \in Runs
  /\ \A i \in DOMAIN windows : WindowTyped(windows[i])

LEMMA NewWindowTyped ==
  ASSUME IInv, NEW runs \in Runs, NEW tests, testStart + Criteria.test_bars <= Bars
  PROVE  WindowTyped(Window(runs, tests))
<1> DEFINE w == Window(runs, tests)
           trainEnd == testStart - Criteria.embargo_bars
<1>1. /\ testStart \in Nat /\ testStart >= Criteria.train_bars + Criteria.embargo_bars
      /\ Bars \in Nat /\ Criteria.train_bars \in Nat /\ Criteria.test_bars \in Nat
      /\ Criteria.embargo_bars \in Nat
  BY WindowAssumption DEF IInv, SlicesFit, WindowAssumption
<1>2. /\ w.train = [from |-> trainEnd - Criteria.train_bars, to |-> trainEnd]
      /\ w.test = [from |-> testStart, to |-> testStart + Criteria.test_bars]
      /\ w.selected = SelectInTraining(runs)
  BY DEF Window
<1>3. /\ trainEnd - Criteria.train_bars \in 0 .. Bars /\ trainEnd \in 0 .. Bars
      /\ testStart \in 0 .. Bars /\ testStart + Criteria.test_bars \in 0 .. Bars
  BY <1>1
<1> HIDE DEF w, trainEnd
<1>4. w.train \in Slices /\ w.test \in Slices
  BY <1>2, <1>3 DEF Slices
<1>5. w.selected \in Candidates \cup {None}
  BY <1>2, SelectedIsCandidate
<1> QED
  BY <1>4, <1>5 DEF WindowTyped, w

(* TypeOK, the types of the walk-forward's variables                       *)
(* (run_nested_walk_forward_stability_v4, _summarize_windows).             *)
THEOREM SpecTypeOK == Spec => []TypeOK
<1>1. Init => AreTyped
  BY DEF Init, AreTyped
<1>2. IInv /\ AreTyped /\ [Next]_vars => AreTyped'
  <2> SUFFICES ASSUME IInv, AreTyped, [Next]_vars PROVE AreTyped'
    OBVIOUS
  <2>1. CASE Evaluate
    <3>1. PICK runs \in Runs, tests \in [Candidates -> TestRuns] :
            training' = runs /\ windows' = Append(windows, Window(runs, tests))
      BY <2>1 DEF Evaluate, Runs
    <3>2. WindowTyped(Window(runs, tests))
      BY <2>1, NewWindowTyped DEF Evaluate
    <3> QED
      BY <3>1, <3>2, OneMoreWindow DEF AreTyped
  <2>2. CASE Conclude \/ UNCHANGED vars
    BY <2>2 DEF Conclude, vars, AreTyped
  <2> QED
    BY <2>1, <2>2 DEF Next
<1>3. IInv /\ RecordInv /\ AreTyped => TypeOK
  <2> SUFFICES ASSUME IInv, RecordInv, AreTyped PROVE TypeOK
    OBVIOUS
  <2>1. testStart \in Nat /\ None \notin TestRuns
    BY WindowAssumption DEF IInv, SlicesFit, WindowAssumption
  <2>2. verdict = None \/ verdict.eligible \subseteq Candidates
    BY DEF RecordInv, VerdictIsDrawn, Result
  <2> QED
    BY <2>1, <2>2 DEF TypeOK, AreTyped, WindowTyped, RecordInv, WindowIsTrue, Runs
<1> QED
  BY <1>1, <1>2, <1>3, Inductive, RecordIsInductive, PTL DEF Spec

-----------------------------------------------------------------------------
(***************************************************************************)
(* The candidate policies.                                                 *)
(***************************************************************************)

(* The hooks around a request are those of the policies in force, in the   *)
(* order in which the script installs them.                                *)
HooksInForce ==
  /\ bucketOf = None /\ regime = None => hooks = << >>
  /\ bucketOf # None /\ regime = None => hooks = <<"bucket">>
  /\ bucketOf = None /\ regime # None => hooks = <<"regime">>
  /\ bucketOf # None /\ regime # None => hooks = <<"bucket", "regime">>

(* What the policies in force leave of the suite before the bucket.        *)
SourceOf(map, families) ==
  IF families # None THEN InRegime(families)
  ELSE IF map # None THEN Expanded ELSE Balanced

(* What a request for a symbol asks to choose from.                        *)
Offered(s, map, families) ==
  IF map = None THEN SourceOf(map, families)
  ELSE SourceOf(map, families) \cap InBucket(map[s])

(* A request on its way through the policies in force.                     *)
Asks(s) ==
  IF bucketOf = None
  THEN [candidates |-> SourceOf(bucketOf, regime), criteria |-> Selection]
  ELSE IF s \notin DOMAIN bucketOf THEN None
  ELSE IF Offered(s, bucketOf, regime) = {}
  THEN [candidates |-> {CHOOSE c \in SourceOf(bucketOf, regime) : TRUE}, criteria |-> Forced]
  ELSE [candidates |-> Offered(s, bucketOf, regime), criteria |-> Selection]

(* A regime never offers what the suite does not have.                     *)
LEMMA SourceIsSuite ==
  ASSUME NEW map, NEW families
  PROVE  /\ SourceOf(map, families) \in SUBSET Expanded
         /\ families # None => InRegime(families) \in SUBSET Expanded
  BY PolicyAssumption DEF SourceOf, InRegime, PolicyAssumption

(* The recursion over the hooks has its function, for the hooks there are. *)
LEMMA NoHook ==
  ASSUME NEW s, hooks = << >>
  PROVE  Request(s) = [candidates |-> Balanced, criteria |-> Selection]
<1> DEFINE start == [candidates |-> None, criteria |-> Selection]
           Step(f) == [n \in 0 .. Len(hooks) |->
                         IF n = 0 THEN start ELSE Through(s, f[n - 1], hooks[Len(hooks) + 1 - n])]
           after == CHOOSE f : f = Step(f)
           witness == [n \in 0 .. Len(hooks) |-> start]
<1>1. Len(hooks) = 0
  BY << >> \in Seq({}), EmptySeq
<1>2. witness = Step(witness)
  BY <1>1
<1>3. after = Step(after)
  BY <1>2
<1>4. after[0] = start
  BY <1>1, <1>3
<1>5. start # None
  BY PolicyAssumption DEF PolicyAssumption
<1> QED
  BY <1>1, <1>4, <1>5 DEF Request

(* The request of a symbol that has gone through the bucket.               *)
LEMMA BucketPasses ==
  ASSUME NEW s, NEW source \in SUBSET Expanded, bucketOf # None,
         NEW request,
         \/ request = [candidates |-> source, criteria |-> Selection]
         \/ request = [candidates |-> None, criteria |-> Selection] /\ source = Expanded
  PROVE  Through(s, request, "bucket") =
           IF s \notin DOMAIN bucketOf THEN None
           ELSE IF source \cap InBucket(bucketOf[s]) = {}
           THEN [candidates |-> {CHOOSE c \in source : TRUE}, criteria |-> Forced]
           ELSE [candidates |-> source \cap InBucket(bucketOf[s]), criteria |-> Selection]
<1>1. request # None
  BY PolicyAssumption DEF PolicyAssumption
<1>2. source # None
  BY PolicyAssumption DEF PolicyAssumption
<1>3. (IF request.candidates = None THEN Expanded ELSE request.candidates) = source
  BY <1>2
<1>4. [request EXCEPT !.candidates = source \cap InBucket(bucketOf[s])]
        = [candidates |-> source \cap InBucket(bucketOf[s]), criteria |-> Selection]
  OBVIOUS
<1>5. Through(s, request, "bucket") = ThroughBucket(s, request)
  BY <1>1 DEF Through
<1> QED
  BY <1>3, <1>4, <1>5 DEF ThroughBucket

LEMMA RegimePasses ==
  ASSUME NEW s
  PROVE  Through(s, [candidates |-> None, criteria |-> Selection], "regime")
           = [candidates |-> InRegime(regime), criteria |-> Selection]
  BY PolicyAssumption DEF PolicyAssumption, Through, ThroughRegime

LEMMA OneHook ==
  ASSUME NEW s, NEW hook, hooks = <<hook>>,
         NEW asked, asked = Through(s, [candidates |-> None, criteria |-> Selection], hook),
         asked = None \/ asked.candidates # None
  PROVE  Request(s) = asked
<1> DEFINE start == [candidates |-> None, criteria |-> Selection]
           Step(f) == [n \in 0 .. Len(hooks) |->
                         IF n = 0 THEN start ELSE Through(s, f[n - 1], hooks[Len(hooks) + 1 - n])]
           after == CHOOSE f : f = Step(f)
           witness == [n \in 0 .. 1 |-> IF n = 0 THEN start ELSE asked]
<1>1. Len(hooks) = 1 /\ hooks[1] = hook
  OBVIOUS
<1>2. witness = Step(witness)
  <2>1. \A n \in 0 .. 1 : n # 0 => n = 1 /\ n - 1 = 0 /\ Len(hooks) + 1 - n = 1
    BY <1>1
  <2>2. witness[0] = start
    OBVIOUS
  <2>3. Step(witness) = [n \in 0 .. 1 |-> IF n = 0 THEN start
                          ELSE Through(s, witness[n - 1], hooks[Len(hooks) + 1 - n])]
    BY <1>1
  <2>4. \A n \in 0 .. 1 : witness[n] = Step(witness)[n]
    BY <1>1, <2>1, <2>2, <2>3
  <2> QED
    BY <2>3, <2>4
<1>3. after = Step(after)
  BY <1>2
<1>4. after[0] = start
  <2>1. after[0] = Step(after)[0]
    BY <1>3
  <2>2. 0 \in 0 .. Len(hooks)
    BY <1>1
  <2> HIDE DEF after
  <2> QED
    BY <2>1, <2>2
<1>5. after[1] = Through(s, after[0], hooks[1])
  <2>1. after[1] = Step(after)[1]
    BY <1>3
  <2>2. 1 \in 0 .. Len(hooks) /\ Len(hooks) + 1 - 1 = 1 /\ 1 - 1 = 0
    BY <1>1
  <2> HIDE DEF after
  <2> QED
    BY <2>1, <2>2
<1>6. after[1] = asked
  BY <1>1, <1>4, <1>5
<1> QED
  BY <1>1, <1>6 DEF Request

LEMMA TwoHooks ==
  ASSUME NEW s, NEW older, NEW newer, hooks = <<older, newer>>,
         NEW halfway, halfway = Through(s, [candidates |-> None, criteria |-> Selection], newer),
         NEW asked, asked = Through(s, halfway, older),
         asked = None \/ asked.candidates # None
  PROVE  Request(s) = asked
<1> DEFINE start == [candidates |-> None, criteria |-> Selection]
           Step(f) == [n \in 0 .. Len(hooks) |->
                         IF n = 0 THEN start ELSE Through(s, f[n - 1], hooks[Len(hooks) + 1 - n])]
           after == CHOOSE f : f = Step(f)
           witness == [n \in 0 .. 2 |->
                         IF n = 0 THEN start ELSE IF n = 1 THEN halfway ELSE asked]
<1>1. Len(hooks) = 2 /\ hooks[1] = older /\ hooks[2] = newer
  OBVIOUS
<1>2. witness = Step(witness)
  <2>1. Step(witness) = [n \in 0 .. 2 |-> IF n = 0 THEN start
                          ELSE Through(s, witness[n - 1], hooks[Len(hooks) + 1 - n])]
    BY <1>1
  <2>2. witness[0] = start /\ witness[1] = halfway /\ witness[2] = asked
    OBVIOUS
  <2>3. Step(witness)[1] = Through(s, start, newer)
    BY <1>1, <2>1, <2>2
  <2>4. Step(witness)[2] = Through(s, halfway, older)
    <3>1. 2 \in 0 .. 2 /\ 2 - 1 = 1 /\ Len(hooks) + 1 - 2 = 1
      BY <1>1
    <3> HIDE DEF witness
    <3> QED
      BY <1>1, <2>1, <2>2, <3>1
  <2>5. \A n \in 0 .. 2 : n = 0 \/ n = 1 \/ n = 2
    OBVIOUS
  <2>6. \A n \in 0 .. 2 : witness[n] = Step(witness)[n]
    BY <2>1, <2>2, <2>3, <2>4, <2>5
  <2> QED
    BY <2>1, <2>6
<1>3. after = Step(after)
  BY <1>2
<1>4. after[0] = start
  <2>1. after[0] = Step(after)[0]
    BY <1>3
  <2>2. 0 \in 0 .. Len(hooks)
    BY <1>1
  <2> HIDE DEF after
  <2> QED
    BY <2>1, <2>2
<1>5. after[1] = Through(s, after[0], hooks[2])
  <2>1. after[1] = Step(after)[1]
    BY <1>3
  <2>2. 1 \in 0 .. Len(hooks) /\ Len(hooks) + 1 - 1 = 2 /\ 1 - 1 = 0
    BY <1>1
  <2> HIDE DEF after
  <2> QED
    BY <2>1, <2>2
<1>6. after[2] = Through(s, after[1], hooks[1])
  <2>1. after[2] = Step(after)[2]
    BY <1>3
  <2>2. 2 \in 0 .. Len(hooks) /\ Len(hooks) + 1 - 2 = 1 /\ 2 - 1 = 1 /\ 2 # 0
    BY <1>1
  <2> HIDE DEF after
  <2> QED
    BY <2>1, <2>2
<1>7. after[2] = asked
  BY <1>1, <1>4, <1>5, <1>6
<1> QED
  BY <1>1, <1>7 DEF Request

(* What a symbol asks for, whatever is in force.                           *)
LEMMA RequestAsks ==
  ASSUME NEW s, HooksInForce, regime # None => InRegime(regime) # {}
  PROVE  Request(s) = Asks(s)
<1> DEFINE start == [candidates |-> None, criteria |-> Selection]
           source == SourceOf(bucketOf, regime)
<1>1. source \in SUBSET Expanded /\ source # {}
  BY SourceIsSuite, PolicyAssumption DEF PolicyAssumption, SourceOf
<1>2. Asks(s) = None \/ Asks(s).candidates # None
  <2>1. source # None /\ Offered(s, bucketOf, regime) \in SUBSET Expanded
    BY <1>1, PolicyAssumption DEF PolicyAssumption, Offered
  <2>2. Offered(s, bucketOf, regime) # None
    BY <2>1, PolicyAssumption DEF PolicyAssumption
  <2>3. {CHOOSE c \in source : TRUE} \in SUBSET Expanded
    BY <1>1
  <2>4. {CHOOSE c \in source : TRUE} # None
    BY <2>3, PolicyAssumption DEF PolicyAssumption
  <2> HIDE DEF source
  <2> QED
    BY <2>1, <2>2, <2>4 DEF Asks, source
<1>3. CASE bucketOf = None /\ regime = None
  BY <1>3, NoHook DEF HooksInForce, Asks, SourceOf
<1>4. CASE bucketOf = None /\ regime # None
  <2>1. Asks(s) = Through(s, start, "regime")
    BY <1>4, RegimePasses DEF Asks, SourceOf
  <2>2. hooks = <<"regime">>
    BY <1>4 DEF HooksInForce
  <2> QED
    BY <1>2, <2>1, <2>2, OneHook
<1>5. CASE bucketOf # None /\ regime = None
  <2>1. source = Expanded
    BY <1>5 DEF SourceOf
  <2>2. Asks(s) = Through(s, start, "bucket")
    <3>1. Through(s, start, "bucket") =
            IF s \notin DOMAIN bucketOf THEN None
            ELSE IF source \cap InBucket(bucketOf[s]) = {}
            THEN [candidates |-> {CHOOSE c \in source : TRUE}, criteria |-> Forced]
            ELSE [candidates |-> source \cap InBucket(bucketOf[s]), criteria |-> Selection]
      <4> HIDE DEF source
      <4> QED
        BY <1>1, <1>5, <2>1, BucketPasses
    <3> QED
      BY <1>5, <3>1 DEF Asks, Offered
  <2>3. hooks = <<"bucket">>
    BY <1>5 DEF HooksInForce
  <2> QED
    BY <1>2, <2>2, <2>3, OneHook
<1>6. CASE bucketOf # None /\ regime # None
  <2>1. source = InRegime(regime)
    BY <1>6 DEF SourceOf
  <2>2. Through(s, start, "regime") = [candidates |-> source, criteria |-> Selection]
    BY <2>1, RegimePasses
  <2>3. Asks(s) = Through(s, [candidates |-> source, criteria |-> Selection], "bucket")
    <3>1. Through(s, [candidates |-> source, criteria |-> Selection], "bucket") =
            IF s \notin DOMAIN bucketOf THEN None
            ELSE IF source \cap InBucket(bucketOf[s]) = {}
            THEN [candidates |-> {CHOOSE c \in source : TRUE}, criteria |-> Forced]
            ELSE [candidates |-> source \cap InBucket(bucketOf[s]), criteria |-> Selection]
      <4> HIDE DEF source
      <4> QED
        BY <1>1, <1>6, BucketPasses
    <3> QED
      BY <1>6, <3>1 DEF Asks, Offered
  <2>4. hooks = <<"bucket", "regime">>
    BY <1>6 DEF HooksInForce
  <2> QED
    BY <1>2, <2>2, <2>3, <2>4, TwoHooks
<1> QED
  BY <1>3, <1>4, <1>5, <1>6

(* Nobody wins a request that demands an impossible number of trades:      *)
(* trade_count is a gate of every profile.                                 *)
LEMMA NobodyIsForced ==
  ASSUME NEW m \in NewestRuns
  PROVE  ~Training(Forced)!InnerSafe(m)
<1>1. Forced.min_trades = Impossible
  BY PolicyAssumption DEF PolicyAssumption, Forced
<1>2. ~(m.trades >= Impossible)
  BY PolicyAssumption DEF PolicyAssumption, Impossible
<1>3. "trade_count" \in Training(Forced)!InnerSelectionGates
  BY DEF Training!InnerSelectionGates
<1>4. Training(Forced)!Gates(m)["trade_count"] = (m.trades >= Impossible)
  BY <1>1 DEF Training!Gates, Training!Joined, Training!PerformanceGates
<1> QED
  BY <1>2, <1>3, <1>4 DEF Training!InnerSafe

(***************************************************************************)
(* The invariant: which hooks are in force, from what, and what every item *)
(* and every piece of evidence was chosen from.                            *)
(***************************************************************************)
Phases ==
  /\ pc \in {"bucket", "regime", "ban", "run", "dead"}
  /\ observing \in BOOLEAN
  /\ cycle \in 1 .. MaxCycles
  /\ pc = "bucket" => bucketOf = None
  /\ pc \in {"bucket", "regime"} => regime = None
  /\ pc = "run" => observing
  /\ pc # "run" => items = << >>
  /\ regime # None => InRegime(regime) # {}

(* From the moment it was applied, the map is what the Manager has left.   *)
MapInForce ==
  pc \in {"regime", "ban", "run"} =>
    /\ Enabled => bucketOf = SymbolBuckets /\ bucketOf # None
    /\ ~Enabled => bucketOf = None

ItemExplained(x) ==
  /\ x.status = "eligible_strategy_found" <=> x.strategy \in Expanded
  /\ x.status = "eligible_strategy_found" =>
       /\ x.strategy \in Offered(x.symbol, bucketOf, regime)
       /\ bucketOf # None => x.symbol \in DOMAIN bucketOf
       /\ ~Exploratory(x.symbol)
  /\ x.status = "failed" => bucketOf # None /\ x.symbol \notin DOMAIN bucketOf

Statuses == {"failed", "no_eligible_strategy", "eligible_strategy_found"}

Items == [symbol : ToSet(RunSymbols), status : Statuses, strategy : Expanded \cup {None}]

ItemsExplained ==
  /\ items \in Seq(Items)
  /\ \A i \in DOMAIN items : items[i].symbol = RunSymbols[i] /\ ItemExplained(items[i])

(* The identity of evidence says what its strategy was chosen from.        *)
StoreExplained ==
  \A e \in store :
    e.candidates = IF e.id.policy = None THEN SourceOf(None, e.id.regime)
                   ELSE SourceOf(e.id.policy, e.id.regime) \cap InBucket(e.id.bucket)

PolicyInv == Phases /\ HooksInForce /\ MapInForce /\ ItemsExplained /\ StoreExplained

LEMMA PolicyInitInv == PolicyInit => PolicyInv
<1> SUFFICES ASSUME PolicyInit PROVE PolicyInv
  OBVIOUS
<1>1. items \in Seq(Items) /\ DOMAIN items = {}
  <2>1. << >> \in Seq(Items) /\ DOMAIN << >> = {}
    OBVIOUS
  <2> QED
    BY <2>1 DEF PolicyInit
<1>2. MaxCycles \in Nat /\ 1 \in 1 .. MaxCycles
  BY PolicyAssumption DEF PolicyAssumption
<1> QED
  BY <1>1, <1>2 DEF PolicyInit, PolicyInv, Phases, HooksInForce, MapInForce, ItemsExplained,
     StoreExplained

LEMMA ApplyInv ==
  ASSUME PolicyInv, ApplyBuckets \/ ApplyRegime \/ ApplyBan
  PROVE  PolicyInv'
<1> USE DEF PolicyInv
<1>1. items = << >> /\ items' = items /\ store' = store /\ buckets' = buckets
  BY DEF Phases, ApplyBuckets, ApplyRegime, ApplyBan
<1>2. ItemsExplained'
  <2>1. items' \in Seq(Items) /\ DOMAIN items' = {}
    <3>1. << >> \in Seq(Items) /\ DOMAIN << >> = {}
      OBVIOUS
    <3> QED
      BY <3>1, <1>1
  <2> QED
    BY <2>1 DEF ItemsExplained
<1>3. StoreExplained'
  BY <1>1 DEF StoreExplained
<1>4. Enabled' = Enabled /\ SymbolBuckets' = SymbolBuckets
  BY <1>1 DEF Enabled, SymbolBuckets
<1>5. /\ Append(<< >>, "bucket") = <<"bucket">>
      /\ Append(<< >>, "regime") = <<"regime">>
      /\ Append(<<"bucket">>, "regime") = <<"bucket", "regime">>
  <2>1. ASSUME NEW x PROVE Append(<< >>, x) = <<x>>
    OBVIOUS
  <2>2. ASSUME NEW x, NEW y PROVE Append(<<x>>, y) = <<x, y>>
    <3>1. <<x>> \in Seq({x, y}) /\ y \in {x, y} /\ Len(<<x>>) = 1 /\ <<x>>[1] = x
      OBVIOUS
    <3>2. /\ Append(<<x>>, y) \in Seq({x, y}) /\ Len(Append(<<x>>, y)) = 2
          /\ Append(<<x>>, y)[1] = x /\ Append(<<x>>, y)[2] = y
      BY <3>1, AppendProperties
    <3>3. <<x, y>> \in Seq({x, y}) /\ Len(<<x, y>>) = 2 /\ <<x, y>>[1] = x /\ <<x, y>>[2] = y
      OBVIOUS
    <3>4. \A i \in 1 .. 2 : i = 1 \/ i = 2
      OBVIOUS
    <3> QED
      BY <3>2, <3>3, <3>4, SeqEqual
  <2> QED
    BY <2>1, <2>2
<1>6. CASE ApplyBuckets
  <2>1. Phases' /\ HooksInForce' /\ MapInForce'
    BY <1>1, <1>4, <1>5, <1>6 DEF ApplyBuckets, Phases, HooksInForce, MapInForce
  <2> QED
    BY <1>2, <1>3, <2>1
<1>7. CASE ApplyRegime
  <2>1. Phases' /\ HooksInForce' /\ MapInForce'
    BY <1>1, <1>4, <1>5, <1>7 DEF ApplyRegime, Phases, HooksInForce, MapInForce, RegimeValid
  <2> QED
    BY <1>2, <1>3, <2>1
<1>8. CASE ApplyBan
  <2>1. Phases' /\ HooksInForce' /\ MapInForce'
    BY <1>1, <1>4, <1>8 DEF ApplyBan, Phases, HooksInForce, MapInForce
  <2> QED
    BY <1>2, <1>3, <2>1
<1> QED
  BY <1>6, <1>7, <1>8

LEMMA NextCycleInv ==
  ASSUME PolicyInv, NextCycle
  PROVE  PolicyInv'
<1> USE DEF PolicyInv
<1>1. items' \in Seq(Items) /\ DOMAIN items' = {}
  <2>1. << >> \in Seq(Items) /\ DOMAIN << >> = {}
    OBVIOUS
  <2> QED
    BY <2>1 DEF NextCycle, Fresh
<1>2. cycle' \in 1 .. MaxCycles
  BY PolicyAssumption DEF PolicyAssumption, NextCycle, Phases
<1> QED
  BY <1>1, <1>2 DEF NextCycle, Fresh, Phases, HooksInForce, MapInForce, ItemsExplained,
     StoreExplained

(* What may win is offered, on the criteria of the run.                    *)
LEMMA WinnersAreOffered ==
  ASSUME PolicyInv, NEW s, Request(s) # None,
         NEW runs \in [Request(s).candidates -> NewestRuns],
         NEW c \in Electable(Request(s), runs)
  PROVE  /\ c \in Offered(s, bucketOf, regime) /\ c \in Expanded
         /\ Request(s).candidates = Offered(s, bucketOf, regime)
         /\ bucketOf # None => s \in DOMAIN bucketOf
<1>1. Request(s) = Asks(s)
  BY RequestAsks DEF PolicyInv, Phases
<1>2. c \in Request(s).candidates /\ runs[c] \in NewestRuns
      /\ Training(Request(s).criteria)!InnerSafe(runs[c])
  BY DEF Electable
<1>3. Request(s).criteria # Forced
  BY <1>2, NobodyIsForced
<1>4. Offered(s, bucketOf, regime) \subseteq Expanded
  BY SourceIsSuite DEF Offered
<1> QED
  BY <1>1, <1>2, <1>3, <1>4 DEF Asks, Offered

LEMMA BacktestInv ==
  ASSUME PolicyInv, Backtest
  PROVE  PolicyInv'
<1> USE DEF PolicyInv
<1> DEFINE s == RunSymbols[Len(items) + 1]
<1>1. UNCHANGED <<buckets, context, pc, hooks, bucketOf, regime, observing, cycle>>
      /\ pc = "run" /\ Len(items) < Len(RunSymbols)
  BY DEF Backtest
<1>2. Phases' /\ HooksInForce' /\ MapInForce'
  <2>1. Enabled' = Enabled /\ SymbolBuckets' = SymbolBuckets
    BY <1>1 DEF Enabled, SymbolBuckets
  <2> QED
    BY <1>1, <2>1 DEF Phases, HooksInForce, MapInForce
<1>3. items \in Seq(Items) /\ Len(items) \in Nat /\ s \in ToSet(RunSymbols)
  <2>1. items \in Seq(Items) /\ Len(items) \in Nat
    BY DEF ItemsExplained
  <2>2. Len(items) + 1 \in 1 .. Len(RunSymbols) /\ Len(RunSymbols) \in Nat
    BY <1>1, <2>1, PolicyAssumption DEF PolicyAssumption
  <2>3. RunSymbols[Len(items) + 1] \in ToSet(RunSymbols)
    BY <2>2, PolicyAssumption DEF PolicyAssumption
  <2> QED
    BY <2>1, <2>3
<1>4. ASSUME NEW x \in Items, items' = Append(items, x), x.symbol = s, ItemExplained(x)
      PROVE  ItemsExplained'
  <2>1. items' \in Seq(Items) /\ Len(items') = Len(items) + 1
        /\ items'[Len(items) + 1] = x
        /\ \A i \in 1 .. Len(items) : items'[i] = items[i]
    BY <1>3, <1>4
  <2>2. \A i \in DOMAIN items' : i \in 1 .. Len(items) \/ i = Len(items) + 1
    BY <1>3, <2>1
  <2>3. ASSUME NEW y PROVE ItemExplained(y)' <=> ItemExplained(y)
    BY <1>1 DEF ItemExplained, Exploratory
  <2>4. \A i \in DOMAIN items' : items'[i].symbol = RunSymbols[i] /\ ItemExplained(items'[i])
    <3> SUFFICES ASSUME NEW i \in DOMAIN items'
                 PROVE  items'[i].symbol = RunSymbols[i] /\ ItemExplained(items'[i])
      OBVIOUS
    <3>1. CASE i \in 1 .. Len(items)
      BY <2>1, <3>1, <1>3 DEF ItemsExplained
    <3>2. CASE i = Len(items) + 1
      BY <2>1, <3>2, <1>4
    <3> QED
      BY <2>2, <3>1, <3>2
  <2> QED
    BY <2>1, <2>4, <1>1 DEF ItemsExplained, ItemExplained, Exploratory
<1>5. None \notin Expanded
  BY PolicyAssumption DEF PolicyAssumption
<1>6. CASE Request(s) = None /\ items' = Append(items, Item(s, "failed", None)) /\ UNCHANGED store
  <2>1. Asks(s) = None
    BY <1>6, RequestAsks DEF Phases
  <2>2. bucketOf # None /\ s \notin DOMAIN bucketOf
    <3>1. SourceOf(bucketOf, regime) \in SUBSET Expanded
          /\ Offered(s, bucketOf, regime) \in SUBSET Expanded
      BY SourceIsSuite DEF Offered
    <3>2. SourceOf(bucketOf, regime) # {}
      BY PolicyAssumption DEF PolicyAssumption, SourceOf, Phases
    <3>3. {CHOOSE c \in SourceOf(bucketOf, regime) : TRUE} \in SUBSET Expanded
      BY <3>1, <3>2
    <3> QED
      BY <2>1, <3>1, <3>3, PolicyAssumption DEF PolicyAssumption, Asks
  <2>3. Item(s, "failed", None) \in Items
    BY <1>3 DEF Items, Item, Statuses
  <2>4. ItemExplained(Item(s, "failed", None))
    BY <1>5, <2>2 DEF ItemExplained, Item
  <2>5. Item(s, "failed", None).symbol = s
    BY DEF Item
  <2>6. ItemsExplained'
    BY <1>4, <1>6, <2>3, <2>4, <2>5
  <2>7. StoreExplained'
    BY <1>6 DEF StoreExplained
  <2> QED
    BY <1>2, <2>6, <2>7
<1>7. CASE items' = Append(items, Item(s, "no_eligible_strategy", None)) /\ UNCHANGED store
  <2>3. Item(s, "no_eligible_strategy", None) \in Items
    BY <1>3 DEF Items, Item, Statuses
  <2>4. ItemExplained(Item(s, "no_eligible_strategy", None))
    BY <1>5 DEF ItemExplained, Item
  <2>5. Item(s, "no_eligible_strategy", None).symbol = s
    BY DEF Item
  <2>6. ItemsExplained'
    BY <1>4, <1>7, <2>3, <2>4, <2>5
  <2>7. StoreExplained'
    BY <1>7 DEF StoreExplained
  <2> QED
    BY <1>2, <2>6, <2>7
<1>8. ASSUME Request(s) # None,
             NEW runs \in [Request(s).candidates -> NewestRuns],
             NEW winner \in Electable(Request(s), runs) \cup {None},
             Select(s, winner) # None,
             items' = Append(items, Item(s, "eligible_strategy_found", Select(s, winner))),
             store' = store \cup {[id |-> Identity(s, Select(s, winner)),
                                   candidates |-> Request(s).candidates]}
      PROVE  PolicyInv'
  <2> DEFINE c == Select(s, winner)
             x == Item(s, "eligible_strategy_found", c)
  <2>1. c = winner /\ ~Exploratory(s) /\ c \in Electable(Request(s), runs)
    BY <1>1, <1>8 DEF Select, Phases
  <2>2. /\ c \in Offered(s, bucketOf, regime) /\ c \in Expanded
        /\ Request(s).candidates = Offered(s, bucketOf, regime)
        /\ bucketOf # None => s \in DOMAIN bucketOf
    BY <1>8, <2>1, WinnersAreOffered
  <2> HIDE DEF c, s
  <2>3. x \in Items /\ x.symbol = s
    BY <1>3, <2>2 DEF Items, Item, Statuses
  <2>4. ItemExplained(x)
    BY <2>1, <2>2 DEF ItemExplained, Item
  <2>5. ItemsExplained'
    BY <1>4, <1>8, <2>3, <2>4 DEF c
  <2>6. StoreExplained'
    <3> DEFINE e == [id |-> Identity(s, c), candidates |-> Request(s).candidates]
    <3>1. e.candidates = Offered(s, bucketOf, regime) /\ e.id.policy = bucketOf
          /\ e.id.regime = regime /\ (bucketOf # None => e.id.bucket = bucketOf[s])
      BY <2>2 DEF Identity
    <3>2. e.candidates = IF e.id.policy = None THEN SourceOf(None, e.id.regime)
                   ELSE SourceOf(e.id.policy, e.id.regime) \cap InBucket(e.id.bucket)
      BY <3>1 DEF Offered
    <3>3. store' = store \cup {e}
      BY <1>8 DEF c
    <3> HIDE DEF e
    <3> QED
      BY <3>2, <3>3 DEF StoreExplained
  <2> QED
    BY <1>2, <2>5, <2>6
<1> QED
  BY <1>6, <1>7, <1>8 DEF Backtest

LEMMA PolicyIsInductive == PolicySpec => []PolicyInv
<1>1. PolicyInv /\ [PolicyNext]_policyVars => PolicyInv'
  <2> SUFFICES ASSUME PolicyInv, [PolicyNext]_policyVars PROVE PolicyInv'
    OBVIOUS
  <2>1. CASE UNCHANGED policyVars
    BY <2>1 DEF policyVars, process, PolicyInv, Phases, HooksInForce, MapInForce, Enabled,
       SymbolBuckets, ItemsExplained, ItemExplained, Exploratory, StoreExplained
  <2> QED
    BY <2>1, ApplyInv, BacktestInv, NextCycleInv DEF PolicyNext
<1> QED
  BY <1>1, PolicyInitInv, PTL DEF PolicySpec

(***************************************************************************)
(* What the invariant is for.                                              *)
(***************************************************************************)

(* The map of a report gives every symbol the bucket that all positions of *)
(* the symbol name, and every position passed the gate.                    *)
LEMMA ReportIsAuthority ==
  ASSUME NEW report, ReportValid(report), NEW s \in DOMAIN ReportMap(report)
  PROVE  /\ \E p \in Positions(report) : p.symbol = s
         /\ \A p \in Positions(report) :
              p.symbol = s => p.passed /\ p.classified /\ p.bucket = ReportMap(report)[s]
<1>1. PICK q \in Positions(report) : q.symbol = s
  BY DEF ReportMap
<1> DEFINE chosen == CHOOSE p \in Positions(report) : p.symbol = s
<1>2. chosen \in Positions(report) /\ chosen.symbol = s
  BY <1>1
<1>3. ReportMap(report)[s] = chosen.bucket
  BY DEF ReportMap
<1> HIDE DEF chosen
<1> QED
  BY <1>1, <1>2, <1>3 DEF ReportValid

(* EligibleIsEarned: whatever a run finds eligible, every policy in force  *)
(* allows and the Manager's report authorises; policies with nothing in    *)
(* common are no failure (strategy_bucket_candidate_policy.py,             *)
(* market_regime_candidate_policy.py, exploratory_no_promotion_policy.py). *)
THEOREM SpecEligibleIsEarned == PolicySpec => []EligibleIsEarned
<1>1. PolicyInv => EligibleIsEarned
  <2> SUFFICES ASSUME PolicyInv PROVE EligibleIsEarned
    OBVIOUS
  <2> USE DEF PolicyInv
  <2>1. ASSUME NEW x \in ToSet(items)
        PROVE  ItemExplained(x) /\ pc = "run"
    BY <2>1 DEF ItemsExplained, Phases, ToSet
  <2>2. EligibleIsAllowed
    <3> SUFFICES ASSUME NEW x \in Found
                 PROVE  /\ bucketOf # None =>
                             /\ x.strategy \in InBucket(bucketOf[x.symbol])
                             /\ bucketOf[x.symbol] # "exploratory"
                        /\ regime # None => Family[x.strategy] \in regime
      BY DEF EligibleIsAllowed
    <3>1. x.status = "eligible_strategy_found" /\ ItemExplained(x)
      BY <2>1 DEF Found
    <3>2. x.strategy \in Offered(x.symbol, bucketOf, regime)
      BY <3>1 DEF ItemExplained
    <3> QED
      BY <3>1, <3>2 DEF ItemExplained, Offered, SourceOf, InRegime, Exploratory
  <2>3. AuthorizedOnly
    <3> SUFFICES ASSUME Enabled, buckets.env = None, NEW x \in Found
                 PROVE  /\ \E p \in Positions(buckets.report) : p.symbol = x.symbol
                        /\ \A p \in Positions(buckets.report) :
                             p.symbol = x.symbol =>
                               p.passed /\ p.classified /\ x.strategy \in InBucket(p.bucket)
      BY DEF AuthorizedOnly
    <3>1. x.status = "eligible_strategy_found" /\ ItemExplained(x) /\ pc = "run"
      BY <2>1 DEF Found
    <3>2. bucketOf = SymbolBuckets /\ bucketOf # None
      BY <3>1 DEF MapInForce
    <3>3. ReportValid(buckets.report) /\ bucketOf = ReportMap(buckets.report)
      BY <3>2 DEF SymbolBuckets
    <3>4. x.symbol \in DOMAIN bucketOf /\ x.strategy \in InBucket(bucketOf[x.symbol])
      BY <3>1, <3>2 DEF ItemExplained, Offered
    <3> QED
      BY <3>3, <3>4, ReportIsAuthority
  <2>4. DisagreementIsNoTrade
    BY <2>1 DEF DisagreementIsNoTrade, ItemExplained
  <2> QED
    BY <2>2, <2>3, <2>4 DEF EligibleIsEarned
<1> QED
  BY <1>1, PolicyIsInductive, PTL

(* EvidenceNotConfused: in whatever cycles two pieces of evidence were     *)
(* published, the same identity means the same candidates (policy_run_id). *)
THEOREM SpecEvidenceNotConfused == PolicySpec => []EvidenceNotConfused
<1>1. PolicyInv => EvidenceNotConfused
  BY DEF PolicyInv, StoreExplained, EvidenceNotConfused
<1> QED
  BY <1>1, PolicyIsInductive, PTL

(* PolicyTypeOK: the types of the variables; at most two hooks, an item    *)
(* for each symbol in turn (apply_strategy_bucket_candidate_policy).       *)
THEOREM SpecPolicyTypeOK == PolicySpec => []PolicyTypeOK
<1>1. PolicyInv => PolicyTypeOK
  <2> SUFFICES ASSUME PolicyInv PROVE PolicyTypeOK
    OBVIOUS
  <2>1. hooks \in SeqOf({"bucket", "regime"}, 2)
    <3>1. hooks \in Seq({"bucket", "regime"}) /\ Len(hooks) \in 0 .. 2
      <4>1. << >> \in Seq({"bucket", "regime"}) /\ Len(<< >>) = 0
        OBVIOUS
      <4>2. <<"bucket">> \in Seq({"bucket", "regime"}) /\ Len(<<"bucket">>) = 1
        OBVIOUS
      <4>3. <<"regime">> \in Seq({"bucket", "regime"}) /\ Len(<<"regime">>) = 1
        OBVIOUS
      <4>4. /\ <<"bucket", "regime">> \in Seq({"bucket", "regime"})
            /\ Len(<<"bucket", "regime">>) = 2
        OBVIOUS
      <4>5. 0 \in 0 .. 2 /\ 1 \in 0 .. 2 /\ 2 \in 0 .. 2
        OBVIOUS
      <4>6. hooks \in {<< >>, <<"bucket">>, <<"regime">>, <<"bucket", "regime">>}
        BY DEF PolicyInv, HooksInForce
      <4> QED
        BY <4>1, <4>2, <4>3, <4>4, <4>5, <4>6
    <3>2. hooks \in [1 .. Len(hooks) -> {"bucket", "regime"}]
      BY <3>1
    <3> QED
      BY <3>1, <3>2 DEF SeqOf
  <2> QED
    BY <2>1 DEF PolicyInv, Phases, ItemsExplained, ItemExplained, PolicyTypeOK
<1> QED
  BY <1>1, PolicyIsInductive, PTL

-----------------------------------------------------------------------------
(***************************************************************************)
(* The market regime of a trade.                                           *)
(***************************************************************************)

(***************************************************************************)
(* The invariant: what was published, and what of it was known when.       *)
(***************************************************************************)
Observations ==
  /\ now \in Nat
  /\ IsFiniteSet(published)
  /\ \A o \in published :
       /\ o.id \in 1 .. Cardinality(published)
       /\ o.asof \in Nat /\ o.available \in Nat
       /\ o.asof <= o.available /\ o.available <= now /\ o.available <= ResearchEnd
  /\ \A o, p \in published : o.id = p.id => o = p

(* The observation of the symbol that was published last, up to a time.    *)
NewestUpTo(known, time) ==
  LET candidates == {o \in published : o.symbol = Symbol /\ o.available <= time}
  IN  /\ known \subseteq candidates
      /\ candidates # {} => known # {}
      /\ \A o \in known : known = {o} /\ \A p \in candidates : p.available <= o.available

TradesExplained ==
  \A trade \in trades :
    /\ trade.symbol = Symbol /\ trade.entry \in Nat /\ trade.entry <= now
    /\ trade.fold \in DOMAIN Folds /\ decision[trade.fold] = "TRADE"
    /\ Folds[trade.fold].start <= trade.entry /\ trade.entry <= Folds[trade.fold].end
    /\ NewestUpTo(trade.known, trade.entry)

ArchiveExplained ==
  /\ \A seen \in archive : seen.record \in published
  /\ \A r \in registered : r \in Nat

FileExplained ==
  honest # "undecided" => honest \in Alterations /\ file \in Altered(honest)

HistoryInv ==
  /\ Observations /\ NewestUpTo(current, now) /\ TradesExplained
  /\ ArchiveExplained /\ FileExplained

LEMMA HistoryInitInv == HistoryInit => HistoryInv
<1> SUFFICES ASSUME HistoryInit PROVE HistoryInv
  OBVIOUS
<1>1. IsFiniteSet({})
  BY FS_EmptySet
<1> QED
  BY <1>1 DEF HistoryInit, HistoryInv, Observations, NewestUpTo, TradesExplained,
     ArchiveExplained, FileExplained

LEMMA PublishInv ==
  ASSUME HistoryInv, NEW s \in Symbols, NEW r \in Regimes, NEW a \in 0 .. now, Publish(s, r, a)
  PROVE  HistoryInv'
<1> USE DEF HistoryInv
<1> DEFINE record == [id |-> Cardinality(published) + 1, symbol |-> s,
                      regime |-> r, asof |-> a, available |-> now]
<1>1. /\ published' = published \cup {record}
      /\ current' = IF s = Symbol THEN {record} ELSE current
      /\ now' = now /\ archive' = archive /\ registered' = registered /\ decision' = decision
      /\ trades' = trades /\ file' = file /\ honest' = honest
      /\ honest = "undecided" /\ now <= ResearchEnd
      /\ \A trade \in trades : trade.entry < now
  BY DEF Publish, Live
<1>2. Cardinality(published) \in Nat /\ now \in Nat /\ a \in Nat /\ a <= now
      /\ ResearchEnd \in Nat
  BY FS_CardinalityType, RegimeAssumption DEF Observations, RegimeAssumption
<1>3. record \notin published
  BY <1>2 DEF Observations
<1>4. IsFiniteSet(published') /\ Cardinality(published') = Cardinality(published) + 1
  BY <1>1, <1>3, FS_AddElement DEF Observations
<1>5. Observations'
  <2>1. /\ record.id \in 1 .. Cardinality(published')
        /\ record.asof \in Nat /\ record.available \in Nat
        /\ record.asof <= record.available /\ record.available <= now'
        /\ record.available <= ResearchEnd
    BY <1>1, <1>2, <1>4
  <2>2. \A o \in published : record.id # o.id
    BY <1>2 DEF Observations
  <2>3. \A o \in published : o.id \in 1 .. Cardinality(published')
    BY <1>2, <1>4 DEF Observations
  <2> HIDE DEF record
  <2> QED
    BY <1>1, <1>4, <2>1, <2>2, <2>3 DEF Observations
<1>6. NewestUpTo(current, now)'
  <2>1. record.symbol = s /\ record.available = now
    OBVIOUS
  <2> HIDE DEF record
  <2>2. \A o \in published : o.available \in Nat /\ o.available <= now
    BY DEF Observations
  <2> QED
    BY <1>1, <1>2, <2>1, <2>2 DEF NewestUpTo
<1>7. TradesExplained'
  <2> SUFFICES ASSUME NEW trade \in trades
               PROVE  NewestUpTo(trade.known, trade.entry)'
    BY <1>1 DEF TradesExplained
  <2>1. record.available = now /\ trade.entry < now /\ trade.entry \in Nat
    BY <1>1 DEF TradesExplained
  <2> HIDE DEF record
  <2>2. ~(record.available <= trade.entry)
    BY <1>2, <2>1
  <2> QED
    BY <1>1, <2>2 DEF TradesExplained, NewestUpTo
<1>8. ArchiveExplained' /\ FileExplained'
  BY <1>1 DEF ArchiveExplained, FileExplained
<1> QED
  BY <1>5, <1>6, <1>7, <1>8

LEMMA HistoryStepInv == HistoryInv /\ [HistoryNext]_historyVars => HistoryInv'
<1> SUFFICES ASSUME HistoryInv, [HistoryNext]_historyVars PROVE HistoryInv'
  OBVIOUS
<1> USE DEF HistoryInv
<1>1. CASE \E s \in Symbols, r \in Regimes, a \in 0 .. now : Publish(s, r, a)
  BY <1>1, PublishInv
<1>2. CASE \E o \in published : Collect(o)
  <2>1. PICK o \in published : Collect(o)
    BY <1>2
  <2>2. /\ UNCHANGED <<now, published, current, registered, decision, trades, file, honest>>
        /\ archive' = archive \cup {[record |-> o, at |-> now]} /\ honest = "undecided"
    BY <2>1 DEF Collect, Live
  <2>3. ArchiveExplained' /\ FileExplained'
    BY <2>2 DEF ArchiveExplained, FileExplained
  <2> QED
    BY <2>2, <2>3 DEF Observations, NewestUpTo, TradesExplained
<1>3. CASE Register
  BY <1>3, RegimeAssumption
  DEF Register, Live, RegimeAssumption, Observations, NewestUpTo, TradesExplained,
      ArchiveExplained, FileExplained
<1>4. CASE \E f \in DOMAIN Folds : Enter(f)
  <2>1. PICK f \in DOMAIN Folds : Enter(f)
    BY <1>4
  <2> DEFINE new == [fold |-> f, symbol |-> Symbol, entry |-> now, known |-> current]
  <2>2. /\ UNCHANGED <<now, published, current, archive, registered, decision, file, honest>>
        /\ trades' = trades \cup {new}
        /\ honest = "undecided" /\ decision[f] = "TRADE"
        /\ Folds[f].start <= now /\ now <= Folds[f].end
    BY <2>1 DEF Enter, Live
  <2>3. TradesExplained'
    <3>1. new.fold = f /\ new.symbol = Symbol /\ new.entry = now /\ new.known = current
      OBVIOUS
    <3>2. now \in Nat /\ now <= now
      BY DEF Observations
    <3> HIDE DEF new
    <3> QED
      BY <2>2, <3>1, <3>2 DEF TradesExplained, NewestUpTo
  <2> QED
    BY <2>2, <2>3 DEF Observations, NewestUpTo, ArchiveExplained, FileExplained
<1>5. CASE Tick
  <2>1. /\ UNCHANGED <<published, current, archive, registered, decision, trades, file, honest>>
        /\ now' = now + 1 /\ now \in Nat /\ honest = "undecided"
    BY <1>5 DEF Tick, Live, Observations
  <2>2. Observations'
    BY <2>1 DEF Observations
  <2>3. {o \in published : o.symbol = Symbol /\ o.available <= now'}
          = {o \in published : o.symbol = Symbol /\ o.available <= now}
    BY <2>1 DEF Observations
  <2>4. NewestUpTo(current, now)'
    BY <2>1, <2>3 DEF NewestUpTo
  <2>5. TradesExplained'
    BY <2>1 DEF TradesExplained, NewestUpTo
  <2> QED
    BY <2>1, <2>2, <2>4, <2>5 DEF ArchiveExplained, FileExplained
<1>6. CASE \E how \in Alterations : HandOver(how)
  <2>1. PICK how \in Alterations : HandOver(how)
    BY <1>6
  <2>2. UNCHANGED <<now, published, current, archive, registered, decision, trades>>
        /\ file' \in Altered(how) /\ honest' = how
    BY <2>1 DEF HandOver
  <2>3. Altered(honest)' = Altered(how)
    BY <2>2 DEF Altered
  <2>4. FileExplained'
    BY <2>2, <2>3 DEF FileExplained
  <2>5. Observations' /\ NewestUpTo(current, now)' /\ TradesExplained' /\ ArchiveExplained'
    BY <2>2 DEF Observations, NewestUpTo, TradesExplained, ArchiveExplained
  <2>6. NewestUpTo(current, now)'
    BY <2>5
  <2> QED
    BY <2>4, <2>5, <2>6 DEF HistoryInv
<1>7. CASE UNCHANGED historyVars
  <2>1. FileExplained'
    <3>1. Altered(honest)' = Altered(honest)
      BY <1>7 DEF historyVars, Altered
    <3> QED
      BY <1>7, <3>1 DEF historyVars, FileExplained
  <2>2. Observations' /\ NewestUpTo(current, now)' /\ TradesExplained' /\ ArchiveExplained'
    BY <1>7 DEF historyVars, Observations, NewestUpTo, TradesExplained, ArchiveExplained
  <2> QED
    BY <2>1, <2>2
<1> QED
  BY <1>1, <1>2, <1>3, <1>4, <1>5, <1>6, <1>7 DEF HistoryNext

LEMMA HistoryIsInductive == HistorySpec => []HistoryInv
  BY HistoryInitInv, HistoryStepInv, PTL DEF HistorySpec

(* LabelsWereKnown, for the history as it was published.                   *)
LEMMA PublishedLabels ==
  ASSUME HistoryInv, NEW trade \in trades, Labels(published, trade) # {}
  PROVE  Labels(published, trade) = trade.known
<1> USE DEF HistoryInv
<1> DEFINE candidates == {o \in published : o.symbol = Symbol /\ o.available <= trade.entry}
<1>1. KnownAtEntry(published, trade) = candidates
  BY DEF KnownAtEntry, Observations, TradesExplained
<1>2. Latest(published, trade) = {o \in candidates : \A p \in candidates : p.available <= o.available}
  BY <1>1 DEF Latest
<1>3. Cardinality(Latest(published, trade)) = 1
  BY DEF Labels
<1>4. IsFiniteSet(Latest(published, trade))
  BY <1>2, FS_Subset DEF Observations
<1>5. PICK l : Latest(published, trade) = {l}
  BY <1>3, <1>4, FS_Singleton
<1>6. Labels(published, trade) = {l}
  BY <1>5 DEF Labels
<1>7. candidates # {} /\ NewestUpTo(trade.known, trade.entry)
  BY <1>2, <1>5 DEF TradesExplained
<1>8. PICK c \in trade.known : TRUE
  BY <1>7 DEF NewestUpTo
<1>9. trade.known = {c} /\ c \in candidates /\ \A p \in candidates : p.available <= c.available
  BY <1>7, <1>8 DEF NewestUpTo
<1>10. c \in Latest(published, trade)
  BY <1>2, <1>9
<1> QED
  BY <1>5, <1>6, <1>9, <1>10

(* A label is one of the candidates, and none of them is newer.            *)
LEMMA LabelIsLatest ==
  ASSUME NEW feed, NEW trade, Labels(feed, trade) # {}
  PROVE  LET label == LabelOf(feed, trade) IN
           /\ label \in feed /\ label \in KnownAtEntry(feed, trade)
           /\ \A p \in KnownAtEntry(feed, trade) : p.available <= label.available
  BY DEF LabelOf, Labels, Latest, KnownAtEntry

(* The audit passes every trade of a complete join of verified entries.    *)
LEMMA JoinIsAudited ==
  ASSUME HistoryInv, NEW trade \in trades, JoinComplete(published, trades)
  PROVE  TradeAudited(published, trade)
<1> USE DEF HistoryInv
<1> DEFINE label == LabelOf(published, trade)
<1>1. /\ label \in published /\ label \in KnownAtEntry(published, trade)
      /\ \A p \in KnownAtEntry(published, trade) : p.available <= label.available
  BY LabelIsLatest DEF JoinComplete
<1>2. label.asof <= label.available /\ label.available <= trade.entry /\ label.available \in Nat
  BY <1>1 DEF KnownAtEntry, Observations
<1>3. ~ \E o \in published : /\ o.symbol = trade.symbol /\ o.id # label.id
                             /\ label.available < o.available
                             /\ o.available <= trade.entry
  <2> SUFFICES ASSUME NEW o \in published, o.symbol = trade.symbol,
                      label.available < o.available, o.available <= trade.entry
               PROVE  FALSE
    OBVIOUS
  <2>1. o \in KnownAtEntry(published, trade) /\ o.available \in Nat
    BY DEF KnownAtEntry, Observations
  <2> HIDE DEF label
  <2> QED
    BY <1>1, <1>2, <2>1
<1>4. trade.fold \in TradeFolds
      /\ Folds[trade.fold].start <= trade.entry /\ trade.entry <= Folds[trade.fold].end
  BY DEF TradesExplained, TradeFolds
<1> QED
  BY <1>1, <1>2, <1>3, <1>4 DEF TradeAudited

LEMMA WindowsAreDisjoint == FoldsDisjoint
<1>1. DOMAIN Folds \subseteq Int
  BY RegimeAssumption DEF RegimeAssumption
<1>2. \A f, g \in DOMAIN Folds : f # g => f < g \/ g < f
  BY <1>1
<1> QED
  BY <1>2, RegimeAssumption DEF RegimeAssumption, FoldsDisjoint

LEMMA FoldTimes ==
  ASSUME NEW f \in DOMAIN Folds
  PROVE  Folds[f].start \in Nat
<1>1. Folds \in Seq([start : Nat, end : Nat])
  BY RegimeAssumption DEF RegimeAssumption
<1>2. f \in 1 .. Len(Folds)
  BY <1>1
<1> DEFINE Windows == [start : Nat, end : Nat]
<1>3. \A w \in Windows : w.start \in Nat
  OBVIOUS
<1>4. Folds[f] \in Windows
  <2> HIDE DEF Windows
  <2>1. Folds \in Seq(Windows)
    BY <1>1 DEF Windows
  <2> QED
    BY <1>2, <2>1
<1> QED
  BY <1>3, <1>4

(* LabelsAreTrue: the label of a trade is what was known at its entry, the *)
(* audit passes exactly the complete joins of a consistent history, and    *)
(* documents that phase 15 finds consistent label every trade with an      *)
(* observation published before it (phase13_historical_regime.py:155,      *)
(* phase14_historical_regime_validation.py:96, :210,                       *)
(* phase15_independent_evidence.py:177-199, :219).                         *)
THEOREM SpecLabelsAreTrue == HistorySpec => []LabelsAreTrue
<1>1. HistoryInv => LabelsAreTrue
  <2> SUFFICES ASSUME HistoryInv PROVE LabelsAreTrue
    OBVIOUS
  <2> USE DEF HistoryInv
  <2>1. LabelsWereKnown
    BY PublishedLabels DEF LabelsWereKnown
  <2>2. AuditFollowsTheJoin
    <3> SUFFICES ASSUME honest = "none"
                 PROVE  AuditPasses(file, trades) <=>
                          /\ JoinComplete(file, trades)
                          /\ ~RevisionConflict(published)
                          /\ \A f \in DOMAIN Folds :
                               decision[f] = "TRADE" => \E trade \in trades : trade.fold = f
      BY DEF AuditFollowsTheJoin
    <3>1. file = published
      BY DEF FileExplained, Altered
    <3>2. {trade.fold : trade \in trades} \subseteq TradeFolds
      BY DEF TradesExplained, TradeFolds
    <3>3. {trade.fold : trade \in trades} = TradeFolds <=>
            \A f \in DOMAIN Folds :
              decision[f] = "TRADE" => \E trade \in trades : trade.fold = f
      BY <3>2 DEF TradeFolds
    <3> QED
      BY <3>1, <3>3, JoinIsAudited, WindowsAreDisjoint DEF AuditPasses
  <2>3. CorroboratedWasSeen
    <3> SUFFICES ASSUME DocumentsConsistent(file, trades), NEW trade \in trades
                 PROVE  /\ LabelOf(file, trade) \in published
                        /\ LabelOf(file, trade).available <= trade.entry
                        /\ \E r \in registered : r < trade.entry
      BY DEF CorroboratedWasSeen
    <3>1. Corroborated(file, trade) /\ TradeAudited(file, trade) /\ RegisteredFirst
      BY DEF DocumentsConsistent, AuditPasses
    <3>2. LabelOf(file, trade) \in published
      BY <3>1 DEF Corroborated, ArchiveExplained
    <3>3. LabelOf(file, trade).available <= trade.entry
      BY <3>1 DEF TradeAudited
    <3>4. PICK r \in registered : r < Folds[trade.fold].start
      BY <3>1 DEF RegisteredFirst, TradesExplained
    <3>5. r \in Nat /\ trade.entry \in Nat /\ trade.fold \in DOMAIN Folds
          /\ Folds[trade.fold].start <= trade.entry
      BY DEF ArchiveExplained, TradesExplained
    <3>6. Folds[trade.fold].start \in Nat
      BY <3>5, FoldTimes
    <3>7. r < trade.entry
      BY <3>4, <3>5, <3>6
    <3> QED
      BY <3>2, <3>3, <3>7
  <2> QED
    BY <2>1, <2>2, <2>3 DEF LabelsAreTrue
<1> QED
  BY <1>1, HistoryIsInductive, PTL

(* PastLabelsStay: a trade that has its label keeps it as the feed grows,  *)
(* and one without never gets one (phase13_historical_regime.py:163).      *)
THEOREM SpecPastLabelsStay == HistorySpec => PastLabelsStay
<1>1. HistoryInv /\ [HistoryNext]_historyVars => [LabelsStay]_published
  <2> SUFFICES ASSUME HistoryInv, [HistoryNext]_historyVars, published' # published
               PROVE  LabelsStay
    OBVIOUS
  <2>1. PICK s \in Symbols, r \in Regimes, a \in 0 .. now : Publish(s, r, a)
    BY DEF HistoryNext, historyVars, Collect, Register, Enter, Tick, HandOver
  <2> SUFFICES ASSUME NEW trade \in trades
               PROVE  Labels(published', trade) = Labels(published, trade)
    BY DEF LabelsStay
  <2> DEFINE record == [id |-> Cardinality(published) + 1, symbol |-> s,
                        regime |-> r, asof |-> a, available |-> now]
  <2>2. published' = published \cup {record} /\ record.available = now /\ trade.entry < now
    BY <2>1 DEF Publish
  <2>3. now \in Nat /\ trade.entry \in Nat
    BY DEF HistoryInv, Observations, TradesExplained
  <2>4. ~(record.available <= trade.entry)
    BY <2>2, <2>3
  <2> HIDE DEF record
  <2>5. KnownAtEntry(published', trade) = KnownAtEntry(published, trade)
    BY <2>2, <2>4 DEF KnownAtEntry
  <2> QED
    BY <2>5 DEF Labels, Latest
<1> QED
  BY <1>1, HistoryIsInductive, PTL DEF HistorySpec, PastLabelsStay
=============================================================================
