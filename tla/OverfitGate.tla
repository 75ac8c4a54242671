---------------------------- MODULE OverfitGate ----------------------------
(***************************************************************************)
(* run_cscv_pbo (app/research_overfit.py): the probability of backtest     *)
(* overfitting that gates the research profiles v6 to v8.  Returns are     *)
(* small integers, so that sums compare exactly; candidates are numbered   *)
(* in the order of their ids.                                              *)
(***************************************************************************)
EXTENDS Integers, Sequences, Functions, FiniteSetsExt

CONSTANTS
    MaxCandidates,   \* bound of the model
    Slices,          \* slice_count
    MinPerSlice,     \* min_observations_per_slice
    LimitPct,        \* max_probability_of_backtest_overfit, in percent
    Returns,         \* the returns of one bar
    Lengths          \* bound of the model: returns in a series

\* What the constants must satisfy.
ASSUME OverfitAssumption ==
    /\ Slices \in Nat \ {0} /\ Slices % 2 = 0
    /\ MaxCandidates \in Nat /\ MinPerSlice \in Nat \ {0} /\ LimitPct \in 0 .. 100
    /\ Returns \subseteq Int /\ Lengths \subseteq Nat

VARIABLES
    series,   \* the returns of every candidate, over the same bars
    result    \* status, and the negative and all half-splits

gateVars == <<series, result>>

Candidates == DOMAIN series
Observations == Len(series[1])

\* The first slices get the remainder.
Slice(k) ==
    LET base  == Observations \div Slices
        extra == Observations % Slices
        first == (k - 1) * base + (IF k - 1 < extra THEN k - 1 ELSE extra)
    IN  first + 1 .. first + base + (IF k <= extra THEN 1 ELSE 0)

HalfSplits == kSubset(Slices \div 2, 1 .. Slices)

\* A split and its complement are taken to be one: only those with slice 1.
KeptSplits == {half \in HalfSplits : 1 \in half}

\* mean: over one set of indices it orders the candidates as the sum does.
Score(c, slices) ==
    SumFunction([i \in UNION {Slice(k) : k \in slices} |-> series[c][i]])

Fault_Selected(half) ==
    CHOOSE c \in Candidates :
        \A d \in Candidates :
            \/ Score(d, (1 .. Slices) \ half) < Score(c, (1 .. Slices) \ half)
            \/ Score(d, (1 .. Slices) \ half) = Score(c, (1 .. Slices) \ half) /\ d <= c

\* The best of the half, the last of them when there are several.
Selected(half) ==
    CHOOSE c \in Candidates :
        \A d \in Candidates : \/ Score(d, half) < Score(c, half)
                              \/ Score(d, half) = Score(c, half) /\ d <= c

Fault_Overfitted(half) ==
    LET rest  == (1 .. Slices) \ half
        mine  == Score(Selected(half), rest)
        less  == {c \in Candidates : Score(c, rest) < mine}
        equal == {c \in Candidates : Score(c, rest) = mine}
    IN  2 * Cardinality(less) + Cardinality(equal) < Cardinality(Candidates)

\* Its logit on the other half is not positive: it is at or below mid-rank.
Overfitted(half) ==
    LET rest  == (1 .. Slices) \ half
        mine  == Score(Selected(half), rest)
        less  == {c \in Candidates : Score(c, rest) < mine}
        equal == {c \in Candidates : Score(c, rest) = mine}
    IN  2 * Cardinality(less) + Cardinality(equal) <= Cardinality(Candidates)

Negative(splits) == {half \in splits : Overfitted(half)}

Within(splits) == 100 * Cardinality(Negative(splits)) <= LimitPct * Cardinality(splits)

Enough == Cardinality(Candidates) >= 2 /\ Observations >= Slices * MinPerSlice

GateInit ==
    /\ \E k \in 1 .. MaxCandidates, n \in Lengths :
          series \in [1 .. k -> [1 .. n -> Returns]]
    /\ result = [status |-> "asked", passed |-> FALSE, negative |-> 0]

Refuse ==
    /\ result.status = "asked" /\ ~Enough
    /\ result' = [result EXCEPT !.status = "insufficient_data"]
    /\ UNCHANGED series

Judge ==
    /\ result.status = "asked" /\ Enough
    /\ result' = [status |-> "completed", passed |-> Within(KeptSplits),
                  negative |-> Cardinality(Negative(KeptSplits))]
    /\ UNCHANGED series

GateNext == Refuse \/ Judge

GateSpec == GateInit /\ [][GateNext]_gateVars
-----------------------------------------------------------------------------
Whole == 1 .. Slices
Completed == result.status = "completed"
\* A candidate that is the best of every slice is the one selected in every
\* half and passes, and copies of one another, of which none can be better,
\* never do (research_overfit.py:64-69, :161, :182).
GeneralisationDecides ==
    Completed =>
      /\ (\E c \in Candidates : \A d \in Candidates \ {c}, k \in Whole :
              Score(d, {k}) < Score(c, {k}))
           => result.passed /\ result.negative = 0
      /\ (\A c, d \in Candidates : series[c] = series[d])
           => result.negative = Cardinality(KeptSplits)

\* Two candidates that trade places from each half to the other overfit with
\* certainty, and with two candidates and no ties it does not matter which of a split
\* and its complement is kept (research_overfit.py:145-149).
TwoCandidatesAreSymmetric ==
    (/\ Completed /\ Cardinality(Candidates) = 2
     /\ \A half \in HalfSplits : Score(1, half) # Score(2, half)) =>
        /\ 2 * result.negative = Cardinality(Negative(HalfSplits))
        /\ (\A half \in HalfSplits :
                (Score(1, half) < Score(2, half)) # (Score(1, Whole \ half) < Score(2, Whole \ half)))
             => result.negative = Cardinality(KeptSplits)

\* The gate decides by what generalises, whichever splits it keeps.
GateIsFair == GeneralisationDecides /\ TwoCandidatesAreSymmetric
=============================================================================
