--------------------------- MODULE MCHourlyRunner ---------------------------
(***************************************************************************)
(* A small instance of HourlyRunner.  The setting tells what a behaviour is *)
(* about:                                                                  *)
(*   Pair      a workflow over two symbols, cancelled and started again    *)
(*   Race      two workflows on the same symbol while its bars grow        *)
(*   Research  as Pair, without the database                               *)
(***************************************************************************)
EXTENDS HourlyRunner

CONSTANTS r1, r2, AAPL, MSFT

MCRunners == {r1, r2}
MCSymbols == {AAPL, MSFT}

Pair == [symbols |-> <<AAPL, MSFT>>, publishing |-> {r1, r2}]
Race == [symbols |-> <<AAPL>>, publishing |-> {r1, r2}]
Research == [symbols |-> <<AAPL, MSFT>>, publishing |-> {}]
MCSettings == {Pair, Race, Research}

(* Bars that fail nothing or one check; or, on one symbol, a check         *)
(* together with a later one.                                              *)
OneFailure == {{}} \cup {{c} : c \in Checks}
SomeFailures ==
  {{}, {"selection"}, {"statistics", "holdout"}, {"robustness"}, {"gates"}, {"holdout"}}
MCOutlooks == OneFailure \cup SomeFailures

(* What is not used is fixed.                                              *)
Used(i) == IF setting = Race THEN i[1] = AAPL ELSE i[2] = 1

MCInit ==
  /\ Init
  /\ \A i \in Ids :
       outlook[i] \in IF ~Used(i) THEN {{}}
                      ELSE IF setting = Race THEN SomeFailures ELSE OneFailure

(* One run of each workflow in a race; two of one, on one day, otherwise.  *)
MCNext ==
  /\ Next
  /\ IF setting = Race THEN \A r \in Runners : runs'[r] <= 1
                       ELSE runs'[r2] = 0 /\ today' = 1

MCSpec == MCInit /\ [][MCNext]_vars /\ \A r \in Runners : WF_vars(Step(r))
=============================================================================
