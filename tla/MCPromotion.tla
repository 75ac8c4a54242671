---------------------------- MODULE MCPromotion ----------------------------
(* A small instance of Promotion: the hourly workflow and its rerun, and   *)
(* the run after a merge.                                                  *)
EXTENDS Promotion

CONSTANTS hourly, postMerge

MCRunners == {hourly, postMerge}
MCMaxRuns == [r \in Runners |-> IF r = hourly THEN 2 ELSE 1]
=============================================================================
