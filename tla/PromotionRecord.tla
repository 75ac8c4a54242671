-------------------------- MODULE PromotionRecord --------------------------
(***************************************************************************)
(* What may become of promotions, without the requests and the records     *)
(* that bring it about: this agent attests a promotion up to its robust    *)
(* stage and leaves it alone from there on; the manager approves what is   *)
(* robust and may end whatever has begun; what has ended stays ended.      *)
(*                                                                         *)
(* The stages are those that a runner of the hourly workflow tells apart:  *)
(* "begun" is every state before ROBUSTNESS_PASSED, "approved" those the   *)
(* manager gives after it (app/promotion_lifecycle.py:9-20).               *)
(***************************************************************************)
CONSTANT Promotions

VARIABLE stage   \* promotion -> what has become of it

Stages == {"none", "begun", "robust", "approved", "ended"}

TypeOK == stage \in [Promotions -> Stages]

Init == stage = [p \in Promotions |-> "none"]

Becomes(p, s) == stage' = [stage EXCEPT ![p] = s]

(* One or several attestations, of a promotion that is not yet robust.     *)
Attest(p) ==
  /\ stage[p] \in {"none", "begun"}
  /\ \E s \in {"begun", "robust"} : Becomes(p, s)

Approve(p) == stage[p] = "robust" /\ Becomes(p, "approved")

End(p) == stage[p] \notin {"none", "ended"} /\ Becomes(p, "ended")

Next == \E p \in Promotions : Attest(p) \/ Approve(p) \/ End(p)

Spec == Init /\ [][Next]_stage
=============================================================================
