---------------------------- MODULE EntrySearch ----------------------------
(***************************************************************************)
(* The binary search of max_entry_quantity (app/execution.py:60-110): it   *)
(* looks for the largest increment-aligned fill within every limit without *)
(* testing them all, which is right only because a smaller fill of an      *)
(* allowed one is allowed.  The impact makes the PRICE a function of the   *)
(* quantity, so that is not obvious; Algorithms_proofs proves it.          *)
(***************************************************************************)
EXTENDS Execution

CONSTANT Orders    \* the calls: what the allocator asks for, and its limits

ASSUME OrdersAssumption ==
  Orders \subseteq [requested : Int, available : Int, ref : Nat, volume : Nat,
                    limits : [cash : Int, exposure : Int, equity : Int]]

VARIABLES order, lowSteps, highSteps
vars == <<order, lowSteps, highSteps>>

Steps(o) == EntryCeiling(o.requested, o.available) \div QuantityIncrement

Allowed(o, steps) ==
  EntryAllowed(steps * QuantityIncrement, o.ref, o.volume, o.limits)

(* A definition Fault_... is the one that follows it with a plausible bug; *)
(* only the tests of the properties use it.                                *)
Fault_MiddleLow == (lowSteps + highSteps) \div 2

Middle == (lowSteps + highSteps + 1) \div 2

Init ==
  /\ order \in Orders
  /\ lowSteps = 0
  /\ highSteps = Steps(order)

Fault_RaiseTooFar ==
  /\ lowSteps < highSteps
  /\ Allowed(order, Middle)
  /\ lowSteps' = Middle + 1
  /\ UNCHANGED <<order, highSteps>>

(* The middle fill fits: nothing below it is of interest.                  *)
Raise ==
  /\ lowSteps < highSteps
  /\ Allowed(order, Middle)
  /\ lowSteps' = Middle
  /\ UNCHANGED <<order, highSteps>>

Fault_LowerTooFar ==
  /\ lowSteps < highSteps
  /\ ~Allowed(order, Middle)
  /\ highSteps' = Middle - 2
  /\ UNCHANGED <<order, lowSteps>>

(* It does not: nothing at or above it can fit.                            *)
Lower ==
  /\ lowSteps < highSteps
  /\ ~Allowed(order, Middle)
  /\ highSteps' = Middle - 1
  /\ UNCHANGED <<order, lowSteps>>

Next == Raise \/ Lower

Found == lowSteps = highSteps

Spec == Init /\ [][Next]_vars /\ WF_vars(Next)

-----------------------------------------------------------------------------
TypeOK ==
  /\ order \in Orders
  /\ lowSteps \in Nat
  /\ highSteps \in Nat

(* The interval closes on the answer: the lower end is a fill that fits    *)
(* (or no fill), the upper end is the last one not yet ruled out, and what *)
(* lies above it has been ruled out although only one point of it was      *)
(* tested (execution.py:101-109).                                          *)
Bracketed ==
  /\ lowSteps <= highSteps
  /\ highSteps <= Steps(order)
  /\ lowSteps = 0 \/ Allowed(order, lowSteps)
  /\ \A n \in (highSteps + 1)..Steps(order) : ~Allowed(order, n)

(* "Find the largest increment-aligned fill satisfying every constraint"   *)
(* (execution.py:76): when the loop stops, no larger fill was possible and *)
(* the one returned is possible, up to request and liquidity.              *)
ReturnsTheLargest ==
  Found => IsMaxEntry(lowSteps * QuantityIncrement, order.requested,
                      order.available, order.ref, order.volume, order.limits)

(* The loop ends whatever the limits are (execution.py:103).               *)
Terminates == <>Found
=============================================================================
