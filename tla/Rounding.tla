------------------------------ MODULE Rounding ------------------------------
(***************************************************************************)
(* What a report of the engine loses: app/engine.py simulates with exact   *)
(* prices and money, and writes round(price, 4) and round(money, 2) into   *)
(* every fill and every point of the curve.  Whoever reads them compares   *)
(* within a tolerance.                                                     *)
(*                                                                         *)
(* PriceTick and Cent are the two units, of a price and of money.  In the  *)
(* code a cent is a hundred times what one share costs more by a tick.  On *)
(* which side a tie falls is a matter of the float it is held in; here it  *)
(* is rounded up, and nothing is claimed that depends on it.               *)
(***************************************************************************)
EXTENDS Execution

CONSTANTS PriceTick, Cent

ASSUME RoundingAssumption == PriceTick \in Nat \ {0} /\ Cent \in Nat \ {0}

(* round(x, n), unit being 10^-n.                                          *)
Nearest(x, unit) == ((2 * x + unit) \div (2 * unit)) * unit

ToTick(price) == Nearest(price, PriceTick)

ToCent(money) == Nearest(money, Cent)

(* What a tick is worth in the money of one share.                         *)
TickValue == PriceTick * BPS

Off(x, y) == IF x >= y THEN x - y ELSE y - x

(* Further apart than a tolerance, which is given in tenths to be whole.   *)
Beyond(x, y, tenths) == 10 * Off(x, y) > tenths
=============================================================================
