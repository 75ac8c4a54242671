------------------------------ MODULE MCEngine ------------------------------
(* Small instances of Engine: a quiet bar, a rise through the target, a    *)
(* fall through the stop, gaps both ways, a bar that touches both, each    *)
(* with plenty of volume, some, or none.                                   *)
EXTENDS Engine

CONSTANTS Shapes, Volumes, InitialDollars

(* <<open, high, low, close>> around an entry at 10.                       *)
Shape(name) ==
  CASE name = "quiet" -> <<10, 10, 10, 10>>
    [] name = "rise"  -> <<10, 16, 10, 14>>
    [] name = "fall"  -> <<10, 10, 6, 7>>
    [] name = "both"  -> <<10, 16, 6, 10>>
    [] name = "gapUp" -> <<16, 16, 6, 12>>
    [] name = "gapDown" -> <<6, 10, 6, 6>>

MCBars ==
  { [ open |-> Shape(n)[1], high |-> Shape(n)[2], low |-> Shape(n)[3],
      close |-> Shape(n)[4], volume |-> v ] : n \in Shapes, v \in Volumes }

MCInitialEquity == InitialDollars * BPS * BPS * BPS * BPS
=============================================================================
