--------------------------- MODULE LedgerEvidence ---------------------------
(***************************************************************************)
(* The evidence chain of FillEvidence over the ledger of a run: what       *)
(* nested_validation_v4.py hands over for a test window, and whether the   *)
(* chain vouches for it, and only for it.                                  *)
(***************************************************************************)
EXTENDS TradeLedger, FillEvidence

(* execution_costs, as far as the chain reads it.                          *)
Costs(fills) == [ count |-> Len(fills), fees |-> FeesOf(fills) ]

(* The window of a candidate that was traded over the bars of this run.    *)
Window(fills, costs) ==
  [ decision |-> "TRADE", strategy |-> "candidate", recorded |-> TRUE, fills |-> fills,
    fillCount |-> costs.count, feesPaid |-> costs.fees, start |-> 1, end |-> MaxBatches ]

(* The window of a fold in which no candidate was safe.                    *)
Abstention ==
  [ decision |-> "NO_TRADE", strategy |-> NoStrategy, recorded |-> FALSE,
    fills |-> <<>>, fillCount |-> 0, feesPaid |-> 0, start |-> 1, end |-> MaxBatches ]

Collected(windows) == Phase9(windows)
Closeout(windows)  == Phase10(Collected(windows))

Run == Window(trades, Costs(trades))
Done == phase = "done" /\ trades # <<>>

Outline(closeout) ==
  {[ symbol |-> p.symbol, entryTime |-> p.entryTime, exitTime |-> p.exitTime,
     quantity |-> p.quantity, net |-> p.net ] : p \in Range(closeout.closed)}

-----------------------------------------------------------------------------
(* How much rounding the tolerances of phases 10 to 12 take: a position of *)
(* at most 375, 250 and 875 shares in the code's units, closed by at most  *)
(* two sells for phase 10 and by a single one for phase 11.                *)
Phase10Absorbs(p) == Len(p.exits) <= 2 /\ 4 * TickValue * p.quantity <= 15 * Cent
Phase11Absorbs(p) == Len(p.exits) <= 1 /\ 4 * TickValue * p.quantity <= 10 * Cent
Phase12Absorbs(p) == 4 * TickValue * p.quantity <= 35 * Cent

(* The errors that the rounding of a genuine fill can make.                *)
Residuals == {"engine_realized_pnl_mismatch", "round_trip_realized_pnl_mismatch",
              "closed_position_net_pnl_mismatch"}

(* The engine and the chain keep the same books: the fills of a run pass   *)
(* phase 9, phase 10 finds as many closed positions as the metrics count   *)
(* and just those open that are, and nothing else is wrong but a sum that  *)
(* the rounding has moved. Where the tolerance takes the rounding it is    *)
(* not even that, and phase 11 follows. Beyond it a genuine run can be     *)
(* refused: the roundings of two prices take up to a tick a share, of      *)
(* which the tolerance grants 0.6                                          *)
(* (phase10_closed_position_evidence.py:98-185, :187-199; phase11_         *)
(* trade_level_loss_attribution.py:112-115; engine.py:165, :727).          *)
GenuineRunVerifies ==
  Done =>
    LET windows  == <<Run, Abstention>>
        closeout == Closeout(windows)
        closed   == Range(closeout.closed)
    IN  /\ Collected(windows).verified
        /\ closeout.errors \subseteq {"unclosed_position", "no_closed_positions"} \cup Residuals
        /\ closeout.open = {<<1, "candidate", s>> : s \in {t \in Symbols : Held(t)}}
        /\ Len(closeout.closed) = TradeMetrics.tradeCount
        /\ closeout.verified => OpenPositions = 0
        /\ OpenPositions = 0 /\ (\A p \in closed : Phase10Absorbs(p)) => closeout.verified
        /\ closeout.verified /\ (\A p \in closed : Phase11Absorbs(p))
             => Phase11(closeout).verified

(* Phase 12 finds the costs it decomposes: every fill of a run has the     *)
(* price its reference and its costs give, and they explain the profit of  *)
(* every closed position that is not too large for the tolerance, however  *)
(* many exits it took. Yet it says so of runs without a loss only, since   *)
(* its test for a number refuses a negative one                            *)
(* (phase12_execution_cost_regime_evidence.py:15-18, :117-156, :201-216).  *)
CostsAreExplained ==
  Done =>
    LET windows  == <<Run, Abstention>>
        closeout == Closeout(windows)
        closed   == Range(closeout.closed)
        phase12  == Phase12(Collected(windows), closeout)
    IN  closeout.verified =>
          /\ phase12.errors \subseteq {"closed_trade_cost_decomposition_mismatch"}
          /\ phase12.verified => \A p \in closed : p.net >= 0
          /\ (\A p \in closed : p.net >= 0 /\ Phase12Absorbs(p)) => phase12.verified

(* What phase 12 promises, of every closed trade: its P&L at reference     *)
(* prices minus fees and price penalties "must reconcile with Phase 10     *)
(* executed-price net P&L" (phase12_execution_cost_regime_evidence.py:80-  *)
(* 81). A run whose trades lost money is refused.                          *)
LossesAreExplained ==
  Done =>
    LET windows  == <<Run, Abstention>>
        closeout == Closeout(windows)
    IN  closeout.verified => Phase12(Collected(windows), closeout).verified

(* A profit that no rounding turns into a loss, and the other way round.   *)
Clearly(amount, p) == 10 * amount > Residual(1, p.quantity) + 15 * Cent
ClearWins(closed) ==
  {i \in 1..Len(closed) : Clearly(closed[i].engineNet, closed[i])}
ClearLosses(closed) ==
  {i \in 1..Len(closed) : Clearly(0 - closed[i].engineNet, closed[i])}

(* What is verified is what the metrics say: as many positions as trades,  *)
(* every clear win and loss counted by both, the engine's own profits to   *)
(* the cent, and the profit rebuilt from the prices up to what the         *)
(* rounding of these positions may cost                                    *)
(* (phase11_trade_level_loss_attribution.py:143-163; engine.py:233-258).   *)
EvidenceAgreesWithMetrics ==
  Done =>
    LET closeout  == Closeout(<<Run>>)
        closed    == closeout.closed
        summaries == Phase11(closeout).summaries
        summary   == summaries[<<1, "candidate">>]
        wins      == Cardinality(ClearWins(closed))
        losses    == Cardinality(ClearLosses(closed))
        Sum(field) == SumFunction([i \in 1..Len(closed) |-> closed[i][field]])
    IN  Phase11(closeout).verified =>
          /\ DOMAIN summaries = {<<1, "candidate">>}
          /\ summary.trades = TradeMetrics.tradeCount
          /\ wins <= Smaller(summary.wins, TradeMetrics.winners)
          /\ losses <= Smaller(summary.losses, TradeMetrics.losers)
          /\ summary.wins + summary.losses <= summary.trades
          /\ Sum("engineNet") = TradeMetrics.realized
          /\ ~Beyond(summary.net, TradeMetrics.realized,
                     Residual(summary.trades, Sum("quantity")))

(* A fill that is lost or delivered twice is seen, even by a report whose  *)
(* counts and fees were taken after the damage: it passes only when it was *)
(* the buy of a position never sold, and no closed position is touched     *)
(* (phase10_closed_position_evidence.py:68-71, :121-126, :135-163).        *)
LostOrRepeatedFillIsSeen ==
  Done =>
    \A i \in 1..Len(trades) :
      \A damaged \in {RemoveAt(trades, i), InsertAt(trades, i, trades[i])} :
        LET closeout == Closeout(<<Window(damaged, Costs(damaged))>>)
        IN  closeout.verified => /\ trades[i].side = "buy" /\ Len(damaged) < Len(trades)
                                 /\ Outline(closeout) = Outline(Closeout(<<Run>>))

(* Two fills in the wrong order are seen, unless they are of two symbols   *)
(* and the closed positions are the same                                   *)
(* (phase10_closed_position_evidence.py:92-95, :111-126).                  *)
ReorderedFillsAreSeen ==
  Done =>
    \A i \in 1..(Len(trades) - 1) :
      LET swapped == [trades EXCEPT ![i] = trades[i + 1], ![i + 1] = trades[i]]
          closeout == Closeout(<<Window(swapped, Costs(trades))>>)
      IN  closeout.verified => /\ trades[i].symbol # trades[i + 1].symbol
                               /\ Outline(closeout) = Outline(Closeout(<<Run>>))

(* A position left open in one fold is not closed by the sells of another: *)
(* each fold closes what it would close alone                              *)
(* (phase10_closed_position_evidence.py:91, :187-199).                     *)
FoldsStaySeparate ==
  Done =>
    LET alone == Closeout(<<Run>>).closed
        both  == Closeout(<<Run, Abstention, Run>>).closed
        Of(fold) == SelectSeq(both, LAMBDA p : p.fold = fold)
    IN  /\ Of(1) = alone
        /\ Of(3) = [i \in 1..Len(alone) |-> [alone[i] EXCEPT !.fold = 3]]
        /\ Len(both) = 2 * Len(alone)

(* The chain vouches for what a run did, in the metrics' own numbers       *)
(* (phase9_oos_fill_evidence.py to phase11_trade_level_loss_attribution.py *)
(* against the metrics of engine.py).                                      *)
GenuineIsVouched == GenuineRunVerifies /\ EvidenceAgreesWithMetrics

(* The chain explains the costs of what a run did, and never vouches for a *)
(* damaged copy of it (phase9_oos_fill_evidence.py to                      *)
(* phase12_execution_cost_regime_evidence.py).                             *)
DamageIsSeen ==
  /\ CostsAreExplained
  /\ LostOrRepeatedFillIsSeen /\ ReorderedFillsAreSeen /\ FoldsStaySeparate
=============================================================================
