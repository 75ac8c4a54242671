----------------------------- MODULE Execution -----------------------------
(***************************************************************************)
(* Pricing, sizing and approval of a simulated order: app/execution.py,    *)
(* app/execution_policy.py, app/risk_adapter.py and the helpers at the top *)
(* of app/engine.py, as pure operators over integers.                      *)
(*                                                                         *)
(* The code computes with floats and divides basis points by 10000; here   *)
(* BPS stands for that 10000 and every percentage is a number of 1/BPS.    *)
(* Dividing is postponed: a bar's price p is the reference price p * BPS^2 *)
(* (so that a stop and a target are integers too), an executed price is    *)
(* reference * (BPS +- adjustment), and money is executed price * quantity *)
(* * BPS.  Only the market impact and the quantities are truncated.        *)
(***************************************************************************)
EXTENDS Integers

CONSTANTS
  BPS,                   \* the unit of a percentage, 10000 in the code
  QuantityIncrement,     \* ExecutionRealismPolicy.quantity_increment
  HalfSpreadBps,         \* half of bid_ask_spread_bps
  SlippageBps,
  MarketImpactBps,
  FeeBps,
  MaxVolumeParticipation,
  StopLossPct,
  RewardRiskRatio,
  RiskPerTrade,
  MaxPositionPct

(* What pydantic accepts: execution_policy.py:44-60, models.py:53-77.      *)
ASSUME PolicyAssumption ==
  /\ BPS \in Nat \ {0}
  /\ QuantityIncrement \in Nat \ {0}
  /\ HalfSpreadBps \in Nat /\ 2 * HalfSpreadBps < BPS
  /\ SlippageBps \in Nat /\ MarketImpactBps \in Nat
  /\ SlippageBps + MarketImpactBps < BPS
  /\ FeeBps \in Nat
  /\ MaxVolumeParticipation \in 1..BPS

ASSUME SizingAssumption ==
  /\ StopLossPct \in 1..(BPS - 1)
  /\ RewardRiskRatio \in Nat \ {0}
  /\ RiskPerTrade \in 1..BPS
  /\ MaxPositionPct \in 1..BPS

AtLeastZero(n) == IF n > 0 THEN n ELSE 0

Smaller(m, n) == IF m <= n THEN m ELSE n

-----------------------------------------------------------------------------
(* Quantities and prices.                                                  *)

QuantizeQuantity(q) ==
  IF q <= 0 THEN 0 ELSE (q \div QuantityIncrement) * QuantityIncrement

(* A definition Fault_... is the one that follows it with a plausible bug; *)
(* only the tests of the properties use it.                                *)
Fault_UnalignedCapacity(volume) == (volume * MaxVolumeParticipation) \div BPS

VolumeCapacity(volume) ==
  QuantizeQuantity((volume * MaxVolumeParticipation) \div BPS)

MarketImpact(q, volume) ==
  IF q <= 0 \/ volume <= 0 THEN 0
  ELSE (MarketImpactBps * Smaller(q, volume)) \div volume

Reference(price) == price * BPS * BPS

BuyExecutionPrice(ref, q, volume) ==
  ref * (BPS + SlippageBps + MarketImpact(q, volume) + HalfSpreadBps)

SellExecutionPrice(ref, q, volume) ==
  ref * (BPS - (SlippageBps + MarketImpact(q, volume) + HalfSpreadBps))

(* The sizing price knows neither the spread nor the impact of the fill.   *)
SizingPrice(ref) == ref * (BPS + SlippageBps)

Value(price, q) == price * q * BPS

Fee(price, q) == price * q * FeeBps

(* A stop and a target are references again: they are compared with bars.  *)
StopLossPrice(entry) == (entry * (BPS - StopLossPct)) \div (BPS * BPS)

TakeProfitPrice(entry) ==
  LET paid == entry \div BPS
  IN  paid + (paid - StopLossPrice(entry)) * RewardRiskRatio

-----------------------------------------------------------------------------
(* Sizing, in the three stages a buy goes through.                         *)

PositionSize(cash, equity, ref) ==
  LET entry        == SizingPrice(ref)
      riskPerShare == entry - StopLossPrice(entry) * BPS
  IN  IF cash <= 0 \/ equity <= 0 \/ entry <= 0 \/ riskPerShare <= 0 THEN 0
      ELSE AtLeastZero(Smaller((equity * RiskPerTrade) \div (riskPerShare * BPS * BPS),
             Smaller((equity * MaxPositionPct) \div (entry * BPS * BPS),
                     cash \div (entry * (BPS + FeeBps)))))

Fault_AllowedWithoutRisk(q, ref, volume, limits) ==
  LET price == BuyExecutionPrice(ref, q, volume)
  IN  /\ Value(price, q) + Fee(price, q) <= limits.cash
      /\ Value(price, q) <= limits.exposure
      /\ Value(price, q) * BPS <= limits.equity * MaxPositionPct

(* The limits a fill must respect: what is left of the cash, what is left  *)
(* of the exposure, and the portfolio equity the two percentages apply to. *)
EntryAllowed(q, ref, volume, limits) ==
  LET price == BuyExecutionPrice(ref, q, volume)
  IN  /\ Value(price, q) + Fee(price, q) <= limits.cash
      /\ Value(price, q) <= limits.exposure
      /\ Value(price, q) * BPS <= limits.equity * MaxPositionPct
      /\ Value(price, q) * StopLossPct <= limits.equity * RiskPerTrade

EntryCeiling(requested, available) ==
  QuantizeQuantity(AtLeastZero(Smaller(requested, available)))

(* max_entry_quantity by what it promises; EntrySearch is the search.      *)
IsMaxEntry(q, requested, available, ref, volume, limits) ==
  LET steps == 0..(EntryCeiling(requested, available) \div QuantityIncrement)
      Fits(n) == n = 0 \/ EntryAllowed(n * QuantityIncrement, ref, volume, limits)
  IN  \E n \in steps : /\ q = n * QuantityIncrement
                       /\ Fits(n)
                       /\ \A m \in steps : Fits(m) => m <= n

MaxEntryQuantity(requested, available, ref, volume, limits) ==
  CHOOSE q \in 0..AtLeastZero(requested) :
           IsMaxEntry(q, requested, available, ref, volume, limits)

Fault_TradesOffByOne(q, entry, tradesToday, maxTrades, halted) ==
  \/ halted \/ tradesToday > maxTrades \/ q <= 0 \/ entry <= 0
  \/ entry <= StopLossPrice(entry) * BPS

(* LocalRiskAdapter.evaluate for a buy: the quantity it leaves, 0 when it  *)
(* refuses the order.                                                      *)
RiskViolated(q, entry, tradesToday, maxTrades, halted) ==
  \/ halted
  \/ tradesToday >= maxTrades
  \/ q <= 0
  \/ entry <= 0
  \/ entry <= StopLossPrice(entry) * BPS

RiskQuantity(q, entry, equity) ==
  LET clipped == IF Value(entry, q) * BPS > equity * MaxPositionPct
                 THEN (equity * MaxPositionPct) \div (entry * BPS * BPS) ELSE q
      budget  == (equity * RiskPerTrade)
                   \div ((entry - StopLossPrice(entry) * BPS) * BPS * BPS)
  IN  QuantizeQuantity(Smaller(clipped, budget))
=============================================================================
