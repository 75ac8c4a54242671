------------------------------- MODULE Engine -------------------------------
(***************************************************************************)
(* The portfolio simulation of app/engine.py, _run_backtest: one pass over *)
(* the timestamps, and at each of them seven loops over the symbols that   *)
(* have a bar there.  A state is a point between two iterations of those   *)
(* loops: "phase" names the loop and "todo" the symbols still to visit.    *)
(*                                                                         *)
(* The bars are chosen step by step from the set Bars, and the signal of a *)
(* close is any signal: strategy_signal is a function of the history the   *)
(* model does not keep.  Lists the code only appends to and reports (the   *)
(* trades, the rejections, the warnings) are left out, except for the sums *)
(* the metrics take over them.                                             *)
(***************************************************************************)
EXTENDS Execution, FiniteSets, Functions

CONSTANTS
  Symbols,               \* numbers, in the alphabetical order of the symbols
  Bars,                  \* the bars a symbol can have
  InitialEquity,         \* in money, see Execution
  CashReservePct, MaxTotalExposurePct,
  MaxOpenPositions, MaxNewPositionsPerBar,
  UseRiskAgent, EmergencyHalt, MaxTradesPerDay,
  ForceCloseAtEnd,
  MaxBatches             \* bound of the model: how many timestamps there are

ASSUME RequestAssumption ==
  /\ Symbols \subseteq Nat /\ IsFiniteSet(Symbols)
  /\ InitialEquity \in Nat \ {0}
  /\ CashReservePct \in 0..(BPS - 1)
  /\ MaxTotalExposurePct \in 1..BPS
  /\ MaxOpenPositions \in Nat \ {0}
  /\ MaxNewPositionsPerBar \in Nat \ {0}
  /\ MaxTradesPerDay \in Nat \ {0}
  /\ {UseRiskAgent, EmergencyHalt, ForceCloseAtEnd} \subseteq BOOLEAN
  /\ MaxBatches \in Nat

(* PriceBar.validate_ohlc, models.py:28-42.                                *)
ASSUME BarAssumption ==
  /\ Bars \subseteq [open : Nat \ {0}, high : Nat \ {0}, low : Nat \ {0},
                     close : Nat \ {0}, volume : Nat]
  /\ \A b \in Bars : /\ b.high >= b.open /\ b.high >= b.close
                     /\ b.low <= b.open /\ b.low <= b.close

VARIABLES
  cash,
  pos,           \* positions: symbol -> Position
  pending,       \* pending_signals
  forced,        \* forced_exit_reasons
  bar,           \* last_bars
  mark,          \* last_prices
  liq,           \* remaining_liquidity, and last_remaining_liquidity after it
  phase, todo,   \* where the loops are
  batch,         \* the symbols with a bar at this timestamp
  exitedAtOpen, partialExits,   \* exited_at_open, partial_signal_exits
  equity,        \* portfolio_equity, taken after the exits at the open
  wanted,        \* requested_quantity of each candidate
  newPositions,  \* new_positions
  entriesToday,  \* entries_by_day of the current day
  lastPoint,     \* equity of the last point of equity_curve
  realized,      \* the sum of the realized_pnl of the sell fills
  roundTripPnl,  \* the sum of the round_trip_realized_pnl
  traded,        \* observer: shares of the current bar bought or sold
  batches        \* how many timestamps are behind

book == <<cash, pos, realized, roundTripPnl>>
market == <<bar, mark, batch, batches, entriesToday>>
sizing == <<equity, wanted, newPositions>>
vars == <<book, market, sizing, liq, traded, pending, forced, phase, todo,
          exitedAtOpen, partialExits, lastPoint>>

Phases == {"open", "protect", "signal", "size", "allocate", "intrabar",
           "close", "liquidate", "done"}
Signals == {"buy", "sell", "hold"}
Reasons == {"none", "stop_loss", "take_profit"}
NoBar == [open |-> 0, high |-> 0, low |-> 0, close |-> 0, volume |-> 0]

(* A position without shares has no stop and no target: the code's None is *)
(* 0 here and every use of them first asks for a positive quantity.        *)
Flat == [quantity |-> 0, average |-> 0, fees |-> 0, stop |-> 0, target |-> 0, pnl |-> 0]

Position == [ quantity : Nat, average : Int, fees : Int, stop : Int, target : Int,
              pnl : Int ]

-----------------------------------------------------------------------------
(* Values of the portfolio.                                                *)

Held(s) == pos[s].quantity > 0

OpenPositions == Cardinality({s \in Symbols : Held(s)})

InvestedValue ==
  SumFunction([s \in Symbols |-> pos[s].quantity * Reference(mark[s]) * BPS * BPS])

PortfolioValue == cash + InvestedValue

Reserve == (equity * CashReservePct) \div BPS

MaxExposure == (equity * MaxTotalExposurePct) \div BPS

-----------------------------------------------------------------------------
(* The loops: symbols are visited in ascending order, one per step.        *)

Turn(s) == s \in todo /\ \A t \in todo : s <= t

Visit(p, s) == phase = p /\ Turn(s) /\ todo' = todo \ {s}

Go(p, symbols) == phase' = p /\ todo' = symbols

(* A definition Fault_... is the one that follows it with a plausible bug; *)
(* only the tests of the properties use it.                                *)
Fault_TradeUnmetered(s, quantity) ==
  UNCHANGED liq /\ traded' = [traded EXCEPT ![s] = @ + quantity]

(* Every fill uses up the volume budget of its bar.                        *)
Trade(s, quantity) ==
  /\ liq' = [liq EXCEPT ![s] = @ - quantity]
  /\ traded' = [traded EXCEPT ![s] = @ + quantity]

SellFill(s) == Smaller(pos[s].quantity, liq[s])

(* What a sell leaves of the position (_exit_position): the entry fees     *)
(* leave it in proportion to the shares sold, the realized pnl piles up.   *)
FeeShare(s) == (pos[s].fees * SellFill(s)) \div pos[s].quantity

SellPnl(s, price) ==
  (price - pos[s].average) * SellFill(s) * BPS - FeeShare(s) - Fee(price, SellFill(s))

Fault_RemainderKeepsFees(s, price) ==
  [pos[s] EXCEPT !.quantity = @ - SellFill(s), !.pnl = @ + SellPnl(s, price)]

Remainder(s, price) ==
  [pos[s] EXCEPT !.quantity = @ - SellFill(s), !.fees = @ - FeeShare(s),
                 !.pnl = @ + SellPnl(s, price)]

ExitPosition(s, ref) ==
  LET fill   == SellFill(s)
      price  == SellExecutionPrice(ref, fill, bar[s].volume)
      left   == Remainder(s, price)
      closed == left.quantity = 0
  IN  /\ cash' = cash + Value(price, fill) - Fee(price, fill)
      /\ pos' = [pos EXCEPT ![s] = IF closed THEN Flat ELSE left]
      /\ realized' = realized + SellPnl(s, price)
      /\ roundTripPnl' = IF closed THEN roundTripPnl + left.pnl ELSE roundTripPnl
      /\ Trade(s, fill)

(* Without liquidity the sell is rejected and nothing is booked.           *)
SellWhatFills(s, ref) ==
  \/ SellFill(s) > 0 /\ ExitPosition(s, ref)
  \/ SellFill(s) <= 0 /\ UNCHANGED <<book, liq, traded>>

-----------------------------------------------------------------------------
Init ==
  /\ cash = InitialEquity
  /\ pos = [s \in Symbols |-> Flat]
  /\ pending = [s \in Symbols |-> "hold"]
  /\ forced = [s \in Symbols |-> "none"]
  /\ bar = [s \in Symbols |-> NoBar]
  /\ mark = [s \in Symbols |-> 0]
  /\ liq = [s \in Symbols |-> 0]
  /\ phase = "open" /\ todo = {} /\ batch = {}
  /\ exitedAtOpen = {} /\ partialExits = {}
  /\ equity = 0
  /\ wanted = [s \in Symbols |-> 0]
  /\ newPositions = 0 /\ entriesToday = 0
  /\ lastPoint = InitialEquity
  /\ realized = 0 /\ roundTripPnl = 0
  /\ traded = [s \in Symbols |-> 0]
  /\ batches = 0

(* The next timestamp: any symbols may have a bar there, and it may be the *)
(* first of its day.  The volume of each bar is its budget of shares.      *)
OpenBatch ==
  /\ phase = "open" /\ batches < MaxBatches
  /\ \E here \in SUBSET Symbols \ {{}} : \E new \in [here -> Bars] :
       /\ bar' = [s \in Symbols |-> IF s \in here THEN new[s] ELSE bar[s]]
       /\ mark' = [s \in Symbols |-> IF s \in here THEN new[s].open ELSE mark[s]]
       /\ liq' = [s \in Symbols |-> IF s \in here THEN VolumeCapacity(new[s].volume)
                                    ELSE liq[s]]
       /\ traded' = [s \in Symbols |-> IF s \in here THEN 0 ELSE traded[s]]
       /\ batch' = here
       /\ Go("protect", here)
  /\ entriesToday' \in {0, entriesToday}
  /\ batches' = batches + 1
  /\ UNCHANGED <<book, sizing, pending, forced, exitedAtOpen, partialExits, lastPoint>>

Fault_GapBeforeForced(s) ==
  IF Held(s) /\ Reference(bar[s].open) >= pos[s].target THEN "take_profit"
  ELSE IF Held(s) /\ Reference(bar[s].open) <= pos[s].stop THEN "stop_loss"
  ELSE forced[s]

(* Protection at the open: an exit left unfinished, or the open beyond the *)
(* stop or the target (_gap_exit_price).  Whatever becomes of it, the      *)
(* symbol is not looked at again before the next timestamp.                *)
ReasonAtOpen(s) ==
  IF forced[s] # "none" THEN forced[s]
  ELSE IF ~Held(s) THEN "none"
  ELSE IF Reference(bar[s].open) <= pos[s].stop THEN "stop_loss"
  ELSE IF Reference(bar[s].open) >= pos[s].target THEN "take_profit"
  ELSE "none"

Fault_ForceTargets(s, reason) ==
  IF SellFill(s) > 0 /\ SellFill(s) = pos[s].quantity THEN "none" ELSE reason

Fault_ForgetUnfilled(s, reason) ==
  IF reason = "take_profit" \/ SellFill(s) \in {0, pos[s].quantity} THEN "none"
  ELSE reason

(* A stop is pursued until the position is closed, a target is a limit     *)
(* order that waits for its price again.                                   *)
ForcedAfter(s, reason) ==
  IF reason = "take_profit" \/ (SellFill(s) > 0 /\ SellFill(s) = pos[s].quantity)
  THEN "none" ELSE reason

ProtectAtOpen(s) ==
  /\ Visit("protect", s)
  /\ ReasonAtOpen(s) # "none"
  /\ SellWhatFills(s, Reference(bar[s].open))
  /\ forced' = [forced EXCEPT ![s] = ForcedAfter(s, ReasonAtOpen(s))]
  /\ exitedAtOpen' = exitedAtOpen \cup {s}
  /\ UNCHANGED <<market, sizing, pending, phase, partialExits, lastPoint>>

SellSignalled(s) == s \notin exitedAtOpen /\ pending[s] = "sell" /\ Held(s)

(* The sell signals of the previous closes; what does not fill is kept.    *)
SignalExit(s) ==
  /\ Visit("signal", s)
  /\ SellSignalled(s)
  /\ SellWhatFills(s, Reference(bar[s].open))
  /\ partialExits' = IF SellFill(s) < pos[s].quantity
                     THEN partialExits \cup {s} ELSE partialExits
  /\ exitedAtOpen' = exitedAtOpen \cup {s}
  /\ UNCHANGED <<market, sizing, pending, forced, phase, lastPoint>>

Fault_ReboundCandidates ==
  {s \in batch : pending[s] = "buy" /\ ~Held(s) /\ forced[s] = "none"}

(* One snapshot of the equity sizes every buy of the timestamp.            *)
Candidates ==
  {s \in batch : /\ pending[s] = "buy" /\ ~Held(s)
                 /\ s \notin exitedAtOpen /\ forced[s] = "none"}

Size ==
  /\ phase = "size"
  /\ equity' = PortfolioValue
  /\ wanted' = [s \in Symbols |->
       IF s \in Candidates
       THEN PositionSize(AtLeastZero(cash - (PortfolioValue * CashReservePct) \div BPS),
                         PortfolioValue, Reference(bar[s].open))
       ELSE 0]
  /\ newPositions' = 0
  /\ Go("allocate", Candidates)
  /\ UNCHANGED <<book, market, liq, traded, pending, forced, exitedAtOpen,
                 partialExits, lastPoint>>

-----------------------------------------------------------------------------
(* Allocation: the limits are read again before each buy.                  *)

Fault_SnapshotLimits ==
  [ cash |-> AtLeastZero(cash - Reserve), exposure |-> MaxExposure, equity |-> equity ]

Limits == [ cash     |-> AtLeastZero(cash - Reserve),
            exposure |-> AtLeastZero(MaxExposure - InvestedValue),
            equity   |-> equity ]

Allocated(s) ==
  MaxEntryQuantity(wanted[s], liq[s], Reference(bar[s].open), bar[s].volume, Limits)

LimitHit ==
  \/ OpenPositions >= MaxOpenPositions
  \/ newPositions >= MaxNewPositionsPerBar

EntryPrice(s, q) == BuyExecutionPrice(Reference(bar[s].open), q, bar[s].volume)

EntryCost(s, q) == Value(EntryPrice(s, q), q) + Fee(EntryPrice(s, q), q)

RiskApproved(s, q) ==
  IF ~UseRiskAgent THEN q
  ELSE IF RiskViolated(q, EntryPrice(s, q), entriesToday, MaxTradesPerDay, EmergencyHalt)
       THEN 0
  ELSE RiskQuantity(q, EntryPrice(s, q), equity)

Fault_BuyTheRequest(s) ==
  IF LimitHit \/ Allocated(s) <= 0 THEN 0 ELSE wanted[s]

(* What the buy of s comes to, 0 when one of the four stages refuses it:   *)
(* no liquidity, no allocation, no approval, no cash.                      *)
EntryQuantity(s) ==
  LET q == RiskApproved(s, Allocated(s))
  IN  IF \/ wanted[s] > 0 /\ liq[s] <= 0
         \/ LimitHit
         \/ Allocated(s) <= 0
         \/ q <= 0
         \/ cash < EntryCost(s, q)
      THEN 0 ELSE q

Enter(s) ==
  /\ Visit("allocate", s)
  /\ EntryQuantity(s) > 0
  /\ LET q     == EntryQuantity(s)
         price == EntryPrice(s, q)
     IN  /\ cash' = cash - EntryCost(s, q)
         /\ pos' = [pos EXCEPT ![s] =
              [@ EXCEPT !.quantity = q, !.average = price, !.fees = Fee(price, q),
                        !.stop = StopLossPrice(price), !.target = TakeProfitPrice(price)]]
         /\ Trade(s, q)
  /\ entriesToday' = entriesToday + 1
  /\ newPositions' = newPositions + 1
  /\ UNCHANGED <<realized, roundTripPnl, bar, mark, batch, batches, equity, wanted,
                 pending, forced, phase, exitedAtOpen, partialExits, lastPoint>>

Refuse(s) ==
  /\ Visit("allocate", s)
  /\ EntryQuantity(s) = 0
  /\ UNCHANGED <<book, market, sizing, liq, traded, pending, forced, phase,
                 exitedAtOpen, partialExits, lastPoint>>

-----------------------------------------------------------------------------
Fault_TargetFirst(s) ==
  IF s \in exitedAtOpen \/ forced[s] # "none" \/ ~Held(s) THEN "none"
  ELSE IF Reference(bar[s].high) >= pos[s].target THEN "take_profit"
  ELSE IF Reference(bar[s].low) <= pos[s].stop THEN "stop_loss"
  ELSE "none"

(* Protection inside the bar (_intrabar_exit_price): the stop first, never *)
(* at a better price than the open; the target at the open if that is      *)
(* better.                                                                 *)
ReasonInBar(s) ==
  IF s \in exitedAtOpen \/ forced[s] # "none" \/ ~Held(s) THEN "none"
  ELSE IF Reference(bar[s].low) <= pos[s].stop THEN "stop_loss"
  ELSE IF Reference(bar[s].high) >= pos[s].target THEN "take_profit"
  ELSE "none"

ExitReference(s) ==
  LET atOpen == Reference(bar[s].open)
  IN  IF ReasonInBar(s) = "stop_loss" THEN Smaller(pos[s].stop, atOpen)
      ELSE IF pos[s].target >= atOpen THEN pos[s].target ELSE atOpen

ProtectInBar(s) ==
  /\ Visit("intrabar", s)
  /\ ReasonInBar(s) # "none"
  /\ SellWhatFills(s, ExitReference(s))
  /\ forced' = [forced EXCEPT ![s] = ForcedAfter(s, ReasonInBar(s))]
  /\ UNCHANGED <<market, sizing, pending, phase, exitedAtOpen, partialExits, lastPoint>>

(* The close: the strategy speaks for every symbol of the batch, except    *)
(* those whose sell is unfinished.                                         *)
CloseBatch ==
  /\ phase = "close"
  /\ \E signal \in [batch -> Signals] :
       pending' = [s \in Symbols |->
                     IF s \notin batch THEN pending[s]
                     ELSE IF s \in partialExits /\ Held(s) THEN "sell" ELSE signal[s]]
  /\ mark' = [s \in Symbols |-> IF s \in batch THEN bar[s].close ELSE mark[s]]
  /\ exitedAtOpen' = {} /\ partialExits' = {}   \* the next timestamp sets
  /\ equity' = 0 /\ newPositions' = 0            \* these before it reads them
  /\ wanted' = [s \in Symbols |-> 0]
  /\ Go("open", {})
  /\ UNCHANGED <<book, bar, batch, batches, entriesToday, liq, traded, forced>>
  /\ lastPoint' = PortfolioValue'

(* A symbol the current loop has nothing to do for.                        *)
Skip(s) ==
  /\ Turn(s) /\ todo' = todo \ {s}
  /\ \/ phase = "protect" /\ ReasonAtOpen(s) = "none"
     \/ phase = "signal" /\ ~SellSignalled(s)
     \/ phase = "intrabar" /\ ReasonInBar(s) = "none"
  /\ UNCHANGED <<book, market, sizing, liq, traded, pending, forced, phase,
                 exitedAtOpen, partialExits, lastPoint>>

(* The end of a loop is the start of the next.                             *)
NextLoop ==
  /\ todo = {}
  /\ \/ phase = "protect" /\ Go("signal", batch)
     \/ phase = "signal" /\ Go("size", {})
     \/ phase = "allocate" /\ Go("intrabar", batch)
     \/ phase = "intrabar" /\ Go("close", {})
  /\ UNCHANGED <<book, market, sizing, liq, traded, pending, forced,
                 exitedAtOpen, partialExits, lastPoint>>

-----------------------------------------------------------------------------
(* The end of the data: with force_close_at_end what is left is sold at    *)
(* the last close, as far as the last bar's volume goes, and the last      *)
(* point of the curve is taken again.                                      *)
EndOfData ==
  /\ phase = "open"
  /\ IF ForceCloseAtEnd
     THEN Go("liquidate", {s \in Symbols : Held(s) /\ bar[s] # NoBar})
     ELSE Go("done", {})
  /\ UNCHANGED <<book, market, sizing, liq, traded, pending, forced,
                 exitedAtOpen, partialExits, lastPoint>>

(* Like every loop over symbols here, in alphabetical order.  The code      *)
(* takes the positions in the order of the request, which shows only in    *)
(* the order of the fills: the sells share nothing but the cash they add.  *)
Liquidate(s) ==
  /\ Visit("liquidate", s)
  /\ SellWhatFills(s, Reference(bar[s].close))
  /\ UNCHANGED <<market, sizing, pending, forced, phase, exitedAtOpen,
                 partialExits, lastPoint>>

Fault_FinishKeepsCurve ==
  /\ phase = "liquidate" /\ todo = {}
  /\ Go("done", {})
  /\ UNCHANGED <<book, market, sizing, liq, traded, pending, forced,
                 exitedAtOpen, partialExits, lastPoint>>

Finish ==
  /\ phase = "liquidate" /\ todo = {}
  /\ Go("done", {})
  /\ lastPoint' = IF batches > 0 THEN PortfolioValue ELSE lastPoint
  /\ UNCHANGED <<book, market, sizing, liq, traded, pending, forced,
                 exitedAtOpen, partialExits>>

Next ==
  \/ OpenBatch
  \/ Size
  \/ CloseBatch
  \/ NextLoop
  \/ EndOfData
  \/ Finish
  \/ \E s \in Symbols : \/ ProtectAtOpen(s)
                        \/ SignalExit(s)
                        \/ Enter(s)
                        \/ Refuse(s)
                        \/ ProtectInBar(s)
                        \/ Skip(s)
                        \/ Liquidate(s)

Spec == Init /\ [][Next]_vars
-----------------------------------------------------------------------------
TypeOK ==
  /\ cash \in Int /\ realized \in Int /\ roundTripPnl \in Int
  /\ pos \in [Symbols -> Position]
  /\ pending \in [Symbols -> Signals]
  /\ forced \in [Symbols -> Reasons]
  /\ bar \in [Symbols -> Bars \cup {NoBar}]
  /\ mark \in [Symbols -> Nat]
  /\ liq \in [Symbols -> Nat] /\ traded \in [Symbols -> Nat]
  /\ phase \in Phases
  /\ {todo, batch, exitedAtOpen, partialExits} \subseteq SUBSET Symbols
  /\ wanted \in [Symbols -> Nat] /\ equity \in Int /\ lastPoint \in Int
  /\ newPositions \in Nat /\ entriesToday \in Nat /\ batches \in Nat

(* Every cent is accounted for: what was paid for the open positions, fees *)
(* included, plus the cash is the initial equity plus what the sells       *)
(* realized, and the sells of positions still open are the only ones that  *)
(* are in no round trip yet (engine.py:142-159, :258, metrics).            *)
Accounting ==
  /\ cash + SumFunction([s \in Symbols |->
               pos[s].average * pos[s].quantity * BPS + pos[s].fees])
       = InitialEquity + realized
  /\ realized = roundTripPnl + SumFunction([s \in Symbols |-> pos[s].pnl])

(* The reported net profit is the realized plus the unrealized one: the    *)
(* last point of the curve is the portfolio the metrics look at, with or   *)
(* without a liquidation at the end (engine.py:245-258, :900-914).         *)
NetProfitExplained ==
  phase = "done" =>
    lastPoint = InitialEquity + realized + SumFunction([s \in Symbols |->
      (Reference(mark[s]) * BPS - pos[s].average) * pos[s].quantity * BPS - pos[s].fees])

(* No bar ever trades more than its participation cap, entries, exits and  *)
(* the final liquidation together (engine.py:407-414, :478, :708, :895).   *)
WithinBarVolume ==
  \A s \in Symbols : traded[s] <= VolumeCapacity(bar[s].volume)

(* Shares come in whole increments, partial fills and all                  *)
(* (docs/EXECUTION_REALISM.md:37, quantize_quantity).                      *)
WholeIncrements ==
  \A s \in Symbols : pos[s].quantity % QuantityIncrement = 0

(* The account is never overdrawn, neither by a buy nor by the costs of a  *)
(* sell (engine.py:696, :707, :150).                                       *)
CashNonNegative == cash >= 0

(* Never more positions than max_open_positions, however many buys one     *)
(* timestamp decides (engine.py:583, :619).                                *)
PositionsBounded == OpenPositions <= MaxOpenPositions

(* With the risk agent on, the day's entries stop at its limit             *)
(* (risk_adapter.py:25, engine.py:710).                                    *)
DayLimited == UseRiskAgent => entriesToday <= MaxTradesPerDay

(* An exit is pursued only for shares that exist, and a target never       *)
(* becomes a market order (engine.py:446, :480, :783, :816).               *)
ForcedExitsAreStops ==
  \A s \in Symbols : forced[s] = "none" \/ (forced[s] = "stop_loss" /\ Held(s))

(* A stop touched inside a bar is sold or pursued: when the timestamp ends *)
(* no position that did not already trade at the open is still held below  *)
(* its stop and forgotten (engine.py:757-820).                             *)
StopBreachRemembered ==
  phase = "close" =>
    \A s \in batch \ exitedAtOpen :
      Held(s) /\ Reference(bar[s].low) <= pos[s].stop => forced[s] = "stop_loss"

(* The allocator and the risk adapter enforce the same limits: what the    *)
(* first allots the second never cuts, and it can be paid, so the last     *)
(* check before a buy cannot fail (engine.py:602-705, risk_adapter.py:41). *)
AllocationStands ==
  phase = "allocate" =>
    \A s \in todo :
      LET q == Allocated(s)
      IN  q > 0 => /\ RiskQuantity(q, EntryPrice(s, q), equity) = q
                   /\ EntryCost(s, q) <= cash

Bought(s) == pos'[s].quantity > pos[s].quantity
Sold(s) == pos'[s].quantity < pos[s].quantity

(* What the allocator decides stands: nothing after it cuts an allocation, *)
(* and shares stay in whole increments through every partial fill.         *)
FillsStand == WholeIncrements /\ AllocationStands

(* Buys sized from one snapshot of cash and equity neither exceed the      *)
(* position limit together nor overdraw the account.                       *)
SnapshotSuffices == PositionsBounded /\ CashNonNegative

(* The account is explained to the cent, at every fill and at the end.     *)
AccountExplained == Accounting /\ NetProfitExplained

(* A buy leaves the reserve untouched and the exposure at the open under   *)
(* its cap, both taken from the equity before any buy of the timestamp,    *)
(* though the costs of the buys have lowered it since (engine.py:547-590). *)
BuyInLimits(s) ==
  Bought(s) => /\ cash' >= Reserve
               /\ InvestedValue' <= MaxExposure
               /\ newPositions' <= MaxNewPositionsPerBar

BuysWithinPortfolioLimits == [][\A s \in Symbols : BuyInLimits(s)]_vars

(* All limits of the portfolio at once: positions, entries of the day, and *)
(* those of the buys (engine.py:547-740).                                  *)
WithinLimits ==
  [][ /\ PositionsBounded' /\ DayLimited'
      /\ \A s \in Symbols : BuyInLimits(s) ]_vars

(* A symbol that was sold at an open is not bought back at the same open,  *)
(* whatever its signal says (engine.py:485, :556).                         *)
NoBuyBackAtTheOpen ==
  [][\A s \in Symbols : Bought(s) => traded[s] = 0]_vars

(* Once a stop is triggered it is given up only when nothing is left       *)
(* (engine.py:426-484; tests/test_volume_aware_execution.py:98).           *)
StopPursued(s) ==
  forced[s] = "stop_loss" =>
    pos'[s] = Flat \/ (forced'[s] = "stop_loss" /\ ~Bought(s))

StopsArePursued == [][\A s \in Symbols : StopPursued(s)]_vars

(* A stop is remembered from the bar that touched it, pursued until        *)
(* nothing is left, and never longer (engine.py:426-484, :757-820).        *)
StopsAreWorkedOff ==
  [][ /\ StopBreachRemembered' /\ ForcedExitsAreStops'
      /\ \A s \in Symbols : StopPursued(s) ]_vars

(* When a bar touches the stop, the shares sold inside it bring no more    *)
(* than the stop and no more than the open, even if the bar also touches   *)
(* the target (engine.py:197-211, README.md:53-54).                        *)
StopIsConservative ==
  [][\A s \in Symbols :
       phase = "intrabar" /\ Sold(s) /\ Reference(bar[s].low) <= pos[s].stop =>
         cash' - cash <= Smaller(pos[s].stop, Reference(bar[s].open))
                           * (pos[s].quantity - pos'[s].quantity) * BPS * BPS]_vars

(* A backtest that is too good: buying at an open what was sold there, or  *)
(* selling beyond the stop that the bar touched (engine.py:485, :197-211). *)
FillsAreConservative == NoBuyBackAtTheOpen /\ StopIsConservative

(* A sell signal is worked off from the next bar on until the position is  *)
(* closed: "signal generated at bar close -> order evaluated at the next   *)
(* available bar open" (docs/EXECUTION_REALISM.md:55-56) and "continues an *)
(* unfinished exit on later bars" (README.md:163).                         *)
SellSignalWorkedOff ==
  [][\A s \in Symbols :
       phase = "close" /\ s \in batch /\ pending[s] = "sell" /\ Held(s)
         => pending'[s] = "sell" \/ forced[s] # "none"]_vars

(* A sell never has a negative price: the combination of adjustments that  *)
(* makes one is meant to be refused with the request (models.py:76-77,     *)
(* tests/test_volume_aware_execution.py:89).                               *)
SellPricesPositive ==
  \A s \in Symbols :
    Held(s) => SellExecutionPrice(Reference(bar[s].open), SellFill(s), bar[s].volume) > 0
=============================================================================
