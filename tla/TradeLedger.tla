---------------------------- MODULE TradeLedger ----------------------------
(***************************************************************************)
(* What a run of Engine leaves behind: the fills and the equity curve that *)
(* _run_backtest appends to, the metrics _trade_metrics takes over them,   *)
(* and the closed trades and the curve that app/publisher.py makes of them *)
(* for the database.                                                       *)
(*                                                                         *)
(* A fill keeps the fields that somebody computes with, rounded as the     *)
(* code reports them: a price to its fourth decimal, money to cents.  What *)
(* is made of the fills is made of these numbers, and so agrees with the   *)
(* account, which is exact, up to the roundings.                           *)
(***************************************************************************)
EXTENDS Engine, Rounding, SequencesExt

VARIABLES
  trades,        \* the SimulatedTrade fills, in the order they were booked
  curve,         \* equity_curve
  barAt          \* the timestamp of last_bars: a number, 0 before any

record == <<trades, curve, barAt>>
ledgerVars == <<vars, record>>

-----------------------------------------------------------------------------
(* The fills.  A definition Fault_... is the one that follows it with a    *)
(* plausible bug; only the tests of the properties use it.                 *)

BuyTrade(s) ==
  LET q     == EntryQuantity(s)
      price == EntryPrice(s, q)
  IN  [ symbol |-> s, side |-> "buy", quantity |-> q, price |-> ToTick(price),
        fees |-> ToCent(Fee(price, q)), at |-> barAt[s], pnl |-> 0,
        closed |-> FALSE, roundTrip |-> 0,
        reference |-> Reference(bar[s].open), impact |-> MarketImpact(q, bar[s].volume) ]

SellTrade(s, ref) ==
  LET q     == SellFill(s)
      price == SellExecutionPrice(ref, q, bar[s].volume)
      left  == Remainder(s, price)
  IN  [ symbol |-> s, side |-> "sell", quantity |-> q, price |-> ToTick(price),
        fees |-> ToCent(Fee(price, q)), at |-> barAt[s], pnl |-> ToCent(SellPnl(s, price)),
        closed |-> left.quantity = 0,
        roundTrip |-> IF left.quantity = 0 THEN ToCent(left.pnl) ELSE 0,
        reference |-> ref, impact |-> MarketImpact(q, bar[s].volume) ]

Reported(new) == trades' = trades \o new /\ UNCHANGED <<curve, barAt>>

SellReported(s, ref) == Reported(IF SellFill(s) > 0 THEN <<SellTrade(s, ref)>> ELSE <<>>)

Fault_NoPoint(points) == points

(* The liquidation at the end takes the point of the last timestamp again. *)
FinalPoint(points) ==
  IF points = <<>> THEN points
  ELSE [points EXCEPT ![Len(points)] = ToCent(PortfolioValue)]

LedgerInit ==
  /\ Init
  /\ trades = <<>> /\ curve = <<>>
  /\ barAt = [s \in Symbols |-> 0]

LedgerNext ==
  \/ /\ OpenBatch
     /\ barAt' = [s \in Symbols |-> IF s \in batch' THEN batches' ELSE barAt[s]]
     /\ UNCHANGED <<trades, curve>>
  \/ CloseBatch /\ curve' = Append(curve, ToCent(lastPoint')) /\ UNCHANGED <<trades, barAt>>
  \/ Finish /\ curve' = FinalPoint(curve) /\ UNCHANGED <<trades, barAt>>
  \/ Size /\ Reported(<<>>)
  \/ NextLoop /\ Reported(<<>>)
  \/ EndOfData /\ Reported(<<>>)
  \/ \E s \in Symbols :
       \/ ProtectAtOpen(s) /\ SellReported(s, Reference(bar[s].open))
       \/ SignalExit(s) /\ SellReported(s, Reference(bar[s].open))
       \/ Enter(s) /\ Reported(<<BuyTrade(s)>>)
       \/ Refuse(s) /\ Reported(<<>>)
       \/ ProtectInBar(s) /\ SellReported(s, ExitReference(s))
       \/ Skip(s) /\ Reported(<<>>)
       \/ Liquidate(s) /\ SellReported(s, Reference(bar[s].close))

LedgerSpec == LedgerInit /\ [][LedgerNext]_ledgerVars

-----------------------------------------------------------------------------
(* The metrics (_trade_metrics).                                           *)

Exits == {i \in 1..Len(trades) : trades[i].side = "sell"}

(* One trade is one round trip, however many fills its exit took.          *)
RoundTrips == {i \in Exits : trades[i].closed}
Winners == {i \in RoundTrips : trades[i].roundTrip > 0}
Losers == {i \in RoundTrips : trades[i].roundTrip < 0}

Fault_TradeMetricsPerFill ==
  LET won  == {i \in Exits : trades[i].pnl > 0}
      lost == {i \in Exits : trades[i].pnl < 0}
  IN  [ tradeCount |-> Cardinality(Exits),
        winners |-> Cardinality(won), losers |-> Cardinality(lost),
        grossProfit |-> SumFunction([i \in won |-> trades[i].pnl]),
        grossLoss |-> SumFunction([i \in lost |-> trades[i].pnl]),
        realized |-> SumFunction([i \in Exits |-> trades[i].pnl]),
        openPositions |-> OpenPositions ]

TradeMetrics ==
  [ tradeCount |-> Cardinality(RoundTrips),
    winners |-> Cardinality(Winners), losers |-> Cardinality(Losers),
    grossProfit |-> SumFunction([i \in Winners |-> trades[i].roundTrip]),
    grossLoss |-> SumFunction([i \in Losers |-> trades[i].roundTrip]),
    realized |-> SumFunction([i \in Exits |-> trades[i].pnl]),
    openPositions |-> OpenPositions ]

(* The depth of a fall from the peak, in 1/BPS of it, truncated.           *)
Depth(peak, equity1) == IF peak = 0 THEN 0 ELSE ((peak - equity1) * BPS) \div peak

(* The highest of the first n points.                                      *)
PeakUpTo(n) == Max({curve[i] : i \in 1..n})

(* The deepest fall below the peak, of which the equity before the first   *)
(* timestamp is one (max_drawdown).                                        *)
MaxDrawdown ==
  Max({0} \cup {Depth(Max({InitialEquity, PeakUpTo(n)}), curve[n]) : n \in 1..Len(curve)})

-----------------------------------------------------------------------------
(* The closed trades of the publisher (_trade_pairs): one row per sell.    *)

Nothing == [ remaining |-> 0 ]

Outcome(pnl) == IF pnl > 0 THEN "win" ELSE IF pnl < 0 THEN "loss" ELSE "breakeven"

Fault_RowUndividedFees(entry, exit) ==
  [ symbol |-> exit.symbol, quantity |-> Smaller(exit.quantity, entry.remaining),
    entryPrice |-> entry.price, exitPrice |-> exit.price, pnl |-> exit.pnl,
    entryFees |-> entry.fees, fees |-> ToCent(entry.fees + exit.fees),
    entryTime |-> entry.at, exitTime |-> exit.at, outcome |-> Outcome(exit.pnl) ]

(* The entry fees are shared in proportion to the shares closed, and       *)
(* rounded again with the fees of the exit.                                *)
Row(entry, exit) ==
  LET closed == Smaller(exit.quantity, entry.remaining)
      share  == (entry.fees * closed) \div entry.remaining
  IN  [ symbol |-> exit.symbol, quantity |-> closed,
        entryPrice |-> entry.price, exitPrice |-> exit.price, pnl |-> exit.pnl,
        entryFees |-> share, fees |-> ToCent(share + exit.fees),
        entryTime |-> entry.at, exitTime |-> exit.at, outcome |-> Outcome(exit.pnl) ]

Fault_AfterAll(entry, row) == Nothing

(* What is left of an entry; an entry without shares is dropped.           *)
After(entry, row) ==
  IF entry.remaining = row.quantity THEN Nothing
  ELSE [entry EXCEPT !.remaining = @ - row.quantity, !.fees = @ - row.entryFees]

(* A buy replaces what the symbol's last one left; a sell without an entry *)
(* is passed over.                                                         *)
Pair(acc, f) ==
  IF f.side = "buy"
  THEN [acc EXCEPT !.entries[f.symbol] =
          [remaining |-> f.quantity, price |-> f.price, fees |-> f.fees, at |-> f.at]]
  ELSE IF acc.entries[f.symbol] = Nothing THEN acc
  ELSE LET row == Row(acc.entries[f.symbol], f)
       IN  [ rows |-> Append(acc.rows, row),
             entries |-> [acc.entries EXCEPT ![f.symbol] = After(@, row)] ]

(* The fills one after the other.                                          *)
PairingOf(fills) ==
  LET after[n \in 0..Len(fills)] ==
        IF n = 0 THEN [ rows |-> <<>>, entries |-> [s \in Symbols |-> Nothing] ]
        ELSE Pair(after[n - 1], fills[n])
  IN  after[Len(fills)]

Pairing == PairingOf(trades)

TradePairs == Pairing.rows

(* The curve rows (_equity_curve_rows): each with its fall from the peak   *)
(* of the points so far, of which the initial equity is none.              *)
CurveRows ==
  [n \in 1..Len(curve) |-> [ equity |-> curve[n], peak |-> PeakUpTo(n),
                             drawdown |-> Depth(PeakUpTo(n), curve[n]) ]]

(* build_database_backtest_payload, as far as it is about the run.         *)
Payload == [ symbols |-> Symbols, metrics |-> TradeMetrics, maxDrawdown |-> MaxDrawdown,
             trades |-> TradePairs, equityCurve |-> CurveRows ]

-----------------------------------------------------------------------------
(* What is published is the whole of the account's history: the rows and   *)
(* the sells are as many and in the same order, row by row of the same     *)
(* symbol, quantity and time, and the entry of a row was bought before its *)
(* exit.  No sell is passed over for want of an entry, none is cut to what *)
(* an entry has left (publisher.py:57-66).                                 *)
EverySellIsPublished ==
  /\ Len(TradePairs) = Cardinality(Exits)
  /\ \A i \in Exits :
       LET row == TradePairs[Cardinality({j \in Exits : j <= i})]
       IN  /\ row.symbol = trades[i].symbol /\ row.quantity = trades[i].quantity
           /\ row.exitTime = trades[i].at /\ row.entryTime <= row.exitTime

(* A published row explains its own profit: the two prices, the quantity   *)
(* and the fees it names give its realized_pl up to their roundings, a     *)
(* tick a share and two cents, though the publisher shares out the entry   *)
(* fees again by itself (publisher.py:62-78, engine.py:142).               *)
RowsExplainTheirProfit ==
  \A i \in 1..Len(TradePairs) :
    LET row == TradePairs[i]
    IN  Off(row.pnl, (row.exitPrice - row.entryPrice) * row.quantity * BPS - row.fees)
          <= TickValue * row.quantity + 2 * Cent

(* The rows, the metrics beside them and the account agree: the rows give  *)
(* the realized profit of the metrics, and both the account's; the round   *)
(* trips give what the closed positions brought, and the fees of rows and  *)
(* open entries all that was reported as paid - each up to half a cent for *)
(* every number in the sum. The entries still open are the open positions  *)
(* (publisher.py:176-205, engine.py:230-258).                              *)
RowsAgreeWithTheAccount ==
  LET entries == Pairing.entries
      rows    == 1..Len(TradePairs)
      fees    == SumFunction([n \in rows |-> TradePairs[n].fees])
                   + SumFunction([s \in Symbols |-> IF entries[s] = Nothing THEN 0
                                                    ELSE entries[s].fees])
  IN  /\ SumFunction([n \in rows |-> TradePairs[n].pnl]) = TradeMetrics.realized
      /\ 2 * Off(TradeMetrics.realized, realized) <= Cent * Len(TradePairs)
      /\ 2 * Off(TradeMetrics.grossProfit + TradeMetrics.grossLoss, roundTripPnl)
           <= Cent * TradeMetrics.tradeCount
      /\ TradeMetrics.winners + TradeMetrics.losers <= TradeMetrics.tradeCount
      /\ 2 * Off(fees, SumFunction([i \in 1..Len(trades) |-> trades[i].fees]))
           <= Cent * Len(TradePairs)
      /\ \A s \in Symbols : entries[s].remaining = pos[s].quantity

(* The curve that is published never falls deeper than the max_drawdown    *)
(* published with it, also after the liquidation has replaced its last     *)
(* point, and ends with the final equity (engine.py:55-67, :900-914;       *)
(* publisher.py:104-117).                                                  *)
CurveAgreesWithDrawdown ==
  phase = "done" /\ curve # <<>> =>
    /\ \A i \in 1..Len(CurveRows) : CurveRows[i].drawdown <= Payload.maxDrawdown
    /\ CurveRows[Len(CurveRows)].equity = ToCent(PortfolioValue)

(* What is published of a run is true of it: every sell, each row's own    *)
(* profit, the totals beside them, and the curve (app/publisher.py).       *)
PublishedIsTrue ==
  /\ EverySellIsPublished /\ RowsExplainTheirProfit
  /\ RowsAgreeWithTheAccount /\ CurveAgreesWithDrawdown
=============================================================================
