---------------------------- MODULE FillEvidence ----------------------------
(***************************************************************************)
(* The evidence chain over the fills of a nested walk-forward report:      *)
(* phase9_oos_fill_evidence collects the fills of the test windows and     *)
(* checks that none is missing, phase 10 rebuilds the closed positions     *)
(* from them, phase 11 describes their losses and phase 12 decomposes      *)
(* their costs.  Each is a function of the report; the market regimes,     *)
(* which no caller supplies by default, are left out.                      *)
(*                                                                         *)
(* A window is [decision, strategy, recorded, fills, fillCount, feesPaid,  *)
(* start, end] and a fill is one of TradeLedger, with rounded prices and   *)
(* money.  The tolerances are the code's: 0.03 is 3 cents, 0.00006 of a    *)
(* share 0.6 ticks, and Beyond counts in tenths.  An error is a name,      *)
(* counted once.                                                           *)
(***************************************************************************)
EXTENDS Rounding, SequencesExt

NoStrategy == "none"

-----------------------------------------------------------------------------
(* Phase 9.                                                                *)

FeesOf(fills) == SumFunction([i \in 1..Len(fills) |-> fills[i].fees])

FillErrors(w, fill) ==
  {e \in {"fill_outside_oos_window", "invalid_fill_quantity", "invalid_fill_price",
          "invalid_fill_fees"} :
     \/ e = "fill_outside_oos_window" /\ ~(w.start <= fill.at /\ fill.at <= w.end)
     \/ e = "invalid_fill_quantity" /\ fill.quantity <= 0
     \/ e = "invalid_fill_price" /\ fill.price <= 0
     \/ e = "invalid_fill_fees" /\ fill.fees < 0}

(* A source that is not recorded counts as one without fills.              *)
Available(w) == IF w.recorded THEN w.fills ELSE <<>>

TradeErrors(w) ==
  {e \in {"oos_fill_source_unavailable", "missing_selected_strategy_id",
          "oos_fill_count_mismatch", "oos_fees_reconciliation_failed"} :
     \/ e = "oos_fill_source_unavailable" /\ ~w.recorded
     \/ e = "missing_selected_strategy_id" /\ w.strategy = NoStrategy
     \/ e = "oos_fill_count_mismatch" /\ w.fillCount # Len(Available(w))
     \/ /\ e = "oos_fees_reconciliation_failed"
        /\ Beyond(w.feesPaid, FeesOf(Available(w)), 11 * Cent)}
  \cup UNION {FillErrors(w, Available(w)[i]) : i \in 1..Len(Available(w))}

AbstentionErrors(w) ==
  {e \in {"abstention_has_fill_payload", "abstention_has_selected_strategy"} :
     \/ e = "abstention_has_fill_payload" /\ w.fills # <<>>
     \/ e = "abstention_has_selected_strategy" /\ w.strategy # NoStrategy}

FoldErrors(w) ==
  (IF w.start >= w.end THEN {"missing_or_invalid_oos_boundaries"} ELSE {})
  \cup CASE w.decision = "TRADE"    -> TradeErrors(w)
         [] w.decision = "NO_TRADE" -> AbstentionErrors(w)
         [] OTHER                   -> {"unknown_fold_decision"}

(* A fold is the number of its window; a fill keeps its place in the fold. *)
FoldRecords(windows, fold) ==
  LET w == windows[fold]
  IN  IF w.decision # "TRADE" THEN <<>>
      ELSE [i \in 1..Len(Available(w)) |->
              [fold |-> fold, strategy |-> w.strategy, index |-> i,
               fill |-> Available(w)[i]]]

Phase9(windows) ==
  LET folds   == 1..Len(windows)
      records == FlattenSeq([fold \in folds |-> FoldRecords(windows, fold)])
      traded == {fold \in folds : windows[fold].decision = "TRADE"}
      errors  == UNION {FoldErrors(windows[fold]) : fold \in folds}
                   \cup (IF windows = <<>> THEN {"nested_oos_evidence_unavailable"} ELSE {})
                   \cup (IF traded # {} /\ records = <<>>
                         THEN {"no_observed_oos_fills"} ELSE {})
  IN  [ records |-> records, count |-> Len(records), errors |-> errors,
        verified |-> windows # <<>> /\ traded # {} /\ records # <<>> /\ errors = {} ]

-----------------------------------------------------------------------------
(* Phase 10: a book of open positions by fold, strategy and symbol.        *)
(* A definition Fault_... is the one that follows it with a plausible bug; *)
(* only the tests of the properties use it.                                *)

EmptyBook == [ errors |-> {}, seen |-> {}, last |-> << >>, open |-> << >>, closed |-> <<>> ]

Fault_KeyWithoutFold(row) == <<0, row.strategy, row.fill.symbol>>

Key(row) == <<row.fold, row.strategy, row.fill.symbol>>

(* A dictionary with the value v at k.                                     *)
Put(f, k, v) == [j \in DOMAIN f \cup {k} |-> IF j = k THEN v ELSE f[j]]

Noted(book, error) == [book EXCEPT !.errors = @ \cup {error}]

ValidFill(fill) ==
  /\ fill.side \in {"buy", "sell"}
  /\ fill.quantity > 0 /\ fill.price > 0 /\ fill.fees >= 0

(* The fill is known from now on, and its time may not go backwards.       *)
Stamped(book, row) ==
  LET k    == Key(row)
      late == k \in DOMAIN book.last /\ row.fill.at < book.last[k]
  IN  [book EXCEPT
         !.last = Put(@, k, row.fill.at),
         !.errors = IF late THEN @ \cup {"non_monotonic_fill_timestamp"} ELSE @]

Opened(row) ==
  [ quantity |-> 0, cost |-> 0, entryFees |-> 0, entryTime |-> row.fill.at,
    entries |-> <<>>, exits |-> <<>>, gross |-> 0, fees |-> 0, net |-> 0,
    engineNet |-> 0, closedQuantity |-> 0 ]

(* A further buy joins the position: a moving average of the entries.      *)
Joined(p, row) ==
  LET f == row.fill
  IN  [ quantity |-> p.quantity + f.quantity, cost |-> p.cost + Value(f.price, f.quantity),
        entryFees |-> p.entryFees + f.fees, entryTime |-> p.entryTime,
        entries |-> Append(p.entries, row.index), exits |-> p.exits,
        gross |-> p.gross, fees |-> p.fees + f.fees, net |-> p.net,
        engineNet |-> p.engineNet, closedQuantity |-> p.closedQuantity ]

BookBuy(book, row) ==
  LET k == Key(row)
      p == IF k \in DOMAIN book.open THEN book.open[k] ELSE Opened(row)
  IN  [book EXCEPT !.open = Put(@, k, Joined(p, row)),
                     !.errors = IF Beyond(row.fill.pnl, 0, 11 * Cent)
                                THEN @ \cup {"buy_has_realized_pnl"} ELSE @]

Fault_ReducedFeesKept(p, row) ==
  LET f        == row.fill
      cost     == (p.cost * f.quantity) \div p.quantity
      gross    == Value(f.price, f.quantity) - cost
  IN  [p EXCEPT !.quantity = @ - f.quantity, !.cost = @ - cost,
                !.fees = @ + f.fees, !.gross = @ + gross,
                !.net = @ + gross - p.entryFees - f.fees,
                !.engineNet = @ + f.pnl, !.closedQuantity = @ + f.quantity,
                !.exits = Append(@, row.index)]

(* A sell takes its share of the cost and of the entry fees with it.       *)
Reduced(p, row) ==
  LET f        == row.fill
      cost     == (p.cost * f.quantity) \div p.quantity
      feeShare == (p.entryFees * f.quantity) \div p.quantity
      gross    == Value(f.price, f.quantity) - cost
  IN  [ quantity |-> p.quantity - f.quantity, cost |-> p.cost - cost,
        entryFees |-> p.entryFees - feeShare, entryTime |-> p.entryTime,
        entries |-> p.entries, exits |-> Append(p.exits, row.index),
        gross |-> p.gross + gross, fees |-> p.fees + f.fees,
        net |-> p.net + gross - feeShare - f.fees,
        engineNet |-> p.engineNet + f.pnl, closedQuantity |-> p.closedQuantity + f.quantity ]

Fault_ResidualOfCents(exits, quantity) == 30 * Cent * exits

(* What the rounding of a fill may cost, by the number of exits and the    *)
(* shares, in tenths: 0.03 and 0.00006.                                    *)
Residual(exits, quantity) == 30 * Cent * exits + 6 * TickValue * quantity

CloseErrors(p, left, fill) ==
  {e \in {"engine_realized_pnl_mismatch", "position_closed_flag_mismatch",
          "round_trip_realized_pnl_mismatch", "closed_position_net_pnl_mismatch"} :
     \/ /\ e = "engine_realized_pnl_mismatch"
        /\ Beyond(left.net - p.net, fill.pnl, Residual(1, fill.quantity))
     \/ e = "position_closed_flag_mismatch" /\ fill.closed # (left.quantity = 0)
     \/ /\ e = "round_trip_realized_pnl_mismatch"
        /\ left.quantity = 0 /\ Beyond(fill.roundTrip, left.engineNet, 15 * Cent)
     \/ /\ e = "closed_position_net_pnl_mismatch"
        /\ left.quantity = 0
        /\ Beyond(left.net, left.engineNet, Residual(Len(left.exits), left.closedQuantity))}

Completed(left, row) ==
  [ fold |-> row.fold, strategy |-> row.strategy, symbol |-> row.fill.symbol,
    entryTime |-> left.entryTime, exitTime |-> row.fill.at,
    entries |-> left.entries, exits |-> left.exits, quantity |-> left.closedQuantity,
    gross |-> ToCent(left.gross), fees |-> ToCent(left.fees), net |-> ToCent(left.net),
    engineNet |-> ToCent(left.engineNet) ]

BookSell(book, row) ==
  LET k    == Key(row)
      p    == book.open[k]
      left == Reduced(p, row)
      kept == [j \in DOMAIN book.open \ {k} |-> book.open[j]]
  IN  [book EXCEPT
         !.errors = @ \cup CloseErrors(p, left, row.fill),
         !.open = IF left.quantity = 0 THEN kept ELSE Put(kept, k, left),
         !.closed = IF left.quantity = 0 THEN Append(@, Completed(left, row)) ELSE @]

(* One record of phase 9; what cannot be booked is noted and passed over.  *)
Admit(book, row) ==
  LET known == [book EXCEPT !.seen = @ \cup {<<row.fold, row.index>>}]
      held  == IF Key(row) \in DOMAIN book.open THEN book.open[Key(row)].quantity ELSE 0
      on    == Stamped(known, row)
  IN  IF <<row.fold, row.index>> \in book.seen THEN Noted(book, "duplicate_fill_index")
      ELSE IF ~ValidFill(row.fill) THEN Noted(known, "invalid_execution_fill")
      ELSE IF row.fill.side = "buy" THEN BookBuy(on, row)
      ELSE IF held = 0 THEN Noted(on, "sell_without_entry")
      ELSE IF row.fill.quantity > held THEN Noted(on, "oversold_position")
      ELSE BookSell(on, row)

(* The records one after the other.                                        *)
BookOf(records) ==
  LET after[n \in 0..Len(records)] ==
        IF n = 0 THEN EmptyBook ELSE Admit(after[n - 1], records[n])
  IN  after[Len(records)]

(* The report on the books at the end: every error refuses it, an open     *)
(* position too.                                                           *)
Reconciled(report, end) ==
  LET errors == end.errors
                  \cup (IF report.records = <<>> THEN {"no_observed_fills"} ELSE {})
                  \cup (IF report.verified THEN {} ELSE {"upstream_unverified"})
                  \cup (IF report.count # Len(report.records)
                        THEN {"observed_fill_count_mismatch"} ELSE {})
                  \cup (IF DOMAIN end.open # {} THEN {"unclosed_position"} ELSE {})
                  \cup (IF end.closed = <<>> THEN {"no_closed_positions"} ELSE {})
  IN  [ closed |-> end.closed, open |-> DOMAIN end.open, errors |-> errors,
        verified |-> report.verified /\ end.closed # <<>> /\ errors = {} ]

Fault_Phase10OpenIsFine(report) ==
  LET end    == BookOf(report.records)
      errors == end.errors
                  \cup (IF report.records = <<>> THEN {"no_observed_fills"} ELSE {})
  IN  [ closed |-> end.closed, open |-> DOMAIN end.open, errors |-> errors,
        verified |-> report.verified /\ end.closed # <<>> /\ errors = {} ]

Fault_Phase10CoverageOnly(report) ==
  LET end    == BookOf(report.records)
      errors == (IF report.verified THEN {} ELSE {"upstream_unverified"})
                  \cup (IF DOMAIN end.open # {} THEN {"unclosed_position"} ELSE {})
                  \cup (IF end.closed = <<>> THEN {"no_closed_positions"} ELSE {})
  IN  [ closed |-> end.closed, open |-> DOMAIN end.open, errors |-> errors,
        verified |-> report.verified /\ end.closed # <<>> /\ errors = {} ]

Phase10(report) == Reconciled(report, BookOf(report.records))

-----------------------------------------------------------------------------
(* Phase 11: the losses, and whether fees alone made them.                 *)

(* Half a cent decides what counts as a loss and as a win.                 *)
Lost(amount) == 2 * amount < 0 - Cent
Won(amount) == 2 * amount > Cent

Pattern(position) ==
  IF Lost(position.net)
  THEN IF Lost(position.gross) THEN "negative_gross" ELSE "fee_drag"
  ELSE IF Won(position.net) THEN "positive" ELSE "breakeven"

PositionErrors(position) ==
  {e \in {"invalid_closed_position_fields", "pnl_or_fee_reconciliation_failed"} :
     \/ /\ e = "invalid_closed_position_fields"
        /\ \/ position.entryTime > position.exitTime
           \/ position.fees < 0 \/ position.quantity <= 0
     \/ /\ e = "pnl_or_fee_reconciliation_failed"
        /\ \/ Beyond(position.gross - position.fees, position.net, 21 * Cent)
           \/ Beyond(position.net, position.engineNet, Residual(1, position.quantity))}

Fault_SummaryGrossLosses(rows, places) ==
  [ trades |-> Cardinality(places),
    losses |-> Cardinality({i \in places : Lost(rows[i].gross)}),
    wins |-> Cardinality({i \in places : Won(rows[i].gross)}), flipped |-> 0,
    gross |-> SumFunction([i \in places |-> rows[i].gross]),
    fees |-> SumFunction([i \in places |-> rows[i].fees]),
    net |-> SumFunction([i \in places |-> rows[i].net]) ]

(* Totals of one fold and strategy, over the places of its positions.      *)
Summary(rows, places) ==
  [ trades |-> Cardinality(places),
    losses |-> Cardinality({i \in places : Lost(rows[i].net)}),
    wins |-> Cardinality({i \in places : Won(rows[i].net)}),
    flipped |-> Cardinality({i \in places : Pattern(rows[i]) = "fee_drag"}),
    gross |-> SumFunction([i \in places |-> rows[i].gross]),
    fees |-> SumFunction([i \in places |-> rows[i].fees]),
    net |-> SumFunction([i \in places |-> rows[i].net]) ]

Group(row) == <<row.fold, row.strategy>>

Phase11(closeout) ==
  LET rows   == closeout.closed
      places == 1..Len(rows)
      errors == UNION {PositionErrors(rows[i]) : i \in places}
      valid  == closeout.verified /\ rows # <<>> /\ errors = {}
  IN  [ verified |-> valid, errors |-> errors,
        summaries |->
          IF valid
          THEN [g \in {Group(rows[i]) : i \in places} |->
                  Summary(rows, {i \in places : Group(rows[i]) = g})]
          ELSE << >> ]

-----------------------------------------------------------------------------
(* Phase 12: the price of each fill is its reference price worsened by the *)
(* costs it names, up to 0.52 ticks a share, and a position's profit at    *)
(* reference prices less all of its costs is its profit, up to 4 cents and *)
(* 0.6 ticks a share.                                                      *)

Sign(fill) == IF fill.side = "buy" THEN 1 ELSE -1

PricePenalty(fill) == Sign(fill) * (fill.price - fill.reference * BPS) * fill.quantity

Fault_ModelPenaltyWithoutImpact(fill) ==
  fill.reference * fill.quantity * (SlippageBps + HalfSpreadBps)

ModelPenalty(fill) ==
  fill.reference * fill.quantity * (SlippageBps + fill.impact + HalfSpreadBps)

CostOf(fill) == ModelPenalty(fill) * BPS + fill.fees

Priced(fill) ==
  /\ ValidFill(fill) /\ fill.reference > 0
  /\ 100 * Off(PricePenalty(fill), ModelPenalty(fill)) <= 52 * PriceTick * fill.quantity

(* The places of the fills that make up a position, by the indices phase   *)
(* 10 gave it.                                                             *)
Linked(records, position, indices) ==
  {i \in 1..Len(records) : /\ records[i].fold = position.fold
                           /\ records[i].index \in Range(indices)}

Links(position) == {<<position.fold, i>> : i \in Range(position.entries \o position.exits)}

QuantityOf(records, places) == SumFunction([i \in places |-> records[i].fill.quantity])

Baseline(fill) == 0 - Sign(fill) * fill.reference * fill.quantity * BPS * BPS

LedgerErrors(records, position) ==
  LET ins  == Linked(records, position, position.entries)
      outs == Linked(records, position, position.exits)
      both == ins \cup outs
  IN  {e \in {"missing_or_invalid_fill_link", "closed_position_fill_identity_mismatch",
              "closed_trade_cost_decomposition_mismatch",
              "closed_trade_fill_quantities_mismatch"} :
         \/ /\ e = "missing_or_invalid_fill_link"
            /\ \/ ins \cap outs # {}
               \/ Cardinality(ins) # Len(position.entries)
               \/ Cardinality(outs) # Len(position.exits)
               \/ \E i \in both : ~Priced(records[i].fill)
         \/ /\ e = "closed_position_fill_identity_mismatch"
            /\ \/ \E i \in ins : records[i].fill.side # "buy"
               \/ \E i \in outs : records[i].fill.side # "sell"
               \/ \E i \in both : \/ records[i].strategy # position.strategy
                                  \/ records[i].fill.symbol # position.symbol
         \/ /\ e = "closed_trade_cost_decomposition_mismatch"
            /\ \/ position.net < 0
               \/ Beyond(SumFunction([i \in both |-> Baseline(records[i].fill)
                                                      - CostOf(records[i].fill)]),
                         position.net, 40 * Cent + 6 * TickValue * position.quantity)
         \/ /\ e = "closed_trade_fill_quantities_mismatch"
            /\ \/ QuantityOf(records, ins) # QuantityOf(records, outs)
               \/ QuantityOf(records, outs) # position.quantity}

Phase12(report, closeout) ==
  LET rows   == closeout.closed
      places == 1..Len(rows)
      errors == UNION {LedgerErrors(report.records, rows[i]) : i \in places}
                  \cup (IF \E i \in 1..Len(report.records) : ~Priced(report.records[i].fill)
                        THEN {"execution_model_price_reconciliation_failed"} ELSE {})
                  \cup (IF \E i, j \in places : i # j /\ Links(rows[i]) \cap Links(rows[j]) # {}
                        THEN {"reused_fill_link"} ELSE {})
  IN  [ errors |-> errors,
        verified |-> /\ report.verified /\ closeout.verified
                     /\ report.records # <<>> /\ rows # <<>>
                     /\ errors = {} ]
=============================================================================
