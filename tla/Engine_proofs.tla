---------------------------- MODULE Engine_proofs ----------------------------
(***************************************************************************)
(* The simulation, for any symbols, bars, policy and limits: its types,    *)
(* the volume budget of a bar, the pursuit of stops, the accounts and the  *)
(* limits of the portfolio; what is published of a run (TradeLedger); and  *)
(* the evidence chain over its fills (LedgerEvidence).                     *)
(***************************************************************************)
EXTENDS LedgerEvidence, Execution_proofs, SequenceTheorems

-----------------------------------------------------------------------------
(* Types of the parts.                                                     *)

LEMMA SymbolsFinite == IsFiniteSet(Symbols)
BY RequestAssumption

LEMMA BarFacts ==
  ASSUME TypeOK, NEW s \in Symbols
  PROVE  /\ bar[s].open \in Nat /\ bar[s].high \in Nat /\ bar[s].low \in Nat
         /\ bar[s].close \in Nat /\ bar[s].volume \in Nat
BY BarAssumption DEF TypeOK, NoBar

LEMMA PositionFacts ==
  ASSUME TypeOK, NEW s \in Symbols
  PROVE  /\ pos[s] \in Position
         /\ pos[s].quantity \in Nat /\ pos[s].average \in Int /\ pos[s].fees \in Int
         /\ pos[s].stop \in Int /\ pos[s].target \in Int /\ pos[s].pnl \in Int
BY DEF TypeOK, Position

LEMMA FlatFacts == Flat \in Position /\ Flat.quantity = 0
BY DEF Flat, Position

(* What fills of a sell is at most what is held and what the bar has left. *)
LEMMA SellFillFacts ==
  ASSUME TypeOK, NEW s \in Symbols
  PROVE  /\ SellFill(s) \in Nat /\ liq[s] \in Nat /\ traded[s] \in Nat
         /\ SellFill(s) <= pos[s].quantity /\ SellFill(s) <= liq[s]
         /\ SellFill(s) # pos[s].quantity => SellFill(s) = liq[s]
BY PositionFacts DEF TypeOK, SellFill, Smaller

LEMMA SellMoney ==
  ASSUME TypeOK, NEW s \in Symbols, NEW ref \in Int, SellFill(s) > 0
  PROVE  LET price == SellExecutionPrice(ref, SellFill(s), bar[s].volume)
         IN  /\ Value(price, SellFill(s)) \in Int /\ Fee(price, SellFill(s)) \in Int
             /\ FeeShare(s) \in Int /\ SellPnl(s, price) \in Int
             /\ Remainder(s, price) \in Position
             /\ Remainder(s, price).quantity = pos[s].quantity - SellFill(s)
<1> DEFINE price == SellExecutionPrice(ref, SellFill(s), bar[s].volume)
<1>1. /\ SellFill(s) \in Nat /\ SellFill(s) \in Int
      /\ SellFill(s) > 0 /\ SellFill(s) <= pos[s].quantity
  BY SellFillFacts
<1>2. price \in Int
  <2>1. SellFill(s) \in Int /\ bar[s].volume \in Int
    BY <1>1, BarFacts
  <2> QED
    BY <2>1, PriceTypes
<1> HIDE DEF price
<1>3. Value(price, SellFill(s)) \in Int /\ Fee(price, SellFill(s)) \in Int
  BY <1>1, <1>2, MoneyTypes
<1>4. FeeShare(s) \in Int
  <2>1. pos[s].fees * SellFill(s) \in Int /\ pos[s].quantity \in Nat \ {0}
    BY <1>1, PositionFacts, ProductType
  <2> QED
    BY <2>1, DivType DEF FeeShare
<1>5. SellPnl(s, price) \in Int
  <2>1. (price - pos[s].average) * SellFill(s) * BPS \in Int
    BY <1>1, <1>2, PositionFacts, PolicyTypes, ProductType
  <2> QED
    BY <2>1, <1>3, <1>4 DEF SellPnl
<1>6. /\ Remainder(s, price) \in Position
      /\ Remainder(s, price).quantity = pos[s].quantity - SellFill(s)
  <2>1. pos[s].quantity - SellFill(s) \in Nat
    BY <1>1, PositionFacts
  <2>2. pos[s].fees - FeeShare(s) \in Int /\ pos[s].pnl + SellPnl(s, price) \in Int
    BY <1>4, <1>5, PositionFacts
  <2>3. pos[s] \in Position
    BY PositionFacts
  <2> HIDE DEF TypeOK
  <2> QED
    BY <2>1, <2>2, <2>3 DEF Remainder, Position
<1> QED
  BY <1>3, <1>4, <1>5, <1>6 DEF price

(* A sell: what it books, and of whom.                                     *)
LEMMA SellStep ==
  ASSUME TypeOK, NEW s \in Symbols, NEW ref \in Int, SellWhatFills(s, ref)
  PROVE  /\ cash' \in Int /\ realized' \in Int /\ roundTripPnl' \in Int
         /\ pos' \in [Symbols -> Position]
         /\ liq' \in [Symbols -> Nat] /\ traded' \in [Symbols -> Nat]
         /\ \A t \in Symbols : traded'[t] + liq'[t] = traded[t] + liq[t]
         /\ \A t \in Symbols \ {s} : /\ pos'[t] = pos[t] /\ liq'[t] = liq[t]
                                     /\ traded'[t] = traded[t]
         /\ liq'[s] = liq[s] - SellFill(s)
         /\ pos'[s].quantity = pos[s].quantity - SellFill(s)
         /\ pos'[s].quantity > 0 => pos'[s].stop = pos[s].stop
         /\ SellFill(s) > 0 /\ SellFill(s) = pos[s].quantity => pos'[s] = Flat
<1>0. SellFill(s) \in Nat /\ SellFill(s) <= liq[s] /\ pos[s].quantity \in Nat
  BY SellFillFacts, PositionFacts
<1>1. CASE SellFill(s) > 0 /\ ExitPosition(s, ref)
  <2> DEFINE price == SellExecutionPrice(ref, SellFill(s), bar[s].volume)
             left == Remainder(s, price)
  <2>1. /\ Value(price, SellFill(s)) \in Int /\ Fee(price, SellFill(s)) \in Int
        /\ SellPnl(s, price) \in Int /\ left \in Position
        /\ left.quantity = pos[s].quantity - SellFill(s)
    BY <1>1, SellMoney
  <2>2. left.stop = pos[s].stop
    BY PositionFacts DEF Remainder, Position
  <2>3. /\ cash' = cash + Value(price, SellFill(s)) - Fee(price, SellFill(s))
        /\ pos' = [pos EXCEPT ![s] = IF left.quantity = 0 THEN Flat ELSE left]
        /\ realized' = realized + SellPnl(s, price)
        /\ roundTripPnl' = IF left.quantity = 0 THEN roundTripPnl + left.pnl
                           ELSE roundTripPnl
        /\ liq' = [liq EXCEPT ![s] = @ - SellFill(s)]
        /\ traded' = [traded EXCEPT ![s] = @ + SellFill(s)]
    BY <1>1 DEF ExitPosition, Trade
  <2> HIDE DEF left, price
  <2>4. left.pnl \in Int
    BY <2>1 DEF Position
  <2>5. cash' \in Int /\ realized' \in Int /\ roundTripPnl' \in Int
    BY <2>1, <2>3, <2>4 DEF TypeOK
  <2>6. pos' \in [Symbols -> Position] /\ \A t \in Symbols \ {s} : pos'[t] = pos[t]
    BY <2>1, <2>3, FlatFacts DEF TypeOK
  <2>7. pos'[s] = IF left.quantity = 0 THEN Flat ELSE left
    BY <2>3 DEF TypeOK
  <2>8. /\ liq' \in [Symbols -> Nat] /\ traded' \in [Symbols -> Nat]
        /\ liq'[s] = liq[s] - SellFill(s)
        /\ \A t \in Symbols : traded'[t] + liq'[t] = traded[t] + liq[t]
        /\ \A t \in Symbols \ {s} : liq'[t] = liq[t] /\ traded'[t] = traded[t]
    BY <1>0, <2>3 DEF TypeOK
  <2>9. /\ pos'[s].quantity = pos[s].quantity - SellFill(s)
        /\ pos'[s].quantity > 0 => pos'[s].stop = pos[s].stop
        /\ SellFill(s) = pos[s].quantity => pos'[s] = Flat
    BY <1>0, <2>1, <2>2, <2>7, FlatFacts
  <2> QED
    BY <2>5, <2>6, <2>8, <2>9
<1>2. CASE SellFill(s) <= 0 /\ UNCHANGED <<book, liq, traded>>
  BY <1>0, <1>2 DEF book, TypeOK
<1> QED
  BY <1>1, <1>2 DEF SellWhatFills

(* The value of what is held, at any marks.                                *)
LEMMA InvestedType ==
  ASSUME NEW p \in [Symbols -> Position], NEW m \in [Symbols -> Nat]
  PROVE  SumFunction([s \in Symbols |-> p[s].quantity * Reference(m[s]) * BPS * BPS]) \in Nat
<1> DEFINE g == [s \in Symbols |-> p[s].quantity * Reference(m[s]) * BPS * BPS]
<1>1. ASSUME NEW s \in Symbols
      PROVE  p[s].quantity * Reference(m[s]) * BPS * BPS \in Nat
  <2>1. p[s].quantity \in Nat /\ Reference(m[s]) \in Nat /\ BPS \in Nat
    BY ReferenceType, PolicyTypes DEF Position
  <2> QED
    BY <2>1, ProductType
<1>2. g \in [Symbols -> Nat]
  BY <1>1
<1> HIDE DEF g
<1>3. SumFunction(g) \in Nat
  BY <1>2, SumOfNaturals, SymbolsFinite
<1> QED
  BY <1>3 DEF g

LEMMA PortfolioTypes ==
  ASSUME TypeOK
  PROVE  InvestedValue \in Nat /\ PortfolioValue \in Int
<1>1. InvestedValue \in Nat
  BY InvestedType DEF TypeOK, InvestedValue
<1> QED
  BY <1>1 DEF TypeOK, PortfolioValue

(* A buy is for no more than the bar has left, and it can be paid.         *)
LEMMA EntryFacts ==
  ASSUME TypeOK, NEW s \in Symbols
  PROVE  /\ Allocated(s) \in Nat /\ Allocated(s) <= liq[s]
         /\ EntryQuantity(s) \in Nat /\ EntryQuantity(s) <= Allocated(s)
         /\ EntryQuantity(s) > 0 => /\ ~LimitHit
                                    /\ EntryCost(s, EntryQuantity(s)) <= cash
<1>1. Allocated(s) \in Nat /\ Allocated(s) <= liq[s]
  <2>1. wanted[s] \in Int /\ liq[s] \in Nat
    BY DEF TypeOK
  <2>2. Allocated(s) \in Nat /\ Allocated(s) <= AtLeastZero(liq[s])
    BY <2>1, MaxEntryFacts DEF Allocated
  <2> QED
    BY <2>1, <2>2 DEF AtLeastZero
<1> DEFINE a == Allocated(s)
           q == RiskApproved(s, a)
<1>2. a > 0 => q \in Nat /\ q <= a
  <2> HIDE DEF a
  <2>1. CASE ~UseRiskAgent
    BY <1>1, <2>1 DEF RiskApproved, a
  <2>2. CASE RiskViolated(a, EntryPrice(s, a), entriesToday, MaxTradesPerDay, EmergencyHalt)
    BY <1>1, <2>2 DEF RiskApproved, a
  <2>3. CASE /\ UseRiskAgent /\ a > 0
             /\ ~RiskViolated(a, EntryPrice(s, a), entriesToday, MaxTradesPerDay, EmergencyHalt)
    <3>1. a \in Nat /\ a \in Int /\ equity \in Int
      BY <1>1 DEF TypeOK, a
    <3>2. EntryPrice(s, a) \in Int
      <4>1. Reference(bar[s].open) \in Int /\ bar[s].volume \in Int
        BY BarFacts, ReferenceType
      <4> QED
        BY <3>1, <4>1, PriceTypes DEF EntryPrice
    <3>3. /\ EntryPrice(s, a) > 0
          /\ EntryPrice(s, a) > StopLossPrice(EntryPrice(s, a)) * BPS
      <4>1. ~(EntryPrice(s, a) <= 0) /\ ~(EntryPrice(s, a) <= StopLossPrice(EntryPrice(s, a)) * BPS)
        BY <2>3 DEF RiskViolated
      <4>2. StopLossPrice(EntryPrice(s, a)) * BPS \in Int
        BY <3>2, ProtectionTypes, PolicyTypes, ProductType
      <4> QED
        BY <3>2, <4>1, <4>2
    <3>4. /\ RiskQuantity(a, EntryPrice(s, a), equity) \in Nat
          /\ RiskQuantity(a, EntryPrice(s, a), equity) <= a
      BY <2>3, <3>1, <3>2, <3>3, RiskFacts
    <3> QED
      BY <2>3, <3>4 DEF RiskApproved
  <2> QED
    BY <2>1, <2>2, <2>3
<1>3. EntryQuantity(s) = IF \/ wanted[s] > 0 /\ liq[s] <= 0
                            \/ LimitHit
                            \/ a <= 0
                            \/ q <= 0
                            \/ cash < EntryCost(s, q)
                         THEN 0 ELSE q
  BY DEF EntryQuantity
<1> HIDE DEF q
<1>4. CASE EntryQuantity(s) = 0
  BY <1>1, <1>4
<1>5. CASE EntryQuantity(s) # 0
  <2>1. EntryQuantity(s) = q /\ ~LimitHit /\ ~(a <= 0) /\ ~(cash < EntryCost(s, q))
    BY <1>3, <1>5
  <2>2. q \in Nat /\ q <= a
    BY <1>1, <1>2, <2>1
  <2>3. EntryCost(s, q) \in Int
    <3>1. q \in Int /\ Reference(bar[s].open) \in Int /\ bar[s].volume \in Int
      BY <2>2, BarFacts, ReferenceType
    <3>2. EntryPrice(s, q) \in Int
      BY <3>1, PriceTypes DEF EntryPrice
    <3>3. Value(EntryPrice(s, q), q) \in Int /\ Fee(EntryPrice(s, q), q) \in Int
      BY <3>1, <3>2, MoneyTypes
    <3> QED
      BY <3>3 DEF EntryCost
  <2> QED
    BY <1>1, <2>1, <2>2, <2>3 DEF TypeOK
<1> QED
  BY <1>4, <1>5

(* What a buy does.                                                        *)
LEMMA EnterStep ==
  ASSUME TypeOK, NEW s \in Symbols, Enter(s)
  PROVE  LET q == EntryQuantity(s) IN
         /\ q \in Nat /\ q > 0 /\ q <= liq[s]
         /\ cash' = cash - EntryCost(s, q) /\ cash' \in Int
         /\ pos' \in [Symbols -> Position]
         /\ pos'[s].quantity = q
         /\ \A t \in Symbols \ {s} : /\ pos'[t] = pos[t] /\ liq'[t] = liq[t]
                                     /\ traded'[t] = traded[t]
         /\ liq' \in [Symbols -> Nat] /\ traded' \in [Symbols -> Nat]
         /\ \A t \in Symbols : traded'[t] + liq'[t] = traded[t] + liq[t]
<1> DEFINE q == EntryQuantity(s)
           price == EntryPrice(s, q)
<1>1. q \in Nat /\ q > 0 /\ q <= liq[s]
  BY EntryFacts DEF Enter, TypeOK
<1>2. /\ cash' = cash - EntryCost(s, q)
      /\ pos' = [pos EXCEPT ![s] =
             [@ EXCEPT !.quantity = q, !.average = price, !.fees = Fee(price, q),
                       !.stop = StopLossPrice(price), !.target = TakeProfitPrice(price)]]
      /\ liq' = [liq EXCEPT ![s] = @ - q]
      /\ traded' = [traded EXCEPT ![s] = @ + q]
  BY DEF Enter, Trade
<1> HIDE DEF q
<1>3. price \in Int
  <2>1. q \in Int /\ Reference(bar[s].open) \in Int /\ bar[s].volume \in Int
    BY <1>1, BarFacts, ReferenceType
  <2> QED
    BY <2>1, PriceTypes DEF EntryPrice
<1>4. EntryCost(s, q) = Value(price, q) + Fee(price, q)
  BY DEF EntryCost
<1> HIDE DEF price
<1>5. /\ Value(price, q) \in Int /\ Fee(price, q) \in Int
      /\ StopLossPrice(price) \in Int /\ TakeProfitPrice(price) \in Int
  <2>1. q \in Int
    BY <1>1
  <2> QED
    BY <1>3, <2>1, MoneyTypes, ProtectionTypes
<1>6. cash' \in Int
  BY <1>2, <1>4, <1>5 DEF TypeOK
<1>7. pos' \in [Symbols -> Position] /\ pos'[s].quantity = q
  <2>1. pos[s] \in Position
    BY PositionFacts
  <2> DEFINE new == [pos[s] EXCEPT !.quantity = q, !.average = price, !.fees = Fee(price, q),
                       !.stop = StopLossPrice(price), !.target = TakeProfitPrice(price)]
  <2>2. new \in Position /\ new.quantity = q
    BY <1>1, <1>3, <1>5, <2>1 DEF Position
  <2>3. pos' = [pos EXCEPT ![s] = new]
    BY <1>2
  <2> HIDE DEF new
  <2> QED
    BY <2>2, <2>3 DEF TypeOK
<1>8. /\ liq' \in [Symbols -> Nat] /\ traded' \in [Symbols -> Nat]
      /\ \A t \in Symbols : traded'[t] + liq'[t] = traded[t] + liq[t]
  BY <1>1, <1>2 DEF TypeOK
<1>9. \A t \in Symbols \ {s} : pos'[t] = pos[t] /\ liq'[t] = liq[t] /\ traded'[t] = traded[t]
  BY <1>2 DEF TypeOK
<1> QED
  BY <1>1, <1>2, <1>6, <1>7, <1>8, <1>9 DEF q

(* The price a protective exit inside the bar starts from.                 *)
LEMMA ReferenceFacts ==
  ASSUME TypeOK, NEW s \in Symbols
  PROVE  /\ Reference(bar[s].open) \in Int /\ Reference(bar[s].close) \in Int
         /\ Reference(bar[s].low) \in Int /\ Reference(bar[s].high) \in Int
         /\ ExitReference(s) \in Int
<1>1. /\ Reference(bar[s].open) \in Int /\ Reference(bar[s].close) \in Int
      /\ Reference(bar[s].low) \in Int /\ Reference(bar[s].high) \in Int
  BY BarFacts, ReferenceType
<1>2. pos[s].stop \in Int /\ pos[s].target \in Int
  BY PositionFacts
<1> QED
  BY <1>1, <1>2 DEF ExitReference, Smaller

LEMMA ReasonTypes ==
  ASSUME TypeOK, NEW s \in Symbols
  PROVE  /\ ReasonAtOpen(s) \in Reasons /\ ReasonInBar(s) \in Reasons
         /\ \A reason \in Reasons : ForcedAfter(s, reason) \in Reasons
BY DEF TypeOK, ReasonAtOpen, ReasonInBar, ForcedAfter, Reasons

-----------------------------------------------------------------------------
(* Types are kept by every step.                                           *)

LEMMA TypeInit == Init => TypeOK
<1> SUFFICES ASSUME Init PROVE TypeOK
  OBVIOUS
<1>1. pos \in [Symbols -> Position]
  BY FlatFacts DEF Init
<1>2. cash \in Int /\ lastPoint \in Int
  BY RequestAssumption DEF Init
<1> QED
  BY <1>1, <1>2 DEF Init, TypeOK, Signals, Reasons, Phases

LEMMA TypeStep == TypeOK /\ [Next]_vars => TypeOK'
<1> SUFFICES ASSUME TypeOK, [Next]_vars PROVE TypeOK'
  OBVIOUS
<1> USE DEF TypeOK
<1>1. CASE OpenBatch
  <2>1. PICK here \in SUBSET Symbols \ {{}} : \E new \in [here -> Bars] :
          /\ bar' = [s \in Symbols |-> IF s \in here THEN new[s] ELSE bar[s]]
          /\ mark' = [s \in Symbols |-> IF s \in here THEN new[s].open ELSE mark[s]]
          /\ liq' = [s \in Symbols |-> IF s \in here THEN VolumeCapacity(new[s].volume)
                                       ELSE liq[s]]
          /\ traded' = [s \in Symbols |-> IF s \in here THEN 0 ELSE traded[s]]
          /\ batch' = here
          /\ Go("protect", here)
    BY <1>1 DEF OpenBatch
  <2>2. PICK new \in [here -> Bars] :
          /\ bar' = [s \in Symbols |-> IF s \in here THEN new[s] ELSE bar[s]]
          /\ mark' = [s \in Symbols |-> IF s \in here THEN new[s].open ELSE mark[s]]
          /\ liq' = [s \in Symbols |-> IF s \in here THEN VolumeCapacity(new[s].volume)
                                       ELSE liq[s]]
          /\ traded' = [s \in Symbols |-> IF s \in here THEN 0 ELSE traded[s]]
          /\ batch' = here
          /\ Go("protect", here)
    BY <2>1
  <2>3. \A s \in here : /\ new[s] \in Bars /\ new[s].open \in Nat
                        /\ VolumeCapacity(new[s].volume) \in Nat
    BY BarAssumption, CapacityType
  <2>4. /\ bar' \in [Symbols -> Bars \cup {NoBar}] /\ mark' \in [Symbols -> Nat]
        /\ liq' \in [Symbols -> Nat] /\ traded' \in [Symbols -> Nat]
    BY <2>2, <2>3
  <2>5. batch' \in SUBSET Symbols /\ todo' \in SUBSET Symbols /\ phase' \in Phases
    BY <2>2 DEF Go, Phases
  <2>6. entriesToday' \in Nat /\ batches' \in Nat
    BY <1>1 DEF OpenBatch
  <2>7. UNCHANGED <<book, sizing, pending, forced, exitedAtOpen, partialExits, lastPoint>>
    BY <1>1 DEF OpenBatch
  <2> QED
    BY <2>4, <2>5, <2>6, <2>7 DEF book, sizing
<1>2. CASE Size
  <2>1. equity' \in Int
    BY <1>2, PortfolioTypes DEF Size
  <2>2. wanted' \in [Symbols -> Nat]
    <3>1. ASSUME NEW s \in Symbols
          PROVE  PositionSize(AtLeastZero(cash - (PortfolioValue * CashReservePct) \div BPS),
                              PortfolioValue, Reference(bar[s].open)) \in Nat
      <4>1. PortfolioValue \in Int /\ PortfolioValue * CashReservePct \in Int
        BY PortfolioTypes, RequestAssumption, PolicyTypes, ProductType
      <4>2. AtLeastZero(cash - (PortfolioValue * CashReservePct) \div BPS) \in Int
        BY <4>1, DivType, PolicyTypes DEF AtLeastZero
      <4> QED
        BY <4>1, <4>2, ReferenceFacts, PositionSizeType
    <3> QED
      BY <1>2, <3>1 DEF Size
  <2>3. phase' \in Phases /\ todo' \in SUBSET Symbols /\ newPositions' \in Nat
    BY <1>2 DEF Size, Go, Phases, Candidates
  <2> QED
    BY <1>2, <2>1, <2>2, <2>3 DEF Size, book, market
<1>3. CASE CloseBatch
  <2>1. pending' \in [Symbols -> Signals]
    <3>1. PICK signal \in [batch -> Signals] :
            pending' = [s \in Symbols |->
                     IF s \notin batch THEN pending[s]
                     ELSE IF s \in partialExits /\ Held(s) THEN "sell" ELSE signal[s]]
      BY <1>3 DEF CloseBatch
    <3> QED
      BY <3>1 DEF Signals
  <2>2. mark' \in [Symbols -> Nat]
    BY <1>3, BarFacts DEF CloseBatch
  <2>3. lastPoint' \in Int
    <3>1. cash' \in Int /\ pos' \in [Symbols -> Position]
      BY <1>3 DEF CloseBatch, book
    <3>2. InvestedValue' \in Nat
      BY <2>2, <3>1, InvestedType DEF InvestedValue
    <3> QED
      BY <1>3, <3>1, <3>2 DEF CloseBatch, PortfolioValue
  <2>4. phase' \in Phases /\ todo' \in SUBSET Symbols
    BY <1>3 DEF CloseBatch, Go, Phases
  <2> QED
    BY <1>3, <2>1, <2>2, <2>3, <2>4 DEF CloseBatch, book
<1>4. CASE NextLoop
  BY <1>4 DEF NextLoop, Go, Phases, book, market, sizing
<1>5. CASE EndOfData
  BY <1>5 DEF EndOfData, Go, Phases, book, market, sizing
<1>6. CASE Finish
  BY <1>6, PortfolioTypes DEF Finish, Go, Phases, book, market, sizing
<1>7. ASSUME NEW s \in Symbols, ProtectAtOpen(s)
      PROVE  TypeOK'
  <2>1. SellWhatFills(s, Reference(bar[s].open))
    BY <1>7 DEF ProtectAtOpen
  <2>2. /\ cash' \in Int /\ realized' \in Int /\ roundTripPnl' \in Int
        /\ pos' \in [Symbols -> Position]
        /\ liq' \in [Symbols -> Nat] /\ traded' \in [Symbols -> Nat]
    BY <2>1, SellStep, ReferenceFacts
  <2>3. forced' \in [Symbols -> Reasons]
    BY <1>7, ReasonTypes DEF ProtectAtOpen
  <2> QED
    BY <1>7, <2>2, <2>3 DEF ProtectAtOpen, Visit, market, sizing
<1>8. ASSUME NEW s \in Symbols, SignalExit(s)
      PROVE  TypeOK'
  <2>1. SellWhatFills(s, Reference(bar[s].open))
    BY <1>8 DEF SignalExit
  <2>2. /\ cash' \in Int /\ realized' \in Int /\ roundTripPnl' \in Int
        /\ pos' \in [Symbols -> Position]
        /\ liq' \in [Symbols -> Nat] /\ traded' \in [Symbols -> Nat]
    BY <2>1, SellStep, ReferenceFacts
  <2> QED
    BY <1>8, <2>2 DEF SignalExit, Visit, market, sizing
<1>9. ASSUME NEW s \in Symbols, Enter(s)
      PROVE  TypeOK'
  <2>1. /\ cash' \in Int /\ pos' \in [Symbols -> Position]
        /\ liq' \in [Symbols -> Nat] /\ traded' \in [Symbols -> Nat]
    BY <1>9, EnterStep
  <2> QED
    BY <1>9, <2>1 DEF Enter, Visit
<1>10. ASSUME NEW s \in Symbols, Refuse(s)
       PROVE  TypeOK'
  BY <1>10 DEF Refuse, Visit, book, market, sizing
<1>11. ASSUME NEW s \in Symbols, ProtectInBar(s)
       PROVE  TypeOK'
  <2>1. SellWhatFills(s, ExitReference(s))
    BY <1>11 DEF ProtectInBar
  <2>2. /\ cash' \in Int /\ realized' \in Int /\ roundTripPnl' \in Int
        /\ pos' \in [Symbols -> Position]
        /\ liq' \in [Symbols -> Nat] /\ traded' \in [Symbols -> Nat]
    BY <2>1, SellStep, ReferenceFacts
  <2>3. forced' \in [Symbols -> Reasons]
    BY <1>11, ReasonTypes DEF ProtectInBar
  <2> QED
    BY <1>11, <2>2, <2>3 DEF ProtectInBar, Visit, market, sizing
<1>12. ASSUME NEW s \in Symbols, Skip(s)
       PROVE  TypeOK'
  BY <1>12 DEF Skip, book, market, sizing
<1>13. ASSUME NEW s \in Symbols, Liquidate(s)
       PROVE  TypeOK'
  <2>1. SellWhatFills(s, Reference(bar[s].close))
    BY <1>13 DEF Liquidate
  <2>2. /\ cash' \in Int /\ realized' \in Int /\ roundTripPnl' \in Int
        /\ pos' \in [Symbols -> Position]
        /\ liq' \in [Symbols -> Nat] /\ traded' \in [Symbols -> Nat]
    BY <2>1, SellStep, ReferenceFacts
  <2> QED
    BY <1>13, <2>2 DEF Liquidate, Visit, market, sizing
<1>14. CASE UNCHANGED vars
  BY <1>14 DEF vars, book, market, sizing
<1> QED
  BY <1>1, <1>2, <1>3, <1>4, <1>5, <1>6, <1>7, <1>8, <1>9, <1>10, <1>11, <1>12, <1>13,
     <1>14 DEF Next

(* The simulation never leaves its types, whatever the data.               *)
THEOREM EngineTypes == Spec => []TypeOK
BY TypeInit, TypeStep, PTL DEF Spec

-----------------------------------------------------------------------------
(* The volume of a bar.  What was traded of it and what is left of it make *)
(* up its cap, which is more than WithinBarVolume says and inductive.      *)
VolumeMetered ==
  \A s \in Symbols : traded[s] + liq[s] = VolumeCapacity(bar[s].volume)

(* The steps that trade, and those that leave the market alone.            *)
Sells(s) ==
  \/ /\ ProtectAtOpen(s) /\ SellWhatFills(s, Reference(bar[s].open))
  \/ /\ SignalExit(s) /\ SellWhatFills(s, Reference(bar[s].open))
  \/ /\ ProtectInBar(s) /\ SellWhatFills(s, ExitReference(s))
  \/ /\ Liquidate(s) /\ SellWhatFills(s, Reference(bar[s].close))

LEMMA SellsStep ==
  ASSUME TypeOK, NEW s \in Symbols, Sells(s)
  PROVE  /\ \A t \in Symbols : traded'[t] + liq'[t] = traded[t] + liq[t]
         /\ \A t \in Symbols \ {s} : /\ pos'[t] = pos[t] /\ liq'[t] = liq[t]
                                     /\ traded'[t] = traded[t]
         /\ liq'[s] = liq[s] - SellFill(s)
         /\ pos'[s].quantity = pos[s].quantity - SellFill(s)
         /\ pos'[s].quantity > 0 => pos'[s].stop = pos[s].stop
         /\ SellFill(s) > 0 /\ SellFill(s) = pos[s].quantity => pos'[s] = Flat
         /\ UNCHANGED <<bar, batch>>
<1>1. \E ref \in Int : SellWhatFills(s, ref)
  BY ReferenceFacts DEF Sells
<1>2. UNCHANGED <<bar, batch>>
  BY DEF Sells, ProtectAtOpen, SignalExit, ProtectInBar, Liquidate, market
<1> QED
  BY <1>1, <1>2, SellStep

(* Every step is one of these; a quiet one touches neither the books nor   *)
(* the volumes nor what is left to exit.                                   *)
Quiet == UNCHANGED <<book, liq, traded, bar, forced>>

LEMMA StepKinds ==
  ASSUME [Next]_vars
  PROVE  \/ OpenBatch
         \/ \E s \in Symbols : Sells(s)
         \/ \E s \in Symbols : Enter(s)
         \/ Quiet
<1> USE DEF Quiet, book, market
<1>1. Size => Quiet
  BY DEF Size
<1>2. CloseBatch => Quiet
  BY DEF CloseBatch
<1>3. NextLoop => Quiet
  BY DEF NextLoop
<1>4. EndOfData => Quiet
  BY DEF EndOfData
<1>5. Finish => Quiet
  BY DEF Finish
<1>6. \A s \in Symbols : Refuse(s) \/ Skip(s) => Quiet
  BY DEF Refuse, Skip
<1>7. \A s \in Symbols :
        ProtectAtOpen(s) \/ SignalExit(s) \/ ProtectInBar(s) \/ Liquidate(s) => Sells(s)
  BY DEF ProtectAtOpen, SignalExit, ProtectInBar, Liquidate, Sells
<1>8. UNCHANGED vars => Quiet
  BY DEF vars
<1> HIDE DEF Quiet, book, market
<1> QED
  BY <1>1, <1>2, <1>3, <1>4, <1>5, <1>6, <1>7, <1>8 DEF Next

LEMMA VolumeInit == Init => VolumeMetered
<1> SUFFICES ASSUME Init, NEW s \in Symbols
             PROVE  traded[s] + liq[s] = VolumeCapacity(bar[s].volume)
  BY DEF VolumeMetered
<1>1. bar[s].volume = 0 /\ traded[s] = 0 /\ liq[s] = 0
  BY DEF Init, NoBar
<1>2. VolumeCapacity(0) = 0
  BY PolicyTypes DEF VolumeCapacity, QuantizeQuantity
<1> QED
  BY <1>1, <1>2

LEMMA VolumeStep == TypeOK /\ VolumeMetered /\ [Next]_vars => VolumeMetered'
<1> SUFFICES ASSUME TypeOK, VolumeMetered, [Next]_vars, NEW s \in Symbols
             PROVE  traded'[s] + liq'[s] = VolumeCapacity(bar'[s].volume)
  BY DEF VolumeMetered
<1>1. CASE OpenBatch
  <2>1. PICK here \in SUBSET Symbols \ {{}} : \E new \in [here -> Bars] :
          /\ bar' = [t \in Symbols |-> IF t \in here THEN new[t] ELSE bar[t]]
          /\ liq' = [t \in Symbols |-> IF t \in here THEN VolumeCapacity(new[t].volume)
                                       ELSE liq[t]]
          /\ traded' = [t \in Symbols |-> IF t \in here THEN 0 ELSE traded[t]]
    BY <1>1 DEF OpenBatch
  <2>2. CASE s \in here
    <3>1. \A n \in Nat : 0 + n = n
      OBVIOUS
    <3>2. bar'[s] \in Bars /\ traded'[s] = 0 /\ liq'[s] = VolumeCapacity(bar'[s].volume)
      BY <2>1, <2>2
    <3>3. VolumeCapacity(bar'[s].volume) \in Nat
      BY <3>2, BarAssumption, CapacityType
    <3> QED
      BY <3>1, <3>2, <3>3
  <2>3. CASE s \notin here
    BY <2>1, <2>3 DEF VolumeMetered
  <2> QED
    BY <2>2, <2>3
<1>2. ASSUME NEW t \in Symbols, Sells(t)
      PROVE  traded'[s] + liq'[s] = VolumeCapacity(bar'[s].volume)
  BY <1>2, SellsStep DEF VolumeMetered
<1>3. ASSUME NEW t \in Symbols, Enter(t)
      PROVE  traded'[s] + liq'[s] = VolumeCapacity(bar'[s].volume)
  <2>1. bar' = bar
    BY <1>3 DEF Enter
  <2> QED
    BY <1>3, <2>1, EnterStep DEF VolumeMetered
<1>4. CASE Quiet
  BY <1>4 DEF Quiet, VolumeMetered
<1> QED
  BY <1>1, <1>2, <1>3, <1>4, StepKinds

(* No bar ever trades more than its participation cap (engine.py:407-414). *)
THEOREM VolumeIsCapped == Spec => []WithinBarVolume
<1>1. Init => TypeOK /\ VolumeMetered
  BY TypeInit, VolumeInit
<1>2. TypeOK /\ VolumeMetered /\ [Next]_vars => (TypeOK /\ VolumeMetered)'
  BY TypeStep, VolumeStep
<1>3. TypeOK /\ VolumeMetered => WithinBarVolume
  <2> SUFFICES ASSUME TypeOK, VolumeMetered, NEW s \in Symbols
               PROVE  traded[s] <= VolumeCapacity(bar[s].volume)
    BY DEF WithinBarVolume
  <2>1. traded[s] \in Nat /\ liq[s] \in Nat
    BY DEF TypeOK
  <2>2. traded[s] + liq[s] = VolumeCapacity(bar[s].volume)
    BY DEF VolumeMetered
  <2> QED
    BY <2>1, <2>2
<1> QED
  BY <1>1, <1>2, <1>3, PTL DEF Spec

-----------------------------------------------------------------------------
(* Stops.  A position under a forced exit has used up its bar: whoever     *)
(* sells it next finds no shares to sell until the next bar's open, where  *)
(* the forced exit comes first.  That keeps the reason and the shares      *)
(* together.                                                               *)
ForcedAreExhausted ==
  \A s \in Symbols :
    forced[s] # "none" /\ ~(phase = "protect" /\ s \in todo) => liq[s] = 0

StopsHold == ForcedExitsAreStops /\ ForcedAreExhausted

LEMMA StopsInit == Init => StopsHold
BY DEF Init, StopsHold, ForcedExitsAreStops, ForcedAreExhausted

(* The protective exits: a stop is noted exactly when shares remain, and   *)
(* then the bar has none left to trade.                                    *)
LEMMA ProtectionStep ==
  ASSUME TypeOK, StopsHold, NEW s \in Symbols, Sells(s),
         NEW reason \in {"stop_loss", "take_profit"}, Held(s),
         forced' = [forced EXCEPT ![s] = ForcedAfter(s, reason)]
  PROVE  /\ forced'[s] # "none" =>
              forced'[s] = "stop_loss" /\ pos'[s].quantity > 0 /\ liq'[s] = 0
         /\ reason = "stop_loss" => pos'[s] = Flat \/ forced'[s] = "stop_loss"
         /\ pos'[s].quantity <= pos[s].quantity
<1>1. /\ SellFill(s) \in Nat /\ liq[s] \in Nat /\ SellFill(s) <= pos[s].quantity
      /\ SellFill(s) # pos[s].quantity => SellFill(s) = liq[s]
      /\ pos[s].quantity \in Nat /\ pos[s].quantity > 0
  BY SellFillFacts, PositionFacts DEF Held
<1>2. /\ liq'[s] = liq[s] - SellFill(s)
      /\ pos'[s].quantity = pos[s].quantity - SellFill(s)
      /\ SellFill(s) > 0 /\ SellFill(s) = pos[s].quantity => pos'[s] = Flat
  BY SellsStep
<1>3. forced'[s] = ForcedAfter(s, reason)
  BY DEF TypeOK
<1> QED
  BY <1>1, <1>2, <1>3 DEF ForcedAfter

LEMMA ReasonFacts ==
  ASSUME TypeOK, StopsHold, NEW s \in Symbols
  PROVE  /\ ReasonAtOpen(s) # "none" =>
              Held(s) /\ ReasonAtOpen(s) \in {"stop_loss", "take_profit"}
         /\ forced[s] # "none" => ReasonAtOpen(s) = "stop_loss"
         /\ ReasonInBar(s) # "none" =>
              /\ Held(s) /\ forced[s] = "none"
              /\ ReasonInBar(s) \in {"stop_loss", "take_profit"}
<1>1. forced[s] # "none" => forced[s] = "stop_loss" /\ Held(s)
  BY DEF StopsHold, ForcedExitsAreStops
<1> QED
  BY <1>1 DEF ReasonAtOpen, ReasonInBar

(* A forced exit leaves the first loop only by being tried.                *)
LEMMA ForcedIsTried ==
  ASSUME [Next]_vars, NEW s \in Symbols, forced[s] # "none",
         phase = "protect", s \in todo, ~(phase' = "protect" /\ s \in todo')
  PROVE  ProtectAtOpen(s)
<1>1. ~OpenBatch /\ ~Size /\ ~CloseBatch /\ ~NextLoop /\ ~EndOfData /\ ~Finish
  BY DEF OpenBatch, Size, CloseBatch, NextLoop, EndOfData, Finish
<1>2. \A t \in Symbols : /\ ~SignalExit(t) /\ ~Enter(t) /\ ~Refuse(t)
                         /\ ~ProtectInBar(t) /\ ~Liquidate(t)
  BY DEF SignalExit, Enter, Refuse, ProtectInBar, Liquidate, Visit
<1>3. ASSUME NEW t \in Symbols, Skip(t)
      PROVE  FALSE
  <2>1. phase' = phase /\ todo' = todo \ {t} /\ ReasonAtOpen(t) = "none"
    BY <1>3 DEF Skip
  <2>2. t = s
    BY <2>1
  <2> QED
    BY <2>1, <2>2 DEF ReasonAtOpen
<1>4. ASSUME NEW t \in Symbols, ProtectAtOpen(t)
      PROVE  t = s
  BY <1>4 DEF ProtectAtOpen, Visit
<1>5. ~(UNCHANGED vars)
  BY DEF vars
<1> QED
  BY <1>1, <1>2, <1>3, <1>4, <1>5 DEF Next

(* Outside the protective exits, a sell or a buy of a symbol under a       *)
(* forced exit finds nothing to trade.                                     *)
LEMMA ExhaustedIsLeftAlone ==
  ASSUME TypeOK, StopsHold, NEW s \in Symbols, forced[s] # "none"
  PROVE  /\ SignalExit(s) \/ Liquidate(s) =>
              liq'[s] = 0 /\ pos'[s].quantity = pos[s].quantity
         /\ ~Enter(s)
<1>1. phase # "protect" => liq[s] = 0
  BY DEF StopsHold, ForcedAreExhausted
<1>2. CASE SignalExit(s) \/ Liquidate(s)
  <2>1. Sells(s) /\ phase # "protect"
    BY <1>2 DEF Sells, SignalExit, Liquidate, Visit
  <2>2. SellFill(s) = 0
    BY <1>1, <2>1, SellFillFacts
  <2>3. ~Enter(s)
    BY <1>2 DEF SignalExit, Liquidate, Enter, Visit
  <2>4. pos[s].quantity \in Nat
    BY PositionFacts
  <2> QED
    BY <1>1, <2>1, <2>2, <2>3, <2>4, SellsStep
<1>3. ASSUME Enter(s)
      PROVE  FALSE
  <2>1. phase # "protect"
    BY <1>3 DEF Enter, Visit
  <2> QED
    BY <1>1, <1>3, <2>1, EnterStep
<1> QED
  BY <1>2, <1>3

(* What a step does to one symbol's stop.                                  *)
StopKept(s) ==
  /\ forced'[s] # "none" => /\ forced'[s] = "stop_loss" /\ pos'[s].quantity > 0
                            /\ ~(phase' = "protect" /\ s \in todo') => liq'[s] = 0
  /\ forced[s] = "stop_loss" =>
       pos'[s] = Flat \/ (forced'[s] = "stop_loss" /\ ~Bought(s))

LEMMA StopsStep ==
  ASSUME TypeOK, StopsHold, [Next]_vars, NEW s \in Symbols
  PROVE  StopKept(s)
<1>0. /\ forced[s] # "none" => forced[s] = "stop_loss" /\ pos[s].quantity > 0
      /\ forced[s] # "none" /\ ~(phase = "protect" /\ s \in todo) => liq[s] = 0
      /\ pos[s].quantity \in Nat
  BY PositionFacts DEF StopsHold, ForcedExitsAreStops, ForcedAreExhausted, Held
<1>1. CASE OpenBatch
  <2>1. /\ UNCHANGED <<pos, forced>> /\ phase = "open" /\ phase' = "protect"
        /\ s \notin todo' => liq'[s] = liq[s]
    BY <1>1 DEF OpenBatch, Go, book, TypeOK
  <2> QED
    BY <1>0, <2>1 DEF StopKept, Bought
<1>2. ASSUME ProtectAtOpen(s) \/ ProtectInBar(s)
      PROVE  StopKept(s)
  <2>1. Sells(s)
    BY <1>2 DEF Sells, ProtectAtOpen, ProtectInBar
  <2>2. PICK reason \in {"stop_loss", "take_profit"} :
          /\ Held(s) /\ forced' = [forced EXCEPT ![s] = ForcedAfter(s, reason)]
          /\ forced[s] # "none" => reason = "stop_loss"
    BY <1>2, ReasonFacts DEF ProtectAtOpen, ProtectInBar
  <2>3. /\ forced'[s] # "none" =>
             forced'[s] = "stop_loss" /\ pos'[s].quantity > 0 /\ liq'[s] = 0
        /\ reason = "stop_loss" => pos'[s] = Flat \/ forced'[s] = "stop_loss"
        /\ pos'[s].quantity <= pos[s].quantity
    BY <2>1, <2>2, ProtectionStep
  <2>4. ~Bought(s)
    <3>1. SellFill(s) \in Nat /\ pos'[s].quantity = pos[s].quantity - SellFill(s)
      BY <2>1, SellsStep, SellFillFacts
    <3> QED
      BY <1>0, <3>1 DEF Bought
  <2> QED
    BY <2>2, <2>3, <2>4 DEF StopKept
<1>3. ASSUME SignalExit(s) \/ Liquidate(s)
      PROVE  StopKept(s)
  <2>1. forced' = forced
    BY <1>3 DEF SignalExit, Liquidate
  <2>2. forced[s] # "none" => liq'[s] = 0 /\ pos'[s].quantity = pos[s].quantity
    BY <1>3, ExhaustedIsLeftAlone
  <2> QED
    BY <1>0, <2>1, <2>2 DEF StopKept, Bought
<1>4. ASSUME NEW t \in Symbols \ {s}, Sells(t) \/ Enter(t)
      PROVE  StopKept(s)
  <2>1. pos'[s] = pos[s] /\ liq'[s] = liq[s]
    BY <1>4, SellsStep, EnterStep
  <2>2. forced'[s] = forced[s]
    BY <1>4 DEF Sells, ProtectAtOpen, SignalExit, ProtectInBar, Liquidate, Enter, TypeOK
  <2>3. phase' = phase /\ (s \in todo' <=> s \in todo)
    BY <1>4 DEF Sells, ProtectAtOpen, SignalExit, ProtectInBar, Liquidate, Enter, Visit
  <2> QED
    BY <1>0, <2>1, <2>2, <2>3 DEF StopKept, Bought
<1>5. ASSUME Enter(s)
      PROVE  StopKept(s)
  <2>1. forced[s] = "none" /\ forced' = forced
    BY <1>5, ExhaustedIsLeftAlone DEF Enter
  <2> QED
    BY <2>1 DEF StopKept
<1>6. CASE Quiet
  <2>1. pos' = pos /\ forced' = forced /\ liq' = liq
    BY <1>6 DEF Quiet, book
  <2>2. CASE forced[s] # "none" /\ ~(phase' = "protect" /\ s \in todo')
    <3>1. CASE phase = "protect" /\ s \in todo
      <4>1. ProtectAtOpen(s)
        BY <2>2, <3>1, ForcedIsTried
      <4> QED
        BY <1>2, <4>1
    <3>2. CASE ~(phase = "protect" /\ s \in todo)
      BY <1>0, <2>1, <2>2, <3>2 DEF StopKept, Bought
    <3> QED
      BY <3>1, <3>2
  <2>3. CASE ~(forced[s] # "none" /\ ~(phase' = "protect" /\ s \in todo'))
    BY <1>0, <2>1, <2>3 DEF StopKept, Bought
  <2> QED
    BY <2>2, <2>3
<1>7. Sells(s) => ProtectAtOpen(s) \/ SignalExit(s) \/ ProtectInBar(s) \/ Liquidate(s)
  BY DEF Sells
<1> QED
  BY <1>1, <1>2, <1>3, <1>4, <1>5, <1>6, <1>7, StepKinds

LEMMA StopsInv == Spec => [](TypeOK /\ StopsHold)
<1>1. Init => TypeOK /\ StopsHold
  BY TypeInit, StopsInit
<1>2. ASSUME TypeOK, StopsHold, [Next]_vars
      PROVE  StopsHold'
  <2>1. \A s \in Symbols : StopKept(s)
    BY <1>2, StopsStep
  <2> QED
    BY <2>1 DEF StopKept, StopsHold, ForcedExitsAreStops, ForcedAreExhausted, Held
<1>3. TypeOK /\ StopsHold /\ [Next]_vars => (TypeOK /\ StopsHold)'
  BY <1>2, TypeStep
<1> QED
  BY <1>1, <1>3, PTL DEF Spec

(* Only stops are pursued, and only while there are shares                 *)
(* (engine.py:446, :480, :783, :816).                                      *)
THEOREM OnlyStopsAreForced == Spec => []ForcedExitsAreStops
BY StopsInv, PTL DEF StopsHold

(* A triggered stop is pursued until nothing is left (engine.py:426-484).  *)
THEOREM StopsPursued == Spec => StopsArePursued
<1>1. ASSUME TypeOK, StopsHold, [Next]_vars
      PROVE  \A s \in Symbols : forced[s] = "stop_loss" =>
               pos'[s] = Flat \/ (forced'[s] = "stop_loss" /\ ~Bought(s))
  BY <1>1, StopsStep DEF StopKept
<1>2. TypeOK /\ StopsHold /\ [Next]_vars =>
        [\A s \in Symbols : forced[s] = "stop_loss" =>
           pos'[s] = Flat \/ (forced'[s] = "stop_loss" /\ ~Bought(s))]_vars
  BY <1>1
<1> QED
  BY <1>2, StopsInv, PTL DEF Spec, StopsArePursued, StopPursued

-----------------------------------------------------------------------------
(* The books.  What the cash and the paid-for positions add up to changes  *)
(* by exactly what a sell realizes: because a position takes its fees out  *)
(* in proportion to the shares sold, and the last share takes them all.    *)
Basis(p) == p.average * p.quantity * BPS + p.fees

Bases(p) == [s \in Symbols |-> p[s].average * p[s].quantity * BPS + p[s].fees]

Pnls(p) == [s \in Symbols |-> p[s].pnl]

(* Two facts about when a position is empty, which Accounting needs.       *)
EmptyIsFlat == \A s \in Symbols : ~Held(s) => pos[s] = Flat

BuyersAreEmpty == phase = "allocate" => \A s \in todo : ~Held(s)

Booked == EmptyIsFlat /\ BuyersAreEmpty /\ Accounting

LEMMA BasisType ==
  ASSUME NEW p \in Position
  PROVE  /\ Basis(p) \in Int /\ p.pnl \in Int
         /\ Basis(Flat) = 0 /\ Flat.pnl = 0
<1>1. p.average \in Int /\ p.quantity \in Int /\ p.fees \in Int /\ p.pnl \in Int
  BY DEF Position
<1>2. p.average * p.quantity * BPS \in Int
  BY <1>1, PolicyTypes, ProductType
<1>3. 0 * 0 * BPS = 0
  BY PolicyTypes
<1> QED
  BY <1>1, <1>2, <1>3 DEF Basis, Flat

LEMMA BasesFacts ==
  ASSUME NEW p \in [Symbols -> Position]
  PROVE  /\ Bases(p) \in [Symbols -> Int] /\ Pnls(p) \in [Symbols -> Int]
         /\ SumFunction(Bases(p)) \in Int /\ SumFunction(Pnls(p)) \in Int
         /\ \A s \in Symbols : Bases(p)[s] = Basis(p[s]) /\ Pnls(p)[s] = p[s].pnl
<1>1. \A s \in Symbols : Bases(p)[s] = Basis(p[s]) /\ Pnls(p)[s] = p[s].pnl
  BY DEF Bases, Pnls, Basis
<1>2. \A s \in Symbols : Basis(p[s]) \in Int /\ p[s].pnl \in Int
  BY BasisType
<1>3. Bases(p) \in [Symbols -> Int] /\ Pnls(p) \in [Symbols -> Int]
  BY <1>1, <1>2 DEF Bases, Pnls
<1> QED
  BY <1>1, <1>3, SumType, SymbolsFinite

LEMMA AccountingIs ==
  Accounting <=> /\ cash + SumFunction(Bases(pos)) = InitialEquity + realized
                 /\ realized = roundTripPnl + SumFunction(Pnls(pos))
BY DEF Accounting, Bases, Pnls

(* When one position changes, the books change by its difference.          *)
LEMMA OnePosition ==
  ASSUME NEW p \in [Symbols -> Position], NEW r \in [Symbols -> Position],
         NEW s \in Symbols, \A t \in Symbols \ {s} : r[t] = p[t]
  PROVE  /\ SumFunction(Bases(r)) = SumFunction(Bases(p)) + (Basis(r[s]) - Basis(p[s]))
         /\ SumFunction(Pnls(r)) = SumFunction(Pnls(p)) + (r[s].pnl - p[s].pnl)
<1>1. /\ Bases(p) \in [Symbols -> Int] /\ Pnls(p) \in [Symbols -> Int]
      /\ Bases(r) \in [Symbols -> Int] /\ Pnls(r) \in [Symbols -> Int]
      /\ \A t \in Symbols : Bases(p)[t] = Basis(p[t]) /\ Pnls(p)[t] = p[t].pnl
      /\ \A t \in Symbols : Bases(r)[t] = Basis(r[t]) /\ Pnls(r)[t] = r[t].pnl
  BY BasesFacts
<1>2. \A t \in Symbols \ {s} : Bases(r)[t] = Bases(p)[t] /\ Pnls(r)[t] = Pnls(p)[t]
  BY <1>1
<1>3. SumFunction(Bases(r)) = SumFunction(Bases(p)) + (Bases(r)[s] - Bases(p)[s])
  BY <1>1, <1>2, SumUpdate, SymbolsFinite
<1>4. SumFunction(Pnls(r)) = SumFunction(Pnls(p)) + (Pnls(r)[s] - Pnls(p)[s])
  BY <1>1, <1>2, SumUpdate, SymbolsFinite
<1> QED
  BY <1>1, <1>3, <1>4

(* The fees that go with all the shares are all the fees.                  *)
LEMMA AllFeesGo ==
  ASSUME NEW f \in Int, NEW q \in Nat \ {0}
  PROVE  (f * q) \div q = f
OBVIOUS

(* What a sell does to one position's books.                               *)
LEMMA SellBooks ==
  ASSUME TypeOK, NEW s \in Symbols, NEW ref \in Int,
         SellFill(s) > 0, ExitPosition(s, ref)
  PROVE  /\ cash' - cash + (Basis(pos'[s]) - Basis(pos[s])) = realized' - realized
         /\ realized' - realized = roundTripPnl' - roundTripPnl + (pos'[s].pnl - pos[s].pnl)
<1> DEFINE price == SellExecutionPrice(ref, SellFill(s), bar[s].volume)
           left == Remainder(s, price)
           q == pos[s].quantity
           a == pos[s].average
           n == SellFill(s)
           fee == Fee(price, n)
           share == FeeShare(s)
<1>1. /\ Fee(price, SellFill(s)) \in Int /\ Value(price, SellFill(s)) \in Int
      /\ SellPnl(s, price) \in Int /\ left \in Position /\ share \in Int
      /\ left.quantity = q - n
  BY SellMoney
<1>2. /\ q \in Nat /\ a \in Int /\ pos[s].fees \in Int /\ pos[s].pnl \in Int
      /\ n \in Nat /\ n > 0 /\ n <= q
  BY PositionFacts, SellFillFacts
<1>3. price \in Int
  <2>1. SellFill(s) \in Int /\ bar[s].volume \in Int
    BY <1>2, BarFacts
  <2> QED
    BY <2>1, PriceTypes
<1>4. /\ cash' = cash + Value(price, n) - fee
      /\ pos'[s] = IF left.quantity = 0 THEN Flat ELSE left
      /\ realized' = realized + SellPnl(s, price)
      /\ roundTripPnl' = IF left.quantity = 0 THEN roundTripPnl + left.pnl
                         ELSE roundTripPnl
  BY DEF ExitPosition, TypeOK
<1>5. /\ left.average = a /\ left.fees = pos[s].fees - share
      /\ left.pnl = pos[s].pnl + SellPnl(s, price)
  BY PositionFacts DEF Remainder, Position
<1>6. n = q => share = pos[s].fees
  <2>1. share = (pos[s].fees * n) \div q
    BY DEF FeeShare
  <2>2. q \in Nat \ {0}
    BY <1>2
  <2>3. (pos[s].fees * q) \div q = pos[s].fees
    <3> HIDE DEF q
    <3> QED
      BY <1>2, <2>2, AllFeesGo
  <2> HIDE DEF q, n, share
  <2> QED
    BY <2>1, <2>3
<1>7. SellPnl(s, price) = (price - a) * n * BPS - share - fee
  BY DEF SellPnl
<1>8. Value(price, n) = price * n * BPS
  BY DEF Value
<1>9. Basis(pos[s]) = a * q * BPS + pos[s].fees
  BY DEF Basis
<1>10. Basis(left) = a * (q - n) * BPS + (pos[s].fees - share)
  BY <1>1, <1>5 DEF Basis
<1>11. Basis(pos'[s]) = Basis(left)
  <2>1. CASE left.quantity = 0
    <3>1. n = q /\ a * (q - n) * BPS = 0
      <4>1. q = n
        BY <1>1, <1>2, <2>1
      <4>2. q - n = 0
        BY <1>2, <4>1
      <4>3. a * 0 * BPS = 0
        BY <1>2, PolicyTypes
      <4> QED
        BY <4>1, <4>2, <4>3
    <3>2. Basis(left) = 0
      BY <1>2, <1>6, <1>10, <3>1
    <3>3. Basis(Flat) = 0
      BY <1>1, BasisType
    <3> QED
      BY <1>4, <2>1, <3>2, <3>3
  <2>2. CASE left.quantity # 0
    BY <1>4, <2>2
  <2> QED
    BY <2>1, <2>2
<1>12. cash \in Int /\ realized \in Int /\ roundTripPnl \in Int /\ fee \in Int /\ BPS \in Int
  BY <1>1, PolicyTypes DEF TypeOK
<1>13. Flat.pnl = 0
  BY DEF Flat
<1> HIDE DEF price, left, q, a, n, fee, share
<1>14. /\ a * (q - n) * BPS = a * q * BPS - a * n * BPS
       /\ (price - a) * n * BPS = price * n * BPS - a * n * BPS
       /\ a * q * BPS \in Int /\ a * n * BPS \in Int /\ price * n * BPS \in Int
  BY <1>2, <1>3, <1>12
<1>15. cash' - cash + (Basis(pos'[s]) - Basis(pos[s])) = realized' - realized
  BY <1>1, <1>2, <1>4, <1>7, <1>8, <1>9, <1>10, <1>11, <1>12, <1>14 DEF share
<1>16. realized' - realized = roundTripPnl' - roundTripPnl + (pos'[s].pnl - pos[s].pnl)
  BY <1>1, <1>2, <1>4, <1>5, <1>12, <1>13
<1> QED
  BY <1>15, <1>16

(* What a buy does to one position's books: the price and the fee leave    *)
(* the cash and become the basis of a position that had none.              *)
LEMMA EnterBooks ==
  ASSUME TypeOK, EmptyIsFlat, BuyersAreEmpty, NEW s \in Symbols, Enter(s)
  PROVE  /\ cash' - cash + (Basis(pos'[s]) - Basis(pos[s])) = 0
         /\ pos'[s].pnl = pos[s].pnl
         /\ UNCHANGED <<realized, roundTripPnl>>
<1> DEFINE q == EntryQuantity(s)
           price == EntryPrice(s, q)
<1>1. pos[s] = Flat
  BY DEF Enter, Visit, Turn, BuyersAreEmpty, EmptyIsFlat
<1>2. q \in Nat /\ cash' = cash - EntryCost(s, q) /\ cash' \in Int
  BY EnterStep
<1>3. pos'[s] = [pos[s] EXCEPT !.quantity = q, !.average = price, !.fees = Fee(price, q),
                    !.stop = StopLossPrice(price), !.target = TakeProfitPrice(price)]
  BY DEF Enter, TypeOK
<1> HIDE DEF q
<1>4. price \in Int
  <2>1. q \in Int /\ Reference(bar[s].open) \in Int /\ bar[s].volume \in Int
    BY <1>2, BarFacts, ReferenceType
  <2> QED
    BY <2>1, PriceTypes DEF EntryPrice
<1>5. EntryCost(s, q) = Value(price, q) + Fee(price, q)
  BY DEF EntryCost
<1> HIDE DEF price
<1>6. Value(price, q) \in Int /\ Fee(price, q) \in Int
  <2>1. q \in Int
    BY <1>2
  <2> QED
    BY <1>4, <2>1, MoneyTypes
<1>7. /\ pos'[s].average = price /\ pos'[s].quantity = q
      /\ pos'[s].fees = Fee(price, q) /\ pos'[s].pnl = pos[s].pnl
  BY <1>1, <1>3 DEF Flat
<1>8. Basis(pos'[s]) = Value(price, q) + Fee(price, q)
  BY <1>7 DEF Basis, Value
<1>9. Basis(pos[s]) = 0
  BY <1>1, FlatFacts, BasisType
<1>10. cash \in Int
  BY DEF TypeOK
<1>11. UNCHANGED <<realized, roundTripPnl>>
  BY DEF Enter
<1> QED
  BY <1>2, <1>5, <1>6, <1>7, <1>8, <1>9, <1>10, <1>11

LEMMA BookedInit == Init => Booked
<1> SUFFICES ASSUME Init PROVE Booked
  OBVIOUS
<1>1. pos = [s \in Symbols |-> Flat]
  BY DEF Init
<1>2. SumFunction(Bases(pos)) = 0
  <2>1. Bases(pos) \in [Symbols -> {0}]
    BY <1>1, FlatFacts, BasisType DEF Bases, Basis
  <2> QED
    BY <2>1, SumOfZeros, SymbolsFinite
<1>3. SumFunction(Pnls(pos)) = 0
  <2>1. Pnls(pos) \in [Symbols -> {0}]
    BY <1>1 DEF Pnls, Flat
  <2> QED
    BY <2>1, SumOfZeros, SymbolsFinite
<1>4. Accounting
  BY <1>2, <1>3, AccountingIs, RequestAssumption DEF Init
<1> QED
  BY <1>1, <1>4 DEF Booked, EmptyIsFlat, BuyersAreEmpty, Init

(* A step that changes one position and keeps its books in balance keeps   *)
(* all the books in balance.                                               *)
Balanced(s) ==
  /\ \A t \in Symbols \ {s} : pos'[t] = pos[t]
  /\ cash' - cash + (Basis(pos'[s]) - Basis(pos[s])) = realized' - realized
  /\ realized' - realized = roundTripPnl' - roundTripPnl + (pos'[s].pnl - pos[s].pnl)

LEMMA BalanceKept ==
  ASSUME TypeOK, TypeOK', Accounting, NEW s \in Symbols, Balanced(s)
  PROVE  Accounting'
<1>1. pos \in [Symbols -> Position] /\ pos' \in [Symbols -> Position]
  BY DEF TypeOK
<1>2. /\ SumFunction(Bases(pos')) = SumFunction(Bases(pos)) + (Basis(pos'[s]) - Basis(pos[s]))
      /\ SumFunction(Pnls(pos')) = SumFunction(Pnls(pos)) + (pos'[s].pnl - pos[s].pnl)
  BY <1>1, OnePosition DEF Balanced
<1>3. /\ SumFunction(Bases(pos)) \in Int /\ SumFunction(Pnls(pos)) \in Int
      /\ Basis(pos[s]) \in Int /\ Basis(pos'[s]) \in Int
      /\ pos[s].pnl \in Int /\ pos'[s].pnl \in Int
  BY <1>1, BasesFacts, BasisType
<1>4. /\ cash \in Int /\ realized \in Int /\ roundTripPnl \in Int
      /\ cash' \in Int /\ realized' \in Int /\ roundTripPnl' \in Int
      /\ InitialEquity \in Int
  BY RequestAssumption DEF TypeOK
<1>5. /\ cash + SumFunction(Bases(pos)) = InitialEquity + realized
      /\ realized = roundTripPnl + SumFunction(Pnls(pos))
  BY AccountingIs
<1>6. /\ cash' + SumFunction(Bases(pos')) = InitialEquity + realized'
      /\ realized' = roundTripPnl' + SumFunction(Pnls(pos'))
  <2>1. PICK d \in Int : d = Basis(pos'[s]) - Basis(pos[s])
    BY <1>3
  <2>2. PICK u \in Int : u = pos'[s].pnl - pos[s].pnl
    BY <1>3
  <2>3. PICK b \in Int : b = SumFunction(Bases(pos))
    BY <1>3
  <2>4. PICK m \in Int : m = SumFunction(Pnls(pos))
    BY <1>3
  <2>5. cash' + (b + d) = InitialEquity + realized'
    <3>1. cash' - cash + d = realized' - realized /\ cash + b = InitialEquity + realized
      BY <1>5, <2>1, <2>3 DEF Balanced
    <3> QED
      BY <1>4, <3>1
  <2>6. realized' = roundTripPnl' + (m + u)
    <3>1. /\ realized' - realized = roundTripPnl' - roundTripPnl + u
          /\ realized = roundTripPnl + m
      BY <1>5, <2>2, <2>4 DEF Balanced
    <3>2. PICK r \in Int, rr \in Int, e \in Int, ee \in Int :
            r = realized /\ rr = realized' /\ e = roundTripPnl /\ ee = roundTripPnl'
      BY <1>4
    <3>3. rr - r = ee - e + u /\ r = e + m
      BY <3>1, <3>2
    <3>4. rr = ee + (m + u)
      BY <3>3
    <3> QED
      BY <3>2, <3>4
  <2> QED
    BY <1>2, <2>1, <2>2, <2>3, <2>4, <2>5, <2>6
<1> QED
  BY <1>6 DEF Accounting, Bases, Pnls

LEMMA BookedStep == TypeOK /\ TypeOK' /\ Booked /\ [Next]_vars => Booked'
<1> SUFFICES ASSUME TypeOK, TypeOK', Booked, [Next]_vars PROVE Booked'
  OBVIOUS
<1> USE DEF Booked
<1>1. CASE UNCHANGED book
  <2>1. /\ cash' = cash /\ pos' = pos /\ realized' = realized
        /\ roundTripPnl' = roundTripPnl
    BY <1>1 DEF book
  <2>2. EmptyIsFlat' /\ Accounting'
    BY <2>1 DEF EmptyIsFlat, Held, Accounting
  <2>3. ASSUME phase' = "allocate", NEW s \in todo'
        PROVE  s \in Symbols /\ (~Held(s) \/ ~BuyersAreEmpty)
    <3>1. CASE Size
      BY <2>3, <3>1 DEF Size, Go, Candidates, TypeOK
    <3>2. CASE ~Size
      <4>1. phase = "allocate" /\ s \in todo
        BY <2>3, <3>2 DEF Next, OpenBatch, CloseBatch, NextLoop, EndOfData, Finish,
             ProtectAtOpen, SignalExit, Enter, Refuse, ProtectInBar, Skip, Liquidate,
             Visit, Go, vars
      <4> QED
        BY <4>1, SMTT(30) DEF BuyersAreEmpty, TypeOK
    <3> QED
      BY <3>1, <3>2
  <2> QED
    BY <2>1, <2>2, <2>3 DEF BuyersAreEmpty, Held
<1>2. ASSUME NEW s \in Symbols, NEW ref \in Int, SellFill(s) > 0, ExitPosition(s, ref),
             phase' # "allocate"
      PROVE  Booked'
  <2>1. /\ cash' - cash + (Basis(pos'[s]) - Basis(pos[s])) = realized' - realized
        /\ realized' - realized = roundTripPnl' - roundTripPnl + (pos'[s].pnl - pos[s].pnl)
    BY <1>2, SellBooks
  <2>2. SellWhatFills(s, ref)
    BY <1>2 DEF SellWhatFills
  <2>3. /\ \A t \in Symbols \ {s} : pos'[t] = pos[t]
        /\ pos'[s].quantity = pos[s].quantity - SellFill(s)
        /\ SellFill(s) = pos[s].quantity => pos'[s] = Flat
    BY <1>2, <2>2, SellStep
  <2>4. Accounting'
    BY <2>1, <2>3, BalanceKept DEF Balanced
  <2>5. pos[s].quantity \in Nat /\ SellFill(s) \in Nat /\ SellFill(s) <= pos[s].quantity
    BY PositionFacts, SellFillFacts
  <2>6. EmptyIsFlat'
    BY <2>3, <2>5 DEF EmptyIsFlat, Held
  <2> QED
    BY <1>2, <2>4, <2>6 DEF BuyersAreEmpty
<1>3. ASSUME NEW s \in Symbols, Sells(s)
      PROVE  Booked'
  <2>1. PICK ref \in Int : SellWhatFills(s, ref)
    BY <1>3, ReferenceFacts DEF Sells
  <2>2. phase' # "allocate"
    BY <1>3 DEF Sells, ProtectAtOpen, SignalExit, ProtectInBar, Liquidate, Visit
  <2> QED
    BY <1>1, <1>2, <2>1, <2>2 DEF SellWhatFills
<1>4. ASSUME NEW s \in Symbols, Enter(s)
      PROVE  Booked'
  <2>1. /\ cash' - cash + (Basis(pos'[s]) - Basis(pos[s])) = 0
        /\ pos'[s].pnl = pos[s].pnl /\ realized' = realized /\ roundTripPnl' = roundTripPnl
    BY <1>4, EnterBooks
  <2>2. /\ \A t \in Symbols \ {s} : pos'[t] = pos[t]
        /\ pos'[s].quantity > 0
    BY <1>4, EnterStep
  <2>3. /\ realized \in Int /\ roundTripPnl \in Int /\ pos[s].pnl \in Int
    BY PositionFacts DEF TypeOK
  <2>4. Accounting'
    BY <2>1, <2>2, <2>3, BalanceKept DEF Balanced
  <2>5. EmptyIsFlat'
    BY <2>2 DEF EmptyIsFlat, Held
  <2>6. BuyersAreEmpty'
    BY <1>4, <2>2 DEF Enter, Visit, BuyersAreEmpty, Held, TypeOK
  <2> QED
    BY <2>4, <2>5, <2>6
<1>5. Quiet => UNCHANGED book
  BY DEF Quiet
<1>6. OpenBatch => UNCHANGED book
  BY DEF OpenBatch
<1> QED
  BY <1>1, <1>3, <1>4, <1>5, <1>6, StepKinds

(* Every cent is accounted for, at every step of every simulation          *)
(* (engine.py:142-159, :258).                                              *)
THEOREM BooksBalance == Spec => []Accounting
<1>1. Init => TypeOK /\ Booked
  BY TypeInit, BookedInit
<1>2. TypeOK /\ Booked /\ [Next]_vars => (TypeOK /\ Booked)'
  BY TypeStep, BookedStep
<1> QED
  BY <1>1, <1>2, PTL DEF Spec, Booked

-----------------------------------------------------------------------------
(* The curve.  Its last point is the portfolio between two timestamps and  *)
(* at the end; before the first one nothing can be sold, so that the end   *)
(* without any data is no exception.                                       *)
CurveIsCurrent ==
  /\ phase \in {"open", "done"} => lastPoint = PortfolioValue
  /\ batches = 0 => /\ lastPoint = PortfolioValue
                    /\ phase \in {"open", "liquidate", "done"}
                    /\ \A s \in Symbols : ~Held(s)

LEMMA CurveInit == Init => CurveIsCurrent
<1> SUFFICES ASSUME Init PROVE CurveIsCurrent
  OBVIOUS
<1> DEFINE g == [s \in Symbols |-> pos[s].quantity * Reference(mark[s]) * BPS * BPS]
<1>1. pos = [s \in Symbols |-> Flat] /\ mark = [s \in Symbols |-> 0]
  BY DEF Init
<1>2. ASSUME NEW s \in Symbols
      PROVE  pos[s].quantity * Reference(mark[s]) * BPS * BPS = 0
  <2>1. pos[s].quantity = 0 /\ Reference(mark[s]) \in Nat
    BY <1>1, FlatFacts, ReferenceType
  <2>2. 0 * Reference(mark[s]) = 0
    BY <2>1
  <2> QED
    BY <2>1, <2>2, PolicyTypes
<1>3. g \in [Symbols -> {0}]
  BY <1>2
<1>4. InvestedValue = SumFunction(g)
  BY DEF InvestedValue
<1> HIDE DEF g
<1>5. InvestedValue = 0
  BY <1>3, <1>4, SumOfZeros, SymbolsFinite
<1> QED
  BY <1>1, <1>5, RequestAssumption, FlatFacts
     DEF CurveIsCurrent, PortfolioValue, Held, Init

LEMMA CurveStep == TypeOK /\ CurveIsCurrent /\ [Next]_vars => CurveIsCurrent'
<1> SUFFICES ASSUME TypeOK, CurveIsCurrent, [Next]_vars PROVE CurveIsCurrent'
  OBVIOUS
<1> USE DEF CurveIsCurrent
<1>0. batches \in Nat
  BY DEF TypeOK
<1>1. UNCHANGED <<cash, pos, mark>> => PortfolioValue' = PortfolioValue
  BY DEF PortfolioValue, InvestedValue
<1>2. CASE OpenBatch
  <2>1. phase' = "protect" /\ batches' = batches + 1
    BY <1>2 DEF OpenBatch, Go
  <2> QED
    BY <1>0, <2>1
<1>3. CASE CloseBatch
  <2>1. phase = "close" /\ batches' = batches /\ lastPoint' = PortfolioValue'
    BY <1>3 DEF CloseBatch
  <2> QED
    BY <2>1
<1>4. CASE EndOfData
  <2>1. /\ phase = "open" /\ phase' \in {"liquidate", "done"}
        /\ UNCHANGED <<cash, pos, mark, lastPoint, batches>>
    BY <1>4 DEF EndOfData, Go, book, market
  <2> QED
    BY <1>1, <2>1 DEF Held
<1>5. CASE Finish
  <2>1. /\ phase = "liquidate" /\ phase' = "done" /\ UNCHANGED <<cash, pos, mark, batches>>
        /\ lastPoint' = IF batches > 0 THEN PortfolioValue ELSE lastPoint
    BY <1>5 DEF Finish, Go, book, market
  <2> QED
    BY <1>0, <1>1, <2>1 DEF Held
<1>6. ASSUME NEW s \in Symbols, Liquidate(s)
      PROVE  CurveIsCurrent'
  <2>1. /\ phase = "liquidate" /\ phase' = "liquidate"
        /\ UNCHANGED <<mark, batches, lastPoint>>
        /\ SellWhatFills(s, Reference(bar[s].close))
    BY <1>6 DEF Liquidate, Visit, market
  <2>2. ~Held(s) => UNCHANGED <<cash, pos>>
    <3>1. ~Held(s) => ~(SellFill(s) > 0)
      BY SellFillFacts, PositionFacts DEF Held
    <3> QED
      BY <2>1, <3>1 DEF SellWhatFills, book
  <2> QED
    BY <1>1, <2>1, <2>2 DEF Held
<1>7. ASSUME NEW s \in Symbols,
             \/ ProtectAtOpen(s) \/ SignalExit(s) \/ Enter(s) \/ Refuse(s)
             \/ ProtectInBar(s) \/ Skip(s)
      PROVE  CurveIsCurrent'
  <2>1. /\ phase \in {"protect", "signal", "allocate", "intrabar"}
        /\ phase' = phase /\ batches' = batches
    BY <1>7 DEF ProtectAtOpen, SignalExit, Enter, Refuse, ProtectInBar, Skip, Visit, market
  <2> QED
    BY <2>1
<1>8. CASE Size \/ NextLoop
  <2>1. /\ phase \in {"protect", "signal", "size", "allocate", "intrabar"}
        /\ phase' \in {"signal", "size", "allocate", "intrabar", "close"}
        /\ batches' = batches
    BY <1>8 DEF Size, NextLoop, Go, market
  <2> QED
    BY <2>1
<1>9. CASE UNCHANGED vars
  BY <1>1, <1>9 DEF vars, book, market, Held
<1> QED
  BY <1>2, <1>3, <1>4, <1>5, <1>6, <1>7, <1>8, <1>9 DEF Next

LEMMA ProfitExplained ==
  ASSUME TypeOK, Accounting, CurveIsCurrent
  PROVE  NetProfitExplained
<1> DEFINE g == [s \in Symbols |-> pos[s].quantity * Reference(mark[s]) * BPS * BPS]
           d == [s \in Symbols |-> (Reference(mark[s]) * BPS - pos[s].average)
                                     * pos[s].quantity * BPS - pos[s].fees]
<1> SUFFICES ASSUME phase = "done"
             PROVE  lastPoint = InitialEquity + realized + SumFunction(d)
  BY DEF NetProfitExplained
<1>1. pos \in [Symbols -> Position]
  BY DEF TypeOK
<1>2. /\ Bases(pos) \in [Symbols -> Int] /\ SumFunction(Bases(pos)) \in Int
      /\ \A s \in Symbols : Bases(pos)[s] = Basis(pos[s])
  BY <1>1, BasesFacts
<1>3. ASSUME NEW s \in Symbols
      PROVE  /\ g[s] \in Int /\ d[s] \in Int /\ d[s] = g[s] - Bases(pos)[s]
  <2> DEFINE q == pos[s].quantity
             a == pos[s].average
             f == pos[s].fees
             m == Reference(mark[s])
  <2>1. q \in Int /\ a \in Int /\ f \in Int /\ m \in Int /\ BPS \in Int
    <3>1. mark[s] \in Nat
      BY DEF TypeOK
    <3> QED
      BY <3>1, PositionFacts, ReferenceType, PolicyTypes
  <2>2. Bases(pos)[s] = a * q * BPS + f
    BY <1>2 DEF Basis
  <2>3. g[s] = q * m * BPS * BPS /\ d[s] = (m * BPS - a) * q * BPS - f
    OBVIOUS
  <2> HIDE DEF q, a, f, m, g, d
  <2>4. (m * BPS - a) * q * BPS = q * m * BPS * BPS - a * q * BPS
    BY <2>1
  <2>5. q * m * BPS * BPS \in Int /\ a * q * BPS \in Int
    BY <2>1, ProductType
  <2> QED
    BY <2>1, <2>2, <2>3, <2>4, <2>5
<1>4. g \in [Symbols -> Int] /\ d \in [Symbols -> Int]
  BY <1>3
<1>5. InvestedValue = SumFunction(g)
  BY DEF InvestedValue
<1> HIDE DEF g, d
<1>6. SumFunction(d) = SumFunction(g) - SumFunction(Bases(pos))
  BY <1>2, <1>3, <1>4, SumOfDifferences, SymbolsFinite
<1>7. SumFunction(g) \in Int
  BY <1>4, SumType, SymbolsFinite
<1>8. lastPoint = cash + SumFunction(g)
  BY <1>5 DEF CurveIsCurrent, PortfolioValue
<1>9. cash + SumFunction(Bases(pos)) = InitialEquity + realized
  BY AccountingIs
<1>10. cash \in Int /\ realized \in Int /\ InitialEquity \in Int
  BY RequestAssumption DEF TypeOK
<1> QED
  BY <1>2, <1>6, <1>7, <1>8, <1>9, <1>10

(* The final equity is the initial one plus the realized profit plus the   *)
(* unrealized one, whatever the data (engine.py:245-258, :900-914).        *)
THEOREM ProfitIsExplained == Spec => []NetProfitExplained
<1>1. Init => CurveIsCurrent
  BY CurveInit
<1>2. Spec => []TypeOK
  BY EngineTypes
<1>3. Spec => []Accounting
  BY BooksBalance
<1>4. TypeOK /\ CurveIsCurrent /\ [Next]_vars => CurveIsCurrent'
  BY CurveStep
<1>5. TypeOK /\ Accounting /\ CurveIsCurrent => NetProfitExplained
  BY ProfitExplained
<1> QED
  BY <1>1, <1>2, <1>3, <1>4, <1>5, PTL DEF Spec

-----------------------------------------------------------------------------
(* Stops inside the bar.  Once a symbol's turn in the intrabar loop is     *)
(* over, a stop its bar has touched is sold or noted.                      *)
BreachNoted(s) ==
  Held(s) /\ Reference(bar[s].low) <= pos[s].stop => forced[s] = "stop_loss"

BreachesNoted ==
  /\ phase \in {"intrabar", "close"} =>
       \A s \in batch \ exitedAtOpen : s \in todo \/ BreachNoted(s)
  /\ phase = "close" => todo = {}

LEMMA NotedAfterTurn ==
  ASSUME TypeOK, StopsHold, NEW s \in Symbols, phase = "intrabar",
         ProtectInBar(s) \/ Skip(s), s \notin exitedAtOpen
  PROVE  BreachNoted(s)'
<1>1. CASE ProtectInBar(s)
  <2>1. /\ Sells(s) /\ bar' = bar /\ ReasonInBar(s) # "none"
        /\ forced' = [forced EXCEPT ![s] = ForcedAfter(s, ReasonInBar(s))]
    BY <1>1 DEF ProtectInBar, Sells, market
  <2>2. Held(s) /\ ReasonInBar(s) \in {"stop_loss", "take_profit"}
    BY <2>1, ReasonFacts
  <2>3. CASE ReasonInBar(s) = "stop_loss"
    <3>1. pos'[s] = Flat \/ forced'[s] = "stop_loss"
      <4> DEFINE reason == ReasonInBar(s)
      <4>1. reason \in {"stop_loss", "take_profit"} /\ reason = "stop_loss"
        BY <2>3
      <4>2. forced' = [forced EXCEPT ![s] = ForcedAfter(s, reason)]
        BY <2>1
      <4> HIDE DEF reason
      <4> QED
        BY <2>1, <2>2, <4>1, <4>2, ProtectionStep
    <3> QED
      BY <3>1, FlatFacts DEF BreachNoted, Held
  <2>4. CASE ReasonInBar(s) = "take_profit"
    <3>1. ~(Reference(bar[s].low) <= pos[s].stop)
      BY <2>4 DEF ReasonInBar
    <3>2. pos'[s].quantity > 0 => pos'[s].stop = pos[s].stop
      BY <2>1, SellsStep
    <3> QED
      BY <2>1, <3>1, <3>2 DEF BreachNoted, Held
  <2> QED
    BY <2>2, <2>3, <2>4
<1>2. CASE Skip(s)
  <2>1. ReasonInBar(s) = "none" /\ UNCHANGED <<pos, bar, forced>>
    BY <1>2 DEF Skip, book, market
  <2>2. forced[s] # "none" => forced[s] = "stop_loss"
    BY DEF StopsHold, ForcedExitsAreStops
  <2>3. BreachNoted(s)
    BY <2>1, <2>2 DEF ReasonInBar, BreachNoted
  <2> QED
    BY <2>1, <2>3 DEF BreachNoted, Held
<1> QED
  BY <1>1, <1>2

LEMMA BreachStep == TypeOK /\ StopsHold /\ BreachesNoted /\ [Next]_vars => BreachesNoted'
<1>0. ASSUME BreachesNoted, [Next]_vars, phase' = "close"
      PROVE  todo' = {}
  BY <1>0 DEF BreachesNoted, Next, vars, OpenBatch, Size, CloseBatch, NextLoop, EndOfData,
     Finish, ProtectAtOpen, SignalExit, Enter, Refuse, ProtectInBar, Skip, Liquidate,
     Visit, Go
<1> SUFFICES ASSUME TypeOK, StopsHold, BreachesNoted, [Next]_vars,
                    phase' \in {"intrabar", "close"},
                    NEW s \in batch' \ exitedAtOpen', s \notin todo'
             PROVE  BreachNoted(s)'
  BY <1>0 DEF BreachesNoted
<1>1. CASE NextLoop
  <2>1. /\ UNCHANGED <<pos, bar, forced, batch, exitedAtOpen>> /\ todo = {}
        /\ phase' = "intrabar" => todo' = batch
        /\ phase' = "close" => phase = "intrabar"
    BY <1>1 DEF NextLoop, Go, book, market
  <2>2. BreachNoted(s)
    BY <2>1 DEF BreachesNoted
  <2> QED
    BY <2>1, <2>2 DEF BreachNoted, Held
<1>2. ASSUME NEW t \in Symbols, ProtectInBar(t) \/ Skip(t)
      PROVE  BreachNoted(s)'
  <2>1. /\ UNCHANGED <<bar, batch, exitedAtOpen>> /\ phase' = phase
        /\ todo' = todo \ {t}
    BY <1>2 DEF ProtectInBar, Skip, Visit, market
  <2>2. s \in Symbols /\ phase = "intrabar"
    BY <1>2, <2>1 DEF ProtectInBar, Skip, Visit, TypeOK
  <2>3. CASE s = t
    BY <1>2, <2>1, <2>2, <2>3, NotedAfterTurn
  <2>4. CASE s # t
    <3>1. BreachNoted(s)
      BY <2>1, <2>2, <2>4 DEF BreachesNoted
    <3>2. forced'[s] = forced[s]
      BY <1>2, <2>2, <2>4 DEF ProtectInBar, Skip, TypeOK
    <3>3. pos'[s] = pos[s]
      <4>1. ProtectInBar(t) => Sells(t)
        BY DEF ProtectInBar, Sells
      <4>2. Skip(t) => pos' = pos
        BY DEF Skip, book
      <4> QED
        BY <1>2, <2>2, <2>4, <4>1, <4>2, SellsStep
    <3> QED
      BY <2>1, <3>1, <3>2, <3>3 DEF BreachNoted, Held
  <2> QED
    BY <2>3, <2>4
<1>3. CASE UNCHANGED vars
  <2>1. BreachNoted(s)
    BY <1>3 DEF vars, market, BreachesNoted
  <2> QED
    BY <1>3, <2>1 DEF vars, book, market, BreachNoted, Held
<1>4. ~OpenBatch /\ ~Size /\ ~CloseBatch /\ ~EndOfData /\ ~Finish
  BY DEF OpenBatch, Size, CloseBatch, EndOfData, Finish, Go
<1>5. ASSUME NEW t \in Symbols
      PROVE  ~ProtectAtOpen(t) /\ ~SignalExit(t) /\ ~Enter(t) /\ ~Refuse(t) /\ ~Liquidate(t)
  BY DEF ProtectAtOpen, SignalExit, Enter, Refuse, Liquidate, Visit
<1> QED
  BY <1>1, <1>2, <1>3, <1>4, <1>5, SMTT(30) DEF Next

(* When a timestamp ends no touched stop is forgotten (engine.py:757-820). *)
THEOREM BreachesRemembered == Spec => []StopBreachRemembered
<1>1. Init => BreachesNoted
  BY DEF Init, BreachesNoted
<1>2. TypeOK /\ StopsHold /\ BreachesNoted /\ [Next]_vars => BreachesNoted'
  BY BreachStep
<1>3. Spec => [](TypeOK /\ StopsHold)
  BY StopsInv
<1>4. BreachesNoted => StopBreachRemembered
  BY DEF BreachesNoted, StopBreachRemembered, BreachNoted
<1> QED
  BY <1>1, <1>2, <1>3, <1>4, PTL DEF Spec

(* A stop is remembered from the bar that touched it, and pursued as long  *)
(* as anything is left and no longer (engine.py:426-484, :757-820).        *)
THEOREM StopsWorkedOff == Spec => StopsAreWorkedOff
BY BreachesRemembered, OnlyStopsAreForced, StopsPursued, PTL
DEF StopsAreWorkedOff, StopsArePursued

(* The account is explained to the cent, at every fill (engine.py:142-159) *)
(* and at the end (:900-914).                                              *)
THEOREM AccountIsExplained == Spec => []AccountExplained
BY BooksBalance, ProfitIsExplained, PTL DEF AccountExplained

-----------------------------------------------------------------------------
(* The limits of the portfolio: how many positions and entries, how much   *)
(* cash and exposure.                                                      *)

(* Only a buy raises a quantity, and only of its own symbol.               *)
LEMMA OnlyEnterBuys ==
  ASSUME TypeOK, [Next]_vars, NEW s \in Symbols, Bought(s)
  PROVE  Enter(s)
<1>0. pos[s].quantity \in Nat
  BY PositionFacts
<1>1. ~OpenBatch /\ ~Quiet
  BY <1>0 DEF OpenBatch, Quiet, book, Bought
<1>2. ASSUME NEW t \in Symbols, Sells(t)
      PROVE  FALSE
  <2>1. SellFill(t) \in Nat
    BY SellFillFacts
  <2>2. CASE s = t
    BY <1>0, <1>2, <2>1, <2>2, SellsStep DEF Bought
  <2>3. CASE s # t
    BY <1>0, <1>2, <2>3, SellsStep DEF Bought
  <2> QED
    BY <2>2, <2>3
<1>3. ASSUME NEW t \in Symbols, Enter(t), t # s
      PROVE  FALSE
  BY <1>0, <1>3, EnterStep DEF Bought
<1> QED
  BY <1>1, <1>2, <1>3, StepKinds

(* So the symbols held afterwards were held before, but for the one bought.*)
HeldSymbols == {s \in Symbols : Held(s)}

LEMMA HeldGrows ==
  ASSUME TypeOK, TypeOK', [Next]_vars
  PROVE  \/ HeldSymbols' \subseteq HeldSymbols
         \/ \E s \in Symbols : Enter(s) /\ HeldSymbols' \subseteq HeldSymbols \cup {s}
<1>1. \A s \in Symbols : pos[s].quantity \in Nat /\ pos'[s].quantity \in Nat
  BY DEF TypeOK, Position
<1>2. CASE \A s \in Symbols : ~Bought(s)
  BY <1>1, <1>2 DEF HeldSymbols, Held, Bought
<1>3. ASSUME NEW s \in Symbols, Bought(s)
      PROVE  Enter(s) /\ HeldSymbols' \subseteq HeldSymbols \cup {s}
  <2>1. Enter(s)
    BY <1>3, OnlyEnterBuys
  <2>2. \A t \in Symbols \ {s} : pos'[t] = pos[t]
    BY <2>1, EnterStep
  <2> QED
    BY <2>1, <2>2 DEF HeldSymbols, Held
<1> QED
  BY <1>2, <1>3

(* Never more positions than the limit, however many buys one timestamp    *)
(* decides (engine.py:583, :619).                                          *)
THEOREM PositionsStayBounded == Spec => []PositionsBounded
<1>1. \A S \in SUBSET Symbols : IsFiniteSet(S) /\ Cardinality(S) \in Nat
  BY SymbolsFinite, FS_Subset, FS_CardinalityType
<1>2. Init => PositionsBounded
  <2> SUFFICES ASSUME Init PROVE PositionsBounded
    OBVIOUS
  <2>1. {s \in Symbols : Held(s)} = {}
    BY FlatFacts DEF Init, Held
  <2>2. OpenPositions = 0
    BY <2>1, FS_EmptySet DEF OpenPositions
  <2> QED
    BY <2>2, RequestAssumption DEF PositionsBounded
<1>3. TypeOK /\ TypeOK' /\ PositionsBounded /\ [Next]_vars => PositionsBounded'
  <2> SUFFICES ASSUME TypeOK, TypeOK', PositionsBounded, [Next]_vars
               PROVE  PositionsBounded'
    OBVIOUS
  <2>0. /\ OpenPositions = Cardinality(HeldSymbols)
        /\ OpenPositions' = Cardinality(HeldSymbols')
        /\ HeldSymbols \in SUBSET Symbols /\ HeldSymbols' \in SUBSET Symbols
    BY DEF OpenPositions, HeldSymbols
  <2>1. CASE HeldSymbols' \subseteq HeldSymbols
    <3>1. Cardinality(HeldSymbols') <= Cardinality(HeldSymbols)
      BY <1>1, <2>0, <2>1, FS_Subset
    <3> QED
      BY <1>1, <2>0, <3>1, RequestAssumption DEF PositionsBounded
  <2>2. ASSUME NEW s \in Symbols, Enter(s), HeldSymbols' \subseteq HeldSymbols \cup {s}
        PROVE  PositionsBounded'
    <3>1. ~LimitHit
      BY <2>2, EntryFacts DEF Enter
    <3>2. ~(OpenPositions >= MaxOpenPositions)
      BY <3>1 DEF LimitHit
    <3>3. /\ IsFiniteSet(HeldSymbols \cup {s})
          /\ Cardinality(HeldSymbols \cup {s}) <= Cardinality(HeldSymbols) + 1
      BY <1>1, <2>0, FS_AddElement
    <3>4. Cardinality(HeldSymbols') <= Cardinality(HeldSymbols \cup {s})
      BY <2>2, <3>3, FS_Subset
    <3>5. Cardinality(HeldSymbols \cup {s}) \in Nat
      BY <3>3, FS_CardinalityType
    <3> QED
      BY <1>1, <2>0, <3>2, <3>3, <3>4, <3>5, RequestAssumption DEF PositionsBounded
  <2> QED
    BY <2>1, <2>2, HeldGrows
<1> QED
  BY <1>2, <1>3, EngineTypes, PTL DEF Spec

(* The risk agent's daily limit (risk_adapter.py:25, engine.py:710).       *)
THEOREM DayStaysLimited == Spec => []DayLimited
<1>1. Init => DayLimited
  BY RequestAssumption DEF Init, DayLimited
<1>2. TypeOK /\ DayLimited /\ [Next]_vars => DayLimited'
  <2> SUFFICES ASSUME TypeOK, DayLimited, [Next]_vars, UseRiskAgent
               PROVE  entriesToday' <= MaxTradesPerDay
    BY DEF DayLimited
  <2>0. entriesToday \in Nat /\ MaxTradesPerDay \in Nat /\ entriesToday <= MaxTradesPerDay
    BY RequestAssumption DEF TypeOK, DayLimited
  <2>1. ASSUME NEW s \in Symbols, Enter(s)
        PROVE  entriesToday' <= MaxTradesPerDay
    <3>1. EntryQuantity(s) > 0 /\ entriesToday' = entriesToday + 1
      BY <2>1 DEF Enter
    <3>2. RiskApproved(s, Allocated(s)) # 0
      BY <3>1 DEF EntryQuantity
    <3>3. ~(entriesToday >= MaxTradesPerDay)
      BY <3>2 DEF RiskApproved, RiskViolated
    <3> QED
      BY <2>0, <3>1, <3>3
  <2>2. ASSUME \A s \in Symbols : ~Enter(s)
        PROVE  entriesToday' \in {0, entriesToday}
    BY <2>2 DEF Next, vars, OpenBatch, Size, CloseBatch, NextLoop, EndOfData, Finish,
       ProtectAtOpen, SignalExit, Refuse, ProtectInBar, Skip, Liquidate, market
  <2> QED
    BY <2>0, <2>1, <2>2
<1> QED
  BY <1>1, <1>2, EngineTypes, PTL DEF Spec

-----------------------------------------------------------------------------
(* The open.  While the timestamp is being opened and its buys are placed, *)
(* the marks of its symbols are its opens, and a symbol nobody sold there  *)
(* has not traded yet.                                                     *)
AtOpen == phase \in {"protect", "signal", "size", "allocate"}

MarkedAtOpen ==
  AtOpen => \A s \in batch : bar[s] \in Bars /\ mark[s] = bar[s].open

Untouched ==
  /\ phase \in {"protect", "signal", "size"} =>
       \A s \in batch \ exitedAtOpen : traded[s] = 0
  /\ phase = "allocate" => todo \subseteq batch /\ \A s \in todo : traded[s] = 0

OpenHolds == MarkedAtOpen /\ Untouched

LEMMA OpenStep == TypeOK /\ OpenHolds /\ [Next]_vars => OpenHolds'
<1> SUFFICES ASSUME TypeOK, OpenHolds, [Next]_vars PROVE OpenHolds'
  OBVIOUS
<1> USE DEF OpenHolds, MarkedAtOpen, Untouched, AtOpen
<1>1. CASE OpenBatch
  <2>1. PICK here \in SUBSET Symbols \ {{}} : \E new \in [here -> Bars] :
          /\ bar' = [t \in Symbols |-> IF t \in here THEN new[t] ELSE bar[t]]
          /\ mark' = [t \in Symbols |-> IF t \in here THEN new[t].open ELSE mark[t]]
          /\ traded' = [t \in Symbols |-> IF t \in here THEN 0 ELSE traded[t]]
          /\ batch' = here
          /\ Go("protect", here)
    BY <1>1 DEF OpenBatch
  <2>2. phase' = "protect"
    BY <2>1 DEF Go
  <2>3. \A s \in here : bar'[s] \in Bars /\ mark'[s] = bar'[s].open /\ traded'[s] = 0
    BY <2>1
  <2> QED
    BY <2>1, <2>2, <2>3
<1>2. CASE Size
  <2>1. /\ phase = "size" /\ phase' = "allocate" /\ todo' = Candidates
        /\ UNCHANGED <<bar, mark, batch, traded>>
    BY <1>2 DEF Size, Go, market
  <2>2. Candidates \subseteq batch \ exitedAtOpen
    BY DEF Candidates
  <2> QED
    BY <2>1, <2>2
<1>3. CASE NextLoop
  <2>1. /\ UNCHANGED <<bar, mark, batch, traded, exitedAtOpen>>
        /\ phase' \in {"signal", "size"} => phase \in {"protect", "signal"}
        /\ phase' \in {"signal", "size", "intrabar", "close"}
    BY <1>3 DEF NextLoop, Go, market
  <2> QED
    BY <2>1
<1>4. CASE CloseBatch \/ EndOfData \/ Finish
  <2>1. phase' \in {"open", "liquidate", "done"}
    BY <1>4 DEF CloseBatch, EndOfData, Finish, Go
  <2> QED
    BY <2>1
<1>5. ASSUME NEW s \in Symbols, ProtectAtOpen(s) \/ SignalExit(s)
      PROVE  OpenHolds'
  <2>1. /\ Sells(s) /\ phase \in {"protect", "signal"} /\ phase' = phase
        /\ UNCHANGED <<bar, mark, batch>> /\ exitedAtOpen' = exitedAtOpen \cup {s}
    BY <1>5 DEF Sells, ProtectAtOpen, SignalExit, Visit, market
  <2>2. \A t \in Symbols \ {s} : traded'[t] = traded[t]
    BY <2>1, SellsStep
  <2> QED
    BY <2>1, <2>2 DEF TypeOK
<1>6. ASSUME NEW s \in Symbols, Enter(s)
      PROVE  OpenHolds'
  <2>1. /\ phase = "allocate" /\ phase' = phase /\ todo' = todo \ {s}
        /\ UNCHANGED <<bar, mark, batch>>
    BY <1>6 DEF Enter, Visit
  <2>2. \A t \in Symbols \ {s} : traded'[t] = traded[t]
    BY <1>6, EnterStep
  <2> QED
    BY <2>1, <2>2 DEF TypeOK
<1>7. ASSUME NEW s \in Symbols, Refuse(s) \/ Skip(s)
      PROVE  OpenHolds'
  <2>1. /\ phase' = phase /\ todo' \subseteq todo
        /\ UNCHANGED <<bar, mark, batch, traded, exitedAtOpen>>
    BY <1>7 DEF Refuse, Skip, Visit, market
  <2> QED
    BY <2>1
<1>8. ASSUME NEW s \in Symbols, ProtectInBar(s) \/ Liquidate(s)
      PROVE  OpenHolds'
  <2>1. phase' \in {"intrabar", "liquidate"}
    BY <1>8 DEF ProtectInBar, Liquidate, Visit
  <2> QED
    BY <2>1
<1>9. CASE UNCHANGED vars
  BY <1>9 DEF vars, market
<1> QED
  BY <1>1, <1>2, <1>3, <1>4, <1>5, <1>6, <1>7, <1>8, <1>9 DEF Next

LEMMA OpenInv == Spec => [](TypeOK /\ OpenHolds)
<1>1. Init => OpenHolds
  BY DEF Init, OpenHolds, MarkedAtOpen, Untouched, AtOpen
<1> QED
  BY <1>1, TypeInit, TypeStep, OpenStep, PTL DEF Spec

(* What was sold at an open is not bought back there (engine.py:485).      *)
THEOREM NothingBoughtBack == Spec => NoBuyBackAtTheOpen
<1>1. TypeOK /\ OpenHolds /\ [Next]_vars =>
        [\A s \in Symbols : Bought(s) => traded[s] = 0]_vars
  <2> SUFFICES ASSUME TypeOK, OpenHolds, [Next]_vars, NEW s \in Symbols, Bought(s)
               PROVE  traded[s] = 0
    OBVIOUS
  <2>1. Enter(s)
    BY OnlyEnterBuys
  <2> QED
    BY <2>1 DEF Enter, Visit, Turn, OpenHolds, Untouched
<1> QED
  BY <1>1, OpenInv, PTL DEF Spec, NoBuyBackAtTheOpen

-----------------------------------------------------------------------------
(* Cash and exposure.  The risk agent may leave less of an allocation than *)
(* the allocator found; a smaller fill is cheaper, share by share, so that *)
(* the limits of the allocation hold for what is really bought.            *)
LEMMA BuyPriceAbove ==
  ASSUME NEW q \in Nat, NEW ref \in Nat, NEW volume \in Nat
  PROVE  /\ BuyExecutionPrice(ref, q, volume) \in Nat
         /\ ref * BPS <= BuyExecutionPrice(ref, q, volume)
<1>1. MarketImpact(q, volume) \in Nat
  BY ImpactGrows
<1> DEFINE factor == BPS + SlippageBps + MarketImpact(q, volume) + HalfSpreadBps
<1>2. factor \in Nat /\ BPS \in Nat /\ BPS <= factor
  BY <1>1, PolicyAssumption
<1>3. BuyExecutionPrice(ref, q, volume) = ref * factor
  BY DEF BuyExecutionPrice
<1> HIDE DEF factor
<1> QED
  BY <1>2, <1>3, ProductMonotone

(* What a fill costs grows with it.                                        *)
LEMMA CostGrows ==
  ASSUME NEW q \in Nat, NEW a \in Nat, NEW ref \in Nat, NEW volume \in Nat, q <= a
  PROVE  LET p == BuyExecutionPrice(ref, q, volume)
             r == BuyExecutionPrice(ref, a, volume)
         IN  /\ Value(p, q) \in Nat /\ Fee(p, q) \in Nat
             /\ Value(r, a) \in Nat /\ Fee(r, a) \in Nat
             /\ Value(p, q) <= Value(r, a) /\ Fee(p, q) <= Fee(r, a)
<1> DEFINE p == BuyExecutionPrice(ref, q, volume)
           r == BuyExecutionPrice(ref, a, volume)
<1>1. p \in Nat /\ r \in Nat /\ p <= r
  BY BuyPriceGrows
<1> HIDE DEF p, r
<1>2. p * q \in Nat /\ r * a \in Nat /\ p * q <= r * a
  BY <1>1, ProductMonotone
<1>3. Value(p, q) \in Nat /\ Value(r, a) \in Nat /\ Value(p, q) <= Value(r, a)
  BY <1>2, ProductMonotone, PolicyAssumption DEF Value
<1>4. Fee(p, q) \in Nat /\ Fee(r, a) \in Nat /\ Fee(p, q) <= Fee(r, a)
  BY <1>2, ProductMonotone, PolicyAssumption DEF Fee
<1> QED
  BY <1>3, <1>4 DEF p, r

LEMMA ReserveTypes ==
  ASSUME TypeOK
  PROVE  Reserve \in Int /\ MaxExposure \in Int
<1>1. equity * CashReservePct \in Int /\ equity * MaxTotalExposurePct \in Int
  BY RequestAssumption, ProductType DEF TypeOK
<1> QED
  BY <1>1, DivType, PolicyTypes DEF Reserve, MaxExposure

(* What an allocation and the buy it becomes may cost.                     *)
LEMMA BuyWithinLimits ==
  ASSUME TypeOK, NEW s \in Symbols, EntryQuantity(s) > 0, bar[s] \in Bars
  PROVE  LET q == EntryQuantity(s) IN
         /\ cash - EntryCost(s, q) >= Reserve
         /\ Value(EntryPrice(s, q), q) <= MaxExposure - InvestedValue
         /\ EntryPrice(s, q) \in Nat
         /\ Reference(bar[s].open) * BPS <= EntryPrice(s, q)
         /\ Value(EntryPrice(s, q), q) \in Nat
<1> DEFINE q == EntryQuantity(s)
           a == Allocated(s)
           ref == Reference(bar[s].open)
           v == bar[s].volume
           p == EntryPrice(s, q)
           r == EntryPrice(s, a)
<1>1. q \in Nat /\ a \in Nat /\ q > 0 /\ q <= a
  BY EntryFacts
<1>2. ref \in Nat \ {0} /\ v \in Nat
  <2>1. bar[s].open \in Nat \ {0} /\ bar[s].volume \in Nat
    BY BarAssumption
  <2> QED
    BY <2>1, PolicyTypes, ProductType DEF Reference
<1>3. EntryAllowed(a, ref, v, Limits)
  <2>1. wanted[s] \in Int /\ liq[s] \in Int
    BY DEF TypeOK
  <2>2. a > 0 => EntryAllowed(a, ref, v, Limits)
    BY <2>1, MaxEntryFacts DEF Allocated
  <2> QED
    BY <1>1, <2>2
<1>4. p = BuyExecutionPrice(ref, q, v) /\ r = BuyExecutionPrice(ref, a, v)
  BY DEF EntryPrice
<1>5. EntryCost(s, q) = Value(p, q) + Fee(p, q)
  BY DEF EntryCost
<1>6. /\ Value(r, a) + Fee(r, a) <= AtLeastZero(cash - Reserve)
      /\ Value(r, a) <= AtLeastZero(MaxExposure - InvestedValue)
  BY <1>3, <1>4 DEF EntryAllowed, Limits
<1> HIDE DEF q, a, ref, v, p, r
<1>7. /\ Value(p, q) \in Nat /\ Fee(p, q) \in Nat /\ Value(r, a) \in Nat /\ Fee(r, a) \in Nat
      /\ Value(p, q) <= Value(r, a) /\ Fee(p, q) <= Fee(r, a)
  BY <1>1, <1>2, <1>4, CostGrows
<1>8. p \in Nat \ {0} /\ ref * BPS <= p
  <2>1. p \in Nat /\ ref * BPS <= p /\ ref * BPS \in Nat \ {0}
    BY <1>1, <1>2, <1>4, BuyPriceAbove, PolicyTypes, ProductType
  <2> QED
    BY <2>1
<1>9. Value(p, q) > 0
  <2>1. q \in Nat \ {0}
    BY <1>1
  <2>2. p * q * BPS \in Nat \ {0}
    BY <1>8, <2>1, PolicyTypes, ProductType
  <2> QED
    BY <2>2 DEF Value
<1>10. /\ Reserve \in Int /\ MaxExposure \in Int /\ InvestedValue \in Int /\ cash \in Int
  BY ReserveTypes, PortfolioTypes DEF TypeOK
<1>11. cash - (Value(p, q) + Fee(p, q)) >= Reserve
  BY <1>6, <1>7, <1>9, <1>10 DEF AtLeastZero
<1>12. Value(p, q) <= MaxExposure - InvestedValue
  BY <1>6, <1>7, <1>9, <1>10 DEF AtLeastZero
<1> QED
  BY <1>5, <1>7, <1>8, <1>11, <1>12 DEF q, p, ref
(* What a buy adds to the value of what is held, at the open.              *)
LEMMA BuyAddsItsValue ==
  ASSUME TypeOK, TypeOK', Booked, OpenHolds, NEW s \in Symbols, Enter(s)
  PROVE  InvestedValue' <= InvestedValue + Value(EntryPrice(s, EntryQuantity(s)),
                                                 EntryQuantity(s))
<1> DEFINE g == [t \in Symbols |-> pos[t].quantity * Reference(mark[t]) * BPS * BPS]
           h == [t \in Symbols |-> pos'[t].quantity * Reference(mark'[t]) * BPS * BPS]
           q == EntryQuantity(s)
           p == EntryPrice(s, q)
           ref == Reference(bar[s].open)
<1>1. /\ phase = "allocate" /\ s \in todo /\ q > 0 /\ q \in Nat
      /\ mark' = mark /\ pos'[s].quantity = q
      /\ \A t \in Symbols \ {s} : pos'[t] = pos[t]
  BY EnterStep DEF Enter, Visit, Turn
<1>2. ~Held(s) /\ s \in batch
  BY <1>1 DEF Booked, BuyersAreEmpty, OpenHolds, Untouched
<1>3. pos[s].quantity = 0 /\ mark[s] = bar[s].open /\ bar[s] \in Bars
  BY <1>1, <1>2, PositionFacts DEF Held, OpenHolds, MarkedAtOpen, AtOpen
<1>4. ASSUME NEW t \in Symbols
      PROVE  g[t] \in Int /\ h[t] \in Int
  <2>1. /\ pos[t].quantity \in Nat /\ pos'[t].quantity \in Nat
        /\ mark[t] \in Nat /\ mark'[t] \in Nat
    BY DEF TypeOK, Position
  <2>2. Reference(mark[t]) \in Nat /\ Reference(mark'[t]) \in Nat /\ BPS \in Nat
    BY <2>1, ReferenceType, PolicyTypes
  <2> QED
    BY <2>1, <2>2, ProductType
<1>5. g \in [Symbols -> Int] /\ h \in [Symbols -> Int]
  BY <1>4
<1>6. g[s] = 0 /\ h[s] = q * ref * BPS * BPS
  <2>1. 0 * Reference(mark[s]) * BPS * BPS = 0
    BY <1>3, BarFacts, ReferenceType, PolicyTypes
  <2> QED
    BY <1>1, <1>3, <2>1
<1>7. \A t \in Symbols \ {s} : h[t] = g[t]
  BY <1>1
<1>8. InvestedValue = SumFunction(g) /\ InvestedValue' = SumFunction(h)
  BY DEF InvestedValue
<1> HIDE DEF g, h
<1>9. InvestedValue' = InvestedValue + (h[s] - g[s])
  BY <1>5, <1>7, <1>8, SumUpdate, SymbolsFinite
<1>10. h[s] <= Value(p, q)
  <2>1. p \in Nat /\ ref * BPS <= p
    BY <1>1, <1>3, BuyWithinLimits
  <2>2. ref \in Nat /\ BPS \in Nat /\ q \in Nat
    BY <1>1, BarFacts, ReferenceType, PolicyTypes
  <2> HIDE DEF p, q, ref
  <2>3. ref * BPS \in Nat
    BY <2>2, ProductType
  <2>4. ref * BPS * q \in Nat /\ p * q \in Nat /\ ref * BPS * q <= p * q
    BY <2>1, <2>2, <2>3, ProductMonotone
  <2>5. ref * BPS * q * BPS <= p * q * BPS
    BY <2>2, <2>4, ProductMonotone
  <2>6. q * ref * BPS * BPS = ref * BPS * q * BPS
    BY <2>2
  <2> QED
    BY <1>6, <2>5, <2>6 DEF Value
<1> QED
  <2>1. Value(p, q) \in Nat /\ h[s] \in Int /\ InvestedValue \in Int
    BY <1>1, <1>3, <1>5, BuyWithinLimits, PortfolioTypes
  <2> HIDE DEF p, q
  <2> QED
    BY <1>6, <1>9, <1>10, <2>1 DEF p, q

(* A buy leaves the reserve untouched and the exposure at the open under   *)
(* its cap, whatever the risk agent made of the allocation                 *)
(* (engine.py:547-590).                                                    *)
THEOREM BuysStayWithinLimits == Spec => BuysWithinPortfolioLimits
<1>1. TypeOK /\ TypeOK' /\ Booked /\ OpenHolds /\ [Next]_vars =>
        [\A s \in Symbols : Bought(s) => /\ cash' >= Reserve
                                         /\ InvestedValue' <= MaxExposure
                                         /\ newPositions' <= MaxNewPositionsPerBar]_vars
  <2> SUFFICES ASSUME TypeOK, TypeOK', Booked, OpenHolds, [Next]_vars,
                      NEW s \in Symbols, Bought(s)
               PROVE  /\ cash' >= Reserve
                      /\ InvestedValue' <= MaxExposure
                      /\ newPositions' <= MaxNewPositionsPerBar
    OBVIOUS
  <2> DEFINE q == EntryQuantity(s)
             cost == Value(EntryPrice(s, q), q)
  <2>1. Enter(s)
    BY OnlyEnterBuys
  <2>2. phase = "allocate" /\ s \in todo /\ q > 0
    BY <2>1 DEF Enter, Visit, Turn
  <2>3. bar[s] \in Bars
    BY <2>2 DEF OpenHolds, Untouched, MarkedAtOpen, AtOpen
  <2>4. cash' >= Reserve
    <3>1. cash' = cash - EntryCost(s, q)
      BY <2>1 DEF Enter
    <3> QED
      BY <2>2, <2>3, <3>1, BuyWithinLimits
  <2>5. InvestedValue' <= MaxExposure
    <3>1. InvestedValue' <= InvestedValue + cost
      BY <2>1, BuyAddsItsValue
    <3>2. cost \in Nat /\ cost <= MaxExposure - InvestedValue
      BY <2>2, <2>3, BuyWithinLimits
    <3>3. InvestedValue \in Int /\ MaxExposure \in Int
      BY PortfolioTypes, ReserveTypes
    <3>4. InvestedValue' \in Nat
      BY InvestedType DEF TypeOK, InvestedValue
    <3> HIDE DEF cost
    <3> QED
      BY <3>1, <3>2, <3>3, <3>4
  <2>6. newPositions' <= MaxNewPositionsPerBar
    <3>1. ~(newPositions >= MaxNewPositionsPerBar) /\ newPositions' = newPositions + 1
      BY <2>1, <2>2, EntryFacts DEF Enter, LimitHit
    <3> QED
      BY <3>1, RequestAssumption DEF TypeOK
  <2> QED
    BY <2>4, <2>5, <2>6
<1>2. Spec => [](TypeOK /\ Booked)
  BY TypeInit, TypeStep, BookedInit, BookedStep, PTL DEF Spec
<1>3. TypeOK /\ TypeOK' /\ Booked /\ OpenHolds /\ [Next]_vars =>
        [\A s \in Symbols : BuyInLimits(s)]_vars
  BY <1>1 DEF BuyInLimits
<1> QED
  BY <1>2, <1>3, OpenInv, PTL DEF Spec, BuysWithinPortfolioLimits

(* All limits of the portfolio at once (engine.py:547-740).                *)
THEOREM LimitsHold == Spec => WithinLimits
BY PositionsStayBounded, DayStaysLimited, BuysStayWithinLimits, PTL
DEF WithinLimits, BuysWithinPortfolioLimits

-----------------------------------------------------------------------------
(* What the allocator decides.  An allocation respects the two limits of   *)
(* the risk agent, computed from the very price the agent is asked about,  *)
(* and leaves cash over, unless equity is negative and allots nothing.     *)
LEMMA AllocationIsFinal ==
  ASSUME TypeOK, NEW s \in Symbols, bar[s] \in Bars, Allocated(s) > 0
  PROVE  /\ RiskQuantity(Allocated(s), EntryPrice(s, Allocated(s)), equity) = Allocated(s)
         /\ EntryCost(s, Allocated(s)) <= cash
<1> DEFINE a == Allocated(s)
           ref == Reference(bar[s].open)
           v == bar[s].volume
           p == EntryPrice(s, a)
           factor == BPS + SlippageBps + MarketImpact(a, v) + HalfSpreadBps
           m == bar[s].open * factor
<1>1. a \in Nat \ {0} /\ Aligned(a) /\ EntryAllowed(a, ref, v, Limits)
  <2>1. wanted[s] \in Int /\ liq[s] \in Int /\ a \in Nat
    BY EntryFacts DEF TypeOK
  <2> QED
    BY <2>1, MaxEntryFacts, MaxEntryAligned DEF Allocated
<1>2. bar[s].open \in Nat \ {0} /\ v \in Nat /\ equity \in Int
  BY BarAssumption DEF TypeOK
<1>3. factor \in Nat \ {0}
  <2> HIDE DEF a, v
  <2>1. MarketImpact(a, v) \in Nat
    BY <1>1, <1>2, ImpactGrows
  <2> QED
    BY <2>1, PolicyAssumption
<1>4. p = m * (BPS * BPS)
  <2>1. p = (bar[s].open * BPS * BPS) * factor
    BY DEF EntryPrice, BuyExecutionPrice, Reference
  <2> HIDE DEF factor, p
  <2> QED
    BY <1>2, <1>3, <2>1, PolicyTypes
<1>5. m \in Nat \ {0} /\ BPS * BPS \in Nat \ {0} /\ p \in Nat \ {0}
  <2> HIDE DEF factor, p
  <2>1. m \in Nat \ {0} /\ BPS * BPS \in Nat \ {0}
    BY <1>2, <1>3, PolicyTypes, ProductType
  <2> HIDE DEF m
  <2> QED
    BY <1>4, <2>1, ProductType
<1>6. /\ Value(p, a) + Fee(p, a) <= AtLeastZero(cash - Reserve)
      /\ Value(p, a) * BPS <= equity * MaxPositionPct
      /\ Value(p, a) * StopLossPct <= equity * RiskPerTrade
  BY <1>1 DEF EntryAllowed, Limits, EntryPrice
<1> HIDE DEF a, ref, v, p, m, factor
<1>7. RiskQuantity(a, p, equity) = a
  <2>1. m * (BPS * BPS) > 0
    BY <1>4, <1>5
  <2> QED
    BY <1>1, <1>2, <1>4, <1>5, <1>6, <2>1, RiskLeaves
<1>8. Value(p, a) \in Nat \ {0} /\ Fee(p, a) \in Nat
  <2>1. p * a \in Nat \ {0} /\ BPS \in Nat \ {0} /\ FeeBps \in Nat
    BY <1>1, <1>5, ProductType, PolicyAssumption
  <2> QED
    BY <2>1, ProductType DEF Value, Fee
<1>9. equity >= 0
  <2>1. Value(p, a) * BPS \in Nat \ {0} /\ MaxPositionPct \in Nat \ {0}
    BY <1>8, PolicyTypes, ProductType, SizingAssumption
  <2>2. ~(equity < 0) \/ equity * MaxPositionPct <= 0
    BY <1>2, <2>1
  <2>3. equity * MaxPositionPct \in Int
    BY <1>2, <2>1, ProductType
  <2> QED
    BY <1>2, <1>6, <2>1, <2>2, <2>3
<1>10. Reserve \in Nat
  <2>1. equity * CashReservePct \in Nat
    BY <1>2, <1>9, RequestAssumption, ProductType
  <2> QED
    BY <2>1, DivType, PolicyTypes DEF Reserve
<1>11. Value(p, a) + Fee(p, a) <= cash
  BY <1>6, <1>8, <1>10 DEF AtLeastZero, TypeOK
<1> QED
  BY <1>7, <1>11 DEF EntryCost, p, a

LEMMA OpenAllocation ==
  ASSUME TypeOK, OpenHolds
  PROVE  AllocationStands
<1> SUFFICES ASSUME phase = "allocate", NEW s \in todo, Allocated(s) > 0
             PROVE  /\ RiskQuantity(Allocated(s), EntryPrice(s, Allocated(s)), equity)
                          = Allocated(s)
                    /\ EntryCost(s, Allocated(s)) <= cash
  BY DEF AllocationStands
<1>1. s \in Symbols /\ bar[s] \in Bars
  BY DEF TypeOK, OpenHolds, Untouched, MarkedAtOpen, AtOpen
<1> QED
  BY <1>1, AllocationIsFinal

(* Shares come in whole increments because the budgets of the bars do: a   *)
(* sell takes all that is held or all that the bar has left.               *)
InIncrements == \A s \in Symbols : Aligned(pos[s].quantity) /\ Aligned(liq[s])

LEMMA EntryAligned ==
  ASSUME TypeOK, OpenHolds, NEW s \in Symbols, Enter(s)
  PROVE  Aligned(EntryQuantity(s))
<1>1. s \in todo /\ phase = "allocate" /\ EntryQuantity(s) > 0
  BY DEF Enter, Visit, Turn
<1>2. bar[s] \in Bars
  BY <1>1 DEF OpenHolds, Untouched, MarkedAtOpen, AtOpen
<1>3. EntryQuantity(s) = RiskApproved(s, Allocated(s)) /\ ~(Allocated(s) <= 0)
  BY <1>1 DEF EntryQuantity
<1>4. Allocated(s) \in Nat /\ Allocated(s) > 0
  BY <1>3, EntryFacts
<1>5. RiskApproved(s, Allocated(s)) \in {0, Allocated(s)}
  BY <1>2, <1>4, AllocationIsFinal DEF RiskApproved
<1>6. Aligned(Allocated(s))
  <2>1. wanted[s] \in Int /\ liq[s] \in Int
    BY DEF TypeOK
  <2> QED
    BY <2>1, MaxEntryAligned DEF Allocated
<1> QED
  BY <1>3, <1>5, <1>6, AlignedFacts

LEMMA IncrementsStep ==
  TypeOK /\ OpenHolds /\ InIncrements /\ [Next]_vars => InIncrements'
<1> SUFFICES ASSUME TypeOK, OpenHolds, InIncrements, [Next]_vars, NEW s \in Symbols
             PROVE  Aligned(pos'[s].quantity) /\ Aligned(liq'[s])
  BY DEF InIncrements
<1>0. Aligned(pos[s].quantity) /\ Aligned(liq[s])
  BY DEF InIncrements
<1>1. CASE OpenBatch
  <2>1. PICK here \in SUBSET Symbols \ {{}} : \E new \in [here -> Bars] :
          liq' = [t \in Symbols |-> IF t \in here THEN VolumeCapacity(new[t].volume)
                                    ELSE liq[t]]
    BY <1>1 DEF OpenBatch
  <2>2. pos' = pos
    BY <1>1 DEF OpenBatch, book
  <2>3. CASE s \in here
    <3>1. \E b \in Bars : liq'[s] = VolumeCapacity(b.volume)
      BY <2>1, <2>3
    <3>2. \A b \in Bars : (b.volume * MaxVolumeParticipation) \div BPS \in Int
      <4>1. \A b \in Bars : b.volume \in Nat
        BY BarAssumption
      <4> QED
        BY <4>1, PolicyTypes, ProductType, DivType
    <3> QED
      BY <1>0, <2>2, <3>1, <3>2, AlignedFacts DEF VolumeCapacity
  <2> QED
    BY <1>0, <2>1, <2>2, <2>3
<1>2. ASSUME NEW t \in Symbols, Sells(t)
      PROVE  Aligned(pos'[s].quantity) /\ Aligned(liq'[s])
  <2>1. CASE s = t
    <3>1. /\ liq'[s] = liq[s] - SellFill(s)
          /\ pos'[s].quantity = pos[s].quantity - SellFill(s)
      BY <1>2, <2>1, SellsStep
    <3>2. SellFill(s) \in {pos[s].quantity, liq[s]}
      BY SellFillFacts
    <3> QED
      BY <1>0, <3>1, <3>2, AlignedFacts
  <2> QED
    BY <1>0, <1>2, <2>1, SellsStep
<1>3. ASSUME NEW t \in Symbols, Enter(t)
      PROVE  Aligned(pos'[s].quantity) /\ Aligned(liq'[s])
  <2>1. CASE s = t
    <3>1. pos'[s].quantity = EntryQuantity(s)
      BY <1>3, <2>1, EnterStep
    <3>2. liq'[s] = liq[s] - EntryQuantity(s)
      BY <1>3, <2>1 DEF Enter, Trade, TypeOK
    <3> QED
      BY <1>0, <1>3, <2>1, <3>1, <3>2, EntryAligned, AlignedFacts
  <2> QED
    BY <1>0, <1>3, <2>1, EnterStep
<1>4. CASE Quiet
  BY <1>0, <1>4 DEF Quiet, book
<1> QED
  BY <1>1, <1>2, <1>3, <1>4, StepKinds

(* What the allocator decides stands: the risk agent never cuts it and it  *)
(* can be paid, for any policy; and shares stay in whole increments        *)
(* through every partial fill (engine.py:602-705, risk_adapter.py:41).     *)
THEOREM AllocationsStand == Spec => []FillsStand
<1>1. Init => InIncrements
  BY AlignedFacts DEF Init, InIncrements, Flat
<1>2. TypeOK /\ OpenHolds /\ InIncrements => FillsStand
  <2>1. ASSUME TypeOK, InIncrements PROVE WholeIncrements
    <3> SUFFICES ASSUME NEW s \in Symbols PROVE pos[s].quantity % QuantityIncrement = 0
      BY DEF WholeIncrements
    <3>1. pos[s].quantity \in Int /\ Aligned(pos[s].quantity)
      BY <2>1, PositionFacts DEF InIncrements
    <3> QED
      BY <3>1, AlignedFacts
  <2> QED
    BY <2>1, OpenAllocation DEF FillsStand
<1>3. Spec => [](TypeOK /\ OpenHolds)
  BY OpenInv
<1> QED
  BY <1>1, <1>2, <1>3, IncrementsStep, PTL DEF Spec

-----------------------------------------------------------------------------
(* Stops and targets are prices, so that what a sell is executed at is one *)
(* too.                                                                    *)
PricesAreReal == \A s \in Symbols : pos[s].stop \in Nat /\ pos[s].target \in Nat

LEMMA EntryPriceForm ==
  ASSUME NEW s \in Symbols, NEW q \in Nat, bar[s] \in Bars
  PROVE  \E m \in Nat : EntryPrice(s, q) = m * (BPS * BPS)
<1> DEFINE factor == BPS + SlippageBps + MarketImpact(q, bar[s].volume) + HalfSpreadBps
<1>1. bar[s].open \in Nat /\ bar[s].volume \in Nat
  BY BarAssumption
<1>2. factor \in Nat
  <2>1. MarketImpact(q, bar[s].volume) \in Nat
    <3>1. q <= q
      OBVIOUS
    <3> QED
      BY <1>1, <3>1, ImpactGrows
  <2> QED
    BY <2>1, PolicyAssumption
<1>3. EntryPrice(s, q) = (bar[s].open * BPS * BPS) * factor
  BY DEF EntryPrice, BuyExecutionPrice, Reference
<1> HIDE DEF factor
<1>4. /\ bar[s].open * factor \in Nat
      /\ EntryPrice(s, q) = (bar[s].open * factor) * (BPS * BPS)
  BY <1>1, <1>2, <1>3, PolicyTypes, ProductType
<1> QED
  BY <1>4

LEMMA ExitReferences ==
  ASSUME TypeOK, PricesAreReal, NEW s \in Symbols, Sells(s)
  PROVE  \E ref \in Nat : SellWhatFills(s, ref)
<1>1. /\ Reference(bar[s].open) \in Nat /\ Reference(bar[s].close) \in Nat
  BY BarFacts, ReferenceType
<1>2. ExitReference(s) \in Nat
  BY <1>1 DEF ExitReference, Smaller, PricesAreReal
<1> QED
  BY <1>1, <1>2 DEF Sells

LEMMA SellKeepsPrices ==
  ASSUME TypeOK, PricesAreReal, NEW s \in Symbols, Sells(s)
  PROVE  PricesAreReal'
<1>1. PICK ref \in Nat : SellWhatFills(s, ref)
  BY ExitReferences
<1>2. \A t \in Symbols \ {s} : pos'[t] = pos[t]
  BY SellsStep
<1>3. CASE ExitPosition(s, ref)
  <2> DEFINE left == Remainder(s, SellExecutionPrice(ref, SellFill(s), bar[s].volume))
  <2>1. left.stop = pos[s].stop /\ left.target = pos[s].target
    BY PositionFacts DEF Remainder, Position
  <2>2. pos' = [pos EXCEPT ![s] = IF left.quantity = 0 THEN Flat ELSE left]
    BY <1>3 DEF ExitPosition
  <2> HIDE DEF left
  <2>3. pos'[s] \in {Flat, left}
    BY <2>2 DEF TypeOK
  <2> QED
    BY <1>2, <2>1, <2>3 DEF Flat, PricesAreReal
<1>4. CASE UNCHANGED book
  BY <1>4 DEF book, PricesAreReal
<1> QED
  BY <1>1, <1>3, <1>4 DEF SellWhatFills

LEMMA BuyKeepsPrices ==
  ASSUME TypeOK, OpenHolds, PricesAreReal, NEW s \in Symbols, Enter(s)
  PROVE  PricesAreReal'
<1> DEFINE q == EntryQuantity(s)
           price == EntryPrice(s, q)
<1>1. bar[s] \in Bars /\ q \in Nat
  BY EntryFacts DEF Enter, Visit, Turn, OpenHolds, Untouched, MarkedAtOpen, AtOpen
<1>2. StopLossPrice(price) \in Nat /\ TakeProfitPrice(price) \in Nat
  BY <1>1, EntryPriceForm, ProtectionNatural
<1>3. pos' = [pos EXCEPT ![s] =
             [@ EXCEPT !.quantity = q, !.average = price, !.fees = Fee(price, q),
                       !.stop = StopLossPrice(price), !.target = TakeProfitPrice(price)]]
  BY DEF Enter
<1> HIDE DEF q, price
<1>4. pos'[s].stop = StopLossPrice(price) /\ pos'[s].target = TakeProfitPrice(price)
  BY <1>3 DEF TypeOK, Position
<1>5. \A t \in Symbols \ {s} : pos'[t] = pos[t]
  BY EnterStep
<1> QED
  BY <1>2, <1>4, <1>5 DEF PricesAreReal

LEMMA PricesStayReal == Spec => [](TypeOK /\ OpenHolds /\ PricesAreReal)
<1>1. Init => PricesAreReal
  BY DEF Init, Flat, PricesAreReal
<1>2. TypeOK /\ OpenHolds /\ PricesAreReal /\ [Next]_vars => PricesAreReal'
  <2> SUFFICES ASSUME TypeOK, OpenHolds, PricesAreReal, [Next]_vars PROVE PricesAreReal'
    OBVIOUS
  <2>1. CASE UNCHANGED book
    BY <2>1 DEF book, PricesAreReal
  <2>2. OpenBatch \/ Quiet => UNCHANGED book
    BY DEF OpenBatch, Quiet
  <2> QED
    BY <2>1, <2>2, SellKeepsPrices, BuyKeepsPrices, StepKinds
<1>3. Spec => [](TypeOK /\ OpenHolds)
  BY OpenInv
<1> QED
  BY <1>1, <1>2, <1>3, PTL DEF Spec

-----------------------------------------------------------------------------
(* The cash.  Buys are paid for.  A sell may cost more than it brings when *)
(* the adjustments of a price add up to more than the price, as the        *)
(* request validation lets them, or the fee exceeds the value; otherwise   *)
(* no step overdraws the account.                                          *)
LEMMA SellKeepsCash ==
  ASSUME SlippageBps + MarketImpactBps + HalfSpreadBps <= BPS, FeeBps <= BPS,
         TypeOK, PricesAreReal, CashNonNegative, NEW s \in Symbols, Sells(s)
  PROVE  CashNonNegative'
<1>1. PICK ref \in Nat : SellWhatFills(s, ref)
  BY ExitReferences
<1>2. CASE SellFill(s) > 0 /\ ExitPosition(s, ref)
  <2> DEFINE price == SellExecutionPrice(ref, SellFill(s), bar[s].volume)
  <2>1. cash' = cash + Value(price, SellFill(s)) - Fee(price, SellFill(s))
    BY <1>2 DEF ExitPosition
  <2>2. /\ Value(price, SellFill(s)) \in Nat /\ Fee(price, SellFill(s)) \in Nat
        /\ Fee(price, SellFill(s)) <= Value(price, SellFill(s))
    BY SellFillFacts, BarFacts, SellProceeds
  <2> HIDE DEF price
  <2> QED
    BY <2>1, <2>2 DEF CashNonNegative, TypeOK
<1>3. CASE UNCHANGED book
  BY <1>3 DEF book, CashNonNegative
<1> QED
  BY <1>1, <1>2, <1>3 DEF SellWhatFills

LEMMA BuyKeepsCash ==
  ASSUME TypeOK, CashNonNegative, NEW s \in Symbols, Enter(s)
  PROVE  CashNonNegative'
<1> DEFINE q == EntryQuantity(s)
           price == EntryPrice(s, q)
<1>1. cash' = cash - EntryCost(s, q) /\ cash' \in Int /\ EntryCost(s, q) <= cash
  BY EnterStep, EntryFacts DEF Enter, Visit, Turn
<1>2. EntryCost(s, q) \in Int
  <2>1. Reference(bar[s].open) \in Int /\ bar[s].volume \in Int /\ q \in Int
    BY BarFacts, ReferenceType, EntryFacts DEF Enter, Visit, Turn
  <2>2. price \in Int
    BY <2>1, PriceTypes DEF EntryPrice
  <2>3. EntryCost(s, q) = Value(price, q) + Fee(price, q)
    BY DEF EntryCost
  <2> HIDE DEF q, price
  <2>4. Value(price, q) \in Int /\ Fee(price, q) \in Int
    BY <2>1, <2>2, MoneyTypes
  <2> QED
    BY <2>3, <2>4
<1> HIDE DEF q
<1> QED
  BY <1>1, <1>2 DEF TypeOK, CashNonNegative

(* Buys sized from one snapshot never exceed the position limit together;  *)
(* nor does any buy or sell overdraw the account, whenever the adjustments *)
(* of a price and the fee leave a sell something (engine.py:583-710).      *)
THEOREM SnapshotsSuffice ==
  ASSUME SlippageBps + MarketImpactBps + HalfSpreadBps <= BPS, FeeBps <= BPS
  PROVE  Spec => []SnapshotSuffices
<1>1. Init => CashNonNegative
  BY RequestAssumption DEF Init, CashNonNegative
<1>2. TypeOK /\ PricesAreReal /\ CashNonNegative /\ [Next]_vars => CashNonNegative'
  <2> SUFFICES ASSUME TypeOK, PricesAreReal, CashNonNegative, [Next]_vars
               PROVE  CashNonNegative'
    OBVIOUS
  <2>1. CASE UNCHANGED book
    BY <2>1 DEF book, CashNonNegative
  <2>2. OpenBatch \/ Quiet => UNCHANGED book
    BY DEF OpenBatch, Quiet
  <2> QED
    BY <2>1, <2>2, SellKeepsCash, BuyKeepsCash, StepKinds
<1>3. Spec => []CashNonNegative
  BY <1>1, <1>2, PricesStayReal, PTL DEF Spec
<1> QED
  BY <1>3, PositionsStayBounded, PTL DEF SnapshotSuffices

-----------------------------------------------------------------------------
(* What a sell brings in is at most its reference, unless a fee larger     *)
(* than the value is taken from a price below zero.                        *)
LEMMA SellBringsAtMost ==
  ASSUME SlippageBps + MarketImpactBps + HalfSpreadBps <= BPS \/ FeeBps <= BPS,
         NEW ref \in Nat, NEW q \in Nat, NEW volume \in Nat
  PROVE  LET price == SellExecutionPrice(ref, q, volume) IN
         Value(price, q) - Fee(price, q) <= ref * q * BPS * BPS
<1> DEFINE price == SellExecutionPrice(ref, q, volume)
           left == BPS - (SlippageBps + MarketImpact(q, volume) + HalfSpreadBps)
           kept == BPS - FeeBps
           shares == ref * q
<1>1. left \in Int /\ left <= BPS /\ (left >= 0 \/ kept >= 0)
  <2>1. /\ MarketImpact(q, volume) \in Int /\ MarketImpact(q, volume) <= MarketImpactBps
        /\ MarketImpact(q, volume) \in Nat
    BY ImpactType, ImpactBounded, ImpactGrows
  <2> QED
    BY <2>1, PolicyTypes, PolicyAssumption
<1>2. kept \in Int /\ kept <= BPS /\ BPS \in Nat /\ shares \in Nat /\ FeeBps \in Int
  BY PolicyAssumption, PolicyTypes, ProductType
<1>3. price = ref * left
  BY DEF SellExecutionPrice
<1> HIDE DEF left, price
<1>4. Value(price, q) - Fee(price, q) = shares * (left * kept)
  <2>1. Value(price, q) = (shares * left) * BPS /\ Fee(price, q) = (shares * left) * FeeBps
    BY <1>1, <1>2, <1>3 DEF Value, Fee
  <2>2. shares * left \in Int
    BY <1>1, <1>2, ProductType
  <2> DEFINE gross == shares * left
  <2>3. gross * BPS - gross * FeeBps = gross * (BPS - FeeBps)
    BY <1>2, <2>2
  <2> QED
    BY <1>1, <1>2, <2>1, <2>3
<1> HIDE DEF kept
<1>5. left * kept \in Int /\ BPS * BPS \in Nat /\ left * kept <= BPS * BPS
  <2>1. left * kept \in Int /\ BPS * BPS \in Nat
    BY <1>1, <1>2, ProductType
  <2>2. CASE left >= 0 /\ kept >= 0
    BY <1>1, <1>2, <2>2, ProductMonotone
  <2>3. CASE left < 0 /\ kept >= 0
    <3>1. (-left) * kept \in Nat
      BY <1>1, <1>2, <2>3, ProductType
    <3>2. (-left) * kept = -(left * kept)
      BY <1>1, <1>2
    <3> QED
      BY <2>1, <3>1, <3>2
  <2>4. CASE left >= 0 /\ kept < 0
    <3>1. left * (-kept) \in Nat
      BY <1>1, <1>2, <2>4, ProductType
    <3>2. left * (-kept) = -(left * kept)
      BY <1>1, <1>2
    <3> QED
      BY <2>1, <3>1, <3>2
  <2> QED
    BY <1>1, <1>2, <2>2, <2>3, <2>4
<1> DEFINE part == left * kept
           whole == BPS * BPS
<1>6. part \in Int /\ whole \in Nat /\ part <= whole
  BY <1>5
<1> HIDE DEF part, whole, shares
<1>7. shares * part <= shares * whole
  <2>1. shares * (whole - part) \in Nat
    BY <1>2, <1>6, ProductType
  <2> QED
    BY <1>2, <1>6, <2>1
<1>8. shares * whole = ref * q * BPS * BPS
  BY <1>2 DEF shares, whole
<1> QED
  BY <1>4, <1>7, <1>8 DEF part, price

(* Inside a bar only protection sells, and the stop comes first.           *)
LEMMA StopComesFirst ==
  ASSUME TypeOK, NEW s \in Symbols, [Next]_vars, phase = "intrabar", Sold(s),
         Reference(bar[s].low) <= pos[s].stop
  PROVE  SellWhatFills(s, Smaller(pos[s].stop, Reference(bar[s].open)))
<1>1. pos[s].quantity \in Nat
  BY PositionFacts
<1>2. \A t \in Symbols : ~Enter(t)
  BY DEF Enter, Visit
<1>3. ~OpenBatch /\ ~Quiet
  BY <1>1 DEF OpenBatch, Quiet, book, Sold
<1>4. PICK t \in Symbols : Sells(t)
  BY <1>2, <1>3, StepKinds
<1>5. t = s
  BY <1>1, <1>4, SellsStep DEF Sold
<1>6. ProtectInBar(s)
  BY <1>4, <1>5 DEF Sells, ProtectAtOpen, SignalExit, Liquidate, Visit
<1>7. ReasonInBar(s) = "stop_loss"
  BY <1>6 DEF ProtectInBar, ReasonInBar
<1> QED
  BY <1>6, <1>7 DEF ProtectInBar, ExitReference

(* A bar that touches the stop sells at no more than the stop and no more  *)
(* than the open, whatever it touches besides (engine.py:197-211).         *)
THEOREM StopsAreConservative ==
  ASSUME SlippageBps + MarketImpactBps + HalfSpreadBps <= BPS \/ FeeBps <= BPS
  PROVE  Spec => StopIsConservative
<1> DEFINE Conservative(s) ==
      phase = "intrabar" /\ Sold(s) /\ Reference(bar[s].low) <= pos[s].stop =>
         cash' - cash <= Smaller(pos[s].stop, Reference(bar[s].open))
                           * (pos[s].quantity - pos'[s].quantity) * BPS * BPS
<1>1. TypeOK /\ PricesAreReal /\ [Next]_vars => \A s \in Symbols : Conservative(s)
  <2> SUFFICES ASSUME TypeOK, PricesAreReal, [Next]_vars, NEW s \in Symbols,
                      phase = "intrabar", Sold(s),
                      Reference(bar[s].low) <= pos[s].stop
               PROVE  cash' - cash <= Smaller(pos[s].stop, Reference(bar[s].open))
                           * (pos[s].quantity - pos'[s].quantity) * BPS * BPS
    OBVIOUS
  <2> DEFINE ref == Smaller(pos[s].stop, Reference(bar[s].open))
             q == SellFill(s)
             price == SellExecutionPrice(ref, q, bar[s].volume)
  <2>1. ref \in Nat /\ q \in Nat /\ bar[s].volume \in Nat
    <3>1. Reference(bar[s].open) \in Nat
      BY BarFacts, ReferenceType
    <3> QED
      BY <3>1, BarFacts, SellFillFacts DEF PricesAreReal, Smaller
  <2>2. SellWhatFills(s, ref)
    BY StopComesFirst
  <2>3. ExitPosition(s, ref)
    <3>1. ~(UNCHANGED book)
      BY PositionFacts DEF Sold, book
    <3> QED
      BY <2>2, <3>1 DEF SellWhatFills
  <2>4. cash' = cash + Value(price, q) - Fee(price, q)
    BY <2>3 DEF ExitPosition
  <2>5. pos[s].quantity - pos'[s].quantity = q
    <3>1. /\ pos' = [pos EXCEPT ![s] = IF Remainder(s, price).quantity = 0
                                       THEN Flat ELSE Remainder(s, price)]
          /\ Remainder(s, price).quantity = pos[s].quantity - q
      BY <2>3, PositionFacts DEF ExitPosition, Remainder, Position
    <3> HIDE DEF price, q
    <3>2. pos'[s].quantity = pos[s].quantity - q
      BY <2>1, <3>1, PositionFacts DEF TypeOK, Flat
    <3> QED
      BY <2>1, <3>2, PositionFacts
  <2> HIDE DEF ref, q
  <2>6. Value(price, q) - Fee(price, q) <= ref * q * BPS * BPS
    BY <2>1, SellBringsAtMost
  <2>7. Value(price, q) \in Int /\ Fee(price, q) \in Int
    <3>1. ref \in Int /\ q \in Int /\ bar[s].volume \in Int
      BY <2>1
    <3>2. price \in Int
      BY <3>1, PriceTypes
    <3> QED
      BY <3>1, <3>2, MoneyTypes
  <2>8. ref * q * BPS * BPS \in Int
    BY <2>1, PolicyTypes, ProductType
  <2> HIDE DEF price
  <2>9. cash' - cash <= ref * q * BPS * BPS
    BY <2>4, <2>6, <2>7, <2>8 DEF TypeOK
  <2> QED
    BY <2>5, <2>9 DEF ref
<1>2. Spec => [](TypeOK /\ PricesAreReal)
  BY PricesStayReal, PTL
<1> QED
  BY <1>1, <1>2, PTL DEF Spec, StopIsConservative

(* No fill is too good: nothing is bought at the open where it was sold,   *)
(* and no stop that was touched sells for more than it allows              *)
(* (engine.py:485, :197-211).                                              *)
THEOREM FillsStayConservative ==
  ASSUME SlippageBps + MarketImpactBps + HalfSpreadBps <= BPS \/ FeeBps <= BPS
  PROVE  Spec => FillsAreConservative
<1>1. Spec => StopIsConservative
  BY StopsAreConservative
<1>2. Spec => NoBuyBackAtTheOpen
  BY NothingBoughtBack
<1> QED
  BY <1>1, <1>2 DEF FillsAreConservative

-----------------------------------------------------------------------------
(* Rounding moves a number by at most half a unit, and no number down past *)
(* nothing.                                                                *)
LEMMA NearestFacts ==
  ASSUME NEW x \in Int, NEW u \in Nat \ {0}
  PROVE  /\ Nearest(x, u) \in Int /\ 2 * Off(Nearest(x, u), x) <= u
         /\ x >= 0 => Nearest(x, u) >= 0
         /\ x >= u => Nearest(x, u) >= u
<1> DEFINE n == (2 * x + u) \div (2 * u)
<1>1. n \in Int
  BY DivType
<1>2. n * (2 * u) <= 2 * x + u /\ 2 * x + u < n * (2 * u) + 2 * u
  OBVIOUS
<1>3. x >= 0 => n >= 0
  BY DivType
<1>4. x >= u => n >= 1
  <2>1. x >= u => 1 * (2 * u) <= 2 * x + u
    OBVIOUS
  <2> QED
    BY <2>1, Quotients
<1>5. Nearest(x, u) = n * u
  BY DEF Nearest
<1> HIDE DEF n
<1>6. PICK y \in Int : y = n * u
  BY <1>1, ProductType
<1>7. n * (2 * u) = 2 * y
  BY <1>1, <1>6
<1>8. n >= 0 => y >= 0
  BY <1>1, <1>6, ProductType
<1>9. n >= 1 => y >= u
  <2>1. ASSUME n >= 1
        PROVE  1 * u <= n * u
    BY <1>1, <2>1, TimesMonotone
  <2> QED
    BY <1>6, <2>1
<1> QED
  BY <1>2, <1>3, <1>4, <1>5, <1>6, <1>7, <1>8, <1>9 DEF Off

LEMMA TickFacts ==
  ASSUME NEW x \in Int
  PROVE  ToTick(x) \in Int /\ 2 * Off(ToTick(x), x) <= PriceTick
BY NearestFacts, RoundingAssumption DEF ToTick

LEMMA CentFacts ==
  /\ Cent \in Nat \ {0} /\ ToCent(0) = 0
  /\ \A x \in Int : /\ ToCent(x) \in Int /\ 2 * Off(ToCent(x), x) <= Cent
                    /\ x >= 0 => ToCent(x) >= 0
<1>1. Cent \in Nat \ {0}
  BY RoundingAssumption
<1>2. \A x \in Int : /\ ToCent(x) \in Int /\ 2 * Off(ToCent(x), x) <= Cent
                     /\ x >= 0 => ToCent(x) >= 0
  BY <1>1, NearestFacts DEF ToCent
<1>3. ToCent(0) = ((2 * 0 + Cent) \div (2 * Cent)) * Cent
  BY DEF ToCent, Nearest
<1>4. (2 * 0 + Cent) \div (2 * Cent) = 0
  BY <1>1
<1> QED
  BY <1>1, <1>2, <1>3, <1>4

(* What rounded prices cost the value of q shares.                         *)
LEMMA TickValueType == TickValue \in Nat /\ \A q \in Nat : TickValue * q \in Nat
BY RoundingAssumption, PolicyTypes, ProductType DEF TickValue

LEMMA ValueNear ==
  ASSUME NEW x \in Int, NEW y \in Int, NEW q \in Nat, NEW n \in Nat,
         n * Off(x, y) <= PriceTick
  PROVE  /\ Value(x, q) \in Int /\ Value(y, q) \in Int
         /\ n * Off(Value(x, q), Value(y, q)) <= TickValue * q
<1> DEFINE w == q * BPS
           d == Off(x, y)
<1>0. w \in Nat /\ d \in Nat /\ PriceTick \in Nat
  BY PolicyTypes, ProductType, RoundingAssumption DEF Off
<1>1. Value(x, q) = x * w /\ Value(y, q) = y * w /\ TickValue * q = PriceTick * w
  BY <1>0, PolicyTypes, RoundingAssumption DEF Value, TickValue
<1>2. n * d \in Int
  BY <1>0, ProductType
<1> HIDE DEF w
<1>3. Off(x * w, y * w) = d * w
  <2>1. CASE x >= y
    <3>1. y * w <= x * w
      BY <1>0, <2>1, TimesMonotone
    <3>2. (x - y) * w = x * w - y * w /\ x * w \in Int /\ y * w \in Int
      BY <1>0, ProductType
    <3> QED
      BY <2>1, <3>1, <3>2 DEF Off
  <2>2. CASE ~(x >= y)
    <3>1. x * w <= y * w
      BY <1>0, <2>2, TimesMonotone
    <3>2. (y - x) * w = y * w - x * w /\ x * w \in Int /\ y * w \in Int
      BY <1>0, ProductType
    <3> QED
      BY <2>2, <3>1, <3>2 DEF Off
  <2> QED
    BY <2>1, <2>2
<1> HIDE DEF d
<1>4. (n * d) * w <= PriceTick * w
  BY <1>0, <1>2, TimesMonotone DEF d
<1>5. n * (d * w) = (n * d) * w
  BY <1>0
<1> QED
  BY <1>0, <1>1, <1>3, <1>4, <1>5, ProductType

(* A share of one number and the same share of another are no further      *)
(* apart than the numbers, nor is what is left of them.                    *)
LEMMA SharesNear ==
  ASSUME NEW x \in Int, NEW y \in Int, NEW q \in Nat, NEW n \in Nat \ {0}, q <= n
  PROVE  LET a == (x * q) \div n
             b == (y * q) \div n
         IN  /\ a \in Int /\ b \in Int
             /\ Off(a, b) <= Off(x, y) /\ Off(x - a, y - b) <= Off(x, y)
<1>1. ASSUME NEW u \in Int, NEW v \in Int, u <= v
      PROVE  /\ (u * q) \div n \in Int /\ (v * q) \div n \in Int
             /\ (u * q) \div n <= (v * q) \div n
             /\ (v * q) \div n - (u * q) \div n <= v - u
  <2>1. PICK k \in Int, m \in Int : k = u * q /\ m = v * q
    BY ProductType
  <2>2. k <= m /\ m <= k + (v - u) * n
    <3>1. u * q <= v * q
      BY <1>1, TimesMonotone
    <3>2. q * (v - u) <= n * (v - u)
      BY <1>1, TimesMonotone, v - u \in Nat
    <3>3. v * q = u * q + q * (v - u)
      OBVIOUS
    <3> QED
      BY <2>1, <3>1, <3>2, <3>3
  <2>3. PICK a \in Int, b \in Int : a = k \div n /\ b = m \div n
    BY DivType
  <2>4. a * n <= k /\ k < a * n + n /\ b * n <= m /\ m < b * n + n
    BY <2>3
  <2>5. a <= b
    <3>1. CASE b <= a - 1
      <4>1. b * n <= (a - 1) * n
        BY <3>1, TimesMonotone
      <4> QED
        BY <2>2, <2>4, <4>1
    <3> QED
      BY <3>1
  <2>6. b - a <= v - u
    <3>1. CASE a + (v - u) + 1 <= b
      <4>1. (a + (v - u) + 1) * n <= b * n
        BY <3>1, TimesMonotone
      <4>2. (a + (v - u) + 1) * n = a * n + (v - u) * n + n
        OBVIOUS
      <4> QED
        BY <2>2, <2>4, <4>1, <4>2, ProductType
    <3> QED
      BY <3>1
  <2> QED
    BY <2>1, <2>3, <2>5, <2>6
<1> DEFINE a == (x * q) \div n
           b == (y * q) \div n
<1>2. CASE x <= y
  <2>1. a \in Int /\ b \in Int /\ a <= b /\ b - a <= y - x
    BY <1>1, <1>2
  <2> HIDE DEF a, b
  <2>2. Off(a, b) <= Off(x, y) /\ Off(x - a, y - b) <= Off(x, y)
    BY <1>2, <2>1 DEF Off
  <2> QED
    BY <2>1, <2>2 DEF a, b
<1>3. CASE ~(x <= y)
  <2>1. a \in Int /\ b \in Int /\ b <= a /\ a - b <= x - y
    <3>1. y <= x
      BY <1>3
    <3> QED
      BY <1>1, <3>1
  <2> HIDE DEF a, b
  <2>2. Off(a, b) <= Off(x, y) /\ Off(x - a, y - b) <= Off(x, y)
    BY <1>3, <2>1 DEF Off
  <2> QED
    BY <2>1, <2>2 DEF a, b
<1> QED
  BY <1>2, <1>3

(* The sum of n + 1 rounded numbers.                                       *)
LEMMA OneMoreOff ==
  ASSUME NEW a \in Int, NEW b \in Int, NEW x \in Int, NEW y \in Int, NEW n \in Nat,
         2 * Off(a, b) <= Cent * n, 2 * Off(x, y) <= Cent
  PROVE  2 * Off(a + x, b + y) <= Cent * (n + 1)
<1>1. PICK c \in Int : c = Cent * n
  BY CentFacts, ProductType
<1>2. Cent * (n + 1) = c + Cent
  BY <1>1, CentFacts
<1> QED
  BY <1>1, <1>2, CentFacts DEF Off

-----------------------------------------------------------------------------
(* The ledger.  Its fills are paired by a recursion over the list.  That   *)
(* there is such a function, and that one fill more is one step more, is   *)
(* the first thing to show: a recursion that fails fails at a least place. *)

NoPairs == [rows |-> <<>>, entries |-> [s \in Symbols |-> Nothing]]

PairsUpTo(g, fills, n) ==
  g = [m \in 0..n |-> IF m = 0 THEN NoPairs ELSE Pair(g[m - 1], fills[m])]

LEMMA PairsExist ==
  ASSUME NEW fills
  PROVE  \A n \in Nat : \E g : PairsUpTo(g, fills, n)
<1> DEFINE P(n) == \E g : PairsUpTo(g, fills, n)
<1>1. P(0)
  <2> DEFINE z == [m \in 0..0 |-> NoPairs]
  <2>1. \A m \in 0..0 : m = 0
    OBVIOUS
  <2>2. PairsUpTo(z, fills, 0)
    BY <2>1 DEF PairsUpTo
  <2> QED
    BY <2>2
<1>2. ASSUME NEW n \in Nat, P(n)
      PROVE  P(n + 1)
  <2>1. PICK g : PairsUpTo(g, fills, n)
    BY <1>2
  <2> DEFINE h == [m \in 0..(n + 1) |-> IF m = 0 THEN NoPairs ELSE Pair(g[m - 1], fills[m])]
  <2>2. \A m \in 0..n : h[m] = g[m]
    BY <2>1 DEF PairsUpTo
  <2>3. \A m \in 0..(n + 1) : m # 0 => m - 1 \in 0..n /\ h[m - 1] = g[m - 1]
    BY <2>2
  <2>4. h = [m \in 0..(n + 1) |-> IF m = 0 THEN NoPairs ELSE Pair(h[m - 1], fills[m])]
    BY <2>3
  <2> HIDE DEF h
  <2>5. PairsUpTo(h, fills, n + 1)
    BY <2>4 DEF PairsUpTo
  <2> QED
    BY <2>5
<1> DEFINE Without == {n \in Nat : ~P(n)}
<1> HIDE DEF P
<1>3. ASSUME Without # {}
      PROVE  FALSE
  <2>1. PICK n \in Without : \A m \in Without : ~(m < n)
    BY <1>3, LeastNatural
  <2>2. n # 0 /\ n - 1 \in Nat
    BY <1>1
  <2>3. P(n - 1)
    BY <2>1, <2>2
  <2>4. P((n - 1) + 1)
    BY <1>2, <2>2, <2>3
  <2> QED
    BY <2>4
<1> QED
  BY <1>3 DEF P

SameUpTo(fills, more, n) == \A i \in 1..n : more[i] = fills[i]

LEMMA PairsAgree ==
  ASSUME NEW fills, NEW more, NEW n \in Nat, NEW m \in Nat, n <= m, SameUpTo(fills, more, n)
  PROVE  \A g, h : PairsUpTo(g, fills, n) /\ PairsUpTo(h, more, m) => g[n] = h[n]
<1> SUFFICES ASSUME NEW g, PairsUpTo(g, fills, n), NEW h, PairsUpTo(h, more, m)
             PROVE  g[n] = h[n]
  OBVIOUS
<1> DEFINE Apart == {k \in 0..n : g[k] # h[k]}
<1>1. ASSUME Apart # {}
      PROVE  FALSE
  <2>1. Apart \in SUBSET Nat
    OBVIOUS
  <2>2. PICK k \in Apart : \A j \in Apart : ~(j < k)
    <3> HIDE DEF Apart
    <3> QED
      BY <1>1, <2>1, LeastNatural
  <2>3. k \in 0..n /\ k \in 0..m /\ g[k] # h[k]
    OBVIOUS
  <2>4. g[k] = IF k = 0 THEN NoPairs ELSE Pair(g[k - 1], fills[k])
    BY <2>3 DEF PairsUpTo
  <2>5. h[k] = IF k = 0 THEN NoPairs ELSE Pair(h[k - 1], more[k])
    BY <2>3 DEF PairsUpTo
  <2>6. k # 0 => k - 1 \in 0..n /\ ~(k - 1 \in Apart) /\ more[k] = fills[k]
    BY <2>2, <2>3 DEF SameUpTo
  <2>7. k # 0 => g[k - 1] = h[k - 1]
    BY <2>6
  <2> QED
    BY <2>3, <2>4, <2>5, <2>6, <2>7
<1> QED
  BY <1>1

LEMMA PairingIs ==
  ASSUME NEW fills, Len(fills) \in Nat
  PROVE  \E g : PairsUpTo(g, fills, Len(fills)) /\ PairingOf(fills) = g[Len(fills)]
<1> DEFINE Step(f) == [n \in 0..Len(fills) |->
                         IF n = 0 THEN [ rows |-> <<>>, entries |-> [s \in Symbols |-> Nothing] ]
                         ELSE Pair(f[n - 1], fills[n])]
           after == CHOOSE f : f = Step(f)
<1>1. PICK g : PairsUpTo(g, fills, Len(fills))
  BY PairsExist
<1>2. g = Step(g)
  BY <1>1 DEF PairsUpTo, NoPairs
<1>3. after = Step(after)
  <2> HIDE DEF Step
  <2> QED
    BY <1>2
<1>4. PairsUpTo(after, fills, Len(fills))
  BY <1>3 DEF PairsUpTo, NoPairs
<1>5. PairingOf(fills) = after[Len(fills)]
  BY DEF PairingOf
<1> QED
  BY <1>4, <1>5

LEMMA PairingStarts ==
  PairingOf(<<>>) = NoPairs
<1>1. Len(<<>>) = 0
  OBVIOUS
<1>2. PICK g : PairsUpTo(g, <<>>, 0) /\ PairingOf(<<>>) = g[0]
  BY <1>1, PairingIs
<1>3. g[0] = NoPairs
  BY <1>2 DEF PairsUpTo
<1> QED
  BY <1>2, <1>3

LEMMA PairingGoesOn ==
  ASSUME NEW S, NEW fills \in Seq(S), NEW fill \in S
  PROVE  PairingOf(Append(fills, fill)) = Pair(PairingOf(fills), fill)
<1>1. PICK more : more = Append(fills, fill)
  OBVIOUS
<1>2. PICK n \in Nat, m \in Nat : n = Len(fills) /\ m = n + 1
  BY LenProperties
<1>3. /\ Len(more) = m /\ more[m] = fill
      /\ \A i \in 1..n : more[i] = fills[i]
  BY <1>1, <1>2, AppendProperties
<1>4. PICK g : PairsUpTo(g, fills, n) /\ PairingOf(fills) = g[n]
  BY <1>2, PairingIs
<1>5. PICK h : PairsUpTo(h, more, m) /\ PairingOf(more) = h[m]
  BY <1>3, PairingIs
<1>6. g[n] = h[n]
  <2>1. n <= m
    BY <1>2
  <2>2. SameUpTo(fills, more, n)
    BY <1>3 DEF SameUpTo
  <2> QED
    BY <1>4, <1>5, <2>1, <2>2, PairsAgree
<1>7. h[m] = Pair(h[n], more[m])
  <2>1. m \in 0..m /\ m # 0 /\ m - 1 = n
    BY <1>2
  <2> QED
    BY <1>5, <2>1 DEF PairsUpTo
<1> QED
  BY <1>1, <1>3, <1>4, <1>5, <1>6, <1>7

-----------------------------------------------------------------------------
(* What the ledger holds, and what a fill more changes of it.              *)

Fill == [ symbol : Symbols, side : {"buy", "sell"}, quantity : Nat, price : Int,
          fees : Int, at : Nat, pnl : Int, closed : BOOLEAN, roundTrip : Int,
          reference : Int, impact : Int ]

PublishedRow == [ symbol : Symbols, quantity : Nat, entryPrice : Int, exitPrice : Int,
                  pnl : Int, entryFees : Int, fees : Int, entryTime : Nat,
                  exitTime : Nat, outcome : {"win", "loss", "breakeven"} ]

LedgerTypes ==
  /\ trades \in Seq(Fill) /\ barAt \in [Symbols -> Nat]
  /\ \A s \in Symbols : barAt[s] <= batches

(* The entry the publisher keeps of a symbol is the position the engine    *)
(* keeps of it, with the price and the fees that were reported.            *)
Stands(entry, p, at) ==
  IF p.quantity = 0 THEN entry = Nothing
  ELSE /\ entry = [ remaining |-> p.quantity, price |-> ToTick(p.average),
                    fees |-> entry.fees, at |-> entry.at ]
       /\ entry.fees \in Int /\ 2 * Off(entry.fees, p.fees) <= Cent
       /\ entry.at \in Nat /\ entry.at <= at

EntryOf(s) == Pairing.entries[s]

PairsTyped ==
  /\ TradePairs \in Seq(PublishedRow)
  /\ Pairing = [ rows |-> TradePairs, entries |-> Pairing.entries ]
  /\ Pairing.entries = [s \in Symbols |-> EntryOf(s)]

EntriesStand == \A s \in Symbols : Stands(EntryOf(s), pos[s], barAt[s])

FillFees == [i \in 1..Len(trades) |-> trades[i].fees]
ExitPnls == [i \in Exits |-> trades[i].pnl]
WinnerTrips == [i \in Winners |-> trades[i].roundTrip]
LoserTrips == [i \in Losers |-> trades[i].roundTrip]
RowPnls == [n \in 1..Len(TradePairs) |-> TradePairs[n].pnl]
RowFees == [n \in 1..Len(TradePairs) |-> TradePairs[n].fees]
FeesLeft(entry) == IF entry = Nothing THEN 0 ELSE entry.fees
OpenFees == [s \in Symbols |-> FeesLeft(EntryOf(s))]

(* Half a cent for every number in a sum.                                  *)
SumsAgree ==
  /\ SumFunction(RowPnls) = SumFunction(ExitPnls)
  /\ 2 * Off(SumFunction(ExitPnls), realized) <= Cent * Len(TradePairs)
  /\ 2 * Off(SumFunction(WinnerTrips) + SumFunction(LoserTrips), roundTripPnl)
       <= Cent * Cardinality(RoundTrips)
  /\ 2 * Off(SumFunction(RowFees) + SumFunction(OpenFees), SumFunction(FillFees))
       <= Cent * Len(TradePairs)

LEMMA FillFacts ==
  ASSUME NEW fills \in Seq(Fill), NEW i \in 1..Len(fills)
  PROVE  /\ fills[i] \in Fill /\ fills[i].symbol \in Symbols
         /\ fills[i].quantity \in Nat /\ fills[i].price \in Int /\ fills[i].fees \in Int
         /\ fills[i].at \in Nat /\ fills[i].pnl \in Int /\ fills[i].roundTrip \in Int
         /\ fills[i].closed \in BOOLEAN /\ fills[i].side \in {"buy", "sell"}
<1>1. fills[i] \in Fill
  BY ElementOfSeq
<1> QED
  BY <1>1 DEF Fill

(* A place behind the list, and a list that is one longer.                 *)
LEMMA OneFillMore ==
  ASSUME LedgerTypes, NEW f \in Fill, trades' = Append(trades, f)
  PROVE  /\ trades' \in Seq(Fill) /\ Len(trades) \in Nat
         /\ Len(trades') = Len(trades) + 1 /\ trades'[Len(trades) + 1] = f
         /\ \A i \in 1..Len(trades) : trades'[i] = trades[i]
         /\ 1..Len(trades') = (1..Len(trades)) \cup {Len(trades) + 1}
         /\ Len(trades) + 1 \notin 1..Len(trades)
         /\ Pairing' = Pair(Pairing, f)
<1>1. /\ trades' \in Seq(Fill) /\ Len(trades) \in Nat
      /\ Len(trades') = Len(trades) + 1 /\ trades'[Len(trades) + 1] = f
      /\ \A i \in 1..Len(trades) : trades'[i] = trades[i]
  BY AppendProperties, LenProperties DEF LedgerTypes
<1>2. /\ 1..Len(trades') = (1..Len(trades)) \cup {Len(trades) + 1}
      /\ Len(trades) + 1 \notin 1..Len(trades)
  BY <1>1
<1>3. PairingOf(Append(trades, f)) = Pair(PairingOf(trades), f)
  BY PairingGoesOn DEF LedgerTypes
<1> QED
  BY <1>1, <1>2, <1>3 DEF Pairing

LEMMA SumOfLonger ==
  ASSUME NEW n \in Nat, NEW g \in [1..n -> Int], NEW h \in [1..(n + 1) -> Int],
         \A i \in 1..n : h[i] = g[i]
  PROVE  SumFunction(h) = SumFunction(g) + h[n + 1]
<1> DEFINE S == 1..n
           k == n + 1
<1>1. IsFiniteSet(S) /\ k \notin S /\ 1..(n + 1) = S \cup {k}
  <2>1. IsFiniteSet(1..n)
    BY 1 \in Int, n \in Int, FS_Interval
  <2>2. k \notin S /\ 1..(n + 1) = S \cup {k}
    OBVIOUS
  <2> QED
    BY <2>1, <2>2
<1>2. g \in [S -> Int] /\ h \in [S \cup {k} -> Int] /\ \A i \in S : h[i] = g[i]
  BY <1>1
<1> HIDE DEF S, k
<1>3. SameOn(S, h, g)
  BY <1>2 DEF SameOn
<1>4. /\ IsFiniteSet(S) /\ k \notin S
      /\ g \in [S -> Int] /\ h \in [S \cup {k} -> Int]
  BY <1>1, <1>2
<1>5. SumFunction(h) = SumFunction(g) + h[k]
  BY <1>3, <1>4, SumWithOneMore
<1> QED
  BY <1>5 DEF k

(* A buy: nothing of what was closed changes, and the symbol has an entry. *)
LEMMA BuyPairs ==
  ASSUME LedgerTypes, PairsTyped, NEW f \in Fill, f.side = "buy", trades' = Append(trades, f)
  PROVE  /\ TradePairs' = TradePairs /\ PairsTyped'
         /\ EntryOf(f.symbol)' = [ remaining |-> f.quantity, price |-> f.price,
                                   fees |-> f.fees, at |-> f.at ]
         /\ \A t \in Symbols \ {f.symbol} : EntryOf(t)' = EntryOf(t)
<1> DEFINE entry == [ remaining |-> f.quantity, price |-> f.price, fees |-> f.fees, at |-> f.at ]
<1>1. Pairing' = [Pairing EXCEPT !.entries[f.symbol] = entry]
  BY OneFillMore DEF Pair
<1>2. Pairing = [ rows |-> TradePairs, entries |-> [s \in Symbols |-> EntryOf(s)] ]
  BY DEF PairsTyped
<1> HIDE DEF entry
<1>3. Pairing' = [ rows |-> TradePairs,
                   entries |-> [[s \in Symbols |-> EntryOf(s)] EXCEPT ![f.symbol] = entry] ]
  BY <1>1, <1>2
<1>4. f.symbol \in Symbols
  BY DEF Fill
<1>5. /\ TradePairs' = TradePairs
      /\ Pairing'.entries = [s \in Symbols |-> IF s = f.symbol THEN entry ELSE EntryOf(s)]
  BY <1>3, <1>4 DEF TradePairs
<1>6. /\ EntryOf(f.symbol)' = entry
      /\ \A t \in Symbols \ {f.symbol} : EntryOf(t)' = EntryOf(t)
  BY <1>4, <1>5 DEF EntryOf
<1>7. PairsTyped'
  <2>1. Pairing' = [ rows |-> TradePairs', entries |-> Pairing'.entries ]
    BY <1>3, <1>5
  <2>2. Pairing'.entries = [s \in Symbols |-> Pairing'.entries[s]]
    BY <1>5
  <2> QED
    BY <1>5, <2>1, <2>2 DEF PairsTyped, EntryOf
<1> QED
  BY <1>5, <1>6, <1>7 DEF entry

(* A sell of a symbol that has an entry: one row more, and less of it.     *)
LEMMA SellPairs ==
  ASSUME LedgerTypes, PairsTyped, NEW f \in Fill, f.side = "sell", trades' = Append(trades, f),
         EntryOf(f.symbol) # Nothing, Row(EntryOf(f.symbol), f) \in PublishedRow
  PROVE  /\ TradePairs' = Append(TradePairs, Row(EntryOf(f.symbol), f)) /\ PairsTyped'
         /\ EntryOf(f.symbol)' = After(EntryOf(f.symbol), Row(EntryOf(f.symbol), f))
         /\ \A t \in Symbols \ {f.symbol} : EntryOf(t)' = EntryOf(t)
<1> DEFINE row == Row(EntryOf(f.symbol), f)
           left == After(EntryOf(f.symbol), row)
<1>0. f.symbol \in Symbols
  BY DEF Fill
<1>1. Pairing' = [ rows |-> Append(TradePairs, row),
                   entries |-> [Pairing.entries EXCEPT ![f.symbol] = left] ]
  BY OneFillMore DEF Pair, EntryOf, TradePairs
<1>2. Pairing.entries = [s \in Symbols |-> EntryOf(s)]
  BY DEF PairsTyped
<1> HIDE DEF row, left
<1>3. /\ TradePairs' = Append(TradePairs, row)
      /\ Pairing'.entries = [s \in Symbols |-> IF s = f.symbol THEN left ELSE EntryOf(s)]
  BY <1>0, <1>1, <1>2 DEF TradePairs
<1>4. /\ EntryOf(f.symbol)' = left
      /\ \A t \in Symbols \ {f.symbol} : EntryOf(t)' = EntryOf(t)
  BY <1>0, <1>3 DEF EntryOf
<1>5. TradePairs' \in Seq(PublishedRow)
  <2>1. TradePairs \in Seq(PublishedRow) /\ row \in PublishedRow
    BY DEF PairsTyped, row
  <2> QED
    BY <1>3, <2>1, AppendProperties
<1>6. PairsTyped'
  <2>1. Pairing' = [ rows |-> TradePairs', entries |-> Pairing'.entries ]
    BY <1>1, <1>3
  <2>2. Pairing'.entries = [s \in Symbols |-> Pairing'.entries[s]]
    BY <1>3
  <2> QED
    BY <1>5, <2>1, <2>2 DEF PairsTyped, EntryOf
<1> QED
  BY <1>3, <1>4, <1>6 DEF row, left

(* The sells, and the sums over them.                                      *)
LEMMA ExitFacts ==
  ASSUME LedgerTypes
  PROVE  /\ Exits \subseteq 1..Len(trades) /\ IsFiniteSet(Exits)
         /\ RoundTrips \subseteq Exits /\ IsFiniteSet(RoundTrips)
         /\ Winners \subseteq RoundTrips /\ IsFiniteSet(Winners)
         /\ Losers \subseteq RoundTrips /\ IsFiniteSet(Losers)
         /\ ExitPnls \in [Exits -> Int]
         /\ WinnerTrips \in [Winners -> Int] /\ LoserTrips \in [Losers -> Int]
         /\ FillFees \in [1..Len(trades) -> Int] /\ Len(trades) \in Nat
<1>1. Len(trades) \in Nat
  BY LenProperties DEF LedgerTypes
<1>2. IsFiniteSet(1..Len(trades))
  BY <1>1, 1 \in Int, Len(trades) \in Int, FS_Interval
<1>3. /\ Exits \subseteq 1..Len(trades) /\ RoundTrips \subseteq Exits
      /\ Winners \subseteq RoundTrips /\ Losers \subseteq RoundTrips
  BY DEF Exits, RoundTrips, Winners, Losers
<1>4. /\ IsFiniteSet(Exits) /\ IsFiniteSet(RoundTrips)
      /\ IsFiniteSet(Winners) /\ IsFiniteSet(Losers)
  BY <1>2, <1>3, FS_Subset
<1>5. \A i \in 1..Len(trades) : /\ trades[i].pnl \in Int /\ trades[i].roundTrip \in Int
                                /\ trades[i].fees \in Int
  BY FillFacts DEF LedgerTypes
<1>6. /\ ExitPnls \in [Exits -> Int] /\ WinnerTrips \in [Winners -> Int]
      /\ LoserTrips \in [Losers -> Int] /\ FillFees \in [1..Len(trades) -> Int]
  BY <1>3, <1>5 DEF ExitPnls, WinnerTrips, LoserTrips, FillFees
<1> QED
  BY <1>1, <1>3, <1>4, <1>6

LEMMA ExitSums ==
  ASSUME LedgerTypes
  PROVE  /\ SumFunction(ExitPnls) \in Int /\ SumFunction(FillFees) \in Int
         /\ SumFunction(WinnerTrips) \in Int /\ SumFunction(LoserTrips) \in Int
<1>1. IsFiniteSet(1..Len(trades))
  BY ExitFacts, 1 \in Int, Len(trades) \in Int, FS_Interval
<1> QED
  BY <1>1, ExitFacts, SumType

LEMMA BuyMetrics ==
  ASSUME LedgerTypes, NEW f \in Fill, f.side = "buy", trades' = Append(trades, f)
  PROVE  /\ Exits' = Exits /\ ExitPnls' = ExitPnls /\ RoundTrips' = RoundTrips
         /\ WinnerTrips' = WinnerTrips /\ LoserTrips' = LoserTrips
<1>1. /\ trades'[Len(trades) + 1].side # "sell"
      /\ \A i \in 1..Len(trades) : trades'[i] = trades[i]
      /\ 1..Len(trades') = (1..Len(trades)) \cup {Len(trades) + 1}
  BY OneFillMore
<1>2. Exits' = Exits
  BY <1>1 DEF Exits
<1>3. \A i \in Exits : trades'[i] = trades[i]
  BY <1>1, ExitFacts
<1>4. RoundTrips' = RoundTrips
  BY <1>2, <1>3 DEF RoundTrips
<1>5. Winners' = Winners /\ Losers' = Losers
  BY <1>3, <1>4, ExitFacts DEF Winners, Losers
<1>6. Winners \subseteq Exits /\ Losers \subseteq Exits
  BY ExitFacts
<1>7. ExitPnls' = ExitPnls
  BY <1>2, <1>3 DEF ExitPnls
<1>8. WinnerTrips' = WinnerTrips /\ LoserTrips' = LoserTrips
  BY <1>3, <1>5, <1>6 DEF WinnerTrips, LoserTrips
<1> QED
  BY <1>2, <1>4, <1>7, <1>8

LEMMA SellExits ==
  ASSUME LedgerTypes, NEW f \in Fill, f.side = "sell", trades' = Append(trades, f)
  PROVE  LET k == Len(trades) + 1 IN
         /\ k \notin Exits /\ Exits' = Exits \cup {k} /\ trades'[k] = f
         /\ \A i \in Exits : trades'[i] = trades[i]
         /\ RoundTrips' = IF f.closed THEN RoundTrips \cup {k} ELSE RoundTrips
         /\ Winners' = IF f.closed /\ f.roundTrip > 0 THEN Winners \cup {k} ELSE Winners
         /\ Losers' = IF f.closed /\ f.roundTrip < 0 THEN Losers \cup {k} ELSE Losers
<1> DEFINE k == Len(trades) + 1
<1>1. /\ trades'[k] = f /\ k \notin 1..Len(trades)
      /\ \A i \in 1..Len(trades) : trades'[i] = trades[i]
      /\ 1..Len(trades') = (1..Len(trades)) \cup {k}
  BY OneFillMore
<1> HIDE DEF k
<1>2. k \notin Exits /\ Exits' = Exits \cup {k}
  BY <1>1, ExitFacts DEF Exits
<1>3. \A i \in Exits : trades'[i] = trades[i]
  BY <1>1, ExitFacts
<1>4. RoundTrips' = {i \in Exits \cup {k} : trades'[i].closed}
  BY <1>2 DEF RoundTrips
<1>5. RoundTrips' = IF f.closed THEN RoundTrips \cup {k} ELSE RoundTrips
  <2>1. f.closed \in BOOLEAN
    BY DEF Fill
  <2> QED
    BY <1>1, <1>3, <1>4, <2>1 DEF RoundTrips
<1>6. \A i \in RoundTrips : trades'[i] = trades[i]
  BY <1>3, ExitFacts
<1>7. Winners' = IF f.closed /\ f.roundTrip > 0 THEN Winners \cup {k} ELSE Winners
  BY <1>1, <1>5, <1>6 DEF Winners
<1>8. Losers' = IF f.closed /\ f.roundTrip < 0 THEN Losers \cup {k} ELSE Losers
  BY <1>1, <1>5, <1>6 DEF Losers
<1> QED
  BY <1>1, <1>2, <1>3, <1>5, <1>7, <1>8 DEF k

LEMMA SellTrips ==
  ASSUME LedgerTypes, NEW f \in Fill, f.side = "sell", trades' = Append(trades, f)
  PROVE  /\ Cardinality(RoundTrips) \in Nat
         /\ Cardinality(RoundTrips')
              = Cardinality(RoundTrips) + (IF f.closed THEN 1 ELSE 0)
<1> DEFINE k == Len(trades) + 1
<1>1. /\ k \notin Exits
      /\ RoundTrips' = IF f.closed THEN RoundTrips \cup {k} ELSE RoundTrips
  BY SellExits
<1> HIDE DEF k
<1>2. IsFiniteSet(RoundTrips) /\ k \notin RoundTrips /\ Cardinality(RoundTrips) \in Nat
  BY <1>1, ExitFacts, FS_CardinalityType
<1>3. Cardinality(RoundTrips \cup {k}) = Cardinality(RoundTrips) + 1
  BY <1>2, FS_AddElement
<1> QED
  BY <1>1, <1>2, <1>3

LEMMA SellMetrics ==
  ASSUME LedgerTypes, NEW f \in Fill, f.side = "sell", trades' = Append(trades, f)
  PROVE  /\ SumFunction(ExitPnls') = SumFunction(ExitPnls) + f.pnl
         /\ SumFunction(WinnerTrips') + SumFunction(LoserTrips')
              = SumFunction(WinnerTrips) + SumFunction(LoserTrips)
                  + (IF f.closed THEN f.roundTrip ELSE 0)
<1> DEFINE k == Len(trades) + 1
<1>1. /\ k \notin Exits /\ Exits' = Exits \cup {k} /\ trades'[k] = f
      /\ \A i \in Exits : trades'[i] = trades[i]
      /\ Winners' = IF f.closed /\ f.roundTrip > 0 THEN Winners \cup {k} ELSE Winners
      /\ Losers' = IF f.closed /\ f.roundTrip < 0 THEN Losers \cup {k} ELSE Losers
  BY SellExits
<1> HIDE DEF k
<1>2. f.pnl \in Int /\ f.roundTrip \in Int
  BY DEF Fill
<1>3. Winners \subseteq Exits /\ Losers \subseteq Exits
  BY ExitFacts
<1>4. SumFunction(ExitPnls') = SumFunction(ExitPnls) + f.pnl
  <2>1. ExitPnls' = [i \in Exits \cup {k} |-> trades'[i].pnl]
    BY <1>1 DEF ExitPnls
  <2>2. \A i \in Exits : trades'[i].pnl = ExitPnls[i] /\ ExitPnls[i] \in Int
    BY <1>1, ExitFacts DEF ExitPnls
  <2>3. /\ ExitPnls' \in [Exits \cup {k} -> Int] /\ ExitPnls'[k] = f.pnl
        /\ \A i \in Exits : ExitPnls'[i] = ExitPnls[i]
    BY <1>1, <1>2, <2>1, <2>2
  <2>4. IsFiniteSet(Exits) /\ ExitPnls \in [Exits -> Int]
    BY ExitFacts
  <2>5. PICK g, h, S : g = ExitPnls /\ h = ExitPnls' /\ S = Exits
    OBVIOUS
  <2>6. SumFunction(h) = SumFunction(g) + h[k]
    <3>1. /\ IsFiniteSet(S) /\ k \notin S
          /\ g \in [S -> Int] /\ h \in [S \cup {k} -> Int]
      BY <1>1, <2>3, <2>4, <2>5
    <3>2. SameOn(S, h, g)
      BY <2>3, <2>5 DEF SameOn
    <3> QED
      BY <3>1, <3>2, SumWithOneMore
  <2> QED
    BY <2>3, <2>5, <2>6
<1>5. CASE f.closed /\ f.roundTrip > 0
  <2>1. /\ Winners' = Winners \cup {k} /\ Losers' = Losers /\ k \notin Winners
    BY <1>1, <1>2, <1>3, <1>5
  <2>2. WinnerTrips' = [i \in Winners \cup {k} |-> trades'[i].roundTrip]
    BY <2>1 DEF WinnerTrips
  <2>3. \A i \in Winners : trades'[i].roundTrip = WinnerTrips[i] /\ WinnerTrips[i] \in Int
    BY <1>1, <1>3, ExitFacts DEF WinnerTrips
  <2>4. /\ WinnerTrips' \in [Winners \cup {k} -> Int] /\ WinnerTrips'[k] = f.roundTrip
        /\ \A i \in Winners : WinnerTrips'[i] = WinnerTrips[i]
    BY <1>1, <1>2, <2>2, <2>3
  <2>5. SumFunction(WinnerTrips') = SumFunction(WinnerTrips) + f.roundTrip
    <3>1. IsFiniteSet(Winners) /\ WinnerTrips \in [Winners -> Int]
      BY ExitFacts
    <3>2. PICK g, h, S : g = WinnerTrips /\ h = WinnerTrips' /\ S = Winners
      OBVIOUS
    <3>3. SumFunction(h) = SumFunction(g) + h[k]
      <4>1. /\ IsFiniteSet(S) /\ k \notin S
            /\ g \in [S -> Int] /\ h \in [S \cup {k} -> Int]
        BY <2>1, <2>4, <3>1, <3>2
      <4>2. SameOn(S, h, g)
        BY <2>4, <3>2 DEF SameOn
      <4> QED
        BY <4>1, <4>2, SumWithOneMore
    <3> QED
      BY <2>4, <3>2, <3>3
  <2>6. LoserTrips' = LoserTrips
    BY <1>1, <1>3, <2>1 DEF LoserTrips
  <2> QED
    BY <1>2, <1>4, <1>5, <2>5, <2>6, ExitSums
<1>6. CASE f.closed /\ f.roundTrip < 0
  <2>1. /\ Losers' = Losers \cup {k} /\ Winners' = Winners /\ k \notin Losers
    BY <1>1, <1>2, <1>3, <1>6
  <2>2. LoserTrips' = [i \in Losers \cup {k} |-> trades'[i].roundTrip]
    BY <2>1 DEF LoserTrips
  <2>3. \A i \in Losers : trades'[i].roundTrip = LoserTrips[i] /\ LoserTrips[i] \in Int
    BY <1>1, <1>3, ExitFacts DEF LoserTrips
  <2>4. /\ LoserTrips' \in [Losers \cup {k} -> Int] /\ LoserTrips'[k] = f.roundTrip
        /\ \A i \in Losers : LoserTrips'[i] = LoserTrips[i]
    BY <1>1, <1>2, <2>2, <2>3
  <2>5. SumFunction(LoserTrips') = SumFunction(LoserTrips) + f.roundTrip
    <3>1. IsFiniteSet(Losers) /\ LoserTrips \in [Losers -> Int]
      BY ExitFacts
    <3>2. PICK g, h, S : g = LoserTrips /\ h = LoserTrips' /\ S = Losers
      OBVIOUS
    <3>3. SumFunction(h) = SumFunction(g) + h[k]
      <4>1. /\ IsFiniteSet(S) /\ k \notin S
            /\ g \in [S -> Int] /\ h \in [S \cup {k} -> Int]
        BY <2>1, <2>4, <3>1, <3>2
      <4>2. SameOn(S, h, g)
        BY <2>4, <3>2 DEF SameOn
      <4> QED
        BY <4>1, <4>2, SumWithOneMore
    <3> QED
      BY <2>4, <3>2, <3>3
  <2>6. WinnerTrips' = WinnerTrips
    BY <1>1, <1>3, <2>1 DEF WinnerTrips
  <2> QED
    BY <1>2, <1>4, <1>6, <2>5, <2>6, ExitSums
<1>7. CASE ~f.closed \/ f.roundTrip = 0
  <2>1. Winners' = Winners /\ Losers' = Losers
    BY <1>1, <1>7
  <2>2. WinnerTrips' = WinnerTrips /\ LoserTrips' = LoserTrips
    BY <1>1, <1>3, <2>1 DEF WinnerTrips, LoserTrips
  <2> QED
    BY <1>4, <1>7, <2>2, ExitSums
<1> QED
  BY <1>2, <1>5, <1>6, <1>7

LEMMA FeesOfLonger ==
  ASSUME LedgerTypes, NEW f \in Fill, trades' = Append(trades, f)
  PROVE  SumFunction(FillFees') = SumFunction(FillFees) + f.fees
<1>1. /\ Len(trades) \in Nat /\ Len(trades') = Len(trades) + 1
      /\ trades'[Len(trades) + 1] = f /\ \A i \in 1..Len(trades) : trades'[i] = trades[i]
      /\ 1..Len(trades') = (1..Len(trades)) \cup {Len(trades) + 1}
  BY OneFillMore
<1>2. FillFees' = [i \in 1..(Len(trades) + 1) |-> trades'[i].fees]
  BY <1>1 DEF FillFees
<1>3. FillFees \in [1..Len(trades) -> Int] /\ f.fees \in Int
  BY ExitFacts DEF Fill
<1>4. \A i \in 1..Len(trades) : FillFees[i] = trades[i].fees
  BY DEF FillFees
<1>5. \A i \in 1..Len(trades) : trades'[i].fees = FillFees[i] /\ FillFees[i] \in Int
  BY <1>1, <1>3, <1>4
<1>6. \A i \in 1..(Len(trades) + 1) : i \in 1..Len(trades) \/ i = Len(trades) + 1
  BY <1>1
<1>7. \A i \in 1..(Len(trades) + 1) : trades'[i].fees \in Int
  BY <1>1, <1>3, <1>5, <1>6
<1>8. /\ FillFees' \in [1..(Len(trades) + 1) -> Int] /\ FillFees'[Len(trades) + 1] = f.fees
      /\ \A i \in 1..Len(trades) : FillFees'[i] = FillFees[i]
  <2>1. FillFees' \in [1..(Len(trades) + 1) -> Int]
    BY <1>2, <1>7
  <2>2. Len(trades) + 1 \in 1..(Len(trades) + 1)
    BY <1>1
  <2>3. \A i \in 1..Len(trades) : i \in 1..(Len(trades) + 1)
    BY <1>1
  <2> QED
    BY <1>1, <1>2, <1>5, <2>1, <2>2, <2>3
<1> QED
  BY <1>1, <1>3, <1>8, SumOfLonger

-----------------------------------------------------------------------------
(* The fills that a buy and a sell report.                                 *)

BooksOnly == UNCHANGED <<barAt, batches>>

LEMMA BuyReported ==
  ASSUME TypeOK, Booked, LedgerTypes, NEW s \in Symbols, Enter(s)
  PROVE  /\ BuyTrade(s) \in Fill /\ BuyTrade(s).side = "buy" /\ BuyTrade(s).symbol = s
         /\ BuyTrade(s).quantity = pos'[s].quantity
         /\ BuyTrade(s).price = ToTick(pos'[s].average)
         /\ BuyTrade(s).fees = ToCent(pos'[s].fees) /\ BuyTrade(s).at = barAt[s]
         /\ BuyTrade(s).pnl = 0 /\ pos'[s].pnl = 0
         /\ pos'[s].average = EntryPrice(s, BuyTrade(s).quantity)
         /\ pos'[s].fees = Fee(pos'[s].average, BuyTrade(s).quantity)
         /\ pos'[s].average \in Int /\ pos'[s].fees \in Int
         /\ pos'[s].quantity > 0 /\ pos[s] = Flat
         /\ \A t \in Symbols \ {s} : pos'[t] = pos[t]
         /\ UNCHANGED <<realized, roundTripPnl>>
<1> DEFINE q == EntryQuantity(s)
           price == EntryPrice(s, q)
<1>1. pos[s] = Flat /\ UNCHANGED <<realized, roundTripPnl>>
  BY DEF Enter, Visit, Turn, Booked, BuyersAreEmpty, EmptyIsFlat
<1>2. /\ q \in Nat /\ q > 0 /\ pos'[s].quantity = q
      /\ \A t \in Symbols \ {s} : pos'[t] = pos[t]
  BY EnterStep
<1>3. pos'[s] = [pos[s] EXCEPT !.quantity = q, !.average = price, !.fees = Fee(price, q),
                    !.stop = StopLossPrice(price), !.target = TakeProfitPrice(price)]
  BY DEF Enter, TypeOK
<1>4. /\ BuyTrade(s).side = "buy" /\ BuyTrade(s).symbol = s /\ BuyTrade(s).quantity = q
      /\ BuyTrade(s).price = ToTick(price) /\ BuyTrade(s).fees = ToCent(Fee(price, q))
      /\ BuyTrade(s).at = barAt[s] /\ BuyTrade(s).pnl = 0
  BY DEF BuyTrade
<1>5. BuyTrade(s) = [ symbol |-> s, side |-> "buy", quantity |-> q, price |-> ToTick(price),
        fees |-> ToCent(Fee(price, q)), at |-> barAt[s], pnl |-> 0,
        closed |-> FALSE, roundTrip |-> 0,
        reference |-> Reference(bar[s].open), impact |-> MarketImpact(q, bar[s].volume) ]
  BY DEF BuyTrade
<1> HIDE DEF q
<1>6. q \in Int /\ Reference(bar[s].open) \in Int /\ bar[s].volume \in Int /\ barAt[s] \in Nat
  <2>1. barAt[s] \in Nat
    BY DEF LedgerTypes
  <2>2. bar[s].open \in Nat /\ bar[s].volume \in Nat
    BY BarFacts
  <2> QED
    BY <1>2, <2>1, <2>2, ReferenceType
<1>7. price \in Int
  BY <1>6, PriceTypes DEF EntryPrice
<1> HIDE DEF price
<1>8. Fee(price, q) \in Int /\ MarketImpact(q, bar[s].volume) \in Int
  BY <1>6, <1>7, MoneyTypes, ImpactType
<1>9. BuyTrade(s) \in Fill
  <2>1. ToTick(price) \in Int /\ ToCent(Fee(price, q)) \in Int
    BY <1>7, <1>8, TickFacts, CentFacts
  <2> QED
    BY <1>2, <1>5, <1>6, <1>8, <2>1 DEF Fill
<1>10. pos'[s].average = price /\ pos'[s].fees = Fee(price, q) /\ pos'[s].pnl = 0
  BY <1>1, <1>3 DEF Flat
<1> QED
  BY <1>1, <1>2, <1>4, <1>7, <1>8, <1>9, <1>10 DEF price

LEMMA SellReport ==
  ASSUME TypeOK, Booked, LedgerTypes, NEW s \in Symbols, NEW ref \in Int,
         SellFill(s) > 0, ExitPosition(s, ref)
  PROVE  LET f == SellTrade(s, ref)
             price == SellExecutionPrice(ref, SellFill(s), bar[s].volume)
             fee == Fee(price, SellFill(s))
             pnl == SellPnl(s, price)
         IN
         /\ f \in Fill /\ f.side = "sell" /\ f.symbol = s /\ f.at = barAt[s]
         /\ f.quantity = SellFill(s)
         /\ price \in Int /\ f.price = ToTick(price)
         /\ fee \in Int /\ f.fees = ToCent(fee)
         /\ pnl \in Int /\ f.pnl = ToCent(pnl)
         /\ pnl = Value(price - pos[s].average, f.quantity) - FeeShare(s) - fee
         /\ FeeShare(s) \in Int
         /\ f.closed = (pos'[s].quantity = 0)
         /\ f.closed => f.roundTrip = ToCent(pos[s].pnl + pnl)
         /\ ~f.closed => pos'[s].pnl = pos[s].pnl + pnl
         /\ realized' = realized + pnl
         /\ roundTripPnl' = roundTripPnl + (IF f.closed THEN pos[s].pnl + pnl ELSE 0)
         /\ pos'[s].quantity = pos[s].quantity - f.quantity
         /\ pos'[s].fees = pos[s].fees - FeeShare(s)
         /\ f.quantity < pos[s].quantity => pos'[s].average = pos[s].average
         /\ \A t \in Symbols \ {s} : pos'[t] = pos[t]
<1> DEFINE n == SellFill(s)
           price == SellExecutionPrice(ref, n, bar[s].volume)
           left == Remainder(s, price)
           f == SellTrade(s, ref)
           fee == Fee(price, n)
           pnl == SellPnl(s, price)
           share == FeeShare(s)
<1>1. /\ fee \in Int /\ pnl \in Int /\ left \in Position /\ share \in Int
      /\ left.quantity = pos[s].quantity - n
  BY SellMoney
<1>2. /\ n \in Nat /\ n > 0 /\ n <= pos[s].quantity
      /\ pos[s].quantity \in Nat /\ pos[s].fees \in Int /\ pos[s].pnl \in Int
  BY PositionFacts, SellFillFacts
<1>3. ref \in Int /\ n \in Int /\ bar[s].volume \in Int /\ barAt[s] \in Nat
  BY <1>2, BarFacts DEF LedgerTypes
<1>4. price \in Int /\ MarketImpact(n, bar[s].volume) \in Int
  BY <1>3, PriceTypes, ImpactType
<1>5. /\ pos' = [pos EXCEPT ![s] = IF left.quantity = 0 THEN Flat ELSE left]
      /\ realized' = realized + pnl
      /\ roundTripPnl' = IF left.quantity = 0 THEN roundTripPnl + left.pnl ELSE roundTripPnl
  BY DEF ExitPosition
<1>6. f = [ symbol |-> s, side |-> "sell", quantity |-> n, price |-> ToTick(price),
            fees |-> ToCent(fee), at |-> barAt[s], pnl |-> ToCent(pnl),
            closed |-> left.quantity = 0,
            roundTrip |-> IF left.quantity = 0 THEN ToCent(left.pnl) ELSE 0,
            reference |-> ref, impact |-> MarketImpact(n, bar[s].volume) ]
  BY DEF SellTrade
<1>7. /\ left.average = pos[s].average /\ left.fees = pos[s].fees - share
      /\ left.pnl = pos[s].pnl + pnl
  BY PositionFacts DEF Remainder, Position
<1>8. n = pos[s].quantity => share = pos[s].fees
  <2>1. share = (pos[s].fees * n) \div pos[s].quantity
    BY DEF FeeShare
  <2>2. pos[s].quantity \in Nat \ {0}
    BY <1>2
  <2>3. (pos[s].fees * pos[s].quantity) \div pos[s].quantity = pos[s].fees
    BY <1>2, <2>2, AllFeesGo
  <2> HIDE DEF n, share
  <2> QED
    BY <2>1, <2>3
<1>9. pnl = Value(price - pos[s].average, n) - share - fee
  BY DEF SellPnl, Value
<1> HIDE DEF n, price, left, f, fee, pnl, share
<1>10. left.pnl \in Int
  BY <1>1 DEF Position
<1>11. /\ (left.quantity = 0) \in BOOLEAN
       /\ (IF left.quantity = 0 THEN ToCent(left.pnl) ELSE 0) \in Int
  BY <1>10, CentFacts
<1>12. f \in Fill
  <2>1. ToTick(price) \in Int /\ ToCent(fee) \in Int /\ ToCent(pnl) \in Int
    BY <1>1, <1>4, TickFacts, CentFacts
  <2> QED
    BY <1>2, <1>3, <1>4, <1>6, <1>11, <2>1 DEF Fill
<1>13. /\ f.side = "sell" /\ f.symbol = s /\ f.at = barAt[s] /\ f.quantity = n
       /\ f.price = ToTick(price) /\ f.fees = ToCent(fee) /\ f.pnl = ToCent(pnl)
       /\ f.closed = (left.quantity = 0)
       /\ f.roundTrip = IF left.quantity = 0 THEN ToCent(left.pnl) ELSE 0
  BY <1>6
<1>14. /\ pos'[s] = IF left.quantity = 0 THEN Flat ELSE left
       /\ \A t \in Symbols \ {s} : pos'[t] = pos[t]
  BY <1>5 DEF TypeOK
<1>15. /\ pos'[s].quantity = pos[s].quantity - n
       /\ pos'[s].fees = pos[s].fees - share
       /\ n < pos[s].quantity => pos'[s].average = pos[s].average
  <2>1. CASE left.quantity = 0
    <3>1. n = pos[s].quantity
      BY <1>1, <1>2, <2>1
    <3>2. pos'[s].quantity = 0 /\ pos'[s].fees = 0
      BY <1>14, <2>1 DEF Flat
    <3> QED
      BY <1>1, <1>2, <1>8, <3>1, <3>2
  <2>2. CASE left.quantity # 0
    BY <1>1, <1>7, <1>14, <2>2
  <2> QED
    BY <2>1, <2>2
<1>16. roundTripPnl' = roundTripPnl + (IF f.closed THEN pos[s].pnl + pnl ELSE 0)
  <2>1. roundTripPnl \in Int
    BY DEF TypeOK
  <2>2. CASE left.quantity = 0
    BY <1>5, <1>7, <1>13, <2>2
  <2>3. CASE left.quantity # 0
    <3>1. roundTripPnl' = roundTripPnl /\ f.closed = FALSE
      BY <1>5, <1>13, <2>3
    <3> QED
      BY <2>1, <3>1
  <2> QED
    BY <2>2, <2>3
<1>17. /\ f.closed = (pos'[s].quantity = 0)
       /\ f.closed => f.roundTrip = ToCent(pos[s].pnl + pnl)
       /\ ~f.closed => pos'[s].pnl = pos[s].pnl + pnl
  <2>1. CASE left.quantity = 0
    <3>1. f.closed = TRUE /\ f.roundTrip = ToCent(left.pnl) /\ pos'[s] = Flat
      BY <1>13, <1>14, <2>1
    <3>2. pos'[s].quantity = 0
      BY <3>1 DEF Flat
    <3> QED
      BY <1>7, <3>1, <3>2
  <2>2. CASE left.quantity # 0
    <3>1. f.closed = FALSE /\ pos'[s] = left
      BY <1>13, <1>14, <2>2
    <3> QED
      BY <1>7, <2>2, <3>1
  <2> QED
    BY <2>1, <2>2
<1> QED
  BY <1>1, <1>4, <1>5, <1>9, <1>12, <1>13, <1>14, <1>15, <1>16, <1>17
     DEF f, share, n, price, fee, pnl

(* The numbers of a row: what they miss of an exact profit by the rounding *)
(* of two prices, of the profit, of both fees and of their sum.            *)
LEMMA RowNumbers ==
  ASSUME NEW in \in Int, NEW out \in Int, NEW q \in Nat, NEW share \in Int, NEW fee \in Int,
         NEW charged \in Int, 2 * Off(charged, share) <= Cent
  PROVE  LET pnl == Value(out - in, q) - share - fee
             fees == ToCent(charged + ToCent(fee))
         IN  Off(ToCent(pnl), Value(ToTick(out) - ToTick(in), q) - fees)
               <= TickValue * q + 2 * Cent
<1>1. /\ ToTick(in) \in Int /\ 2 * Off(ToTick(in), in) <= PriceTick
      /\ ToTick(out) \in Int /\ 2 * Off(ToTick(out), out) <= PriceTick
  BY TickFacts
<1>2. PICK a \in Int, b \in Int : a = out - in /\ b = ToTick(out) - ToTick(in)
  BY <1>1
<1>3. 1 * Off(b, a) <= PriceTick
  BY <1>1, <1>2, RoundingAssumption DEF Off
<1>4. PICK v \in Int, w \in Int, t \in Nat :
        v = Value(a, q) /\ w = Value(b, q) /\ t = TickValue * q
  BY <1>2, <1>3, ValueNear, TickValueType
<1>5. Off(w, v) <= t
  <2>1. 1 * Off(Value(b, q), Value(a, q)) <= TickValue * q
    BY <1>2, <1>3, ValueNear
  <2> QED
    BY <1>4, <2>1 DEF Off
<1>6. PICK pnl \in Int, d \in Int : pnl = v - share - fee /\ d = ToCent(fee)
  BY <1>4, CentFacts
<1>7. PICK c \in Int, e \in Int : c = ToCent(pnl) /\ e = ToCent(charged + d)
  BY <1>6, CentFacts
<1>8. /\ 2 * Off(c, pnl) <= Cent /\ 2 * Off(d, fee) <= Cent
      /\ 2 * Off(e, charged + d) <= Cent
  BY <1>6, <1>7, CentFacts
<1>9. Off(c, w - e) <= t + 2 * Cent
  <2>1. PICK cent \in Nat : cent = Cent
    BY CentFacts
  <2> QED
    BY <1>4, <1>5, <1>6, <1>8, <2>1 DEF Off
<1> QED
  BY <1>2, <1>4, <1>6, <1>7, <1>9

(* The row of a sell, and what it leaves of the entry.                     *)
LEMMA RowFacts ==
  ASSUME TypeOK, Booked, LedgerTypes, NEW s \in Symbols, NEW ref \in Int,
         SellFill(s) > 0, ExitPosition(s, ref), Stands(EntryOf(s), pos[s], barAt[s]), BooksOnly
  PROVE  LET f == SellTrade(s, ref)
             row == Row(EntryOf(s), f)
             rest == After(EntryOf(s), row)
         IN  /\ EntryOf(s) # Nothing
             /\ row \in PublishedRow
             /\ row.symbol = s /\ row.quantity = f.quantity
             /\ row.exitTime = f.at /\ row.entryTime <= row.exitTime
             /\ row.pnl = f.pnl /\ row.fees = ToCent(row.entryFees + f.fees)
             /\ Off(row.pnl, (row.exitPrice - row.entryPrice) * row.quantity * BPS - row.fees)
                  <= TickValue * row.quantity + 2 * Cent
             /\ FeesLeft(rest) = EntryOf(s).fees - row.entryFees
             /\ Stands(rest, pos'[s], barAt'[s])
<1> DEFINE f == SellTrade(s, ref)
           e == EntryOf(s)
           row == Row(e, f)
           p == pos[s]
           price == SellExecutionPrice(ref, SellFill(s), bar[s].volume)
           fee == Fee(price, SellFill(s))
           share == FeeShare(s)
           charged == (e.fees * f.quantity) \div p.quantity
<1>1. /\ f \in Fill /\ f.side = "sell" /\ f.symbol = s /\ f.at = barAt[s]
      /\ f.quantity = SellFill(s)
      /\ price \in Int /\ f.price = ToTick(price) /\ fee \in Int /\ f.fees = ToCent(fee)
      /\ f.pnl = ToCent(Value(price - p.average, f.quantity) - share - fee)
      /\ share \in Int
      /\ pos'[s].quantity = p.quantity - f.quantity
      /\ pos'[s].fees = p.fees - share
      /\ f.quantity < p.quantity => pos'[s].average = p.average
  BY SellReport
<1>2. /\ f.quantity \in Nat /\ f.quantity > 0 /\ f.quantity <= p.quantity
      /\ p.quantity \in Nat /\ p.fees \in Int /\ p.average \in Int
  BY <1>1, PositionFacts, SellFillFacts
<1>3. /\ f.price \in Int /\ f.fees \in Int /\ f.pnl \in Int /\ f.symbol \in Symbols
      /\ f.at \in Nat
  BY <1>1 DEF Fill
<1>4. share = (p.fees * f.quantity) \div p.quantity
  BY <1>1 DEF FeeShare
<1>5. barAt'[s] = barAt[s]
  BY DEF BooksOnly
<1>6. row = LET closed == Smaller(f.quantity, e.remaining)
                paid   == (e.fees * closed) \div e.remaining
            IN  [ symbol |-> f.symbol, quantity |-> closed,
                  entryPrice |-> e.price, exitPrice |-> f.price, pnl |-> f.pnl,
                  entryFees |-> paid, fees |-> ToCent(paid + f.fees),
                  entryTime |-> e.at, exitTime |-> f.at, outcome |-> Outcome(f.pnl) ]
  BY DEF Row
<1>7. After(e, row) = IF e.remaining = row.quantity THEN Nothing
                      ELSE [e EXCEPT !.remaining = @ - row.quantity, !.fees = @ - row.entryFees]
  BY DEF After
<1> HIDE DEF f, e, row, p, price, fee, share, charged
<1>8. /\ e = [ remaining |-> p.quantity, price |-> ToTick(p.average), fees |-> e.fees,
               at |-> e.at ]
      /\ e.at \in Nat /\ e.at <= f.at
      /\ e.fees \in Int /\ 2 * Off(e.fees, p.fees) <= Cent
  BY <1>1, <1>2 DEF Stands, e, p
<1>9. e.remaining = p.quantity /\ e.price = ToTick(p.average) /\ ToTick(p.average) \in Int
  BY <1>2, <1>8, TickFacts
<1>10. e # Nothing
  <2>1. e.remaining # 0
    BY <1>2, <1>9
  <2> QED
    BY <2>1 DEF Nothing
<1>11. Smaller(f.quantity, e.remaining) = f.quantity
  BY <1>2, <1>9 DEF Smaller
<1>12. /\ charged \in Int /\ 2 * Off(charged, share) <= Cent
       /\ 2 * Off(e.fees - charged, p.fees - share) <= Cent
  <2>1. /\ charged \in Int /\ Off(charged, share) <= Off(e.fees, p.fees)
        /\ Off(e.fees - charged, p.fees - share) <= Off(e.fees, p.fees)
    BY <1>2, <1>4, <1>8, SharesNear, p.quantity \in Nat \ {0} DEF charged
  <2>2. PICK x \in Int, y \in Int, z \in Int :
          /\ x = Off(charged, share) /\ y = Off(e.fees - charged, p.fees - share)
          /\ z = Off(e.fees, p.fees)
    BY <1>1, <1>2, <1>8, <2>1 DEF Off
  <2> QED
    BY <1>8, <2>1, <2>2, CentFacts
<1>13. row = [ symbol |-> s, quantity |-> f.quantity,
               entryPrice |-> ToTick(p.average), exitPrice |-> f.price, pnl |-> f.pnl,
               entryFees |-> charged, fees |-> ToCent(charged + f.fees),
               entryTime |-> e.at, exitTime |-> f.at, outcome |-> Outcome(f.pnl) ]
  BY <1>1, <1>6, <1>9, <1>11 DEF charged
<1>14. Outcome(f.pnl) \in {"win", "loss", "breakeven"} /\ ToCent(charged + f.fees) \in Int
  BY <1>3, <1>12, CentFacts DEF Outcome
<1>15. row \in PublishedRow
  BY <1>1, <1>2, <1>3, <1>8, <1>9, <1>12, <1>13, <1>14 DEF PublishedRow
<1>16. /\ row.symbol = s /\ row.quantity = f.quantity /\ row.exitTime = f.at
       /\ row.entryTime <= row.exitTime /\ row.pnl = f.pnl
       /\ row.fees = ToCent(charged + f.fees) /\ row.entryFees = charged
       /\ row.exitPrice = f.price /\ row.entryPrice = ToTick(p.average)
  BY <1>8, <1>13
<1>17. Off(row.pnl, (row.exitPrice - row.entryPrice) * row.quantity * BPS - row.fees)
         <= TickValue * row.quantity + 2 * Cent
  <2>1. Off(ToCent(Value(price - p.average, f.quantity) - share - fee),
            Value(ToTick(price) - ToTick(p.average), f.quantity)
              - ToCent(charged + ToCent(fee))) <= TickValue * f.quantity + 2 * Cent
    BY <1>1, <1>2, <1>12, RowNumbers
  <2> QED
    BY <1>1, <1>16, <2>1 DEF Value
<1>18. /\ Stands(After(e, row), pos'[s], barAt'[s])
       /\ FeesLeft(After(e, row)) = e.fees - row.entryFees
  <2>1. CASE f.quantity = p.quantity
    <3>1. After(e, row) = Nothing
      BY <1>7, <1>9, <1>16, <2>1
    <3>2. pos'[s].quantity = 0
      BY <1>1, <1>2, <2>1 DEF p
    <3>3. charged = e.fees
      BY <1>2, <1>8, <2>1, AllFeesGo, p.quantity \in Nat \ {0} DEF charged
    <3>4. e.fees - row.entryFees = 0
      BY <1>8, <1>16, <3>3
    <3>5. Stands(After(e, row), pos'[s], barAt'[s])
      BY <3>1, <3>2 DEF Stands
    <3>6. FeesLeft(After(e, row)) = 0
      BY <3>1 DEF FeesLeft
    <3> QED
      BY <3>4, <3>5, <3>6
  <2>2. CASE f.quantity # p.quantity
    <3>1. After(e, row) = [e EXCEPT !.remaining = @ - row.quantity, !.fees = @ - row.entryFees]
      BY <1>7, <1>9, <1>16, <2>2
    <3>2. After(e, row) = [ remaining |-> p.quantity - f.quantity, price |-> ToTick(p.average),
                            fees |-> e.fees - charged, at |-> e.at ]
      BY <1>8, <1>9, <1>16, <3>1
    <3>3. /\ pos'[s].quantity = p.quantity - f.quantity /\ pos'[s].average = p.average
          /\ pos'[s].fees = p.fees - share /\ pos'[s].quantity # 0
      <4>1. f.quantity < p.quantity
        BY <1>2, <2>2
      <4>2. p.quantity - f.quantity # 0
        BY <1>2, <4>1
      <4> QED
        BY <1>1, <4>1, <4>2
    <3>4. After(e, row) # Nothing
      <4>1. After(e, row).remaining # 0
        BY <3>2, <3>3
      <4> QED
        BY <4>1 DEF Nothing
    <3>5. e.fees - charged \in Int
      BY <1>8, <1>12
    <3>6. Stands(After(e, row), pos'[s], barAt'[s])
      BY <1>1, <1>5, <1>8, <1>12, <3>2, <3>3, <3>5 DEF Stands
    <3> QED
      BY <1>16, <3>2, <3>4, <3>6 DEF FeesLeft
  <2> QED
    BY <2>1, <2>2
<1> QED
  BY <1>10, <1>15, <1>16, <1>17, <1>18 DEF f, e, row

-----------------------------------------------------------------------------
(* The invariant of the ledger.                                            *)
Ledgered ==
  /\ LedgerTypes /\ PairsTyped /\ EntriesStand
  /\ EverySellIsPublished /\ RowsExplainTheirProfit /\ SumsAgree

(* The row of a sell is the one at its place among the sells.              *)
Place(i) == Cardinality({j \in Exits : j <= i})

Told(i) ==
  LET row == TradePairs[Place(i)]
  IN  /\ row.symbol = trades[i].symbol /\ row.quantity = trades[i].quantity
      /\ row.exitTime = trades[i].at /\ row.entryTime <= row.exitTime

LEMMA PublishedIs ==
  /\ EverySellIsPublished <=> /\ Len(TradePairs) = Cardinality(Exits)
                              /\ \A i \in Exits : Told(i)
  /\ EverySellIsPublished' <=> /\ Len(TradePairs') = Cardinality(Exits')
                               /\ \A i \in Exits' : Told(i)'
BY DEF EverySellIsPublished, Told, Place

LEMMA PlaceFacts ==
  ASSUME LedgerTypes, NEW i \in Exits
  PROVE  Place(i) \in 1..Cardinality(Exits) /\ Cardinality(Exits) \in Nat
<1> DEFINE S == {j \in Exits : j <= i}
<1>1. IsFiniteSet(Exits) /\ S \in SUBSET Exits /\ i \in S
  BY ExitFacts
<1> HIDE DEF S
<1>2. /\ IsFiniteSet(S) /\ Cardinality(S) <= Cardinality(Exits)
      /\ Cardinality(S) \in Nat /\ Cardinality(Exits) \in Nat
  BY <1>1, FS_Subset, FS_CardinalityType
<1>3. Cardinality(S) # 0
  BY <1>1, <1>2, FS_EmptySet
<1>4. Place(i) = Cardinality(S)
  BY DEF Place, S
<1> QED
  BY <1>2, <1>3, <1>4

LEMMA SellPlaces ==
  ASSUME LedgerTypes, NEW f \in Fill, f.side = "sell", trades' = Append(trades, f),
         NEW k \in Nat, k = Len(trades) + 1
  PROVE  /\ \A i \in Exits : Place(i)' = Place(i)
         /\ Place(k)' = Cardinality(Exits) + 1
         /\ Cardinality(Exits') = Cardinality(Exits) + 1
<1>1. k \notin Exits /\ Exits' = Exits \cup {k}
  BY SellExits
<1>2. /\ IsFiniteSet(Exits) /\ Len(trades) \in Nat
      /\ \A i \in Exits : i \in Nat /\ i <= Len(trades)
  BY ExitFacts
<1>3. Cardinality(Exits') = Cardinality(Exits) + 1
  <2> QED
    BY <1>1, <1>2, FS_AddElement
<1>4. ASSUME NEW i \in Exits
      PROVE  Place(i)' = Place(i)
  <2>1. ~(k <= i)
    BY <1>2
  <2>2. {j \in Exits' : j <= i} = {j \in Exits : j <= i}
    BY <1>1, <2>1
  <2> QED
    BY <2>2 DEF Place
<1>5. Place(k)' = Cardinality(Exits')
  <2>1. k <= k /\ \A j \in Exits : j <= k
    BY <1>2
  <2>2. {j \in Exits' : j <= k} = Exits'
    BY <1>1, <2>1
  <2> QED
    BY <2>2 DEF Place
<1> QED
  BY <1>3, <1>4, <1>5

LEMMA RowSumTypes ==
  ASSUME PairsTyped
  PROVE  SumFunction(RowPnls) \in Int /\ SumFunction(RowFees) \in Int
<1>1. Len(TradePairs) \in Nat /\ \A i \in 1..Len(TradePairs) : TradePairs[i] \in PublishedRow
  BY ElementOfSeq, LenProperties DEF PairsTyped
<1>2. \A i \in 1..Len(TradePairs) : TradePairs[i].pnl \in Int /\ TradePairs[i].fees \in Int
  BY <1>1 DEF PublishedRow
<1>3. /\ RowPnls \in [1..Len(TradePairs) -> Int] /\ RowFees \in [1..Len(TradePairs) -> Int]
  BY <1>2 DEF RowPnls, RowFees
<1>4. IsFiniteSet(1..Len(TradePairs))
  BY <1>1, 1 \in Int, Len(TradePairs) \in Int, FS_Interval
<1> QED
  BY <1>3, <1>4, SumType

(* One row more.                                                           *)
LEMMA RowSums ==
  ASSUME PairsTyped, NEW row \in PublishedRow, TradePairs' = Append(TradePairs, row)
  PROVE  /\ Len(TradePairs) \in Nat /\ Len(TradePairs') = Len(TradePairs) + 1
         /\ TradePairs'[Len(TradePairs) + 1] = row
         /\ \A n \in 1..Len(TradePairs) : TradePairs'[n] = TradePairs[n]
         /\ SumFunction(RowPnls) \in Int /\ SumFunction(RowFees) \in Int
         /\ SumFunction(RowPnls') = SumFunction(RowPnls) + row.pnl
         /\ SumFunction(RowFees') = SumFunction(RowFees) + row.fees
<1> DEFINE n == Len(TradePairs)
<1>1. /\ TradePairs \in Seq(PublishedRow) /\ n \in Nat /\ Len(TradePairs') = n + 1
      /\ TradePairs'[n + 1] = row /\ \A i \in 1..n : TradePairs'[i] = TradePairs[i]
  BY AppendProperties, LenProperties DEF PairsTyped
<1>2. \A i \in 1..n : TradePairs[i] \in PublishedRow
  BY <1>1, ElementOfSeq
<1>3. /\ \A i \in 1..n : TradePairs[i].pnl \in Int /\ TradePairs[i].fees \in Int
      /\ row.pnl \in Int /\ row.fees \in Int
  BY <1>2 DEF PublishedRow
<1>4. /\ RowPnls = [i \in 1..n |-> TradePairs[i].pnl]
      /\ RowFees = [i \in 1..n |-> TradePairs[i].fees]
      /\ RowPnls' = [i \in 1..(n + 1) |-> TradePairs'[i].pnl]
      /\ RowFees' = [i \in 1..(n + 1) |-> TradePairs'[i].fees]
  BY <1>1 DEF RowPnls, RowFees
<1> HIDE DEF n
<1>5. /\ RowPnls \in [1..n -> Int] /\ RowFees \in [1..n -> Int]
      /\ \A i \in 1..n : RowPnls[i] = TradePairs[i].pnl /\ RowFees[i] = TradePairs[i].fees
  BY <1>3, <1>4
<1>6. \A i \in 1..(n + 1) : i \in 1..n \/ i = n + 1
  BY <1>1
<1>7. n + 1 \in 1..(n + 1) /\ \A i \in 1..n : i \in 1..(n + 1)
  BY <1>1
<1>8. \A i \in 1..(n + 1) : TradePairs'[i].pnl \in Int /\ TradePairs'[i].fees \in Int
  BY <1>1, <1>3, <1>6
<1>9. /\ RowPnls' \in [1..(n + 1) -> Int] /\ RowFees' \in [1..(n + 1) -> Int]
      /\ RowPnls'[n + 1] = row.pnl /\ RowFees'[n + 1] = row.fees
      /\ \A i \in 1..n : RowPnls'[i] = TradePairs[i].pnl /\ RowFees'[i] = TradePairs[i].fees
  BY <1>1, <1>4, <1>7, <1>8
<1>10. SumFunction(RowPnls') = SumFunction(RowPnls) + row.pnl
  <2>1. \A i \in 1..n : RowPnls'[i] = RowPnls[i]
    BY <1>5, <1>9
  <2> QED
    BY <1>1, <1>5, <1>9, <2>1, SumOfLonger
<1>11. SumFunction(RowFees') = SumFunction(RowFees) + row.fees
  <2>1. \A i \in 1..n : RowFees'[i] = RowFees[i]
    BY <1>5, <1>9
  <2> QED
    BY <1>1, <1>5, <1>9, <2>1, SumOfLonger
<1> QED
  BY <1>1, <1>10, <1>11, RowSumTypes DEF n

(* The fees of the open positions, when one of them changes.               *)
LEMMA FeesOfOne ==
  ASSUME EntriesStand, EntriesStand', NEW s \in Symbols,
         \A t \in Symbols \ {s} : EntryOf(t)' = EntryOf(t)
  PROVE  /\ SumFunction(OpenFees) \in Int /\ SumFunction(OpenFees') \in Int
         /\ FeesLeft(EntryOf(s)) \in Int /\ FeesLeft(EntryOf(s)') \in Int
         /\ SumFunction(OpenFees')
              = SumFunction(OpenFees) + (FeesLeft(EntryOf(s)') - FeesLeft(EntryOf(s)))
<1>1. \A t \in Symbols : FeesLeft(EntryOf(t)) \in Int /\ FeesLeft(EntryOf(t)') \in Int
  BY DEF EntriesStand, Stands, FeesLeft
<1>2. /\ OpenFees \in [Symbols -> Int] /\ OpenFees' \in [Symbols -> Int]
      /\ \A t \in Symbols : /\ OpenFees[t] = FeesLeft(EntryOf(t))
                            /\ OpenFees'[t] = FeesLeft(EntryOf(t)')
  BY <1>1 DEF OpenFees, FeesLeft
<1>3. \A t \in Symbols \ {s} : OpenFees'[t] = OpenFees[t]
  BY <1>2
<1>4. SumFunction(OpenFees') = SumFunction(OpenFees) + (OpenFees'[s] - OpenFees[s])
  BY <1>2, <1>3, SumUpdate, SymbolsFinite
<1>5. SumFunction(OpenFees) \in Int /\ SumFunction(OpenFees') \in Int
  BY <1>2, SumType, SymbolsFinite
<1> QED
  BY <1>1, <1>2, <1>4, <1>5

-----------------------------------------------------------------------------
(* Every step keeps it.  First what is not a fill.                         *)
LaterBars ==
  /\ barAt' \in [Symbols -> Nat]
  /\ \A s \in Symbols : barAt[s] <= barAt'[s] /\ barAt'[s] <= batches'

LEMMA StillLedgered ==
  ASSUME TypeOK, Ledgered, LaterBars, UNCHANGED <<trades, pos, realized, roundTripPnl>>
  PROVE  Ledgered'
<1> USE DEF Ledgered
<1>1. Pairing' = Pairing
  BY DEF Pairing
<1>2. TradePairs' = TradePairs /\ \A s \in Symbols : EntryOf(s)' = EntryOf(s)
  BY <1>1 DEF TradePairs, EntryOf
<1>3. Exits' = Exits
  BY DEF Exits
<1>4. LedgerTypes'
  BY DEF LedgerTypes, LaterBars
<1>5. PairsTyped'
  BY <1>1, <1>2 DEF PairsTyped
<1>6. EntriesStand'
  <2> SUFFICES ASSUME NEW s \in Symbols
               PROVE  Stands(EntryOf(s)', pos'[s], barAt'[s])
    BY DEF EntriesStand
  <2>1. Stands(EntryOf(s), pos[s], barAt[s])
    BY DEF EntriesStand
  <2>2. EntryOf(s)' = EntryOf(s) /\ pos'[s] = pos[s]
    BY <1>2
  <2>3. barAt[s] \in Nat /\ barAt'[s] \in Nat /\ barAt[s] <= barAt'[s]
    BY DEF LedgerTypes, LaterBars
  <2>4. \A at \in Nat : at <= barAt[s] => at <= barAt'[s]
    BY <2>3
  <2> QED
    BY <2>1, <2>2, <2>4 DEF Stands
<1>7. EverySellIsPublished'
  <2>1. \A i : Place(i)' = Place(i)
    BY <1>3 DEF Place
  <2>2. \A i : Told(i)' <=> Told(i)
    BY <1>2, <2>1 DEF Told
  <2> QED
    BY <1>2, <1>3, <2>2, PublishedIs
<1>8. RowsExplainTheirProfit'
  BY <1>2 DEF RowsExplainTheirProfit
<1>9. SumsAgree'
  <2>1. RoundTrips' = RoundTrips
    BY <1>3 DEF RoundTrips
  <2>2. Winners' = Winners /\ Losers' = Losers
    BY <2>1 DEF Winners, Losers
  <2>3. /\ ExitPnls' = ExitPnls /\ WinnerTrips' = WinnerTrips /\ LoserTrips' = LoserTrips
        /\ FillFees' = FillFees /\ RowPnls' = RowPnls /\ RowFees' = RowFees
        /\ OpenFees' = OpenFees
    BY <1>2, <1>3, <2>2
       DEF ExitPnls, WinnerTrips, LoserTrips, FillFees, RowPnls, RowFees, OpenFees
  <2> QED
    BY <1>2, <2>1, <2>3 DEF SumsAgree
<1> QED
  BY <1>4, <1>5, <1>6, <1>7, <1>8, <1>9

(* A fill leaves the entries of the other symbols as they are.             *)
LEMMA OthersStand ==
  ASSUME EntriesStand, BooksOnly, NEW s \in Symbols,
         \A t \in Symbols \ {s} : pos'[t] = pos[t] /\ EntryOf(t)' = EntryOf(t),
         Stands(EntryOf(s)', pos'[s], barAt'[s])
  PROVE  EntriesStand'
<1> SUFFICES ASSUME NEW t \in Symbols
             PROVE  Stands(EntryOf(t)', pos'[t], barAt'[t])
  BY DEF EntriesStand
<1>1. CASE t = s
  BY <1>1
<1>2. CASE t # s
  <2>1. EntryOf(t)' = EntryOf(t) /\ pos'[t] = pos[t] /\ barAt'[t] = barAt[t]
    BY <1>2 DEF BooksOnly
  <2> QED
    BY <2>1 DEF EntriesStand
<1> QED
  BY <1>1, <1>2

LEMMA FillKeepsTypes ==
  ASSUME LedgerTypes, BooksOnly, NEW f \in Fill, trades' = Append(trades, f)
  PROVE  LedgerTypes'
<1>1. trades' \in Seq(Fill)
  BY OneFillMore
<1> QED
  BY <1>1 DEF LedgerTypes, BooksOnly

LEMMA BuyLedgered ==
  ASSUME TypeOK, TypeOK', Booked, Ledgered, NEW s \in Symbols, Enter(s), BooksOnly,
         trades' = Append(trades, BuyTrade(s))
  PROVE  Ledgered'
<1>0. /\ LedgerTypes /\ PairsTyped /\ EntriesStand
      /\ EverySellIsPublished /\ RowsExplainTheirProfit /\ SumsAgree
  BY DEF Ledgered
<1> PICK f : f = BuyTrade(s)
  OBVIOUS
<1>1. /\ f \in Fill /\ f.side = "buy" /\ f.symbol = s
      /\ f.quantity = pos'[s].quantity /\ f.price = ToTick(pos'[s].average)
      /\ f.fees = ToCent(pos'[s].fees) /\ f.at = barAt[s]
      /\ pos'[s].quantity > 0 /\ pos[s] = Flat /\ pos'[s].fees \in Int
      /\ \A t \in Symbols \ {s} : pos'[t] = pos[t]
      /\ UNCHANGED <<realized, roundTripPnl>>
  BY <1>0, BuyReported
<1>2. f.at \in Nat /\ f.fees \in Int /\ 2 * Off(f.fees, pos'[s].fees) <= Cent
  BY <1>1, CentFacts DEF Fill
<1>3. trades' = Append(trades, f)
  OBVIOUS
<1>4. /\ TradePairs' = TradePairs /\ PairsTyped'
      /\ EntryOf(s)' = [ remaining |-> f.quantity, price |-> f.price,
                         fees |-> f.fees, at |-> f.at ]
      /\ \A t \in Symbols \ {s} : EntryOf(t)' = EntryOf(t)
  <2>1. f.symbol = s /\ f.side = "buy"
    BY <1>1
  <2>2. /\ TradePairs' = TradePairs /\ PairsTyped'
        /\ EntryOf(f.symbol)' = [ remaining |-> f.quantity, price |-> f.price,
                                  fees |-> f.fees, at |-> f.at ]
        /\ \A t \in Symbols \ {f.symbol} : EntryOf(t)' = EntryOf(t)
    BY <1>0, <1>1, <1>3, BuyPairs
  <2> QED
    BY <2>1, <2>2
<1>5. LedgerTypes'
  BY <1>0, <1>1, <1>3, FillKeepsTypes
<1>6. EntriesStand'
  <2>1. Stands(EntryOf(s)', pos'[s], barAt'[s])
    <3>1. EntryOf(s)'.at = f.at /\ EntryOf(s)'.fees = f.fees
      BY <1>4
    <3>2. barAt'[s] = f.at /\ pos'[s].quantity # 0
      BY <1>1 DEF BooksOnly
    <3>3. f.at <= f.at
      BY <1>2
    <3> QED
      BY <1>1, <1>2, <1>4, <3>1, <3>2, <3>3 DEF Stands
  <2> QED
    BY <1>0, <1>1, <1>4, <2>1, OthersStand
<1>7. /\ Exits' = Exits /\ ExitPnls' = ExitPnls /\ RoundTrips' = RoundTrips
      /\ WinnerTrips' = WinnerTrips /\ LoserTrips' = LoserTrips
  BY <1>0, <1>1, <1>3, BuyMetrics
<1>8. EverySellIsPublished'
  <2>1. \A i \in Exits : trades'[i] = trades[i]
    BY <1>0, <1>1, <1>3, OneFillMore, ExitFacts
  <2>2. \A i \in Exits : Place(i)' = Place(i)
    BY <1>7 DEF Place
  <2>3. \A i \in Exits : Told(i)' <=> Told(i)
    BY <1>4, <2>1, <2>2 DEF Told
  <2> QED
    BY <1>0, <1>4, <1>7, <2>3, PublishedIs
<1>9. RowsExplainTheirProfit'
  BY <1>0, <1>4 DEF RowsExplainTheirProfit
<1>10. SumsAgree'
  <2>1. RowPnls' = RowPnls /\ RowFees' = RowFees
    BY <1>4 DEF RowPnls, RowFees
  <2>2. SumFunction(FillFees') = SumFunction(FillFees) + f.fees
    BY <1>0, <1>1, <1>3, FeesOfLonger
  <2>3. /\ SumFunction(OpenFees) \in Int
        /\ SumFunction(OpenFees')
             = SumFunction(OpenFees) + (FeesLeft(EntryOf(s)') - FeesLeft(EntryOf(s)))
    BY <1>0, <1>4, <1>6, FeesOfOne
  <2>4. FeesLeft(EntryOf(s)) = 0 /\ FeesLeft(EntryOf(s)') = f.fees
    <3>1. EntryOf(s) = Nothing
      BY <1>0, <1>1 DEF EntriesStand, Stands, Flat
    <3>2. EntryOf(s)' # Nothing
      <4>1. EntryOf(s)'.remaining = f.quantity /\ f.quantity # 0
        BY <1>1, <1>4
      <4> QED
        BY <4>1 DEF Nothing
    <3>3. EntryOf(s)'.fees = f.fees
      BY <1>4
    <3> QED
      BY <3>1, <3>2, <3>3 DEF FeesLeft
  <2>5. PICK a \in Int, b \in Int, c \in Int, d \in Int :
          /\ a = SumFunction(RowFees) /\ b = SumFunction(OpenFees)
          /\ c = SumFunction(FillFees) /\ d = f.fees
    BY <1>0, <1>2, <2>3, RowSumTypes, ExitSums
  <2>6. 2 * Off(a + b, c) <= Cent * Len(TradePairs)
    BY <1>0, <2>5 DEF SumsAgree
  <2>7. Off(a + (b + d), c + d) = Off(a + b, c)
    BY DEF Off
  <2>8. SumFunction(RowFees') = a /\ SumFunction(OpenFees') = b + d
        /\ SumFunction(FillFees') = c + d
    BY <2>1, <2>2, <2>3, <2>4, <2>5
  <2>9. 2 * Off(SumFunction(RowFees') + SumFunction(OpenFees'), SumFunction(FillFees'))
          <= Cent * Len(TradePairs')
    BY <1>4, <2>6, <2>7, <2>8
  <2>10. realized' = realized /\ roundTripPnl' = roundTripPnl
    BY <1>1
  <2> QED
    BY <1>0, <1>4, <1>7, <2>1, <2>9, <2>10 DEF SumsAgree
<1> QED
  BY <1>4, <1>5, <1>6, <1>8, <1>9, <1>10 DEF Ledgered

(* The sums after a sell: one more number in each.                         *)
LEMMA SellSumsAgree ==
  ASSUME TypeOK, LedgerTypes, PairsTyped, EntriesStand, EntriesStand', SumsAgree,
         NEW f \in Fill, f.side = "sell", trades' = Append(trades, f),
         NEW row \in PublishedRow, TradePairs' = Append(TradePairs, row),
         NEW s \in Symbols, \A t \in Symbols \ {s} : EntryOf(t)' = EntryOf(t),
         FeesLeft(EntryOf(s)') = FeesLeft(EntryOf(s)) - row.entryFees,
         row.pnl = f.pnl, row.fees = ToCent(row.entryFees + f.fees),
         NEW pnl \in Int, f.pnl = ToCent(pnl), realized' = realized + pnl,
         NEW trip \in Int, f.closed => f.roundTrip = ToCent(trip),
         roundTripPnl' = roundTripPnl + (IF f.closed THEN trip ELSE 0)
  PROVE  SumsAgree'
<1>1. /\ f.fees \in Int /\ f.pnl \in Int /\ f.roundTrip \in Int /\ f.closed \in BOOLEAN
      /\ row.entryFees \in Int /\ row.fees \in Int /\ row.pnl \in Int
  BY DEF Fill, PublishedRow
<1>2. PICK n \in Nat : n = Len(TradePairs) /\ Len(TradePairs') = n + 1
  BY RowSums
<1>3. PICK m \in Nat : /\ m = Cardinality(RoundTrips)
                       /\ Cardinality(RoundTrips') = m + (IF f.closed THEN 1 ELSE 0)
  BY SellTrips
<1>4. /\ SumFunction(RowPnls) \in Int /\ SumFunction(RowFees) \in Int
      /\ SumFunction(RowPnls') = SumFunction(RowPnls) + row.pnl
      /\ SumFunction(RowFees') = SumFunction(RowFees) + row.fees
  BY RowSums
<1>5. /\ SumFunction(ExitPnls) \in Int /\ SumFunction(FillFees) \in Int
      /\ SumFunction(WinnerTrips) \in Int /\ SumFunction(LoserTrips) \in Int
      /\ SumFunction(ExitPnls') = SumFunction(ExitPnls) + f.pnl
      /\ SumFunction(WinnerTrips') + SumFunction(LoserTrips')
           = SumFunction(WinnerTrips) + SumFunction(LoserTrips)
               + (IF f.closed THEN f.roundTrip ELSE 0)
      /\ SumFunction(FillFees') = SumFunction(FillFees) + f.fees
  BY ExitSums, SellMetrics, FeesOfLonger
<1>6. realized \in Int /\ roundTripPnl \in Int
  BY DEF TypeOK
<1>7. SumFunction(RowPnls') = SumFunction(ExitPnls')
  BY <1>4, <1>5 DEF SumsAgree
<1>8. 2 * Off(SumFunction(ExitPnls'), realized') <= Cent * Len(TradePairs')
  <2>1. 2 * Off(SumFunction(ExitPnls), realized) <= Cent * n
    BY <1>2 DEF SumsAgree
  <2>2. 2 * Off(f.pnl, pnl) <= Cent
    BY CentFacts
  <2>3. PICK a \in Int, b \in Int, c \in Int :
          a = SumFunction(ExitPnls) /\ b = realized /\ c = f.pnl
    BY <1>1, <1>5, <1>6
  <2>4. 2 * Off(a + c, b + pnl) <= Cent * (n + 1)
    BY <2>1, <2>2, <2>3, OneMoreOff
  <2> QED
    BY <1>2, <1>5, <2>3, <2>4
<1>9. 2 * Off(SumFunction(WinnerTrips') + SumFunction(LoserTrips'), roundTripPnl')
        <= Cent * Cardinality(RoundTrips')
  <2>1. PICK a \in Int : a = SumFunction(WinnerTrips) + SumFunction(LoserTrips)
    BY <1>5
  <2>2. 2 * Off(a, roundTripPnl) <= Cent * m
    BY <1>3, <2>1 DEF SumsAgree
  <2>3. CASE f.closed
    <3>1. 2 * Off(f.roundTrip, trip) <= Cent
      BY <2>3, CentFacts
    <3>2. 2 * Off(a + f.roundTrip, roundTripPnl + trip) <= Cent * (m + 1)
      BY <1>1, <1>6, <2>2, <3>1, OneMoreOff
    <3> QED
      BY <1>3, <1>5, <2>1, <2>3, <3>2
  <2>4. CASE ~f.closed
    <3>1. SumFunction(WinnerTrips') + SumFunction(LoserTrips') = a
      BY <1>5, <2>1, <2>4
    <3>2. roundTripPnl' = roundTripPnl /\ Cardinality(RoundTrips') = m
      BY <1>3, <1>6, <2>4
    <3> QED
      BY <2>2, <3>1, <3>2
  <2> QED
    BY <2>3, <2>4
<1>10. 2 * Off(SumFunction(RowFees') + SumFunction(OpenFees'), SumFunction(FillFees'))
         <= Cent * Len(TradePairs')
  <2>1. PICK a \in Int, b \in Int, c \in Int :
          /\ a = SumFunction(RowFees) /\ b = SumFunction(OpenFees)
          /\ c = SumFunction(FillFees)
    BY <1>4, <1>5, FeesOfOne
  <2>2. PICK d \in Int, e \in Int, g \in Int : d = row.entryFees /\ e = f.fees /\ g = row.fees
    BY <1>1
  <2>3. SumFunction(OpenFees') = b - d
    <3>1. PICK x \in Int, y \in Int : x = FeesLeft(EntryOf(s)) /\ y = FeesLeft(EntryOf(s)')
      BY FeesOfOne
    <3>2. SumFunction(OpenFees') = b + (y - x) /\ y = x - d
      BY <2>1, <2>2, <3>1, FeesOfOne
    <3> QED
      BY <3>2
  <2>4. 2 * Off(a + b, c) <= Cent * n
    BY <1>2, <2>1 DEF SumsAgree
  <2>5. 2 * Off(g - d, e) <= Cent
    <3>1. 2 * Off(g, d + e) <= Cent
      <4>1. g = ToCent(d + e) /\ d + e \in Int
        BY <2>2
      <4> QED
        BY <4>1, CentFacts
    <3>2. Off(g - d, e) = Off(g, d + e)
      BY DEF Off
    <3> QED
      BY <3>1, <3>2
  <2>6. 2 * Off((a + b) + (g - d), c + e) <= Cent * (n + 1)
    <3>1. PICK x \in Int, y \in Int : x = a + b /\ y = g - d
      OBVIOUS
    <3> QED
      BY <2>4, <2>5, <3>1, OneMoreOff
  <2>7. (a + g) + (b - d) = (a + b) + (g - d)
    OBVIOUS
  <2>8. SumFunction(RowFees') = a + g /\ SumFunction(FillFees') = c + e
    BY <1>4, <1>5, <2>1, <2>2
  <2> QED
    BY <1>2, <2>3, <2>6, <2>7, <2>8
<1> QED
  BY <1>7, <1>8, <1>9, <1>10 DEF SumsAgree

LEMMA SellLedgered ==
  ASSUME TypeOK, TypeOK', Booked, Ledgered, NEW s \in Symbols, NEW ref \in Int,
         SellFill(s) > 0, ExitPosition(s, ref), BooksOnly,
         trades' = Append(trades, SellTrade(s, ref))
  PROVE  Ledgered'
<1> PICK f : f = SellTrade(s, ref)
  OBVIOUS
<1> PICK row : row = Row(EntryOf(s), f)
  OBVIOUS
<1> DEFINE exact == SellPnl(s, SellExecutionPrice(ref, SellFill(s), bar[s].volume))
<1>0. /\ LedgerTypes /\ PairsTyped /\ EntriesStand
      /\ EverySellIsPublished /\ RowsExplainTheirProfit /\ SumsAgree
  BY DEF Ledgered
<1>1. /\ f \in Fill /\ f.side = "sell" /\ f.symbol = s
      /\ exact \in Int /\ f.pnl = ToCent(exact)
      /\ f.closed => f.roundTrip = ToCent(pos[s].pnl + exact)
      /\ realized' = realized + exact
      /\ roundTripPnl' = roundTripPnl + (IF f.closed THEN pos[s].pnl + exact ELSE 0)
      /\ \A t \in Symbols \ {s} : pos'[t] = pos[t]
  BY <1>0, SellReport
<1> HIDE DEF exact
<1>2. /\ EntryOf(s) # Nothing /\ row \in PublishedRow
      /\ row.symbol = s /\ row.quantity = f.quantity
      /\ row.exitTime = f.at /\ row.entryTime <= row.exitTime
      /\ row.pnl = f.pnl /\ row.fees = ToCent(row.entryFees + f.fees)
      /\ Off(row.pnl, (row.exitPrice - row.entryPrice) * row.quantity * BPS - row.fees)
           <= TickValue * row.quantity + 2 * Cent
      /\ FeesLeft(After(EntryOf(s), row)) = EntryOf(s).fees - row.entryFees
      /\ Stands(After(EntryOf(s), row), pos'[s], barAt'[s])
  <2>1. Stands(EntryOf(s), pos[s], barAt[s])
    BY <1>0 DEF EntriesStand
  <2> QED
    BY <1>0, <2>1, RowFacts
<1>3. trades' = Append(trades, f) /\ row = Row(EntryOf(s), f)
  OBVIOUS
<1>4. /\ TradePairs' = Append(TradePairs, row) /\ PairsTyped'
      /\ EntryOf(s)' = After(EntryOf(s), row)
      /\ \A t \in Symbols \ {s} : EntryOf(t)' = EntryOf(t)
  <2>1. f.symbol = s
    BY <1>1
  <2>2. EntryOf(f.symbol) # Nothing /\ Row(EntryOf(f.symbol), f) \in PublishedRow
    BY <1>2, <1>3, <2>1
  <2>3. /\ TradePairs' = Append(TradePairs, Row(EntryOf(f.symbol), f)) /\ PairsTyped'
        /\ EntryOf(f.symbol)' = After(EntryOf(f.symbol), Row(EntryOf(f.symbol), f))
        /\ \A t \in Symbols \ {f.symbol} : EntryOf(t)' = EntryOf(t)
    BY <1>0, <1>1, <1>3, <2>2, SellPairs
  <2> QED
    BY <1>3, <2>1, <2>3
<1>5. LedgerTypes'
  BY <1>0, <1>1, <1>3, FillKeepsTypes
<1>6. EntriesStand'
  <2>1. Stands(EntryOf(s)', pos'[s], barAt'[s])
    BY <1>2, <1>4
  <2> QED
    BY <1>0, <1>1, <1>4, <2>1, OthersStand
<1>7. /\ Len(TradePairs) \in Nat /\ Len(TradePairs') = Len(TradePairs) + 1
      /\ TradePairs'[Len(TradePairs) + 1] = row
      /\ \A n \in 1..Len(TradePairs) : TradePairs'[n] = TradePairs[n]
  BY <1>0, <1>2, <1>4, RowSums
<1>8. EverySellIsPublished'
  <2>1. PICK k \in Nat : k = Len(trades) + 1
    BY <1>0, ExitFacts
  <2>2. /\ Exits' = Exits \cup {k} /\ trades'[k] = f
        /\ \A i \in Exits : trades'[i] = trades[i]
    BY <1>0, <1>1, <1>3, <2>1, SellExits
  <2>3. /\ \A i \in Exits : Place(i)' = Place(i)
        /\ Place(k)' = Cardinality(Exits) + 1
        /\ Cardinality(Exits') = Cardinality(Exits) + 1
    BY <1>0, <1>1, <1>3, <2>1, SellPlaces
  <2>4. Len(TradePairs) = Cardinality(Exits) /\ \A i \in Exits : Told(i)
    BY <1>0, PublishedIs
  <2>5. ASSUME NEW i \in Exits
        PROVE  Told(i)'
    <3>1. Place(i) \in 1..Len(TradePairs)
      BY <1>0, <2>4, PlaceFacts
    <3>2. TradePairs'[Place(i)'] = TradePairs[Place(i)] /\ trades'[i] = trades[i]
      BY <1>7, <2>2, <2>3, <3>1
    <3>3. Told(i)
      BY <2>4
    <3> QED
      BY <3>2, <3>3 DEF Told
  <2>6. Told(k)'
    <3>1. TradePairs'[Place(k)'] = row
      BY <1>7, <2>3, <2>4
    <3> QED
      BY <1>1, <1>2, <2>2, <3>1 DEF Told
  <2>7. \A i \in Exits' : Told(i)'
    BY <2>2, <2>5, <2>6
  <2>8. Len(TradePairs') = Cardinality(Exits')
    BY <1>7, <2>3, <2>4
  <2> QED
    BY <2>7, <2>8, PublishedIs
<1>9. RowsExplainTheirProfit'
  <2> SUFFICES ASSUME NEW i \in 1..Len(TradePairs')
               PROVE  LET r == TradePairs'[i]
                      IN  Off(r.pnl, (r.exitPrice - r.entryPrice) * r.quantity * BPS - r.fees)
                            <= TickValue * r.quantity + 2 * Cent
    BY DEF RowsExplainTheirProfit
  <2>1. i \in 1..Len(TradePairs) \/ i = Len(TradePairs) + 1
    BY <1>7
  <2>2. CASE i \in 1..Len(TradePairs)
    <3>1. TradePairs'[i] = TradePairs[i]
      BY <1>7, <2>2
    <3> QED
      BY <1>0, <2>2, <3>1 DEF RowsExplainTheirProfit
  <2>3. CASE i = Len(TradePairs) + 1
    <3>1. TradePairs'[i] = row
      BY <1>7, <2>3
    <3> QED
      BY <1>2, <3>1
  <2> QED
    BY <2>1, <2>2, <2>3
<1>10. SumsAgree'
  <2>1. FeesLeft(EntryOf(s)') = FeesLeft(EntryOf(s)) - row.entryFees
    BY <1>2, <1>4 DEF FeesLeft
  <2>2. PICK trip \in Int : trip = pos[s].pnl + exact
    BY <1>1, PositionFacts
  <2>3. /\ f.closed => f.roundTrip = ToCent(trip)
        /\ roundTripPnl' = roundTripPnl + (IF f.closed THEN trip ELSE 0)
    BY <1>1, <2>2
  <2> QED
    BY <1>0, <1>1, <1>2, <1>3, <1>4, <1>6, <2>1, <2>3, SellSumsAgree
<1> QED
  BY <1>4, <1>5, <1>6, <1>8, <1>9, <1>10 DEF Ledgered

-----------------------------------------------------------------------------
(* The ledger only writes down what the engine does.                       *)
FromTheBar(s, ref) ==
  \/ ref \in {Reference(bar[s].open), Reference(bar[s].close)}
  \/ ReasonInBar(s) # "none" /\ ref = ExitReference(s)

SoldNow(s, ref) ==
  /\ SellFill(s) > 0 /\ ExitPosition(s, ref) /\ BooksOnly /\ FromTheBar(s, ref)
  /\ trades' = Append(trades, SellTrade(s, ref))

BoughtNow(s) == Enter(s) /\ BooksOnly /\ trades' = Append(trades, BuyTrade(s))

NoFill == LaterBars /\ UNCHANGED <<trades, pos, realized, roundTripPnl>>

LEMMA NoFillIs ==
  ASSUME TypeOK, LedgerTypes, UNCHANGED <<trades, barAt, batches, book>>
  PROVE  NoFill
BY DEF NoFill, LaterBars, LedgerTypes, TypeOK, book

LEMMA SellIsReported ==
  ASSUME TypeOK, Booked, LedgerTypes, NEW s \in Symbols, NEW ref \in Int,
         SellWhatFills(s, ref), SellReported(s, ref), UNCHANGED batches, FromTheBar(s, ref)
  PROVE  NoFill \/ SoldNow(s, ref)
<1>1. trades \in Seq(Fill) /\ UNCHANGED barAt
  BY DEF LedgerTypes, SellReported, Reported
<1>2. CASE SellFill(s) > 0 /\ ExitPosition(s, ref)
  <2>1. trades' = trades \o <<SellTrade(s, ref)>>
    BY <1>2 DEF SellReported, Reported
  <2>2. SellTrade(s, ref) \in Fill
    BY <1>2, SellReport
  <2>3. PICK f \in Fill : f = SellTrade(s, ref)
    BY <2>2
  <2>4. Append(trades, f) = trades \o <<f>>
    BY <1>1, AppendIsConcat
  <2> QED
    BY <1>1, <1>2, <2>1, <2>3, <2>4 DEF SoldNow, BooksOnly
<1>3. CASE SellFill(s) <= 0 /\ UNCHANGED <<book, liq, traded>>
  <2>1. ~(SellFill(s) > 0)
    BY <1>3, SellFillFacts
  <2>2. trades' = trades \o <<>>
    BY <2>1 DEF SellReported, Reported
  <2>3. trades' = trades
    BY <1>1, <2>2, ConcatEmptySeq
  <2> QED
    BY <1>1, <1>3, <2>3, NoFillIs
<1> QED
  BY <1>2, <1>3 DEF SellWhatFills

LEMMA LedgerSteps ==
  ASSUME TypeOK, Booked, LedgerTypes, [LedgerNext]_ledgerVars
  PROVE  \/ NoFill
         \/ \E s \in Symbols : BoughtNow(s)
         \/ \E s \in Symbols, ref \in Int : SoldNow(s, ref)
<1>1. trades \in Seq(Fill) /\ trades \o <<>> = trades
  BY ConcatEmptySeq DEF LedgerTypes
<1>2. CASE OpenBatch /\ barAt' = [s \in Symbols |-> IF s \in batch' THEN batches' ELSE barAt[s]]
           /\ UNCHANGED <<trades, curve>>
  <2>1. batches \in Nat /\ batches' = batches + 1 /\ UNCHANGED book
    BY <1>2 DEF OpenBatch, TypeOK
  <2>2. /\ barAt' \in [Symbols -> Nat]
        /\ \A s \in Symbols : barAt[s] <= barAt'[s] /\ barAt'[s] <= batches'
    BY <1>2, <2>1 DEF LedgerTypes
  <2> QED
    BY <1>2, <2>1, <2>2 DEF NoFill, LaterBars, book
<1>3. CASE (CloseBatch \/ Finish) /\ UNCHANGED <<trades, barAt>>
  <2>1. UNCHANGED <<book, batches>>
    BY <1>3 DEF CloseBatch, Finish, market
  <2> QED
    BY <1>3, <2>1, NoFillIs
<1>4. ASSUME NEW s \in Symbols,
             Size \/ NextLoop \/ EndOfData \/ Refuse(s) \/ Skip(s), Reported(<<>>)
      PROVE  NoFill
  <2>1. UNCHANGED <<book, batches>>
    BY <1>4 DEF Size, NextLoop, EndOfData, Refuse, Skip, market
  <2>2. UNCHANGED <<trades, barAt>>
    BY <1>1, <1>4 DEF Reported
  <2> QED
    BY <2>1, <2>2, NoFillIs
<1>5. CASE (Size \/ NextLoop \/ EndOfData) /\ Reported(<<>>)
  <2>1. UNCHANGED <<book, batches>>
    BY <1>5 DEF Size, NextLoop, EndOfData, market
  <2>2. UNCHANGED <<trades, barAt>>
    BY <1>1, <1>5 DEF Reported
  <2> QED
    BY <2>1, <2>2, NoFillIs
<1>6. ASSUME NEW s \in Symbols,
             \/ ProtectAtOpen(s) /\ SellReported(s, Reference(bar[s].open))
             \/ SignalExit(s) /\ SellReported(s, Reference(bar[s].open))
             \/ ProtectInBar(s) /\ SellReported(s, ExitReference(s))
             \/ Liquidate(s) /\ SellReported(s, Reference(bar[s].close))
      PROVE  NoFill \/ \E ref \in Int : SoldNow(s, ref)
  <2>1. UNCHANGED batches
    BY <1>6 DEF ProtectAtOpen, SignalExit, ProtectInBar, Liquidate, market
  <2>2. \E ref \in Int : SellWhatFills(s, ref) /\ SellReported(s, ref) /\ FromTheBar(s, ref)
    BY <1>6, ReferenceFacts
       DEF ProtectAtOpen, SignalExit, ProtectInBar, Liquidate, FromTheBar
  <2> QED
    BY <2>1, <2>2, SellIsReported
<1>7. ASSUME NEW s \in Symbols, Enter(s), Reported(<<BuyTrade(s)>>)
      PROVE  BoughtNow(s)
  <2>1. trades' = trades \o <<BuyTrade(s)>> /\ UNCHANGED <<barAt, batches>>
    BY <1>7 DEF Reported, Enter
  <2>2. BuyTrade(s) \in Fill
    BY <1>7, BuyReported
  <2>3. PICK f \in Fill : f = BuyTrade(s)
    BY <2>2
  <2>4. Append(trades, f) = trades \o <<f>>
    BY <1>1, AppendIsConcat
  <2> QED
    BY <1>7, <2>1, <2>3, <2>4 DEF BoughtNow, BooksOnly
<1>8. CASE UNCHANGED ledgerVars
  <2>1. UNCHANGED <<trades, barAt, batches, book>>
    BY <1>8 DEF ledgerVars, vars, record, market
  <2> QED
    BY <2>1, NoFillIs
<1> QED
  BY <1>2, <1>3, <1>4, <1>5, <1>6, <1>7, <1>8 DEF LedgerNext

LEMMA LedgerIsEngine ==
  /\ LedgerInit => Init
  /\ [LedgerNext]_ledgerVars => [Next]_vars
<1>1. LedgerInit => Init
  BY DEF LedgerInit
<1>2. UNCHANGED ledgerVars => UNCHANGED vars
  BY DEF ledgerVars
<1>3. LedgerNext => Next
  BY DEF LedgerNext, Next
<1> QED
  BY <1>1, <1>2, <1>3

LEMMA LedgerStarts == LedgerInit => Ledgered
<1> SUFFICES ASSUME LedgerInit PROVE Ledgered
  OBVIOUS
<1>1. /\ trades = <<>> /\ Len(trades) = 0 /\ barAt = [s \in Symbols |-> 0]
      /\ batches = 0 /\ pos = [s \in Symbols |-> Flat] /\ realized = 0 /\ roundTripPnl = 0
  BY DEF LedgerInit, Init
<1>2. Pairing = NoPairs
  BY <1>1, PairingStarts DEF Pairing
<1>3. TradePairs = <<>> /\ Len(TradePairs) = 0 /\ \A s \in Symbols : EntryOf(s) = Nothing
  BY <1>2 DEF TradePairs, EntryOf, NoPairs
<1>4. LedgerTypes
  <2>1. trades \in Seq(Fill)
    BY <1>1
  <2> QED
    BY <1>1, <2>1 DEF LedgerTypes
<1>5. PairsTyped
  <2>1. TradePairs \in Seq(PublishedRow)
    BY <1>3
  <2>2. Pairing.entries = [s \in Symbols |-> EntryOf(s)]
    BY <1>2 DEF EntryOf, NoPairs
  <2>3. Pairing = [ rows |-> TradePairs, entries |-> Pairing.entries ]
    BY <1>2 DEF TradePairs, NoPairs
  <2> QED
    BY <2>1, <2>2, <2>3 DEF PairsTyped
<1>6. EntriesStand
  BY <1>1, <1>3, FlatFacts DEF EntriesStand, Stands
<1>7. Exits = {}
  BY <1>1 DEF Exits
<1>8. EverySellIsPublished
  BY <1>3, <1>7, FS_EmptySet, PublishedIs
<1>9. RowsExplainTheirProfit
  BY <1>3 DEF RowsExplainTheirProfit
<1>10. SumsAgree
  <2>1. Winners = {} /\ Losers = {}
    BY <1>7 DEF Winners, Losers, RoundTrips
  <2>2. /\ ExitPnls \in [{} -> {0}] /\ WinnerTrips \in [{} -> {0}] /\ LoserTrips \in [{} -> {0}]
    BY <1>7, <2>1 DEF ExitPnls, WinnerTrips, LoserTrips
  <2>3. 1..0 = {}
    OBVIOUS
  <2>4. /\ FillFees \in [{} -> {0}] /\ RowPnls \in [{} -> {0}] /\ RowFees \in [{} -> {0}]
    BY <1>1, <1>3, <2>3 DEF FillFees, RowPnls, RowFees
  <2>5. OpenFees \in [Symbols -> {0}]
    BY <1>3 DEF OpenFees, FeesLeft
  <2>6. IsFiniteSet({})
    BY FS_EmptySet
  <2>7. /\ SumFunction(ExitPnls) = 0 /\ SumFunction(WinnerTrips) = 0
        /\ SumFunction(LoserTrips) = 0
    BY <2>2, <2>6, SumOfZeros
  <2>8. /\ SumFunction(FillFees) = 0 /\ SumFunction(RowPnls) = 0 /\ SumFunction(RowFees) = 0
    BY <2>4, <2>6, SumOfZeros
  <2>9. SumFunction(OpenFees) = 0
    BY <2>5, SymbolsFinite, SumOfZeros
  <2>10. Cardinality(RoundTrips) = 0
    BY <1>7, FS_EmptySet DEF RoundTrips
  <2>11. Off(0, 0) = 0 /\ 0 + 0 = 0 /\ 2 * 0 <= Cent * 0
    BY CentFacts DEF Off
  <2> QED
    BY <1>1, <1>3, <2>7, <2>8, <2>9, <2>10, <2>11 DEF SumsAgree
<1> QED
  BY <1>4, <1>5, <1>6, <1>8, <1>9, <1>10 DEF Ledgered

LEMMA LedgerStep ==
  TypeOK /\ TypeOK' /\ Booked /\ Ledgered /\ [LedgerNext]_ledgerVars => Ledgered'
<1> SUFFICES ASSUME TypeOK, TypeOK', Booked, Ledgered, [LedgerNext]_ledgerVars
             PROVE  Ledgered'
  OBVIOUS
<1>1. \/ NoFill
      \/ \E s \in Symbols : BoughtNow(s)
      \/ \E s \in Symbols, ref \in Int : SoldNow(s, ref)
  BY LedgerSteps DEF Ledgered
<1>2. NoFill => Ledgered'
  BY StillLedgered DEF NoFill
<1>3. \A s \in Symbols : BoughtNow(s) => Ledgered'
  BY BuyLedgered DEF BoughtNow
<1>4. \A s \in Symbols, ref \in Int : SoldNow(s, ref) => Ledgered'
  BY SellLedgered DEF SoldNow
<1> QED
  BY <1>1, <1>2, <1>3, <1>4

LEMMA LedgerInv == LedgerSpec => [](TypeOK /\ Booked /\ Ledgered)
<1>1. LedgerInit => TypeOK /\ Booked /\ Ledgered
  BY LedgerIsEngine, TypeInit, BookedInit, LedgerStarts
<1>2. TypeOK /\ Booked /\ Ledgered /\ [LedgerNext]_ledgerVars => (TypeOK /\ Booked /\ Ledgered)'
  BY LedgerIsEngine, TypeStep, BookedStep, LedgerStep
<1> QED
  BY <1>1, <1>2, PTL DEF LedgerSpec

(* The totals beside the rows follow from the sums.                        *)
LEMMA TotalsAgree ==
  ASSUME TypeOK, Booked, Ledgered
  PROVE  RowsAgreeWithTheAccount
<1> USE DEF Ledgered
<1>1. /\ TradeMetrics.realized = SumFunction(ExitPnls)
      /\ TradeMetrics.grossProfit = SumFunction(WinnerTrips)
      /\ TradeMetrics.grossLoss = SumFunction(LoserTrips)
      /\ TradeMetrics.winners = Cardinality(Winners)
      /\ TradeMetrics.losers = Cardinality(Losers)
      /\ TradeMetrics.tradeCount = Cardinality(RoundTrips)
  BY DEF TradeMetrics, ExitPnls, WinnerTrips, LoserTrips
<1>2. Cardinality(Winners) + Cardinality(Losers) <= Cardinality(RoundTrips)
  <2>1. /\ IsFiniteSet(Winners) /\ IsFiniteSet(Losers) /\ IsFiniteSet(RoundTrips)
        /\ Winners \cup Losers \in SUBSET RoundTrips
    BY ExitFacts
  <2>2. Winners \cap Losers = {}
    <3>1. \A i \in RoundTrips : trades[i].roundTrip \in Int
      BY FillFacts, ExitFacts DEF LedgerTypes
    <3>2. \A x \in Int : ~(x > 0 /\ x < 0)
      OBVIOUS
    <3> QED
      BY <3>1, <3>2 DEF Winners, Losers
  <2>3. Cardinality(Winners \cup Losers)
          = Cardinality(Winners) + Cardinality(Losers) - Cardinality(Winners \cap Losers)
    BY <2>1, FS_Union
  <2>4. Cardinality(Winners \cap Losers) = 0
    BY <2>2, FS_EmptySet
  <2>5. Cardinality(Winners \cup Losers) <= Cardinality(RoundTrips)
    BY <2>1, FS_Subset
  <2>6. Cardinality(Winners) \in Nat /\ Cardinality(Losers) \in Nat
    BY <2>1, FS_CardinalityType
  <2> QED
    BY <2>3, <2>4, <2>5, <2>6
<1>3. ASSUME NEW s \in Symbols
      PROVE  EntryOf(s).remaining = pos[s].quantity
  <2>1. Stands(EntryOf(s), pos[s], barAt[s])
    BY DEF EntriesStand
  <2> QED
    BY <2>1 DEF Stands, Nothing
<1>4. [s \in Symbols |-> IF Pairing.entries[s] = Nothing THEN 0 ELSE Pairing.entries[s].fees]
        = OpenFees
  BY DEF OpenFees, EntryOf, FeesLeft
<1>5. \A s \in Symbols : Pairing.entries[s].remaining = pos[s].quantity
  BY <1>3 DEF EntryOf
<1> QED
  BY <1>1, <1>2, <1>4, <1>5 DEF RowsAgreeWithTheAccount, SumsAgree, RowPnls, RowFees, FillFees

(* Every sell is published, every row explains its own profit, and rows,   *)
(* metrics and account agree up to the roundings of the report, whatever   *)
(* it costs to trade (publisher.py:35-101, :176-205).                      *)
THEOREM RowsAreTrue ==
  LedgerSpec => [](EverySellIsPublished /\ RowsExplainTheirProfit /\ RowsAgreeWithTheAccount)
<1>1. TypeOK /\ Booked /\ Ledgered
        => EverySellIsPublished /\ RowsExplainTheirProfit /\ RowsAgreeWithTheAccount
  BY TotalsAgree DEF Ledgered
<1> QED
  BY <1>1, LedgerInv, PTL

-----------------------------------------------------------------------------
(* The curve.  Finitely many numbers have a greatest one.                  *)
AtMost(T, m) == \A y \in T : y <= m

LEMMA MaxIs ==
  ASSUME NEW T \in SUBSET Int, NEW m \in T, AtMost(T, m)
  PROVE  Max(T) \in T /\ AtMost(T, Max(T))
<1>1. \E x \in T : \A y \in T : x >= y
  BY DEF AtMost
<1>2. Max(T) \in T /\ \A y \in T : Max(T) >= y
  BY <1>1 DEF Max
<1> QED
  BY <1>2 DEF AtMost

LEMMA GreatestTerm ==
  ASSUME NEW S, IsFiniteSet(S), S # {}, NEW g \in [S -> Int]
  PROVE  \E m \in S : \A y \in S : g[y] <= g[m]
<1> DEFINE Good == {T \in SUBSET S : T = {} \/ \E m \in T : \A y \in T : g[y] <= g[m]}
<1>1. {} \in Good
  OBVIOUS
<1>2. ASSUME NEW T \in SUBSET S, T # {}, Pick(T) \in S, T \ {Pick(T)} \in Good
      PROVE  T \in Good
  <2>1. Pick(T) \in T
    BY <1>2, Picked
  <2>2. PICK k \in T : k = Pick(T)
    BY <2>1
  <2>3. \A y \in T : g[y] \in Int
    OBVIOUS
  <2>4. \E m \in T : \A y \in T : g[y] <= g[m]
    <3>1. CASE T \ {k} = {}
      <4>1. \A y \in T : y = k
        BY <3>1
      <4>2. g[k] <= g[k]
        BY <2>3
      <4> QED
        BY <4>1, <4>2
    <3>2. CASE T \ {k} # {}
      <4>1. PICK m \in T \ {k} : \A y \in T \ {k} : g[y] <= g[m]
        BY <1>2, <2>2, <3>2
      <4>2. CASE g[k] <= g[m]
        BY <4>1, <4>2
      <4>3. CASE g[m] <= g[k]
        <5>1. \A y \in T \ {k} : g[y] <= g[k]
          BY <2>3, <4>1, <4>3
        <5>2. g[k] <= g[k]
          BY <2>3
        <5> QED
          BY <5>1, <5>2
      <4> QED
        BY <2>3, <4>2, <4>3
    <3> QED
      BY <3>1, <3>2
  <2> QED
    BY <2>4
<1>3. S \in Good
  <2> HIDE DEF Good
  <2> QED
    BY <1>1, <1>2, PickInduction
<1> QED
  BY <1>3

(* The peak of the first points, and the deepest fall of all.              *)
LEMMA PeakFacts ==
  ASSUME curve \in Seq(Nat), NEW n \in 1..Len(curve)
  PROVE  PeakUpTo(n) \in Nat /\ curve[n] \in Nat /\ curve[n] <= PeakUpTo(n)
<1> DEFINE S == 1..n
           T == {curve[i] : i \in 1..n}
           g == [i \in S |-> curve[i]]
<1>1. n \in Nat /\ n \in S /\ S \subseteq 1..Len(curve)
  BY LenProperties
<1>2. \A i \in S : curve[i] \in Nat
  BY <1>1, ElementOfSeq
<1>3. IsFiniteSet(S)
  BY <1>1, 1 \in Int, n \in Int, FS_Interval
<1>4. g \in [S -> Int] /\ S # {}
  <2>1. S # {} /\ \A i \in S : curve[i] \in Int
    BY <1>1, <1>2, SMTT(30)
  <2> HIDE DEF S
  <2> QED
    BY <2>1
<1>5. \E m \in S : \A y \in S : g[y] <= g[m]
  <2> HIDE DEF S, g
  <2> QED
    BY <1>3, <1>4, GreatestTerm
<1>6. PICK m \in S : \A y \in S : curve[y] <= curve[m]
  BY <1>5
<1>7. T \in SUBSET Int /\ curve[m] \in T /\ AtMost(T, curve[m])
  BY <1>2, <1>6 DEF AtMost
<1>8. T \in SUBSET Nat /\ curve[n] \in T
  BY <1>1, <1>2
<1> HIDE DEF T
<1>9. Max(T) \in T /\ AtMost(T, Max(T))
  BY <1>7, MaxIs
<1>10. PeakUpTo(n) = Max(T)
  BY DEF PeakUpTo, T
<1> QED
  BY <1>8, <1>9, <1>10 DEF AtMost

LEMMA DepthGrows ==
  ASSUME NEW e \in Nat, NEW p \in Nat, NEW q \in Nat, e <= p, p <= q
  PROVE  Depth(p, e) \in Int /\ Depth(q, e) \in Int /\ Depth(p, e) <= Depth(q, e)
<1>1. BPS \in Nat \ {0}
  BY PolicyTypes
<1>2. (p - e) * BPS \in Nat /\ (q - e) * BPS \in Nat
  <2>1. p - e \in Nat /\ q - e \in Nat
    OBVIOUS
  <2> QED
    BY <1>1, <2>1, ProductType
<1>3. Depth(p, e) \in Nat /\ Depth(q, e) \in Nat
  <2>1. p # 0 => ((p - e) * BPS) \div p \in Nat
    BY <1>2, DivType
  <2>2. q # 0 => ((q - e) * BPS) \div q \in Nat
    BY <1>2, DivType
  <2> QED
    BY <2>1, <2>2 DEF Depth
<1>4. CASE p = 0
  BY <1>3, <1>4 DEF Depth
<1>5. CASE p # 0
  <2>1. PICK x \in Nat : x = ((p - e) * BPS) \div p
    BY <1>3, <1>5 DEF Depth
  <2>2. x * p <= (p - e) * BPS
    BY <1>2, <1>5, <2>1
  <2>3. PICK b \in Nat : b = BPS
    BY <1>1
  <2>4. (p - e) * b = p * b - e * b /\ (q - e) * b = q * b - e * b
    BY <2>3
  <2>5. x <= b
    <3>1. e * b \in Nat /\ p * b \in Nat /\ x * p \in Nat
      BY ProductType
    <3>2. x * p <= b * p
      BY <2>2, <2>3, <2>4, <3>1
    <3>3. p \in Nat \ {0}
      BY <1>5
    <3>4. ~(x <= b) => (b + 1) * p <= x * p
      <4>1. ~(x <= b) => b + 1 <= x
        OBVIOUS
      <4> QED
        BY <4>1, TimesMonotone
    <3>5. (b + 1) * p = b * p + p /\ b * p \in Nat
      BY ProductType
    <3> QED
      BY <3>1, <3>2, <3>3, <3>4, <3>5
  <2>6. x * q <= (q - e) * b
    <3>1. b - x \in Nat
      BY <2>5
    <3>2. p * (b - x) <= q * (b - x)
      BY <3>1, TimesMonotone
    <3>3. p * (b - x) = p * b - x * p /\ q * (b - x) = q * b - x * q
      OBVIOUS
    <3>4. /\ e * b \in Int /\ p * b \in Int /\ x * p \in Int
          /\ q * b \in Int /\ x * q \in Int
      BY ProductType
    <3>5. x * p <= p * b - e * b
      BY <2>2, <2>3, <2>4
    <3> QED
      BY <2>4, <3>2, <3>3, <3>4, <3>5
  <2>7. x <= ((q - e) * b) \div q
    <3>1. q \in Nat \ {0} /\ (q - e) * b \in Int
      BY <1>2, <1>5, <2>3
    <3> QED
      BY <2>6, <3>1, Quotients
  <2>8. Depth(p, e) = x /\ Depth(q, e) = ((q - e) * b) \div q
    BY <1>5, <2>1, <2>3 DEF Depth
  <2> QED
    BY <1>3, <2>7, <2>8
<1> QED
  BY <1>3, <1>4, <1>5

LEMMA DrawdownCovers ==
  ASSUME curve \in Seq(Nat), NEW n \in 1..Len(curve)
  PROVE  Depth(PeakUpTo(n), curve[n]) <= MaxDrawdown
<1> DEFINE S == 0..Len(curve)
           D(i) == Depth(Max({InitialEquity, PeakUpTo(i)}), curve[i])
           T == {0} \cup {D(i) : i \in 1..Len(curve)}
           g == [i \in S |-> IF i = 0 THEN 0 ELSE D(i)]
<1>1. Len(curve) \in Nat
  BY LenProperties
<1>2. ASSUME NEW i \in 1..Len(curve)
      PROVE  D(i) \in Int /\ Depth(PeakUpTo(i), curve[i]) <= D(i)
             /\ Depth(PeakUpTo(i), curve[i]) \in Int
  <2>1. PeakUpTo(i) \in Nat /\ curve[i] \in Nat /\ curve[i] <= PeakUpTo(i)
    BY PeakFacts
  <2>2. InitialEquity \in Nat
    BY RequestAssumption
  <2> DEFINE U == {InitialEquity, PeakUpTo(i)}
  <2>3. PICK m \in U : m \in Nat /\ AtMost(U, m)
    BY <2>1, <2>2 DEF AtMost
  <2>4. U \in SUBSET Int /\ U \in SUBSET Nat /\ PeakUpTo(i) \in U
    BY <2>1, <2>2
  <2> HIDE DEF U
  <2>5. Max(U) \in Nat /\ PeakUpTo(i) <= Max(U)
    BY <2>3, <2>4, MaxIs DEF AtMost
  <2>6. D(i) = Depth(Max(U), curve[i])
    BY DEF U
  <2> QED
    BY <2>1, <2>5, <2>6, DepthGrows
<1> HIDE DEF D
<1>3. g \in [S -> Int] /\ S # {}
  <2>1. 0 \in S /\ \A i \in S : i = 0 \/ i \in 1..Len(curve)
    BY <1>1
  <2>2. \A i \in 1..Len(curve) : D(i) \in Int
    BY <1>2
  <2>3. \A i \in S : (IF i = 0 THEN 0 ELSE D(i)) \in Int
    BY <2>1, <2>2
  <2> HIDE DEF S
  <2> QED
    BY <2>1, <2>3
<1>4. IsFiniteSet(S)
  BY <1>1, 0 \in Int, Len(curve) \in Int, FS_Interval
<1>5. \E m \in S : \A y \in S : g[y] <= g[m]
  <2> HIDE DEF S, g
  <2> QED
    BY <1>3, <1>4, GreatestTerm
<1>6. PICK m \in S : \A y \in S : g[y] <= g[m]
  BY <1>5
<1>7. T \in SUBSET Int /\ D(n) \in T
  BY <1>2
<1>8. g[m] \in T
  <2>1. m = 0 \/ m \in 1..Len(curve)
    BY <1>1
  <2> QED
    BY <2>1
<1>9. AtMost(T, g[m])
  <2>1. 0 \in S /\ g[0] = 0
    BY <1>1
  <2>2. \A i \in 1..Len(curve) : i \in S /\ g[i] = D(i)
    BY <1>1
  <2>3. 0 <= g[m] /\ \A i \in 1..Len(curve) : D(i) <= g[m]
    BY <1>6, <2>1, <2>2
  <2> HIDE DEF g
  <2> QED
    BY <2>3 DEF AtMost
<1> HIDE DEF T, g
<1>10. D(n) <= Max(T) /\ Max(T) \in Int
  BY <1>7, <1>8, <1>9, MaxIs DEF AtMost
<1>11. MaxDrawdown = Max(T)
  BY DEF MaxDrawdown, T, D
<1> QED
  BY <1>2, <1>10, <1>11

(* The last point of the curve is the last one the engine took, rounded.   *)
CurveKept ==
  /\ curve \in Seq(Nat)
  /\ curve # <<>> => batches > 0 /\ curve[Len(curve)] = ToCent(lastPoint)

Solvent == PortfolioValue \in Nat

LEMMA CurveStays ==
  ASSUME TypeOK, CurveIsCurrent, Solvent, Solvent', CurveKept, [LedgerNext]_ledgerVars
  PROVE  CurveKept'
<1>0. batches \in Nat /\ curve \in Seq(Nat)
  BY DEF TypeOK, CurveKept
<1>1. CASE CloseBatch /\ curve' = Append(curve, ToCent(lastPoint'))
  <2>1. lastPoint' = PortfolioValue' /\ batches' = batches /\ phase = "close"
    BY <1>1 DEF CloseBatch, market
  <2>2. batches > 0
    BY <1>0, <2>1 DEF CurveIsCurrent
  <2>3. PICK p \in Nat : p = ToCent(lastPoint')
    BY <2>1, CentFacts DEF Solvent
  <2>4. /\ Append(curve, p) \in Seq(Nat) /\ Len(Append(curve, p)) = Len(curve) + 1
        /\ Append(curve, p)[Len(curve) + 1] = p
    BY <1>0, AppendProperties
  <2> QED
    BY <1>1, <2>1, <2>2, <2>3, <2>4 DEF CurveKept
<1>2. CASE Finish /\ curve' = FinalPoint(curve)
  <2>1. batches' = batches /\ lastPoint' = IF batches > 0 THEN PortfolioValue ELSE lastPoint
    BY <1>2 DEF Finish, market
  <2>2. CASE curve = <<>>
    <3>1. curve' = <<>>
      BY <1>2, <2>2 DEF FinalPoint
    <3> QED
      BY <1>0, <2>2, <3>1 DEF CurveKept
  <2>3. CASE curve # <<>>
    <3>1. batches > 0 /\ lastPoint' = PortfolioValue
      BY <2>1, <2>3 DEF CurveKept
    <3>2. PICK p \in Nat : p = ToCent(PortfolioValue)
      BY CentFacts DEF Solvent
    <3>3. curve' = [curve EXCEPT ![Len(curve)] = p]
      BY <1>2, <2>3, <3>2 DEF FinalPoint
    <3>4. Len(curve) \in 1..Len(curve)
      <4>1. Len(curve) \in Nat /\ Len(curve) # 0
        BY <1>0, <2>3, EmptySeq, LenProperties
      <4> QED
        BY <4>1
    <3>5. curve' \in Seq(Nat) /\ Len(curve') = Len(curve) /\ curve'[Len(curve)] = p
      BY <1>0, <3>3, <3>4, ExceptSeq
    <3> QED
      BY <2>1, <3>1, <3>2, <3>5 DEF CurveKept
  <2> QED
    BY <2>2, <2>3
<1>3. CASE OpenBatch /\ UNCHANGED curve
  <2>1. batches' = batches + 1 /\ lastPoint' = lastPoint
    BY <1>3 DEF OpenBatch
  <2>2. batches' > 0
    BY <1>0, <2>1
  <2> QED
    BY <1>3, <2>1, <2>2 DEF CurveKept
<1>4. CASE UNCHANGED <<curve, lastPoint, batches>>
  BY <1>4 DEF CurveKept
<1>5. Size \/ NextLoop \/ EndOfData => UNCHANGED <<lastPoint, batches>>
  BY DEF Size, NextLoop, EndOfData, market
<1>6. ASSUME NEW s \in Symbols,
             \/ ProtectAtOpen(s) \/ SignalExit(s) \/ Enter(s) \/ Refuse(s)
             \/ ProtectInBar(s) \/ Skip(s) \/ Liquidate(s)
      PROVE  UNCHANGED <<lastPoint, batches>>
  BY <1>6 DEF ProtectAtOpen, SignalExit, Enter, Refuse, ProtectInBar, Skip, Liquidate, market
<1>7. UNCHANGED ledgerVars => UNCHANGED <<curve, lastPoint, batches>>
  BY DEF ledgerVars, vars, record, market
<1>8. \A new : Reported(new) => UNCHANGED curve
  BY DEF Reported
<1>9. \A s, ref : SellReported(s, ref) => UNCHANGED curve
  BY <1>8 DEF SellReported
<1> QED
  BY <1>1, <1>2, <1>3, <1>4, <1>5, <1>6, <1>7, <1>8, <1>9 DEF LedgerNext

LEMMA CurveAgrees ==
  ASSUME CurveIsCurrent, CurveKept
  PROVE  CurveAgreesWithDrawdown
<1> SUFFICES ASSUME phase = "done", curve # <<>>
             PROVE  /\ \A i \in 1..Len(CurveRows) : CurveRows[i].drawdown <= Payload.maxDrawdown
                    /\ CurveRows[Len(CurveRows)].equity = ToCent(PortfolioValue)
  BY DEF CurveAgreesWithDrawdown
<1>1. /\ curve \in Seq(Nat) /\ curve[Len(curve)] = ToCent(lastPoint)
      /\ lastPoint = PortfolioValue
  BY DEF CurveKept, CurveIsCurrent
<1>2. Len(curve) \in Nat /\ Len(curve) \in 1..Len(curve)
  <2>1. Len(curve) \in Nat /\ Len(curve) # 0
    BY <1>1, EmptySeq, LenProperties
  <2> QED
    BY <2>1
<1>3. /\ Len(CurveRows) = Len(curve)
      /\ \A i \in 1..Len(curve) : /\ CurveRows[i].equity = curve[i]
                                  /\ CurveRows[i].drawdown = Depth(PeakUpTo(i), curve[i])
  BY <1>2 DEF CurveRows
<1>4. Payload.maxDrawdown = MaxDrawdown
  BY DEF Payload
<1>5. \A i \in 1..Len(curve) : Depth(PeakUpTo(i), curve[i]) <= MaxDrawdown
  BY <1>1, DrawdownCovers
<1> QED
  BY <1>1, <1>2, <1>3, <1>4, <1>5

(* What is published of a run is true of it, the curve included, whenever  *)
(* the adjustments of a price and the fee leave a sell something: without  *)
(* that the equity can fall below zero, and the deepest fall is no longer  *)
(* the one from the highest peak (app/publisher.py, engine.py:55-67).      *)
THEOREM PublishedStaysTrue ==
  ASSUME SlippageBps + MarketImpactBps + HalfSpreadBps <= BPS, FeeBps <= BPS
  PROVE  LedgerSpec => []PublishedIsTrue
<1>1. LedgerSpec => Spec
  BY LedgerIsEngine, PTL DEF LedgerSpec, Spec
<1>2. Spec => []SnapshotSuffices
  BY SnapshotsSuffice
<1>3. TypeOK /\ SnapshotSuffices => Solvent
  BY PortfolioTypes DEF TypeOK, SnapshotSuffices, CashNonNegative, PortfolioValue, Solvent
<1>4. Spec => [](TypeOK /\ CurveIsCurrent)
  BY TypeInit, TypeStep, CurveInit, CurveStep, PTL DEF Spec
<1>5. LedgerSpec => [](TypeOK /\ CurveIsCurrent /\ Solvent)
  BY <1>1, <1>2, <1>3, <1>4, PTL
<1>6. LedgerInit => CurveKept
  BY DEF LedgerInit, CurveKept
<1>7. TypeOK /\ CurveIsCurrent /\ Solvent /\ Solvent' /\ CurveKept /\ [LedgerNext]_ledgerVars
        => CurveKept'
  BY CurveStays
<1>8. LedgerSpec => []CurveKept
  BY <1>5, <1>6, <1>7, PTL DEF LedgerSpec
<1>9. CurveIsCurrent /\ CurveKept => CurveAgreesWithDrawdown
  BY CurveAgrees
<1> QED
  BY <1>5, <1>8, <1>9, RowsAreTrue, PTL DEF PublishedIsTrue

-----------------------------------------------------------------------------
(* The evidence chain over the ledger.  Phase 10 books the fills by a      *)
(* recursion of the same kind.                                             *)
BookUpTo(g, records, n) ==
  g = [m \in 0..n |-> IF m = 0 THEN EmptyBook ELSE Admit(g[m - 1], records[m])]

LEMMA BooksExist ==
  ASSUME NEW records
  PROVE  \A n \in Nat : \E g : BookUpTo(g, records, n)
<1> DEFINE P(n) == \E g : BookUpTo(g, records, n)
<1>1. P(0)
  <2> DEFINE z == [m \in 0..0 |-> EmptyBook]
  <2>1. \A m \in 0..0 : m = 0
    OBVIOUS
  <2>2. BookUpTo(z, records, 0)
    BY <2>1 DEF BookUpTo
  <2> QED
    BY <2>2
<1>2. ASSUME NEW n \in Nat, P(n)
      PROVE  P(n + 1)
  <2>1. PICK g : BookUpTo(g, records, n)
    BY <1>2
  <2> DEFINE h == [m \in 0..(n + 1) |-> IF m = 0 THEN EmptyBook
                                       ELSE Admit(g[m - 1], records[m])]
  <2>2. \A m \in 0..n : h[m] = g[m]
    BY <2>1 DEF BookUpTo
  <2>3. \A m \in 0..(n + 1) : m # 0 => m - 1 \in 0..n /\ h[m - 1] = g[m - 1]
    BY <2>2
  <2>4. h = [m \in 0..(n + 1) |-> IF m = 0 THEN EmptyBook ELSE Admit(h[m - 1], records[m])]
    BY <2>3
  <2> HIDE DEF h
  <2>5. BookUpTo(h, records, n + 1)
    BY <2>4 DEF BookUpTo
  <2> QED
    BY <2>5
<1> DEFINE Without == {n \in Nat : ~P(n)}
<1> HIDE DEF P
<1>3. ASSUME Without # {}
      PROVE  FALSE
  <2>1. PICK n \in Without : \A m \in Without : ~(m < n)
    BY <1>3, LeastNatural
  <2>2. n # 0 /\ n - 1 \in Nat
    BY <1>1
  <2>3. P(n - 1)
    BY <2>1, <2>2
  <2>4. P((n - 1) + 1)
    BY <1>2, <2>2, <2>3
  <2> QED
    BY <2>4
<1> QED
  BY <1>3 DEF P

LEMMA BooksAgree ==
  ASSUME NEW records, NEW more, NEW n \in Nat, NEW m \in Nat, n <= m,
         SameUpTo(records, more, n)
  PROVE  \A g, h : BookUpTo(g, records, n) /\ BookUpTo(h, more, m) => g[n] = h[n]
<1> SUFFICES ASSUME NEW g, BookUpTo(g, records, n), NEW h, BookUpTo(h, more, m)
             PROVE  g[n] = h[n]
  OBVIOUS
<1> DEFINE Apart == {k \in 0..n : g[k] # h[k]}
<1>1. ASSUME Apart # {}
      PROVE  FALSE
  <2>1. Apart \in SUBSET Nat
    OBVIOUS
  <2>2. PICK k \in Apart : \A j \in Apart : ~(j < k)
    <3> HIDE DEF Apart
    <3> QED
      BY <1>1, <2>1, LeastNatural
  <2>3. k \in 0..n /\ k \in 0..m /\ g[k] # h[k]
    OBVIOUS
  <2>4. g[k] = IF k = 0 THEN EmptyBook ELSE Admit(g[k - 1], records[k])
    BY <2>3 DEF BookUpTo
  <2>5. h[k] = IF k = 0 THEN EmptyBook ELSE Admit(h[k - 1], more[k])
    BY <2>3 DEF BookUpTo
  <2>6. k # 0 => k - 1 \in 0..n /\ ~(k - 1 \in Apart) /\ more[k] = records[k]
    BY <2>2, <2>3 DEF SameUpTo
  <2>7. k # 0 => g[k - 1] = h[k - 1]
    BY <2>6
  <2> QED
    BY <2>3, <2>4, <2>5, <2>6, <2>7
<1> QED
  BY <1>1

LEMMA BookIs ==
  ASSUME NEW records, Len(records) \in Nat
  PROVE  \E g : BookUpTo(g, records, Len(records)) /\ BookOf(records) = g[Len(records)]
<1> DEFINE Step(f) == [n \in 0..Len(records) |->
                         IF n = 0 THEN EmptyBook ELSE Admit(f[n - 1], records[n])]
           after == CHOOSE f : f = Step(f)
<1>1. PICK g : BookUpTo(g, records, Len(records))
  BY BooksExist
<1>2. g = Step(g)
  BY <1>1 DEF BookUpTo
<1>3. after = Step(after)
  <2> HIDE DEF Step
  <2> QED
    BY <1>2
<1>4. BookUpTo(after, records, Len(records))
  BY <1>3 DEF BookUpTo
<1>5. BookOf(records) = after[Len(records)]
  BY DEF BookOf
<1> QED
  BY <1>4, <1>5

LEMMA BookStarts ==
  ASSUME NEW records, Len(records) = 0
  PROVE  BookOf(records) = EmptyBook
<1>1. PICK g : BookUpTo(g, records, 0) /\ BookOf(records) = g[0]
  BY BookIs
<1>2. g[0] = EmptyBook
  BY <1>1 DEF BookUpTo
<1> QED
  BY <1>1, <1>2

LEMMA BookGoesOn ==
  ASSUME NEW records, NEW more, NEW n \in Nat, Len(records) = n, Len(more) = n + 1,
         SameUpTo(records, more, n)
  PROVE  BookOf(more) = Admit(BookOf(records), more[n + 1])
<1>1. PICK m \in Nat : m = n + 1
  OBVIOUS
<1>2. PICK g : BookUpTo(g, records, n) /\ BookOf(records) = g[n]
  BY BookIs
<1>3. PICK h : BookUpTo(h, more, m) /\ BookOf(more) = h[m]
  BY <1>1, BookIs
<1>4. g[n] = h[n]
  <2>1. n <= m
    BY <1>1
  <2> QED
    BY <1>2, <1>3, <2>1, BooksAgree
<1>5. h[m] = Admit(h[n], more[m])
  <2>1. m \in 0..m /\ m # 0 /\ m - 1 = n
    BY <1>1
  <2> QED
    BY <1>3, <2>1 DEF BookUpTo
<1> QED
  BY <1>1, <1>2, <1>3, <1>4, <1>5

(* A function over 1..n is a list of n.                                    *)
LEMMA ListOf ==
  ASSUME NEW S, NEW n \in Nat, NEW g \in [1..n -> S]
  PROVE  g \in Seq(S) /\ Len(g) = n
<1>1. g \in Seq(S)
  BY SeqDef
<1>2. Len(g) \in Nat /\ DOMAIN g = 1..Len(g)
  BY <1>1, LenProperties
<1>3. 1..Len(g) = 1..n
  BY <1>2
<1>4. ASSUME NEW m \in Nat, 1..m = 1..n
      PROVE  m = n
  <2>1. m > n => m \in 1..m
    OBVIOUS
  <2>2. n > m => n \in 1..n
    OBVIOUS
  <2>3. ~(m > n) /\ ~(n > m)
    BY <1>4, <2>1, <2>2
  <2> QED
    BY <2>3
<1> QED
  BY <1>1, <1>2, <1>3, <1>4

(* The records that phase 9 makes of the fills of a traded window, the     *)
(* first of the report.                                                    *)
RowOf(i, fill) == [ fold |-> 1, strategy |-> "candidate", index |-> i, fill |-> fill ]

Rows(fills) == [i \in 1..Len(fills) |-> RowOf(i, fills[i])]

RowSet == [ fold : {1}, strategy : {"candidate"}, index : Nat, fill : Fill ]

LEMMA RowsFacts ==
  ASSUME NEW fills \in Seq(Fill)
  PROVE  /\ Len(fills) \in Nat /\ Len(Rows(fills)) = Len(fills) /\ Rows(fills) \in Seq(RowSet)
         /\ \A i \in 1..Len(fills) : Rows(fills)[i] = RowOf(i, fills[i])
<1>1. PICK n \in Nat : n = Len(fills)
  BY LenProperties
<1>2. \A i \in 1..n : RowOf(i, fills[i]) \in RowSet
  <2> SUFFICES ASSUME NEW i \in 1..n PROVE RowOf(i, fills[i]) \in RowSet
    OBVIOUS
  <2>1. fills[i] \in Fill /\ i \in Nat
    BY <1>1, ElementOfSeq
  <2> QED
    BY <2>1 DEF RowOf, RowSet
<1>3. Rows(fills) \in [1..n -> RowSet]
  BY <1>1, <1>2 DEF Rows
<1>4. Rows(fills) \in Seq(RowSet) /\ Len(Rows(fills)) = n
  BY <1>3, ListOf
<1> QED
  BY <1>1, <1>4 DEF Rows

BookNow == BookOf(Rows(trades))

LEMMA OneRowMore ==
  ASSUME LedgerTypes, NEW f \in Fill, trades' = Append(trades, f)
  PROVE  BookNow' = Admit(BookNow, RowOf(Len(trades) + 1, f))
<1>1. /\ trades' \in Seq(Fill) /\ Len(trades) \in Nat /\ trades \in Seq(Fill)
      /\ Len(trades') = Len(trades) + 1 /\ trades'[Len(trades) + 1] = f
      /\ \A i \in 1..Len(trades) : trades'[i] = trades[i]
  BY OneFillMore DEF LedgerTypes
<1>2. PICK n \in Nat : n = Len(trades)
  BY <1>1
<1> PICK fills, more : fills = trades /\ more = trades'
  OBVIOUS
<1>3. /\ Len(Rows(fills)) = n /\ Len(Rows(more)) = n + 1
      /\ \A i \in 1..n : Rows(fills)[i] = RowOf(i, fills[i])
      /\ \A i \in 1..(n + 1) : Rows(more)[i] = RowOf(i, more[i])
  BY <1>1, <1>2, RowsFacts
<1>4. \A i \in 1..n : i \in 1..(n + 1) /\ more[i] = fills[i]
  BY <1>1, <1>2
<1>5. SameUpTo(Rows(fills), Rows(more), n)
  <2>1. ASSUME NEW i \in 1..n
        PROVE  Rows(more)[i] = Rows(fills)[i]
    <3>1. i \in 1..(n + 1) /\ more[i] = fills[i]
      BY <1>4
    <3>2. Rows(fills)[i] = RowOf(i, fills[i]) /\ Rows(more)[i] = RowOf(i, more[i])
      BY <1>3, <3>1
    <3> QED
      BY <3>1, <3>2
  <2> QED
    BY <2>1 DEF SameUpTo
<1>6. BookOf(Rows(more)) = Admit(BookOf(Rows(fills)), Rows(more)[n + 1])
  BY <1>3, <1>5, BookGoesOn
<1>7. n + 1 \in 1..(n + 1) /\ more[n + 1] = f
  BY <1>1, <1>2
<1> QED
  BY <1>2, <1>3, <1>6, <1>7 DEF BookNow

-----------------------------------------------------------------------------
(* The books of phase 10 mirror the engine's own.                          *)
KeyOf(s) == <<1, "candidate", s>>

OpenPos == [ quantity : Nat, cost : Int, entryFees : Int, entryTime : Nat,
             entries : Seq(Nat), exits : Seq(Nat), gross : Int, fees : Int, net : Int,
             engineNet : Int, closedQuantity : Nat ]

ClosedPos == [ fold : {1}, strategy : {"candidate"}, symbol : Symbols,
               entryTime : Nat, exitTime : Nat, entries : Seq(Nat), exits : Seq(Nat),
               quantity : Nat, gross : Int, fees : Int, net : Int, engineNet : Int ]

(* Two numbers no further apart than half of d, and sums of such numbers.  *)
Near(x, y, d) == 2 * Off(x, y) <= d

LEMMA NearSums ==
  ASSUME NEW x \in Int, NEW y \in Int, NEW u \in Int, NEW v \in Int, NEW d \in Int,
         NEW e \in Int, Near(x, y, d), Near(u, v, e)
  PROVE  Near(x + u, y + v, d + e) /\ Near(x - u, y - v, d + e)
BY DEF Near, Off

LEMMA NearChain ==
  ASSUME NEW x \in Int, NEW y \in Int, NEW v \in Int, NEW d \in Int,
         NEW e \in Int, Near(x, y, d), Near(y, v, e)
  PROVE  Near(x, v, d + e)
BY DEF Near, Off

LEMMA NearBack ==
  ASSUME NEW x \in Int, NEW y \in Int, NEW d \in Int, Near(x, y, d)
  PROVE  Near(y, x, d)
BY DEF Near, Off

(* Whole cents stay what they are when they are rounded once more.         *)
InCents(x) == \E n \in Int : x = n * Cent

LEMMA CentsStay ==
  /\ \A x \in Int : InCents(ToCent(x)) /\ (InCents(x) => ToCent(x) = x)
  /\ \A x, y \in Int : InCents(x) /\ InCents(y) => InCents(x + y)
  /\ InCents(0)
<1>1. PICK c \in Nat \ {0} : c = Cent
  BY RoundingAssumption
<1>2. ASSUME NEW x \in Int
      PROVE  InCents(ToCent(x))
  <2>1. (2 * x + c) \div (2 * c) \in Int
    BY <1>1
  <2> QED
    BY <1>1, <2>1 DEF InCents, ToCent, Nearest
<1>3. ASSUME NEW n \in Int
      PROVE  ToCent(n * Cent) = n * Cent
  <2>1. PICK m \in Int : m = n * c
    BY ProductType
  <2>2. PICK d \in Int : d = (2 * m + c) \div (2 * c)
    BY <1>1
  <2>3. 2 * m + c = (2 * c) * n + c
    BY <2>1
  <2>4. d = n
    BY <1>1, <2>2, <2>3
  <2> QED
    BY <1>1, <2>1, <2>2, <2>4 DEF ToCent, Nearest
<1>4. ASSUME NEW x \in Int, NEW y \in Int, InCents(x), InCents(y)
      PROVE  InCents(x + y)
  <2>1. PICK n \in Int, m \in Int : x = n * Cent /\ y = m * Cent
    BY <1>4 DEF InCents
  <2>2. n * c + m * c = (n + m) * c
    OBVIOUS
  <2> QED
    BY <1>1, <2>1, <2>2 DEF InCents
<1>5. InCents(0)
  BY <1>1 DEF InCents
<1> QED
  BY <1>2, <1>3, <1>4, <1>5 DEF InCents

(* What the roundings of n numbers and of the prices of q shares may have  *)
(* moved a sum, twice.                                                     *)
Drift(q, n) == 2 * (TickValue * q) + Cent * n

LEMMA DriftFacts ==
  ASSUME NEW q \in Nat, NEW n \in Nat
  PROVE  /\ Drift(q, n) \in Int /\ Cent * n \in Int /\ TickValue * q \in Nat
         /\ Cent * (n + 1) = Cent * n + Cent /\ Cent * 0 = 0 /\ Drift(0, 1) = Cent
<1>1. PICK c \in Nat : c = Cent
  BY RoundingAssumption
<1>2. PICK t \in Nat : t = TickValue
  BY TickValueType
<1>3. c * (n + 1) = c * n + c /\ c * n \in Int /\ t * q \in Nat /\ c * 0 = 0 /\ t * 0 = 0
  BY ProductType
<1> QED
  BY <1>1, <1>2, <1>3 DEF Drift

(* The tolerances of phases 10 and 11 in the same terms.                   *)
LEMMA ResidualIs ==
  ASSUME NEW k \in Nat, NEW q \in Nat
  PROVE  /\ Residual(k, q) \in Int
         /\ Residual(k, q) = 30 * (Cent * k) + 6 * (TickValue * q)
         /\ 4 * TickValue * q = 4 * (TickValue * q)
<1>1. PICK c \in Nat : c = Cent
  BY RoundingAssumption
<1>2. PICK t \in Nat : t = TickValue
  BY TickValueType
<1>3. 30 * c * k = 30 * (c * k) /\ 6 * t * q = 6 * (t * q) /\ 4 * t * q = 4 * (t * q)
  OBVIOUS
<1>4. c * k \in Int /\ t * q \in Int
  BY ProductType
<1> QED
  BY <1>1, <1>2, <1>3, <1>4 DEF Residual

(* The open position p of the books is the engine's e up to the roundings. *)
Mirrors(p, e, at) ==
  /\ p \in OpenPos
  /\ p.quantity = e.quantity /\ p.cost = Value(ToTick(e.average), e.quantity)
  /\ p.gross - p.fees + p.entryFees = p.net
  /\ p.fees >= 0 /\ p.entryTime <= at
  /\ Near(p.entryFees, e.fees, Cent)
  /\ Near(p.net - p.entryFees, e.pnl - e.fees, Drift(p.closedQuantity, Len(p.exits) + 1))
  /\ Near(p.engineNet, e.pnl, Cent * Len(p.exits))
  /\ InCents(p.engineNet)

SoundRow(r) ==
  /\ r \in ClosedPos
  /\ r.entryTime <= r.exitTime /\ r.fees >= 0 /\ r.quantity > 0
  /\ Near(r.gross - r.fees, r.net, 3 * Cent)
  /\ Near(r.net, r.engineNet, Drift(r.quantity, 2 * (Len(r.exits) + 1)))

(* Nothing is wrong with the books but what a rounding can make.           *)
Flawless(b) ==
  /\ b = [ errors |-> b.errors, seen |-> b.seen, last |-> b.last, open |-> b.open,
           closed |-> b.closed ]
  /\ b.errors \subseteq Residuals

(* A good fill whose time is not before the last one of its symbol.        *)
Admissible(b, i, f) ==
  /\ Flawless(b) /\ <<1, i>> \notin b.seen
  /\ f \in Fill /\ ValidFill(f)
  /\ KeyOf(f.symbol) \in DOMAIN b.last => ~(f.at < b.last[KeyOf(f.symbol)])

First(i, f) ==
  [ quantity |-> f.quantity, cost |-> Value(f.price, f.quantity), entryFees |-> f.fees,
    entryTime |-> f.at, entries |-> Append(<<>>, i), exits |-> <<>>, gross |-> 0,
    fees |-> f.fees, net |-> 0, engineNet |-> 0, closedQuantity |-> 0 ]

LEMMA StampedRow ==
  ASSUME NEW b, NEW i, NEW f, Admissible(b, i, f)
  PROVE  Stamped([b EXCEPT !.seen = @ \cup {<<1, i>>}], RowOf(i, f))
           = [ errors |-> b.errors, seen |-> b.seen \cup {<<1, i>>},
               last |-> Put(b.last, KeyOf(f.symbol), f.at), open |-> b.open,
               closed |-> b.closed ]
<1> DEFINE known == [b EXCEPT !.seen = @ \cup {<<1, i>>}]
           row == RowOf(i, f)
<1>1. /\ row.fold = 1 /\ row.strategy = "candidate" /\ row.index = i /\ row.fill = f
      /\ Key(row) = KeyOf(f.symbol)
  BY DEF RowOf, Key, KeyOf
<1>2. known = [ errors |-> b.errors, seen |-> b.seen \cup {<<1, i>>}, last |-> b.last,
                open |-> b.open, closed |-> b.closed ]
  <2> PICK er, se, la, op, cl : b = [ errors |-> er, seen |-> se, last |-> la, open |-> op,
                                      closed |-> cl ]
    BY DEF Admissible, Flawless
  <2> QED
    OBVIOUS
<1>3. ~(KeyOf(f.symbol) \in DOMAIN b.last /\ f.at < b.last[KeyOf(f.symbol)])
  BY DEF Admissible
<1> HIDE DEF known, row
<1>4. Stamped(known, row)
        = [known EXCEPT !.last = Put(@, KeyOf(f.symbol), f.at), !.errors = @]
  BY <1>1, <1>2, <1>3 DEF Stamped
<1> QED
  BY <1>2, <1>4 DEF known, row

LEMMA BuyAdmitted ==
  ASSUME NEW b, NEW i, NEW f, Admissible(b, i, f), f.side = "buy", f.pnl = 0,
         KeyOf(f.symbol) \notin DOMAIN b.open
  PROVE  Admit(b, RowOf(i, f))
           = [ errors |-> b.errors, seen |-> b.seen \cup {<<1, i>>},
               last |-> Put(b.last, KeyOf(f.symbol), f.at),
               open |-> Put(b.open, KeyOf(f.symbol), First(i, f)), closed |-> b.closed ]
<1> DEFINE row == RowOf(i, f)
           k == KeyOf(f.symbol)
           on == Stamped([b EXCEPT !.seen = @ \cup {<<1, i>>}], row)
<1>1. /\ row.fold = 1 /\ row.strategy = "candidate" /\ row.index = i /\ row.fill = f
      /\ Key(row) = k
  BY DEF RowOf, Key, KeyOf
<1>2. on = [ errors |-> b.errors, seen |-> b.seen \cup {<<1, i>>},
             last |-> Put(b.last, k, f.at), open |-> b.open, closed |-> b.closed ]
  BY StampedRow
<1>3. /\ f.quantity \in Nat /\ f.fees \in Int /\ f.price \in Int
      /\ Value(f.price, f.quantity) \in Int
  BY MoneyTypes DEF Admissible, Fill
<1>4. Admit(b, row) = BookBuy(on, row)
  <2>1. ~(<<row.fold, row.index>> \in b.seen) /\ ValidFill(row.fill)
    BY <1>1 DEF Admissible
  <2>2. row.fill.side = "buy"
    BY <1>1
  <2> HIDE DEF row, k
  <2> QED
    BY <1>1, <2>1, <2>2 DEF Admit
<1> HIDE DEF on, row, k
<1>5. k \notin DOMAIN on.open
  BY <1>2 DEF k
<1>6. Joined(Opened(row), row) = First(i, f)
  <2> PICK none : none = <<>>
    OBVIOUS
  <2>1. PICK v \in Int : v = Value(f.price, f.quantity)
    BY <1>3
  <2>2. PICK n \in Int, c \in Int : n = f.quantity /\ c = f.fees
    BY <1>3
  <2>3. PICK more : more = Append(none, i)
    OBVIOUS
  <2>4. Opened(row) = [ quantity |-> 0, cost |-> 0, entryFees |-> 0, entryTime |-> f.at,
           entries |-> none, exits |-> none, gross |-> 0, fees |-> 0, net |-> 0,
           engineNet |-> 0, closedQuantity |-> 0 ]
    BY <1>1 DEF Opened
  <2>5. PICK p : p = Opened(row)
    OBVIOUS
  <2>6. /\ p.quantity + n = n /\ p.cost + v = v /\ p.entryFees + c = c /\ p.fees + c = c
        /\ p.entryTime = f.at /\ p.entries = none /\ p.exits = none /\ p.gross = 0
        /\ p.net = 0 /\ p.engineNet = 0 /\ p.closedQuantity = 0
    BY <2>4, <2>5
  <2>7. Joined(p, row) = [ quantity |-> p.quantity + n, cost |-> p.cost + v,
          entryFees |-> p.entryFees + c, entryTime |-> p.entryTime,
          entries |-> Append(p.entries, i), exits |-> p.exits,
          gross |-> p.gross, fees |-> p.fees + c, net |-> p.net,
          engineNet |-> p.engineNet, closedQuantity |-> p.closedQuantity ]
    BY <1>1, <2>1, <2>2 DEF Joined
  <2>8. Joined(p, row) = [ quantity |-> n, cost |-> v, entryFees |-> c, entryTime |-> f.at,
          entries |-> more, exits |-> none, gross |-> 0, fees |-> c, net |-> 0,
          engineNet |-> 0, closedQuantity |-> 0 ]
    BY <2>3, <2>6, <2>7
  <2> QED
    BY <2>1, <2>2, <2>3, <2>5, <2>8 DEF First
<1>7. BookBuy(on, row) = [on EXCEPT !.open = Put(@, k, First(i, f)), !.errors = @]
  <2>1. ~Beyond(f.pnl, 0, 11 * Cent)
    BY CentFacts DEF Beyond, Off
  <2> QED
    BY <1>1, <1>5, <1>6, <2>1 DEF BookBuy
<1> QED
  BY <1>2, <1>4, <1>7 DEF k, row

Kept(b, k) == [j \in DOMAIN b.open \ {k} |-> b.open[j]]

(* The books b once the fill f has sold of p, with left as what it left.   *)
SoldBook(b, i, f, p, left) ==
  LET k == KeyOf(f.symbol) IN
  [ errors |-> b.errors \cup CloseErrors(p, left, f), seen |-> b.seen \cup {<<1, i>>},
    last |-> Put(b.last, k, f.at),
    open |-> IF left.quantity = 0 THEN Kept(b, k) ELSE Put(Kept(b, k), k, left),
    closed |-> IF left.quantity = 0
               THEN Append(b.closed, Completed(left, RowOf(i, f))) ELSE b.closed ]

(* The fill f sells of the open position p of the books b, and leaves left *)
(* of it.                                                                  *)
SellsOpen(b, i, f, p, left) ==
  /\ Admissible(b, i, f) /\ f.side = "sell"
  /\ KeyOf(f.symbol) \in DOMAIN b.open /\ p = b.open[KeyOf(f.symbol)]
  /\ p \in OpenPos /\ p.quantity # 0 /\ f.quantity <= p.quantity
  /\ left = Reduced(p, RowOf(i, f))

LEMMA SellAdmitted ==
  ASSUME NEW b, NEW i, NEW f, NEW p, NEW left, SellsOpen(b, i, f, p, left)
  PROVE  Admit(b, RowOf(i, f)) = SoldBook(b, i, f, p, left)
<1>0. /\ Admissible(b, i, f) /\ f.side = "sell"
      /\ KeyOf(f.symbol) \in DOMAIN b.open /\ p = b.open[KeyOf(f.symbol)]
      /\ p \in OpenPos /\ p.quantity # 0 /\ f.quantity <= p.quantity
      /\ left = Reduced(p, RowOf(i, f))
  BY DEF SellsOpen
<1> DEFINE row == RowOf(i, f)
           k == KeyOf(f.symbol)
           on == Stamped([b EXCEPT !.seen = @ \cup {<<1, i>>}], row)
<1>1. /\ row.fold = 1 /\ row.strategy = "candidate" /\ row.index = i /\ row.fill = f
      /\ Key(row) = k
  BY DEF RowOf, Key, KeyOf
<1>2. on = [ errors |-> b.errors, seen |-> b.seen \cup {<<1, i>>},
             last |-> Put(b.last, k, f.at), open |-> b.open, closed |-> b.closed ]
  BY <1>0, StampedRow
<1>3. Admit(b, row) = BookSell(on, row)
  <2>1. ~(<<row.fold, row.index>> \in b.seen) /\ ValidFill(row.fill)
    BY <1>0, <1>1 DEF Admissible
  <2>2. f.side # "buy" /\ p.quantity # 0 /\ ~(f.quantity > p.quantity)
    <3>1. f.quantity \in Nat /\ p.quantity \in Nat
      BY <1>0 DEF Admissible, Fill, OpenPos
    <3> QED
      BY <1>0, <3>1
  <2>3. Key(row) \in DOMAIN b.open /\ b.open[Key(row)] = p
    BY <1>0, <1>1
  <2> HIDE DEF row, k
  <2> QED
    BY <1>1, <2>1, <2>2, <2>3 DEF Admit
<1>4. on.open = b.open /\ on.open[k] = p
  BY <1>0, <1>2
<1>5. left = Reduced(p, row)
  BY <1>0
<1> HIDE DEF on, row, k
<1>6. [j \in DOMAIN on.open \ {k} |-> on.open[j]] = Kept(b, k)
  BY <1>4 DEF Kept
<1>7. BookSell(on, row)
        = [on EXCEPT !.errors = @ \cup CloseErrors(p, left, f),
             !.open = IF left.quantity = 0 THEN Kept(b, k) ELSE Put(Kept(b, k), k, left),
             !.closed = IF left.quantity = 0 THEN Append(@, Completed(left, row)) ELSE @]
  BY <1>0, <1>1, <1>4, <1>5, <1>6 DEF BookSell
<1>9. Admit(b, row) = [ errors |-> b.errors \cup CloseErrors(p, left, f),
        seen |-> b.seen \cup {<<1, i>>},
        last |-> Put(b.last, k, f.at),
        open |-> IF left.quantity = 0 THEN Kept(b, k) ELSE Put(Kept(b, k), k, left),
        closed |-> IF left.quantity = 0
                   THEN Append(b.closed, Completed(left, row)) ELSE b.closed ]
  BY <1>2, <1>3, <1>7
<1> QED
  BY <1>9 DEF k, row, SoldBook

-----------------------------------------------------------------------------
(* What a sell leaves of the books is what it leaves of the position.      *)
LEMMA ShareOfCost ==
  ASSUME NEW a \in Int, NEW q \in Nat \ {0}, NEW n \in Int
  PROVE  (Value(a, q) * n) \div q = Value(a, n)
<1>1. PICK b \in Int : b = BPS
  BY PolicyTypes
<1>2. a * n \in Int /\ (a * n) * b \in Int
  BY ProductType
<1>3. ((a * q) * b) * n = ((a * n) * b) * q
  OBVIOUS
<1>4. (((a * n) * b) * q) \div q = (a * n) * b
  BY <1>2, AllFeesGo
<1> QED
  BY <1>1, <1>3, <1>4 DEF Value

LEMMA GrossOfSell ==
  ASSUME NEW price \in Int, NEW a \in Int, NEW n \in Int
  PROVE  (price - a) * n * BPS = Value(price, n) - Value(a, n)
<1>1. PICK b \in Int : b = BPS
  BY PolicyTypes
<1>2. (price - a) * n = price * n - a * n
  OBVIOUS
<1>3. PICK v \in Int, w \in Int : v = price * n /\ w = a * n
  BY ProductType
<1>4. (v - w) * b = v * b - w * b
  OBVIOUS
<1> QED
  BY <1>1, <1>2, <1>3, <1>4 DEF Value

(* The numbers of a sell, the books' beside the engine's: of the q shares  *)
(* that a position has at the average a, with fees g and gs, n are sold at *)
(* a price for the fee c, reported as cs, which brings y, reported as ys.  *)
SellNumbers(q, n, a, price, c, cs, g, gs, h, hs, y, ys) ==
  /\ q \in Nat \ {0} /\ n \in Nat /\ n <= q
  /\ a \in Int /\ price \in Int /\ c \in Int /\ cs \in Int /\ g \in Int /\ gs \in Int
  /\ h = (g * n) \div q /\ hs = (gs * n) \div q
  /\ y = Value(price - a, n) - h - c /\ ys \in Int
  /\ Near(cs, c, Cent) /\ Near(gs, g, Cent) /\ Near(ys, y, Cent)

LEMMA TickedValue ==
  ASSUME NEW x \in Int, NEW n \in Nat
  PROVE  /\ Value(ToTick(x), n) \in Int /\ Value(x, n) \in Int
         /\ Near(Value(ToTick(x), n), Value(x, n), TickValue * n)
<1>1. PICK z \in Int : z = ToTick(x) /\ 2 * Off(z, x) <= PriceTick
  BY TickFacts
<1>2. /\ Value(z, n) \in Int /\ Value(x, n) \in Int
      /\ 2 * Off(Value(z, n), Value(x, n)) <= TickValue * n
  BY <1>1, ValueNear
<1> QED
  BY <1>1, <1>2 DEF Near

LEMMA SellDrifts ==
  ASSUME NEW q, NEW n, NEW a, NEW price, NEW c, NEW cs, NEW g, NEW gs, NEW h, NEW hs,
         NEW y, NEW ys, SellNumbers(q, n, a, price, c, cs, g, gs, h, hs, y, ys)
  PROVE  LET v == Value(ToTick(price), n)
             w == Value(ToTick(a), n)
             x == (v - w) - hs - cs
         IN  /\ v \in Int /\ w \in Int /\ h \in Int /\ hs \in Int /\ y \in Int
             /\ Near(x, ys, 2 * (TickValue * n) + 3 * Cent)
             /\ Near(x + hs, y + h, 2 * (TickValue * n) + Cent)
             /\ Near(gs - hs, g - h, Cent)
             /\ n = q => gs - hs = 0 /\ g - h = 0
<1>0. /\ q \in Nat \ {0} /\ n \in Nat /\ n \in Int /\ n <= q /\ a \in Int /\ price \in Int
      /\ c \in Int /\ cs \in Int /\ g \in Int /\ gs \in Int
      /\ h = (g * n) \div q /\ hs = (gs * n) \div q
      /\ y = Value(price - a, n) - h - c /\ ys \in Int
      /\ Near(cs, c, Cent) /\ Near(gs, g, Cent) /\ Near(ys, y, Cent)
  BY DEF SellNumbers
<1>1. PICK k \in Int : k = Cent
  BY CentFacts
<1>2. PICK t \in Int : t = TickValue * n
  BY <1>0, TickValueType
<1>3. PICK v \in Int, v1 \in Int :
        v = Value(ToTick(price), n) /\ v1 = Value(price, n) /\ Near(v, v1, t)
  BY <1>0, <1>2, TickedValue
<1>4. PICK w \in Int, w1 \in Int :
        w = Value(ToTick(a), n) /\ w1 = Value(a, n) /\ Near(w, w1, t)
  BY <1>0, <1>2, TickedValue
<1>5. Value(price - a, n) = v1 - w1
  <2>1. (price - a) * n * BPS = Value(price, n) - Value(a, n)
    BY <1>0, GrossOfSell
  <2> QED
    BY <1>3, <1>4, <2>1 DEF Value
<1>6. h \in Int /\ hs \in Int /\ Off(hs, h) <= Off(gs, g) /\ Off(gs - hs, g - h) <= Off(gs, g)
  BY <1>0, SharesNear
<1>7. Near(hs, h, k) /\ Near(gs - hs, g - h, k)
  BY <1>0, <1>1, <1>6 DEF Near, Off
<1>8. y = (v1 - w1) - h - c /\ y \in Int
  <2>1. y = (v1 - w1) - h - c
    BY <1>0, <1>5
  <2> QED
    BY <1>0, <1>3, <1>4, <1>6, <2>1
<1>9. Near(((v - w) - hs - cs) + hs, y + h, 2 * t + k)
  <2>1. Near(v - w, v1 - w1, t + t)
    BY <1>2, <1>3, <1>4, NearSums
  <2>2. Near((v - w) - cs, (v1 - w1) - c, (t + t) + k)
    <3>1. PICK r \in Int, r1 \in Int : r = v - w /\ r1 = v1 - w1
      BY <1>3, <1>4
    <3>2. Near(r, r1, t + t) /\ Near(cs, c, k)
      BY <1>0, <1>1, <2>1, <3>1
    <3>3. Near(r - cs, r1 - c, (t + t) + k)
      BY <1>0, <1>1, <1>2, <3>1, <3>2, NearSums
    <3> QED
      BY <3>1, <3>3
  <2>3. /\ ((v - w) - hs - cs) + hs = (v - w) - cs /\ y + h = (v1 - w1) - c
        /\ 2 * t + k = (t + t) + k
    BY <1>0, <1>1, <1>2, <1>3, <1>4, <1>6, <1>8
  <2> QED
    BY <2>2, <2>3
<1>10. Near((v - w) - hs - cs, ys, 2 * t + 3 * k)
  <2> PICK x \in Int : x = (v - w) - hs - cs
    BY <1>0, <1>3, <1>4, <1>6
  <2>1. Near((x + hs) - hs, (y + h) - h, (2 * t + k) + k)
    <3>1. PICK r \in Int, r1 \in Int, d \in Int : r = x + hs /\ r1 = y + h /\ d = 2 * t + k
      BY <1>1, <1>2, <1>6, <1>8
    <3>2. Near(r, r1, d) /\ Near(hs, h, k)
      BY <1>7, <1>9, <3>1
    <3>3. Near(r - hs, r1 - h, d + k)
      BY <1>1, <1>6, <3>1, <3>2, NearSums
    <3> QED
      BY <3>1, <3>3
  <2>2. (x + hs) - hs = x /\ (y + h) - h = y
    BY <1>6, <1>8
  <2>3. Near(x, y, 2 * t + 2 * k)
    BY <1>1, <1>2, <2>1, <2>2
  <2>4. Near(y, ys, k)
    BY <1>0, <1>1, <1>8, NearBack
  <2>5. Near(x, ys, (2 * t + 2 * k) + k)
    <3>1. PICK d \in Int : d = 2 * t + 2 * k
      BY <1>1, <1>2
    <3>2. Near(x, y, d)
      BY <2>3, <3>1
    <3>3. Near(x, ys, d + k)
      BY <1>0, <1>1, <1>8, <2>4, <3>1, <3>2, NearChain
    <3> QED
      BY <3>1, <3>3
  <2> QED
    BY <1>1, <1>2, <2>5
<1>11. n = q => gs - hs = 0 /\ g - h = 0
  BY <1>0, AllFeesGo
<1> QED
  BY <1>1, <1>2, <1>3, <1>4, <1>6, <1>7, <1>8, <1>9, <1>10, <1>11

(* A sell of n shares off the open position p of the books takes x from    *)
(* its net profit and fees hs, off the engine's y and h, and reports ys.   *)
SellsNear(p, e, at, n, x, y, ys, h, hs) ==
  /\ Mirrors(p, e, at) /\ e.pnl \in Int /\ e.fees \in Int
  /\ x \in Int /\ y \in Int /\ ys \in Int /\ h \in Int /\ hs \in Int /\ n \in Nat
  /\ Near(x + hs, y + h, 2 * (TickValue * n) + Cent) /\ Near(ys, y, Cent) /\ InCents(ys)

LEMMA SoldStaysNear ==
  ASSUME NEW p, NEW e, NEW at, NEW n, NEW x, NEW y, NEW ys, NEW h, NEW hs,
         SellsNear(p, e, at, n, x, y, ys, h, hs)
  PROVE  LET k == Len(p.exits) + 1 IN
         /\ Near((p.net + x) - (p.entryFees - hs), (e.pnl + y) - (e.fees - h),
                 Drift(p.closedQuantity + n, k + 1))
         /\ Near(p.engineNet + ys, e.pnl + y, Cent * k)
         /\ InCents(p.engineNet + ys)
<1>0. /\ Mirrors(p, e, at) /\ e.pnl \in Int /\ e.fees \in Int
      /\ x \in Int /\ y \in Int /\ ys \in Int /\ h \in Int /\ hs \in Int /\ n \in Nat
      /\ Near(x + hs, y + h, 2 * (TickValue * n) + Cent) /\ Near(ys, y, Cent) /\ InCents(ys)
  BY DEF SellsNear
<1>1. PICK net, g, en, q : /\ net = p.net /\ g = p.entryFees /\ en = p.engineNet
                           /\ q = p.closedQuantity
                           /\ net \in Int /\ g \in Int /\ en \in Int /\ q \in Nat
  BY <1>0 DEF Mirrors, OpenPos
<1>2. PICK k \in Nat : k = Len(p.exits)
  BY <1>0, LenProperties DEF Mirrors, OpenPos
<1>3. PICK pnl \in Int, fees \in Int : pnl = e.pnl /\ fees = e.fees
  BY <1>0
<1>4. PICK c \in Int, t \in Int : c = Cent /\ t = TickValue * n
  BY <1>0, CentFacts, TickValueType
<1>5. PICK m \in Nat : m = k + 1
  BY <1>2
<1>6. PICK d \in Int : d = Drift(q, m) /\ Drift(q + n, m + 1) = d + (2 * t + c)
  <2>1. PICK v \in Nat : v = TickValue
    BY TickValueType
  <2>2. v * (q + n) = v * q + v * n /\ v * n \in Nat /\ v * q \in Nat
    BY <1>0, <1>1, ProductType
  <2>3. c * (m + 1) = c * m + c /\ c * m \in Int
    BY <1>4, ProductType
  <2>4. PICK a \in Int, b \in Int : a = v * q /\ b = c * m
    BY <2>2, <2>3
  <2>5. Drift(q, m) = 2 * a + b /\ Drift(q + n, m + 1) = 2 * (a + t) + (b + c)
    BY <1>4, <2>1, <2>2, <2>3, <2>4 DEF Drift
  <2> QED
    BY <2>4, <2>5
<1>7. Near(net - g, pnl - fees, d) /\ Near(en, pnl, Cent * k) /\ InCents(en)
  BY <1>0, <1>1, <1>2, <1>3, <1>5, <1>6 DEF Mirrors
<1>8. Near((net - g) + (x + hs), (pnl - fees) + (y + h), d + (2 * t + c))
  <2>1. PICK r, r1, z, z1, b : /\ r = net - g /\ r1 = pnl - fees /\ z = x + hs /\ z1 = y + h
                               /\ b = 2 * t + c /\ r \in Int /\ r1 \in Int /\ z \in Int
                               /\ z1 \in Int /\ b \in Int
    BY <1>0, <1>1, <1>3, <1>4
  <2>2. Near(r, r1, d) /\ Near(z, z1, b)
    BY <1>0, <1>4, <1>7, <2>1
  <2>3. Near(r + z, r1 + z1, d + b)
    BY <1>6, <2>1, <2>2, NearSums
  <2> QED
    BY <2>1, <2>3
<1>9. /\ (net - g) + (x + hs) = (net + x) - (g - hs)
      /\ (pnl - fees) + (y + h) = (pnl + y) - (fees - h)
  BY <1>0, <1>1, <1>3
<1>10. Near(en + ys, pnl + y, Cent * (k + 1))
  BY <1>0, <1>1, <1>2, <1>3, <1>7, OneMoreOff DEF Near
<1>11. InCents(en + ys)
  BY <1>0, <1>1, <1>7, CentsStay
<1> QED
  BY <1>1, <1>2, <1>3, <1>5, <1>6, <1>8, <1>9, <1>10, <1>11

(* The sell f of the position e, for what is exactly a price, a fee and a  *)
(* profit, and of whose fees it takes the given share.                     *)
SellOf(e, f, price, fee, pnl, share) ==
  /\ f \in Fill /\ f.side = "sell" /\ 0 < f.quantity /\ f.quantity <= e.quantity /\ f.fees >= 0
  /\ price \in Int /\ fee \in Int /\ pnl \in Int /\ share \in Int
  /\ f.price = ToTick(price) /\ f.fees = ToCent(fee) /\ f.pnl = ToCent(pnl)
  /\ share = (e.fees * f.quantity) \div e.quantity
  /\ pnl = Value(price - e.average, f.quantity) - share - fee

LeftOf(e, f, pnl, share) ==
  [ quantity |-> e.quantity - f.quantity, average |-> e.average, fees |-> e.fees - share,
    pnl |-> e.pnl + pnl ]

(* What the sell f leaves of the open book p of the position e.            *)
LeftBy(left, p, e, at, f, pnl, share) ==
  /\ Mirrors(left, LeftOf(e, f, pnl, share), at)
  /\ left.quantity = e.quantity - f.quantity
  /\ left.closedQuantity = p.closedQuantity + f.quantity
  /\ Len(left.exits) = Len(p.exits) + 1 /\ left.engineNet = p.engineNet + f.pnl
  /\ Near(left.net - p.net, f.pnl, 2 * (TickValue * f.quantity) + 3 * Cent)
  /\ f.quantity = e.quantity => left.entryFees = 0 /\ e.fees - share = 0

LEMMA SellAddsUp ==
  ASSUME NEW v \in Int, NEW w \in Int, NEW h \in Int, NEW c \in Int, NEW g \in Int,
         NEW gross \in Int, NEW fees \in Int, NEW net \in Int, gross - fees + g = net
  PROVE  /\ net + (v - w) - h - c = net + ((v - w) - h - c)
         /\ (gross + (v - w)) - (fees + c) + (g - h) = net + (v - w) - h - c
OBVIOUS

LEMMA ReducedFacts ==
  ASSUME NEW e \in Position, NEW p, NEW at \in Nat, Mirrors(p, e, at),
         NEW i \in Nat, NEW f, NEW price, NEW fee, NEW pnl, NEW share,
         SellOf(e, f, price, fee, pnl, share)
  PROVE  LeftBy(Reduced(p, RowOf(i, f)), p, e, at, f, pnl, share)
<1> DEFINE row == RowOf(i, f)
           left == Reduced(p, row)
           rest == LeftOf(e, f, pnl, share)
           v == Value(f.price, f.quantity)
           w == Value(ToTick(e.average), f.quantity)
           hs == (p.entryFees * f.quantity) \div p.quantity
           x == (v - w) - hs - f.fees
<1>1. /\ e.quantity \in Nat /\ e.average \in Int /\ e.fees \in Int /\ e.pnl \in Int
      /\ f.quantity \in Nat /\ f.price \in Int /\ f.fees \in Int /\ f.pnl \in Int
  BY DEF Position, Fill, SellOf
<1>2. /\ e.quantity \in Nat \ {0} /\ 0 < f.quantity /\ f.quantity <= e.quantity
      /\ f.fees >= 0 /\ price \in Int /\ fee \in Int /\ pnl \in Int /\ share \in Int
      /\ f.price = ToTick(price) /\ f.fees = ToCent(fee) /\ f.pnl = ToCent(pnl)
      /\ share = (e.fees * f.quantity) \div e.quantity
      /\ pnl = Value(price - e.average, f.quantity) - share - fee
  BY <1>1 DEF SellOf
<1>3. /\ p.quantity = e.quantity /\ p.cost = Value(ToTick(e.average), e.quantity)
      /\ p.gross - p.fees + p.entryFees = p.net /\ p.entryTime <= at
      /\ p.fees >= 0 /\ p \in OpenPos /\ Near(p.entryFees, e.fees, Cent)
  BY DEF Mirrors
<1>4. /\ p.entryTime \in Nat /\ p.entries \in Seq(Nat) /\ p.exits \in Seq(Nat)
      /\ p.gross \in Int /\ p.fees \in Int /\ p.closedQuantity \in Nat /\ p.cost \in Int
      /\ p.net \in Int /\ p.entryFees \in Int /\ p.engineNet \in Int
  BY <1>3 DEF OpenPos
<1>5. ToTick(e.average) \in Int
  BY <1>1, TickFacts
<1> HIDE DEF v, w, hs, x, rest
<1>6. /\ v \in Int /\ w \in Int /\ hs \in Int
      /\ Near(x, f.pnl, 2 * (TickValue * f.quantity) + 3 * Cent)
      /\ Near(x + hs, pnl + share, 2 * (TickValue * f.quantity) + Cent)
      /\ Near(p.entryFees - hs, e.fees - share, Cent)
      /\ f.quantity = e.quantity => p.entryFees - hs = 0 /\ e.fees - share = 0
  <2>1. Near(f.fees, fee, Cent) /\ Near(f.pnl, pnl, Cent)
    BY <1>2, CentFacts DEF Near
  <2>2. hs = (p.entryFees * f.quantity) \div e.quantity
    BY <1>3 DEF hs
  <2>3. SellNumbers(e.quantity, f.quantity, e.average, price, fee, f.fees, e.fees, p.entryFees,
                    share, hs, pnl, f.pnl)
    BY <1>1, <1>2, <1>3, <1>4, <2>1, <2>2 DEF SellNumbers
  <2>4. v = Value(ToTick(price), f.quantity)
    BY <1>2 DEF v
  <2> QED
    BY <2>3, <2>4, SellDrifts DEF w, x
<1>7. row.fill = f /\ row.index = i
  BY DEF RowOf
<1> PICK more : more = Append(p.exits, i)
  OBVIOUS
<1>8. left = [ quantity |-> p.quantity - f.quantity, cost |-> p.cost - w,
        entryFees |-> p.entryFees - hs, entryTime |-> p.entryTime,
        entries |-> p.entries, exits |-> more,
        gross |-> p.gross + (v - w), fees |-> p.fees + f.fees,
        net |-> p.net + (v - w) - hs - f.fees,
        engineNet |-> p.engineNet + f.pnl, closedQuantity |-> p.closedQuantity + f.quantity ]
  <2>1. (p.cost * f.quantity) \div p.quantity = w
    BY <1>1, <1>2, <1>3, <1>5, ShareOfCost DEF w
  <2> HIDE DEF row
  <2> QED
    BY <1>7, <2>1 DEF Reduced, v, hs
<1>9. more \in Seq(Nat) /\ Len(more) = Len(p.exits) + 1
  BY <1>4, AppendProperties
<1> HIDE DEF left
<1>10. x \in Int
  BY <1>1, <1>6 DEF x
<1>11. /\ left.quantity = e.quantity - f.quantity
       /\ left.cost = Value(ToTick(e.average), e.quantity) - w
       /\ left.entryFees = p.entryFees - hs /\ left.entryTime = p.entryTime
       /\ left.entries = p.entries /\ left.exits = more
       /\ left.gross = p.gross + (v - w) /\ left.fees = p.fees + f.fees
       /\ left.net = p.net + (v - w) - hs - f.fees /\ left.engineNet = p.engineNet + f.pnl
       /\ left.closedQuantity = p.closedQuantity + f.quantity
  BY <1>3, <1>8
<1>12. left.net = p.net + x
  <2>1. PICK a, b, c, d, h : /\ a = p.net /\ b = v /\ c = w /\ d = f.fees /\ h = hs
                             /\ a \in Int /\ b \in Int /\ c \in Int /\ d \in Int /\ h \in Int
    BY <1>1, <1>4, <1>6
  <2>2. x = (b - c) - h - d /\ left.net = a + (b - c) - h - d
    BY <1>11, <2>1 DEF x
  <2>3. a + (b - c) - h - d = a + ((b - c) - h - d)
    BY <2>1
  <2> QED
    BY <2>1, <2>2, <2>3
<1>13. left.cost = Value(ToTick(e.average), e.quantity - f.quantity)
  <2>1. PICK b \in Int, a \in Int : b = BPS /\ a = ToTick(e.average)
    BY <1>5, PolicyTypes
  <2>2. PICK n \in Int, m \in Int : n = e.quantity /\ m = f.quantity
    BY <1>1
  <2>3. (a * n) * b - (a * m) * b = (a * (n - m)) * b
    OBVIOUS
  <2> QED
    BY <1>11, <2>1, <2>2, <2>3 DEF Value, w
<1>14. left.gross - left.fees + left.entryFees = left.net
  <2>1. PICK a, b, c, d : /\ a = p.gross /\ b = p.fees /\ c = p.entryFees /\ d = p.net
                          /\ a \in Int /\ b \in Int /\ c \in Int /\ d \in Int
    BY <1>4
  <2>2. PICK k, l, g, h : /\ k = v /\ l = w /\ g = f.fees /\ h = hs
                          /\ k \in Int /\ l \in Int /\ g \in Int /\ h \in Int
    BY <1>1, <1>6
  <2>4. /\ left.gross = a + (k - l) /\ left.fees = b + g /\ left.entryFees = c - h
        /\ left.net = d + (k - l) - h - g
    BY <1>11, <2>1, <2>2
  <2>5. (a + (k - l)) - (b + g) + (c - h) = d + (k - l) - h - g
    <3>1. a - b + c = d
      BY <1>3, <2>1
    <3>2. /\ a \in Int /\ b \in Int /\ c \in Int /\ d \in Int
          /\ k \in Int /\ l \in Int /\ g \in Int /\ h \in Int
      BY <2>1, <2>2
    <3> QED
      BY <3>1, <3>2, SellAddsUp
  <2> QED
    BY <2>4, <2>5
<1>15. left.fees >= 0 /\ left.closedQuantity \in Nat /\ left.quantity \in Nat
  <2>1. PICK a, b, c, d : /\ a = p.fees /\ b = f.fees /\ c = p.closedQuantity /\ d = f.quantity
                          /\ a \in Nat /\ b \in Nat /\ c \in Nat /\ d \in Nat
    <3>1. p.fees \in Nat /\ f.fees \in Nat
      BY <1>1, <1>2, <1>3, <1>4
    <3> QED
      BY <1>1, <1>4, <3>1
  <2>2. left.fees = a + b /\ left.closedQuantity = c + d
    BY <1>11, <2>1
  <2>3. left.fees >= 0 /\ left.closedQuantity \in Nat
    BY <2>1, <2>2
  <2>4. left.quantity \in Nat
    BY <1>1, <1>2, <1>11
  <2> QED
    BY <2>3, <2>4
<1>16. left \in OpenPos
  <2>1. /\ left.entryTime \in Nat /\ left.entries \in Seq(Nat) /\ left.exits \in Seq(Nat)
    BY <1>4, <1>9, <1>11
  <2>2. left.cost \in Int /\ left.entryFees \in Int
    <3>1. PICK a, b, c, d : /\ a = p.cost /\ b = w /\ c = p.entryFees /\ d = hs
                            /\ a \in Int /\ b \in Int /\ c \in Int /\ d \in Int
      BY <1>4, <1>6
    <3>2. left.cost = a - b /\ left.entryFees = c - d
      BY <1>3, <1>11, <3>1
    <3> QED
      BY <3>1, <3>2
  <2>3. /\ left.gross \in Int /\ left.fees \in Int /\ left.net \in Int /\ left.engineNet \in Int
    <3>1. PICK a, b, c, d, g, h : /\ a = p.gross /\ b = p.fees /\ c = p.net /\ d = f.fees
                            /\ g = p.engineNet /\ h = f.pnl
                            /\ a \in Int /\ b \in Int /\ c \in Int /\ d \in Int
                            /\ g \in Int /\ h \in Int
      BY <1>1, <1>4
    <3>2. PICK k, l, y : k = v /\ l = w /\ y = x /\ k \in Int /\ l \in Int /\ y \in Int
      BY <1>6, <1>10
    <3>3. left.gross = a + (k - l) /\ left.fees = b + d /\ left.net = c + y
          /\ left.engineNet = g + h
      BY <1>11, <1>12, <3>1, <3>2
    <3>4. a + (k - l) \in Int /\ b + d \in Int /\ c + y \in Int /\ g + h \in Int
      <4>1. /\ a \in Int /\ b \in Int /\ c \in Int /\ d \in Int /\ g \in Int /\ h \in Int
            /\ k \in Int /\ l \in Int /\ y \in Int
        BY <3>1, <3>2
      <4> QED
        BY <4>1
    <3> QED
      BY <3>3, <3>4
  <2>4. left = [ quantity |-> left.quantity, cost |-> left.cost, entryFees |-> left.entryFees,
          entryTime |-> left.entryTime, entries |-> left.entries, exits |-> left.exits,
          gross |-> left.gross, fees |-> left.fees, net |-> left.net,
          engineNet |-> left.engineNet, closedQuantity |-> left.closedQuantity ]
    BY <1>8
  <2> QED
    BY <1>15, <2>1, <2>2, <2>3, <2>4 DEF OpenPos
<1>17. /\ Near((p.net + x) - (p.entryFees - hs), (e.pnl + pnl) - (e.fees - share),
               Drift(p.closedQuantity + f.quantity, Len(p.exits) + 1 + 1))
       /\ Near(p.engineNet + f.pnl, e.pnl + pnl, Cent * (Len(p.exits) + 1))
       /\ InCents(p.engineNet + f.pnl)
  <2>1. Near(f.pnl, pnl, Cent) /\ InCents(f.pnl)
    BY <1>2, CentFacts, CentsStay DEF Near
  <2> QED
    <3>1. SellsNear(p, e, at, f.quantity, x, pnl, f.pnl, share, hs)
      BY <1>1, <1>2, <1>6, <1>10, <2>1 DEF SellsNear
    <3> QED
      BY <3>1, SoldStaysNear
<1>18. /\ rest.quantity = e.quantity - f.quantity /\ rest.average = e.average
       /\ rest.fees = e.fees - share /\ rest.pnl = e.pnl + pnl
  BY DEF rest, LeftOf
<1>19. Mirrors(left, rest, at)
  <2>1. /\ left.quantity = rest.quantity
        /\ left.cost = Value(ToTick(rest.average), rest.quantity)
        /\ left.entryTime <= at
    BY <1>3, <1>11, <1>13, <1>18
  <2>2. Near(left.entryFees, rest.fees, Cent)
    BY <1>6, <1>11, <1>18
  <2>3. Near(left.net - left.entryFees, rest.pnl - rest.fees,
             Drift(left.closedQuantity, Len(left.exits) + 1))
    BY <1>9, <1>11, <1>12, <1>17, <1>18
  <2>4. Near(left.engineNet, rest.pnl, Cent * Len(left.exits)) /\ InCents(left.engineNet)
    BY <1>9, <1>11, <1>17, <1>18
  <2> QED
    BY <1>14, <1>15, <1>16, <2>1, <2>2, <2>3, <2>4 DEF Mirrors
<1>20. left.net - p.net = x
  <2>1. PICK a \in Int, b \in Int : a = p.net /\ b = x
    BY <1>4, <1>10
  <2>2. left.net = a + b
    BY <1>12, <2>1
  <2> QED
    BY <2>1, <2>2
<1>21. LeftBy(left, p, e, at, f, pnl, share)
  BY <1>6, <1>9, <1>11, <1>19, <1>20 DEF LeftBy, rest
<1> QED
  BY <1>21 DEF left

ToldWhenClosed(e, f, pnl) ==
  /\ f.closed = (f.quantity = e.quantity)
  /\ f.closed => f.roundTrip = ToCent(e.pnl + pnl)

(* An open position that phase 10 will not refuse for its roundings.       *)
Absorbed(p) == Len(p.exits) <= 2 /\ 4 * TickValue * p.closedQuantity <= 15 * Cent

(* Once nothing is left of a position, its profit by the books and by the  *)
(* fills are near each other.                                              *)
LEMMA ClosedNear ==
  ASSUME NEW e \in Position, NEW p, NEW at, NEW left, NEW f, NEW price, NEW fee, NEW pnl,
         NEW share, SellOf(e, f, price, fee, pnl, share), p \in OpenPos,
         LeftBy(left, p, e, at, f, pnl, share)
  PROVE  LET k == Len(left.exits)
             q == left.closedQuantity
         IN  /\ k \in Nat /\ k >= 1 /\ q \in Nat /\ f.quantity \in Nat /\ f.quantity <= q
             /\ q > 0 /\ left.net \in Int /\ left.engineNet \in Int /\ e.pnl + pnl \in Int
             /\ Near(left.engineNet, e.pnl + pnl, Cent * k)
             /\ f.quantity = e.quantity
                  => /\ Near(left.net, left.engineNet, Drift(q, 2 * k + 1))
                     /\ left.gross - left.fees = left.net
<1>1. /\ left \in OpenPos /\ left.quantity = e.quantity - f.quantity
      /\ left.closedQuantity = p.closedQuantity + f.quantity
      /\ Len(left.exits) = Len(p.exits) + 1
      /\ left.gross - left.fees + left.entryFees = left.net
      /\ Near(left.net - left.entryFees, (e.pnl + pnl) - (e.fees - share),
              Drift(left.closedQuantity, Len(left.exits) + 1))
      /\ Near(left.engineNet, e.pnl + pnl, Cent * Len(left.exits))
      /\ f.quantity = e.quantity => left.entryFees = 0 /\ e.fees - share = 0
  BY DEF LeftBy, Mirrors, LeftOf
<1>2. PICK k \in Nat, k0 \in Nat : k = Len(left.exits) /\ k0 = Len(p.exits)
  BY <1>1, LenProperties DEF OpenPos
<1>3. PICK q \in Nat, q0 \in Nat, n \in Nat :
        q = left.closedQuantity /\ q0 = p.closedQuantity /\ n = f.quantity
  BY <1>1 DEF OpenPos, SellOf, Fill
<1>4. k >= 1 /\ n <= q /\ q > 0
  <2>1. k = k0 + 1 /\ q = q0 + n /\ 0 < n
    BY <1>1, <1>2, <1>3 DEF SellOf
  <2> QED
    BY <2>1
<1>5. PICK net, en, g, gross, fees :
        /\ net = left.net /\ en = left.engineNet /\ g = left.entryFees
        /\ gross = left.gross /\ fees = left.fees
        /\ net \in Int /\ en \in Int /\ g \in Int /\ gross \in Int /\ fees \in Int
  BY <1>1 DEF OpenPos
<1>6. PICK y \in Int : y = e.pnl + pnl
  BY DEF SellOf, Position
<1>7. PICK h \in Int : h = e.fees - share
  BY DEF SellOf, Position
<1>8. ASSUME f.quantity = e.quantity
      PROVE  Near(net, en, Drift(q, 2 * k + 1)) /\ gross - fees = net
  <2>1. g = 0 /\ h = 0
    BY <1>1, <1>5, <1>7, <1>8
  <2>2. gross - fees + g = net /\ Near(net - g, y - h, Drift(q, k + 1)) /\ Near(en, y, Cent * k)
    BY <1>1, <1>2, <1>3, <1>5, <1>6, <1>7
  <2>3. PICK c \in Nat, t \in Nat : c = Cent * k /\ t = TickValue * q
    BY <1>2, <1>3, RoundingAssumption, TickValueType, ProductType
  <2>4. PICK c1 \in Nat : c1 = Cent
    BY RoundingAssumption
  <2>5. c1 * (k + 1) = c1 * k + c1 /\ c1 * (2 * k + 1) = 2 * (c1 * k) + c1
    OBVIOUS
  <2>6. Drift(q, k + 1) = 2 * t + (c + c1) /\ Drift(q, 2 * k + 1) = 2 * t + (2 * c + c1)
    BY <2>3, <2>4, <2>5 DEF Drift
  <2>7. gross - fees + 0 = net /\ Near(net - 0, y - 0, 2 * t + (c + c1)) /\ Near(en, y, c)
    BY <2>1, <2>2, <2>3, <2>6
  <2>8. gross - fees = net /\ Near(net, en, 2 * t + (2 * c + c1))
    BY <1>5, <2>7 DEF Near, Off
  <2> QED
    BY <2>6, <2>8
<1> QED
  BY <1>1, <1>2, <1>3, <1>4, <1>5, <1>6, <1>8

LEMMA ClosesWell ==
  ASSUME NEW e \in Position, NEW p, NEW at \in Nat, Mirrors(p, e, at),
         NEW i \in Nat, NEW f, NEW price, NEW fee, NEW pnl, NEW share,
         SellOf(e, f, price, fee, pnl, share), ToldWhenClosed(e, f, pnl)
  PROVE  LET left == Reduced(p, RowOf(i, f))
             errs == CloseErrors(p, left, f)
         IN  /\ errs \subseteq Residuals /\ (Absorbed(left) => errs = {})
             /\ f.closed = (left.quantity = 0)
             /\ f.closed /\ "round_trip_realized_pnl_mismatch" \notin errs
                  => ~Beyond(f.roundTrip, left.engineNet, 15 * Cent)
<1> DEFINE left == Reduced(p, RowOf(i, f))
           errs == CloseErrors(p, left, f)
<1>0. LeftBy(left, p, e, at, f, pnl, share)
  BY ReducedFacts
<1> HIDE DEF left
<1>1. /\ left.quantity = e.quantity - f.quantity
      /\ Near(left.net - p.net, f.pnl, 2 * (TickValue * f.quantity) + 3 * Cent)
  BY <1>0 DEF LeftBy
<1>2. /\ e.quantity \in Nat /\ f.quantity \in Nat /\ f.pnl \in Int /\ p.net \in Int
      /\ p \in OpenPos
  BY DEF Mirrors, OpenPos, SellOf, Position, Fill
<1>3. PICK k \in Nat, q \in Nat, n \in Nat :
        k = Len(left.exits) /\ q = left.closedQuantity /\ n = f.quantity
  BY <1>0, <1>2, ClosedNear
<1>4. PICK net \in Int, en \in Int, y \in Int :
        net = left.net /\ en = left.engineNet /\ y = e.pnl + pnl
  BY <1>0, <1>2, ClosedNear
<1>5. /\ k >= 1 /\ n <= q /\ Near(en, y, Cent * k)
      /\ f.quantity = e.quantity => Near(net, en, Drift(q, 2 * k + 1))
  BY <1>0, <1>2, <1>3, <1>4, ClosedNear
<1>6. f.closed = (left.quantity = 0) /\ (f.quantity = e.quantity <=> left.quantity = 0)
  BY <1>1, <1>2 DEF ToldWhenClosed
<1>7. f.closed => f.roundTrip = ToCent(y)
  BY <1>4 DEF ToldWhenClosed
<1>8. PICK c \in Nat \ {0}, t \in Nat : c = Cent /\ t = TickValue
  BY RoundingAssumption, TickValueType
<1>9. PICK tn \in Nat, tq \in Nat, ck \in Nat : tn = t * n /\ tq = t * q /\ ck = c * k
  BY ProductType
<1>10. tn <= tq /\ c <= ck /\ (k <= 2 => ck <= 2 * c)
  <2>1. n * t <= q * t /\ 1 * c <= k * c /\ (k <= 2 => k * c <= 2 * c)
    BY <1>5, <1>8, TimesMonotone
  <2> QED
    BY <1>9, <2>1
<1>11. Absorbed(left) => k <= 2 /\ 4 * tq <= 15 * c
  BY <1>3, <1>8, <1>9, ResidualIs DEF Absorbed
<1>12. /\ Residual(1, n) = 30 * c + 6 * tn /\ Residual(k, q) = 30 * ck + 6 * tq
       /\ Drift(q, 2 * k + 1) = 2 * tq + (2 * ck + c)
  <2>1. c * (2 * k + 1) = 2 * (c * k) + c /\ c * 1 = c
    OBVIOUS
  <2> QED
    BY <1>8, <1>9, <2>1, ResidualIs DEF Drift
<1>13. Absorbed(left) => ~Beyond(left.net - p.net, f.pnl, Residual(1, f.quantity))
  <2>1. PICK a \in Int, b \in Int : a = left.net - p.net /\ b = f.pnl
    BY <1>2, <1>4
  <2>2. Near(a, b, 2 * tn + 3 * c)
    BY <1>1, <1>3, <1>8, <1>9, <2>1
  <2>3. 4 * tq <= 15 * c => ~Beyond(a, b, 30 * c + 6 * tn)
    BY <1>10, <2>2 DEF Near, Beyond, Off
  <2> QED
    BY <1>3, <1>11, <1>12, <2>1, <2>3
<1>14. Absorbed(left) /\ left.quantity = 0 => ~Beyond(f.roundTrip, left.engineNet, 15 * Cent)
  <2>1. PICK r \in Int : r = ToCent(y) /\ Near(r, y, c)
    BY <1>8, CentFacts DEF Near
  <2>2. Near(en, y, ck)
    BY <1>5, <1>8, <1>9
  <2>3. k <= 2 => ~Beyond(r, en, 15 * c)
    BY <1>10, <2>1, <2>2 DEF Near, Beyond, Off
  <2> QED
    BY <1>4, <1>6, <1>7, <1>8, <1>11, <2>1, <2>3
<1>15. Absorbed(left) /\ left.quantity = 0
         => ~Beyond(left.net, left.engineNet, Residual(Len(left.exits), left.closedQuantity))
  <2>1. left.quantity = 0 => Near(net, en, 2 * tq + (2 * ck + c))
    BY <1>5, <1>6, <1>12
  <2>2. Near(net, en, 2 * tq + (2 * ck + c)) /\ 4 * tq <= 15 * c
          => ~Beyond(net, en, 30 * ck + 6 * tq)
    BY <1>10 DEF Near, Beyond, Off
  <2> QED
    BY <1>3, <1>4, <1>11, <1>12, <2>1, <2>2
<1>16. errs \subseteq Residuals
  BY <1>6 DEF CloseErrors, Residuals
<1>17. Absorbed(left) => errs = {}
  BY <1>6, <1>13, <1>14, <1>15 DEF CloseErrors
<1>18. f.closed /\ "round_trip_realized_pnl_mismatch" \notin errs
         => ~Beyond(f.roundTrip, left.engineNet, 15 * Cent)
  BY <1>6 DEF CloseErrors
<1> QED
  BY <1>6, <1>16, <1>17, <1>18 DEF left

LEMMA CompletedIsSound ==
  ASSUME NEW e \in Position, NEW p, NEW at \in Nat, Mirrors(p, e, at),
         NEW i \in Nat, NEW f, NEW price, NEW fee, NEW pnl, NEW share,
         SellOf(e, f, price, fee, pnl, share), f.quantity = e.quantity, at <= f.at
  PROVE  LET left == Reduced(p, RowOf(i, f))
             r == Completed(left, RowOf(i, f)) IN
         /\ SoundRow(r) /\ r.engineNet = p.engineNet + f.pnl
         /\ r.exits = left.exits /\ r.quantity = left.closedQuantity
<1> DEFINE left == Reduced(p, RowOf(i, f))
           r == Completed(left, RowOf(i, f))
<1>0. LeftBy(left, p, e, at, f, pnl, share)
  BY ReducedFacts
<1>01. left.entryTime = p.entryTime
  BY DEF Reduced
<1> HIDE DEF left
<1>1. p \in OpenPos /\ p.entryTime <= at
  BY DEF Mirrors
<1>2. /\ left \in OpenPos /\ left.engineNet = p.engineNet + f.pnl /\ left.fees >= 0
      /\ InCents(left.engineNet)
  BY <1>0 DEF LeftBy, Mirrors
<1>3. p.entryTime \in Nat /\ f.at \in Nat /\ f.symbol \in Symbols
  BY <1>1 DEF OpenPos, SellOf, Fill
<1>4. p.entryTime <= f.at
  BY <1>1, <1>3
<1>5. /\ left.entryTime \in Nat /\ left.entries \in Seq(Nat) /\ left.exits \in Seq(Nat)
      /\ left.gross \in Int /\ left.fees \in Int /\ left.net \in Int /\ left.engineNet \in Int
      /\ left.closedQuantity \in Nat
  BY <1>2 DEF OpenPos
<1>6. r = [ fold |-> 1, strategy |-> "candidate", symbol |-> f.symbol,
            entryTime |-> left.entryTime, exitTime |-> f.at,
            entries |-> left.entries, exits |-> left.exits, quantity |-> left.closedQuantity,
            gross |-> ToCent(left.gross), fees |-> ToCent(left.fees),
            net |-> ToCent(left.net), engineNet |-> ToCent(left.engineNet) ]
  BY DEF Completed, RowOf
<1> HIDE DEF r
<1>7. /\ ToCent(left.gross) \in Int /\ ToCent(left.fees) \in Int /\ ToCent(left.net) \in Int
      /\ ToCent(left.engineNet) = left.engineNet /\ ToCent(left.fees) >= 0
      /\ Near(ToCent(left.gross), left.gross, Cent) /\ Near(ToCent(left.fees), left.fees, Cent)
      /\ Near(ToCent(left.net), left.net, Cent)
  BY <1>2, <1>5, CentFacts, CentsStay DEF Near
<1>8. r \in ClosedPos
  BY <1>3, <1>5, <1>6, <1>7 DEF ClosedPos
<1>9. PICK k \in Nat, q \in Nat : k = Len(left.exits) /\ q = left.closedQuantity
  BY <1>0, <1>1, ClosedNear
<1>10. PICK net, en, gross, fees :
         /\ net = left.net /\ en = left.engineNet /\ gross = left.gross /\ fees = left.fees
         /\ net \in Int /\ en \in Int /\ gross \in Int /\ fees \in Int
  BY <1>5
<1>11. Near(net, en, Drift(q, 2 * k + 1)) /\ gross - fees = net /\ q > 0
  BY <1>0, <1>1, <1>9, <1>10, ClosedNear
<1>12. PICK net1 \in Int, gross1 \in Int, fees1 \in Int :
         net1 = ToCent(net) /\ gross1 = ToCent(gross) /\ fees1 = ToCent(fees)
  BY <1>10, CentFacts
<1>13. PICK c \in Int : c = Cent
  BY CentFacts
<1>14. Near(net1, net, c) /\ Near(gross1, gross, c) /\ Near(fees1, fees, c)
  BY <1>7, <1>10, <1>12, <1>13
<1>15. Near(gross1 - fees1, net1, 3 * c)
  BY <1>10, <1>11, <1>14 DEF Near, Off
<1>16. Near(net1, en, Drift(q, 2 * (k + 1)))
  <2>1. c * (2 * k + 1) + c = c * (2 * (k + 1))
    OBVIOUS
  <2>2. PICK d \in Int, t \in Int : d = c * (2 * k + 1) /\ t = TickValue * q
    BY TickValueType
  <2>3. Drift(q, 2 * k + 1) = 2 * t + d /\ Drift(q, 2 * (k + 1)) = 2 * t + (d + c)
    BY <1>13, <2>1, <2>2 DEF Drift
  <2>4. Near(net, en, 2 * t + d)
    BY <1>11, <2>3
  <2>5. Near(net1, en, 2 * t + (d + c))
    BY <1>10, <1>14, <2>4 DEF Near, Off
  <2> QED
    BY <2>3, <2>5
<1>17. SoundRow(r)
  <2>1. /\ r.gross = gross1 /\ r.fees = fees1 /\ r.net = net1 /\ r.engineNet = en
        /\ r.quantity = q /\ Len(r.exits) = k /\ r.fees >= 0 /\ r.entryTime <= r.exitTime
    BY <1>01, <1>4, <1>6, <1>7, <1>9, <1>10, <1>12
  <2> QED
    BY <1>8, <1>11, <1>13, <1>15, <1>16, <2>1 DEF SoundRow
<1> QED
  BY <1>2, <1>6, <1>7, <1>17 DEF r, left

-----------------------------------------------------------------------------
(* Every fill is a good one: something was traded at a positive price, and *)
(* within the bars of the run.                                             *)
Timed ==
  /\ batches <= MaxBatches
  /\ \A s \in Symbols : bar[s] # NoBar => 1 <= barAt[s]

(* Every price a fill can get is one that its rounding shows: the lowest   *)
(* price of a bar, worsened by all costs, is a tick at least.              *)
PricesShow ==
  \A b \in Bars :
    PriceTick <= Reference(b.low) * (BPS - (SlippageBps + MarketImpactBps + HalfSpreadBps))

InTime(f) == 1 <= f.at /\ f.at <= batches

FillsAreGood == \A i \in 1..Len(trades) : ValidFill(trades[i]) /\ InTime(trades[i])

LEMMA BarIsReal ==
  ASSUME TypeOK, VolumeMetered, NEW s \in Symbols, liq[s] > 0
  PROVE  bar[s] \in Bars /\ bar[s] # NoBar
<1>1. VolumeCapacity(0) = 0
  <2>1. PICK d \in Nat \ {0} : d = BPS
    BY PolicyTypes
  <2>2. PICK m \in Nat : m = MaxVolumeParticipation
    BY PolicyTypes
  <2>3. (0 * m) \div d = 0
    OBVIOUS
  <2> QED
    BY <2>1, <2>2, <2>3 DEF VolumeCapacity, QuantizeQuantity
<1>2. traded[s] + liq[s] = VolumeCapacity(bar[s].volume) /\ traded[s] \in Nat /\ liq[s] \in Nat
  BY DEF VolumeMetered, TypeOK
<1>3. bar[s].volume # 0
  BY <1>1, <1>2
<1> QED
  BY <1>3 DEF TypeOK, NoBar

LEMMA RealPrices ==
  ASSUME NEW b \in Bars
  PROVE  /\ Reference(b.open) \in Nat \ {0} /\ Reference(b.close) \in Nat \ {0}
         /\ Reference(b.low) \in Nat \ {0} /\ b.volume \in Nat
         /\ Reference(b.low) <= Reference(b.open) /\ Reference(b.low) <= Reference(b.close)
<1>1. /\ b.open \in Nat \ {0} /\ b.close \in Nat \ {0} /\ b.low \in Nat \ {0} /\ b.volume \in Nat
      /\ b.low <= b.open /\ b.low <= b.close
  BY BarAssumption
<1>2. \A x \in Nat \ {0} : Reference(x) \in Nat \ {0}
  BY PolicyTypes, ProductType DEF Reference
<1>3. \A x, y \in Nat \ {0} : x <= y => Reference(x) <= Reference(y)
  BY PolicyTypes, TimesMonotone DEF Reference
<1> QED
  BY <1>1, <1>2, <1>3

LEMMA FeeIsNatural ==
  ASSUME NEW price \in Nat, NEW q \in Nat
  PROVE  Fee(price, q) \in Nat
<1>1. FeeBps \in Nat /\ price * q \in Nat
  BY PolicyAssumption, ProductType
<1> QED
  BY <1>1, ProductType DEF Fee

LEMMA PriceShows ==
  ASSUME PricesShow, NEW b \in Bars, NEW ref \in Nat, Reference(b.low) <= ref,
         NEW k \in Int, BPS - (SlippageBps + MarketImpactBps + HalfSpreadBps) <= k
  PROVE  k > 0 /\ ref * k \in Nat /\ ToTick(ref * k) > 0
<1>1. PICK k0 \in Int : k0 = BPS - (SlippageBps + MarketImpactBps + HalfSpreadBps)
  BY PolicyTypes
<1>2. PICK low \in Nat \ {0} : low = Reference(b.low)
  BY RealPrices
<1>3. PICK t \in Nat \ {0} : t = PriceTick
  BY RoundingAssumption
<1>4. t <= low * k0 /\ k0 <= k /\ low <= ref
  BY <1>1, <1>2, <1>3 DEF PricesShow
<1>5. k0 > 0
  <2>1. ASSUME k0 <= 0
        PROVE  FALSE
    <3>1. k0 * low <= 0 * low
      BY <2>1, TimesMonotone
    <3> QED
      BY <1>4, <3>1
  <2> QED
    BY <2>1
<1>6. low * k0 <= ref * k0 /\ k0 * ref <= k * ref
  BY <1>4, <1>5, TimesMonotone
<1>7. PICK x \in Nat : x = ref * k
  BY <1>4, <1>5, ProductType
<1>8. t <= x
  BY <1>4, <1>6, <1>7
<1>9. PICK y \in Int : y = Nearest(x, t) /\ y >= t
  <2>1. Nearest(x, t) \in Int
    BY NearestFacts
  <2>2. Nearest(x, t) >= t
    BY <1>8, NearestFacts
  <2> QED
    BY <2>1, <2>2
<1>10. ToTick(x) = y /\ y > 0
  BY <1>3, <1>9 DEF ToTick
<1>11. k > 0
  BY <1>4, <1>5
<1> QED
  BY <1>7, <1>10, <1>11

LEMMA GoodBuy ==
  ASSUME PricesShow, TypeOK, VolumeMetered, Booked, LedgerTypes, Timed, NEW s \in Symbols,
         Enter(s)
  PROVE  ValidFill(BuyTrade(s)) /\ InTime(BuyTrade(s))
<1> DEFINE f == BuyTrade(s)
           q == EntryQuantity(s)
           ref == Reference(bar[s].open)
           price == EntryPrice(s, q)
           k == BPS + SlippageBps + MarketImpact(q, bar[s].volume) + HalfSpreadBps
<1>1. q \in Nat /\ q > 0 /\ q <= liq[s] /\ liq[s] \in Nat
  BY EnterStep DEF TypeOK
<1>2. bar[s] \in Bars /\ bar[s] # NoBar
  BY <1>1, BarIsReal
<1>3. ref \in Nat \ {0} /\ bar[s].volume \in Nat /\ Reference(bar[s].low) <= ref
  BY <1>2, RealPrices
<1>4. /\ f.side = "buy" /\ f.quantity = q /\ f.price = ToTick(price)
      /\ f.fees = ToCent(Fee(price, q)) /\ f.at = barAt[s]
  BY DEF BuyTrade
<1> HIDE DEF q, ref
<1>5. price = ref * k
  BY DEF EntryPrice, BuyExecutionPrice, ref
<1>6. k \in Int /\ BPS - (SlippageBps + MarketImpactBps + HalfSpreadBps) <= k
  <2>1. PICK m \in Nat : m = MarketImpact(q, bar[s].volume)
    BY <1>1, <1>3, ImpactGrows
  <2>2. PICK b \in Nat, a \in Nat, c \in Nat, d \in Nat :
          b = BPS /\ a = SlippageBps /\ c = MarketImpactBps /\ d = HalfSpreadBps
    BY PolicyAssumption, PolicyTypes
  <2>3. k = b + a + m + d
    BY <2>1, <2>2
  <2> QED
    BY <2>1, <2>2, <2>3
<1> HIDE DEF price, f, k
<1>7. price \in Nat /\ ToTick(price) > 0
  BY <1>2, <1>3, <1>5, <1>6, PriceShows
<1>8. ToCent(Fee(price, q)) >= 0
  <2>1. Fee(price, q) \in Nat
    BY <1>1, <1>7, FeeIsNatural
  <2> QED
    BY <2>1, CentFacts
<1>9. ValidFill(f)
  BY <1>1, <1>4, <1>7, <1>8 DEF ValidFill
<1>10. InTime(f)
  BY <1>2, <1>4 DEF InTime, Timed, LedgerTypes
<1> QED
  BY <1>9, <1>10 DEF f

LEMMA GoodReference ==
  ASSUME TypeOK, NEW s \in Symbols, NEW ref \in Int, bar[s] \in Bars, FromTheBar(s, ref)
  PROVE  ref \in Nat \ {0} /\ Reference(bar[s].low) <= ref
<1>1. /\ Reference(bar[s].open) \in Nat \ {0} /\ Reference(bar[s].close) \in Nat \ {0}
      /\ Reference(bar[s].low) \in Nat \ {0}
      /\ Reference(bar[s].low) <= Reference(bar[s].open)
      /\ Reference(bar[s].low) <= Reference(bar[s].close)
  BY RealPrices
<1>2. CASE ref \in {Reference(bar[s].open), Reference(bar[s].close)}
  BY <1>1, <1>2
<1>3. CASE ReasonInBar(s) # "none" /\ ref = ExitReference(s)
  <2>1. pos[s].stop \in Int /\ pos[s].target \in Int
    BY PositionFacts
  <2>2. CASE ReasonInBar(s) = "stop_loss"
    <3>1. Reference(bar[s].low) <= pos[s].stop
      BY <2>2 DEF ReasonInBar
    <3>2. ref = Smaller(pos[s].stop, Reference(bar[s].open))
      BY <1>3, <2>2 DEF ExitReference
    <3> QED
      BY <1>1, <2>1, <3>1, <3>2 DEF Smaller
  <2>3. CASE ReasonInBar(s) # "stop_loss"
    <3>1. ref = IF pos[s].target >= Reference(bar[s].open) THEN pos[s].target
                ELSE Reference(bar[s].open)
      BY <1>3, <2>3 DEF ExitReference
    <3> QED
      BY <1>1, <2>1, <3>1
  <2> QED
    BY <2>2, <2>3
<1> QED
  BY <1>2, <1>3 DEF FromTheBar

LEMMA GoodSell ==
  ASSUME PricesShow,
         TypeOK, VolumeMetered, Booked, LedgerTypes, Timed, NEW s \in Symbols, NEW ref \in Int,
         SoldNow(s, ref)
  PROVE  ValidFill(SellTrade(s, ref)) /\ InTime(SellTrade(s, ref))
<1> DEFINE f == SellTrade(s, ref)
           q == SellFill(s)
           price == SellExecutionPrice(ref, q, bar[s].volume)
           k == BPS - (SlippageBps + MarketImpact(q, bar[s].volume) + HalfSpreadBps)
<1>1. /\ SellFill(s) > 0 /\ ExitPosition(s, ref) /\ FromTheBar(s, ref)
  BY DEF SoldNow
<1>2. q \in Nat /\ q > 0 /\ q <= liq[s] /\ liq[s] \in Nat
  BY <1>1, SellFillFacts
<1>3. bar[s] \in Bars /\ bar[s] # NoBar
  BY <1>2, BarIsReal
<1>4. ref \in Nat \ {0} /\ bar[s].volume \in Nat /\ Reference(bar[s].low) <= ref
  BY <1>1, <1>3, GoodReference, RealPrices
<1>5. /\ f.side = "sell" /\ f.quantity = q /\ f.price = ToTick(price)
      /\ f.fees = ToCent(Fee(price, q)) /\ f.at = barAt[s]
  BY DEF SellTrade
<1> HIDE DEF q, f
<1>6. k \in Int /\ BPS - (SlippageBps + MarketImpactBps + HalfSpreadBps) <= k
  <2>1. MarketImpact(q, bar[s].volume) \in Nat
    BY <1>2, <1>4, ImpactGrows
  <2>2. MarketImpact(q, bar[s].volume) <= MarketImpactBps
    BY <1>2, <1>4, ImpactBounded
  <2> QED
    BY <2>1, <2>2, PolicyTypes
<1>7. price = ref * k
  BY DEF SellExecutionPrice
<1> HIDE DEF price, k
<1>8. price \in Nat /\ ToTick(price) > 0
  BY <1>3, <1>4, <1>6, <1>7, PriceShows
<1>9. ToCent(Fee(price, q)) >= 0
  <2>1. Fee(price, q) \in Nat
    BY <1>2, <1>8, FeeIsNatural
  <2> QED
    BY <2>1, CentFacts
<1>10. ValidFill(f)
  BY <1>2, <1>5, <1>8, <1>9 DEF ValidFill
<1>11. InTime(f)
  BY <1>3, <1>5 DEF InTime, Timed, LedgerTypes
<1> QED
  BY <1>10, <1>11 DEF f

LEMMA TimedStep ==
  TypeOK /\ LedgerTypes /\ Timed /\ [LedgerNext]_ledgerVars => Timed'
<1> SUFFICES ASSUME TypeOK, LedgerTypes, Timed, [LedgerNext]_ledgerVars
             PROVE  Timed'
  OBVIOUS
<1>1. ASSUME UNCHANGED <<bar, batches, barAt>>
      PROVE  Timed'
  BY <1>1 DEF Timed
<1>2. ASSUME OpenBatch,
             barAt' = [s \in Symbols |-> IF s \in batch' THEN batches' ELSE barAt[s]]
      PROVE  Timed'
  <2>1. batches' = batches + 1 /\ batches < MaxBatches /\ batches \in Nat /\ MaxBatches \in Nat
    BY <1>2, RequestAssumption DEF OpenBatch, TypeOK
  <2>2. \A s \in Symbols : s \notin batch' => bar'[s] = bar[s]
    BY <1>2 DEF OpenBatch
  <2>3. \A s \in Symbols : barAt'[s] = IF s \in batch' THEN batches' ELSE barAt[s]
    BY <1>2
  <2> QED
    BY <2>1, <2>2, <2>3 DEF Timed
<1>3. CASE (CloseBatch \/ Finish) /\ UNCHANGED <<trades, barAt>>
  <2>1. UNCHANGED <<bar, batches, barAt>>
    BY <1>3 DEF CloseBatch, Finish, market
  <2> QED
    BY <1>1, <2>1
<1>4. CASE (Size \/ NextLoop \/ EndOfData) /\ Reported(<<>>)
  <2>1. UNCHANGED <<bar, batches, barAt>>
    BY <1>4 DEF Size, NextLoop, EndOfData, market, Reported
  <2> QED
    BY <1>1, <2>1
<1>5. ASSUME NEW s \in Symbols, NEW new,
             ProtectAtOpen(s) \/ SignalExit(s) \/ Enter(s) \/ Refuse(s)
               \/ ProtectInBar(s) \/ Skip(s) \/ Liquidate(s),
             Reported(new)
      PROVE  Timed'
  <2>1. UNCHANGED <<bar, batches, barAt>>
    BY <1>5 DEF ProtectAtOpen, SignalExit, Enter, Refuse, ProtectInBar, Skip, Liquidate,
                market, Reported
  <2> QED
    BY <1>1, <2>1
<1>6. CASE UNCHANGED ledgerVars
  <2>1. UNCHANGED <<bar, batches, barAt>>
    BY <1>6 DEF ledgerVars, vars, record, market
  <2> QED
    BY <1>1, <2>1
<1> QED
  BY <1>2, <1>3, <1>4, <1>5, <1>6 DEF LedgerNext, SellReported

LEMMA OneGoodFillMore ==
  ASSUME LedgerTypes, BooksOnly, FillsAreGood, NEW f \in Fill, ValidFill(f), InTime(f),
         trades' = Append(trades, f)
  PROVE  FillsAreGood'
<1>1. /\ Len(trades) \in Nat
      /\ Len(trades') = Len(trades) + 1 /\ trades'[Len(trades) + 1] = f
      /\ \A i \in 1..Len(trades) : trades'[i] = trades[i]
  BY OneFillMore
<1>2. batches' = batches
  BY DEF BooksOnly
<1> SUFFICES ASSUME NEW i \in 1..Len(trades')
             PROVE  (ValidFill(trades[i]) /\ InTime(trades[i]))'
  BY DEF FillsAreGood
<1>3. i \in 1..Len(trades) \/ i = Len(trades) + 1
  BY <1>1
<1>4. trades'[i] = f \/ (i \in 1..Len(trades) /\ trades'[i] = trades[i])
  BY <1>1, <1>3
<1> QED
  BY <1>2, <1>4 DEF FillsAreGood, InTime

LEMMA GoodFillsStep ==
  ASSUME PricesShow,
         TypeOK, VolumeMetered, Booked, LedgerTypes, Timed, FillsAreGood, [LedgerNext]_ledgerVars
  PROVE  FillsAreGood'
<1>1. \/ NoFill
      \/ \E s \in Symbols : BoughtNow(s)
      \/ \E s \in Symbols, ref \in Int : SoldNow(s, ref)
  BY LedgerSteps
<1>2. CASE NoFill
  <2>1. trades' = trades /\ batches \in Nat
    BY <1>2 DEF NoFill, TypeOK
  <2>2. batches <= batches'
    <3>1. [Next]_vars /\ batches \in Nat
      BY LedgerIsEngine DEF TypeOK
    <3>2. OpenBatch => batches' = batches + 1
      BY DEF OpenBatch
    <3>3. \/ Size \/ CloseBatch \/ NextLoop \/ EndOfData \/ Finish \/ UNCHANGED vars
          \/ \E s \in Symbols : ProtectAtOpen(s) \/ SignalExit(s) \/ Enter(s) \/ Refuse(s)
                                \/ ProtectInBar(s) \/ Skip(s) \/ Liquidate(s)
          => batches' = batches
      BY DEF vars, market, Size, CloseBatch, NextLoop, EndOfData, Finish, ProtectAtOpen,
             SignalExit, Enter, Refuse, ProtectInBar, Skip, Liquidate
    <3> QED
      BY <3>1, <3>2, <3>3 DEF Next
  <2>3. \A i \in 1..Len(trades) : InTime(trades[i]) => trades[i].at <= batches'
    <3> SUFFICES ASSUME NEW i \in 1..Len(trades), InTime(trades[i])
                 PROVE  trades[i].at <= batches'
      OBVIOUS
    <3>1. trades[i].at \in Nat
      BY FillFacts DEF LedgerTypes
    <3>2. batches' \in Nat
      BY LedgerIsEngine, TypeStep DEF TypeOK
    <3> QED
      BY <2>1, <2>2, <3>1, <3>2 DEF InTime
  <2> QED
    BY <2>1, <2>3 DEF FillsAreGood, InTime
<1>3. ASSUME NEW s \in Symbols, BoughtNow(s)
      PROVE  FillsAreGood'
  <2>1. Enter(s) /\ BooksOnly /\ trades' = Append(trades, BuyTrade(s))
    BY <1>3 DEF BoughtNow
  <2>2. BuyTrade(s) \in Fill /\ ValidFill(BuyTrade(s)) /\ InTime(BuyTrade(s))
    BY <2>1, BuyReported, GoodBuy
  <2> QED
    BY <2>1, <2>2, OneGoodFillMore
<1>4. ASSUME NEW s \in Symbols, NEW ref \in Int, SoldNow(s, ref)
      PROVE  FillsAreGood'
  <2>1. /\ SellFill(s) > 0 /\ ExitPosition(s, ref) /\ BooksOnly
        /\ trades' = Append(trades, SellTrade(s, ref))
    BY <1>4 DEF SoldNow
  <2>2. SellTrade(s, ref) \in Fill
    BY <2>1, SellReport
  <2>3. ValidFill(SellTrade(s, ref)) /\ InTime(SellTrade(s, ref))
    BY <1>4, GoodSell, SMTT(30)
  <2> QED
    BY <2>1, <2>2, <2>3, OneGoodFillMore
<1> QED
  BY <1>1, <1>2, <1>3, <1>4

-----------------------------------------------------------------------------
(* The books of phase 10 after the fills so far.                           *)
BookWell ==
  /\ Flawless(BookNow) /\ BookNow.seen = {<<1, i>> : i \in 1..Len(trades)}
  /\ DOMAIN BookNow.open = {KeyOf(s) : s \in HeldSymbols}
  /\ \A s \in HeldSymbols : Mirrors(BookNow.open[KeyOf(s)], pos[s], barAt[s])
  /\ \A s \in Symbols : KeyOf(s) \in DOMAIN BookNow.last =>
       BookNow.last[KeyOf(s)] \in Nat /\ BookNow.last[KeyOf(s)] <= barAt[s]
  /\ BookNow.closed \in Seq(ClosedPos)
  /\ \A n \in 1..Len(BookNow.closed) : SoundRow(BookNow.closed[n])

EngineNetsOf(rows) == [n \in 1..Len(rows) |-> rows[n].engineNet]

(* What the engine says the parts of the open positions sold so far made.  *)
OpenNets ==
  [s \in Symbols |-> IF s \in HeldSymbols THEN BookNow.open[KeyOf(s)].engineNet ELSE 0]

RoundTripNoted == "round_trip_realized_pnl_mismatch" \in BookNow.errors

(* As many closed positions as round trips, and the profits of all exits;  *)
(* unless phase 10 says otherwise, a clear win or loss is one of the       *)
(* metrics too.                                                            *)
CountsAgree ==
  /\ Len(BookNow.closed) = Cardinality(RoundTrips)
  /\ SumFunction(EngineNetsOf(BookNow.closed)) + SumFunction(OpenNets) = SumFunction(ExitPnls)
  /\ ~RoundTripNoted => /\ Cardinality(ClearWins(BookNow.closed)) <= Cardinality(Winners)
                        /\ Cardinality(ClearLosses(BookNow.closed)) <= Cardinality(Losers)

(* Nothing is wrong with the books where the tolerance takes the rounding. *)
AllAbsorbed ==
  /\ \A n \in 1..Len(BookNow.closed) : Phase10Absorbs(BookNow.closed[n])
  /\ \A s \in HeldSymbols : Absorbed(BookNow.open[KeyOf(s)])

ErrorsExplained == AllAbsorbed => BookNow.errors = {}

SomethingBooked == trades = <<>> \/ BookNow.closed # <<>> \/ HeldSymbols # {}

LEMMA KeysDiffer == \A s, t : KeyOf(s) = KeyOf(t) => s = t
BY DEF KeyOf

(* A later bar does not disturb a mirror.                                  *)
LEMMA MirrorsLater ==
  ASSUME NEW p, NEW e, NEW at \in Nat, NEW later \in Nat, at <= later, Mirrors(p, e, at)
  PROVE  Mirrors(p, e, later)
<1>1. p.entryTime \in Nat /\ p.entryTime <= at
  BY DEF Mirrors, OpenPos
<1>2. p.entryTime <= later
  BY <1>1
<1> QED
  BY <1>2 DEF Mirrors

(* What the next fill adds to what has been seen.                          *)
LEMMA SeenFacts ==
  ASSUME LedgerTypes, BookWell, NEW f \in Fill, trades' = Append(trades, f),
         NEW k \in Nat, k = Len(trades) + 1
  PROVE  /\ <<1, k>> \notin BookNow.seen
         /\ {<<1, i>> : i \in 1..Len(trades')} = BookNow.seen \cup {<<1, k>>}
<1>1. /\ 1..Len(trades') = (1..Len(trades)) \cup {k} /\ k \notin 1..Len(trades)
  BY OneFillMore
<1>2. BookNow.seen = {<<1, i>> : i \in 1..Len(trades)}
  BY DEF BookWell
<1>3. \A i \in 1..Len(trades) : <<1, i>> # <<1, k>>
  BY <1>1
<1> PICK old, new : old = 1..Len(trades) /\ new = 1..Len(trades')
  OBVIOUS
<1>4. {<<1, i>> : i \in new} = {<<1, i>> : i \in old} \cup {<<1, k>>}
  BY <1>1
<1> QED
  BY <1>2, <1>3, <1>4

LEMMA BookStays ==
  ASSUME TypeOK, LedgerTypes, BookWell, NoFill
  PROVE  BookWell'
<1>1. /\ UNCHANGED <<trades, pos>> /\ barAt' \in [Symbols -> Nat]
      /\ \A s \in Symbols : barAt[s] <= barAt'[s] /\ barAt[s] \in Nat /\ barAt'[s] \in Nat
  BY DEF NoFill, LaterBars, LedgerTypes
<1>2. BookNow' = BookNow /\ HeldSymbols' = HeldSymbols
  BY <1>1 DEF BookNow, HeldSymbols, Held
<1>3. \A s \in HeldSymbols' : Mirrors(BookNow'.open[KeyOf(s)], pos'[s], barAt'[s])
  <2> SUFFICES ASSUME NEW s \in HeldSymbols
               PROVE  Mirrors(BookNow.open[KeyOf(s)], pos[s], barAt'[s])
    BY <1>1, <1>2
  <2>1. Mirrors(BookNow.open[KeyOf(s)], pos[s], barAt[s]) /\ s \in Symbols
    BY DEF BookWell, HeldSymbols
  <2> QED
    BY <1>1, <2>1, MirrorsLater
<1>4. \A s \in Symbols : KeyOf(s) \in DOMAIN BookNow'.last =>
        BookNow'.last[KeyOf(s)] \in Nat /\ BookNow'.last[KeyOf(s)] <= barAt'[s]
  <2> SUFFICES ASSUME NEW s \in Symbols, KeyOf(s) \in DOMAIN BookNow.last
               PROVE  BookNow.last[KeyOf(s)] \in Nat /\ BookNow.last[KeyOf(s)] <= barAt'[s]
    BY <1>2
  <2>1. BookNow.last[KeyOf(s)] \in Nat /\ BookNow.last[KeyOf(s)] <= barAt[s]
    BY DEF BookWell
  <2>2. barAt[s] <= barAt'[s] /\ barAt[s] \in Nat /\ barAt'[s] \in Nat
    BY <1>1
  <2> QED
    BY <2>1, <2>2
<1>5. /\ Flawless(BookNow') /\ BookNow'.seen = {<<1, i>> : i \in 1..Len(trades')}
      /\ DOMAIN BookNow'.open = {KeyOf(s) : s \in HeldSymbols'}
      /\ BookNow'.closed \in Seq(ClosedPos)
      /\ \A n \in 1..Len(BookNow'.closed) : SoundRow(BookNow'.closed[n])
  BY <1>1, <1>2 DEF BookWell
<1> QED
  BY <1>3, <1>4, <1>5 DEF BookWell

(* The fill of a symbol does not come before its last one.                 *)
LEMMA NextIsAdmissible ==
  ASSUME TypeOK, LedgerTypes, BookWell, NEW f \in Fill, ValidFill(f), f.at = barAt[f.symbol],
         trades' = Append(trades, f), NEW k \in Nat, k = Len(trades) + 1
  PROVE  Admissible(BookNow, k, f)
<1>1. <<1, k>> \notin BookNow.seen /\ Flawless(BookNow)
  BY SeenFacts DEF BookWell
<1>2. f.symbol \in Symbols /\ f.at \in Nat
  BY DEF Fill
<1>3. KeyOf(f.symbol) \in DOMAIN BookNow.last => ~(f.at < BookNow.last[KeyOf(f.symbol)])
  BY <1>2 DEF BookWell
<1> QED
  BY <1>1, <1>3 DEF Admissible

(* The part of the books that every fill brings forward in the same way.   *)
Onward(f, k) ==
  /\ Flawless(BookNow') /\ BookNow'.seen = BookNow.seen \cup {<<1, k>>}
  /\ BookNow'.last = Put(BookNow.last, KeyOf(f.symbol), f.at)

LEMMA LastStays ==
  ASSUME LedgerTypes, BookWell, NEW f \in Fill, NEW k, f.at = barAt[f.symbol],
         BooksOnly, Onward(f, k)
  PROVE  \A s \in Symbols : KeyOf(s) \in DOMAIN BookNow'.last =>
           BookNow'.last[KeyOf(s)] \in Nat /\ BookNow'.last[KeyOf(s)] <= barAt'[s]
<1> SUFFICES ASSUME NEW s \in Symbols, KeyOf(s) \in DOMAIN BookNow'.last
             PROVE  BookNow'.last[KeyOf(s)] \in Nat /\ BookNow'.last[KeyOf(s)] <= barAt'[s]
  OBVIOUS
<1>1. BookNow'.last = Put(BookNow.last, KeyOf(f.symbol), f.at) /\ barAt' = barAt
  BY DEF Onward, BooksOnly
<1>2. f.at \in Nat /\ f.symbol \in Symbols
  BY DEF Fill
<1> PICK old, new : old = BookNow.last /\ new = BookNow'.last
  OBVIOUS
<1>5. new = Put(old, KeyOf(f.symbol), f.at) /\ KeyOf(s) \in DOMAIN new
  BY <1>1
<1>6. PICK k0 : k0 = KeyOf(f.symbol)
  OBVIOUS
<1>7. /\ DOMAIN new = DOMAIN old \cup {k0} /\ new[k0] = f.at
      /\ \A j \in DOMAIN old : j # k0 => new[j] = old[j]
  <2>1. new = Put(old, k0, f.at)
    BY <1>5, <1>6
  <2> QED
    BY <2>1 DEF Put
<1>3. CASE s = f.symbol
  <2>1. new[KeyOf(s)] = f.at
    BY <1>3, <1>6, <1>7
  <2> QED
    BY <1>1, <1>2, <1>3, <2>1
<1>4. CASE s # f.symbol
  <2>1. KeyOf(s) # KeyOf(f.symbol)
    BY <1>4, KeysDiffer
  <2>2. KeyOf(s) \in DOMAIN old /\ new[KeyOf(s)] = old[KeyOf(s)]
    BY <1>5, <1>6, <1>7, <2>1
  <2> QED
    BY <1>1, <2>2 DEF BookWell
<1> QED
  BY <1>3, <1>4

(* The mirrors of the other symbols.                                       *)
LEMMA OthersMirrored ==
  ASSUME BookWell, BooksOnly, NEW s \in Symbols, NEW open,
         \A t \in Symbols \ {s} : pos'[t] = pos[t],
         \A t \in HeldSymbols \ {s} : open[KeyOf(t)] = BookNow.open[KeyOf(t)]
  PROVE  \A t \in HeldSymbols' \ {s} :
           t \in HeldSymbols /\ Mirrors(open[KeyOf(t)], pos'[t], barAt'[t])
<1> SUFFICES ASSUME NEW t \in HeldSymbols' \ {s}
             PROVE  t \in HeldSymbols /\ Mirrors(open[KeyOf(t)], pos'[t], barAt'[t])
  OBVIOUS
<1>1. t \in Symbols \ {s} /\ pos'[t] = pos[t] /\ t \in HeldSymbols
  BY DEF HeldSymbols, Held
<1>2. open[KeyOf(t)] = BookNow.open[KeyOf(t)] /\ barAt' = barAt
  BY <1>1 DEF BooksOnly
<1> QED
  BY <1>1, <1>2 DEF BookWell

LEMMA FirstMirrors ==
  ASSUME NEW k \in Nat, NEW f \in Fill, ValidFill(f), NEW e \in Position, NEW at \in Nat,
         f.quantity = e.quantity, f.price = ToTick(e.average), f.fees = ToCent(e.fees),
         e.pnl = 0, f.at <= at
  PROVE  Mirrors(First(k, f), e, at)
<1> PICK none, one : none = <<>> /\ one = Append(none, k)
  OBVIOUS
<1> PICK p : p = First(k, f)
  OBVIOUS
<1>1. none \in Seq(Nat) /\ one \in Seq(Nat) /\ Len(none) = 0
  BY AppendProperties
<1>2. /\ f.quantity \in Nat /\ f.price \in Int /\ f.fees \in Int /\ f.at \in Nat /\ f.fees >= 0
      /\ e.fees \in Int
  BY DEF Fill, ValidFill, Position
<1>3. PICK v \in Int : v = Value(f.price, f.quantity)
  <2>1. f.quantity \in Int
    BY <1>2
  <2> QED
    BY <1>2, <2>1, MoneyTypes
<1>4. p = [ quantity |-> f.quantity, cost |-> v, entryFees |-> f.fees,
    entryTime |-> f.at, entries |-> one, exits |-> none, gross |-> 0,
    fees |-> f.fees, net |-> 0, engineNet |-> 0, closedQuantity |-> 0 ]
  BY <1>3 DEF First
<1>5. p \in OpenPos
  BY <1>1, <1>2, <1>3, <1>4 DEF OpenPos
<1>6. p.gross - p.fees + p.entryFees = p.net
  BY <1>2, <1>4
<1>14. f.fees \in Int /\ e.fees \in Int /\ Cent \in Int
  BY <1>2, RoundingAssumption
<1>7. PICK a \in Int, b \in Int, c \in Int : a = f.fees /\ b = e.fees /\ c = Cent
  BY <1>14
<1>8. Near(a, b, c)
  BY <1>2, <1>7, CentFacts DEF Near
<1>9. Near(0 - a, 0 - b, c) /\ Near(0, 0, 0)
  BY <1>8 DEF Near, Off
<1>10. Drift(0, 0 + 1) = c /\ Cent * 0 = 0
  <2>1. 0 \in Nat /\ 0 + 1 = 1
    OBVIOUS
  <2>2. Drift(0, 1) = Cent /\ Cent * 0 = 0
    BY <2>1, DriftFacts
  <2> QED
    BY <1>7, <2>1, <2>2
<1>11. Near(p.net - p.entryFees, e.pnl - e.fees, Drift(p.closedQuantity, Len(p.exits) + 1))
  BY <1>1, <1>4, <1>7, <1>9, <1>10
<1>12. Near(p.engineNet, e.pnl, Cent * Len(p.exits)) /\ InCents(p.engineNet)
  BY <1>1, <1>4, <1>9, <1>10, CentsStay
<1>13. Near(p.entryFees, e.fees, Cent)
  BY <1>4, <1>7, <1>8
<1> QED
  BY <1>2, <1>3, <1>4, <1>5, <1>6, <1>11, <1>12, <1>13 DEF Mirrors

(* What a fill of s leaves of the open books, when it has no more to say.  *)
SameElsewhere(s) ==
  \A t \in Symbols \ {s} : /\ t \in HeldSymbols' <=> t \in HeldSymbols
                           /\ t \in HeldSymbols => BookNow'.open[KeyOf(t)] = BookNow.open[KeyOf(t)]

LEMMA OpenNetsElsewhere ==
  ASSUME NEW s \in Symbols, SameElsewhere(s)
  PROVE  \A t \in Symbols \ {s} : OpenNets'[t] = OpenNets[t]
<1> SUFFICES ASSUME NEW t \in Symbols \ {s} PROVE OpenNets'[t] = OpenNets[t]
  OBVIOUS
<1>1. /\ t \in HeldSymbols' <=> t \in HeldSymbols
      /\ t \in HeldSymbols => BookNow'.open[KeyOf(t)] = BookNow.open[KeyOf(t)]
  BY DEF SameElsewhere
<1>2. OpenNets[t] = IF t \in HeldSymbols THEN BookNow.open[KeyOf(t)].engineNet ELSE 0
  BY DEF OpenNets
<1>3. OpenNets'[t] = IF t \in HeldSymbols' THEN BookNow'.open[KeyOf(t)].engineNet ELSE 0
  BY DEF OpenNets
<1> QED
  BY <1>1, <1>2, <1>3

LEMMA BookBought ==
  ASSUME PricesShow,
         TypeOK, TypeOK', VolumeMetered, Booked, LedgerTypes, Timed, BookWell,
         NEW s \in Symbols, BoughtNow(s)
  PROVE  /\ BookWell' /\ BookNow'.closed = BookNow.closed /\ HeldSymbols' # {}
         /\ BookNow'.errors = BookNow.errors /\ OpenNets' = OpenNets
         /\ ErrorsExplained => ErrorsExplained'
<1>1. Enter(s) /\ BooksOnly /\ trades' = Append(trades, BuyTrade(s))
  BY DEF BoughtNow
<1>2. PICK f : f = BuyTrade(s)
  OBVIOUS
<1>3. /\ f \in Fill /\ f.side = "buy" /\ f.symbol = s
      /\ f.quantity = pos'[s].quantity /\ f.price = ToTick(pos'[s].average)
      /\ f.fees = ToCent(pos'[s].fees) /\ f.at = barAt[s]
      /\ f.pnl = 0 /\ pos'[s].pnl = 0
      /\ pos'[s].quantity > 0 /\ pos[s] = Flat
      /\ \A t \in Symbols \ {s} : pos'[t] = pos[t]
  BY <1>1, <1>2, BuyReported
<1>4. ValidFill(f) /\ trades' = Append(trades, f)
  BY <1>1, <1>2, GoodBuy
<1>5. PICK k \in Nat : k = Len(trades) + 1
  <2>1. Len(trades) \in Nat
    BY <1>3, <1>4, OneFillMore
  <2> QED
    BY <2>1
<1>6. s \notin HeldSymbols /\ HeldSymbols' = HeldSymbols \cup {s}
  BY <1>3, FlatFacts DEF HeldSymbols, Held
<1>7. Admissible(BookNow, k, f)
  BY <1>3, <1>4, <1>5, NextIsAdmissible
<1>8. KeyOf(s) \notin DOMAIN BookNow.open
  BY <1>6, KeysDiffer DEF BookWell
<1>9. BookNow' = Admit(BookNow, RowOf(k, f))
  BY <1>3, <1>4, <1>5, OneRowMore
<1>10. BookNow' = [ errors |-> BookNow.errors, seen |-> BookNow.seen \cup {<<1, k>>},
               last |-> Put(BookNow.last, KeyOf(s), f.at),
               open |-> Put(BookNow.open, KeyOf(s), First(k, f)), closed |-> BookNow.closed ]
  BY <1>3, <1>7, <1>8, <1>9, BuyAdmitted
<1>11. /\ Onward(f, k) /\ BookNow'.closed = BookNow.closed
       /\ BookNow'.errors = BookNow.errors
  <2>1. BookNow.errors \subseteq Residuals
    BY DEF BookWell, Flawless
  <2> QED
    BY <1>3, <1>10, <2>1 DEF Onward, Flawless
<1> PICK open, new, first, key :
        /\ open = BookNow.open /\ new = BookNow'.open /\ first = First(k, f) /\ key = KeyOf(s)
  OBVIOUS
<1>12. new = Put(open, key, first)
  BY <1>10
<1>13. /\ DOMAIN new = DOMAIN open \cup {key} /\ new[key] = first
       /\ \A j \in DOMAIN open : j # key => new[j] = open[j]
  BY <1>12 DEF Put
<1>14. DOMAIN open = {KeyOf(t) : t \in HeldSymbols}
  BY DEF BookWell
<1>15. DOMAIN new = {KeyOf(t) : t \in HeldSymbols'}
  BY <1>6, <1>13, <1>14
<1>16. \A t \in HeldSymbols \ {s} : new[KeyOf(t)] = BookNow.open[KeyOf(t)]
  BY <1>13, <1>14, KeysDiffer
<1>17. \A t \in HeldSymbols' \ {s} : Mirrors(new[KeyOf(t)], pos'[t], barAt'[t])
  BY <1>1, <1>3, <1>16, OthersMirrored
<1>18. Mirrors(new[KeyOf(s)], pos'[s], barAt'[s])
  <2>1. pos'[s] \in Position /\ barAt[s] \in Nat /\ barAt' = barAt
    BY <1>1 DEF TypeOK, BooksOnly, LedgerTypes
  <2> PICK e, at : e = pos'[s] /\ at = barAt[s]
    OBVIOUS
  <2>2. e \in Position /\ at \in Nat /\ f.at <= at
    BY <1>3, <2>1
  <2>3. Mirrors(first, e, at)
    BY <1>3, <1>4, <2>2, FirstMirrors
  <2> QED
    BY <1>13, <2>1, <2>3
<1>19. \A t \in HeldSymbols' : Mirrors(BookNow'.open[KeyOf(t)], pos'[t], barAt'[t])
  BY <1>17, <1>18
<1>20. \A t \in Symbols : KeyOf(t) \in DOMAIN BookNow'.last =>
         BookNow'.last[KeyOf(t)] \in Nat /\ BookNow'.last[KeyOf(t)] <= barAt'[t]
  BY <1>1, <1>3, <1>11, LastStays
<1>21. BookNow'.seen = {<<1, i>> : i \in 1..Len(trades')}
  BY <1>3, <1>4, <1>5, <1>11, SeenFacts DEF Onward
<1>22. BookNow'.closed \in Seq(ClosedPos)
       /\ \A n \in 1..Len(BookNow'.closed) : SoundRow(BookNow'.closed[n])
  BY <1>11 DEF BookWell
<1>23. Flawless(BookNow')
  BY <1>11 DEF Onward
<1>24. DOMAIN BookNow'.open = {KeyOf(t) : t \in HeldSymbols'}
  BY <1>15
<1>25. BookWell'
  BY <1>19, <1>20, <1>21, <1>22, <1>23, <1>24 DEF BookWell
<1>26. SameElsewhere(s)
  BY <1>6, <1>16 DEF SameElsewhere
<1>27. OpenNets' = OpenNets
  <2>1. OpenNets[s] = 0
    BY <1>6 DEF OpenNets
  <2>2. OpenNets'[s] = new[KeyOf(s)].engineNet
    BY <1>6 DEF OpenNets
  <2>3. first.engineNet = 0
    BY DEF First
  <2>4. \A t \in Symbols : OpenNets'[t] = OpenNets[t]
    BY <1>13, <1>26, <2>1, <2>2, <2>3, OpenNetsElsewhere
  <2>5. OpenNets' = [t \in Symbols |-> OpenNets'[t]] /\ OpenNets = [t \in Symbols |-> OpenNets[t]]
    BY DEF OpenNets
  <2> QED
    BY <2>4, <2>5
<1>28. AllAbsorbed' => AllAbsorbed
  <2> SUFFICES ASSUME AllAbsorbed' PROVE AllAbsorbed
    OBVIOUS
  <2>1. \A n \in 1..Len(BookNow.closed) : Phase10Absorbs(BookNow.closed[n])
    BY <1>11 DEF AllAbsorbed
  <2>2. \A t \in HeldSymbols : Absorbed(BookNow'.open[KeyOf(t)])
    BY <1>6 DEF AllAbsorbed
  <2>3. \A t \in HeldSymbols : t # s /\ BookNow'.open[KeyOf(t)] = BookNow.open[KeyOf(t)]
    BY <1>6, <1>16
  <2> QED
    BY <2>1, <2>2, <2>3 DEF AllAbsorbed
<1>29. ErrorsExplained => ErrorsExplained'
  BY <1>11, <1>28 DEF ErrorsExplained
<1> QED
  BY <1>6, <1>11, <1>25, <1>27, <1>29

(* What a sell brings to the list of closed positions.                     *)
ClosedBy(f) ==
  /\ RoundTripNoted => RoundTripNoted'
  /\ ErrorsExplained => ErrorsExplained'
  /\ \A t \in Symbols \ {f.symbol} : OpenNets'[t] = OpenNets[t]
  /\ IF f.closed
     THEN /\ OpenNets'[f.symbol] = 0
          /\ \E r \in ClosedPos :
               /\ SoundRow(r) /\ r.engineNet = OpenNets[f.symbol] + f.pnl
               /\ ~RoundTripNoted' => ~Beyond(f.roundTrip, r.engineNet, 15 * Cent)
               /\ BookNow'.closed = Append(BookNow.closed, r)
     ELSE /\ OpenNets'[f.symbol] = OpenNets[f.symbol] + f.pnl
          /\ BookNow'.closed = BookNow.closed /\ HeldSymbols' # {}

(* The sell f of s is one of what is held of it, for the exact numbers of  *)
(* n: a price, a fee and a profit.                                         *)
SellsHeld(s, f, n) ==
  /\ f \in Fill /\ f.side = "sell" /\ f.symbol = s /\ f.at = barAt[s] /\ ValidFill(f)
  /\ trades' = Append(trades, f) /\ BooksOnly
  /\ SellOf(pos[s], f, n[1], n[2], n[3], FeeShare(s)) /\ ToldWhenClosed(pos[s], f, n[3])
  /\ f.closed = (pos'[s].quantity = 0)
  /\ ~f.closed => /\ pos'[s].pnl = pos[s].pnl + n[3]
                  /\ pos'[s].average = pos[s].average
  /\ pos'[s].quantity = pos[s].quantity - f.quantity
  /\ pos'[s].fees = pos[s].fees - FeeShare(s)
  /\ \A t \in Symbols \ {s} : pos'[t] = pos[t]

LEMMA SellFacts ==
  ASSUME PricesShow,
         TypeOK, VolumeMetered, Booked, LedgerTypes, Timed,
         NEW s \in Symbols, NEW ref \in Int, SoldNow(s, ref), NEW f, f = SellTrade(s, ref)
  PROVE  \E n : SellsHeld(s, f, n)
<1>1. /\ SellFill(s) > 0 /\ ExitPosition(s, ref) /\ BooksOnly
      /\ trades' = Append(trades, f)
  BY DEF SoldNow
<1> DEFINE price0 == SellExecutionPrice(ref, SellFill(s), bar[s].volume)
           fee0 == Fee(price0, SellFill(s))
           pnl0 == SellPnl(s, price0)
<1>2. /\ f \in Fill /\ f.side = "sell" /\ f.symbol = s /\ f.at = barAt[s]
      /\ f.quantity = SellFill(s)
      /\ price0 \in Int /\ f.price = ToTick(price0)
      /\ fee0 \in Int /\ f.fees = ToCent(fee0)
      /\ pnl0 \in Int /\ f.pnl = ToCent(pnl0)
      /\ pnl0 = Value(price0 - pos[s].average, f.quantity) - FeeShare(s) - fee0
      /\ FeeShare(s) \in Int
      /\ f.closed = (pos'[s].quantity = 0)
      /\ f.closed => f.roundTrip = ToCent(pos[s].pnl + pnl0)
      /\ ~f.closed => pos'[s].pnl = pos[s].pnl + pnl0
      /\ pos'[s].quantity = pos[s].quantity - f.quantity
      /\ pos'[s].fees = pos[s].fees - FeeShare(s)
      /\ f.quantity < pos[s].quantity => pos'[s].average = pos[s].average
      /\ \A t \in Symbols \ {s} : pos'[t] = pos[t]
  BY <1>1, SellReport
<1> PICK price, fee, pnl : price = price0 /\ fee = fee0 /\ pnl = pnl0
  OBVIOUS
<1> HIDE DEF price0, fee0, pnl0
<1>3. ValidFill(f)
  BY GoodSell
<1>4. /\ SellFill(s) \in Nat /\ SellFill(s) <= pos[s].quantity /\ pos[s].quantity \in Nat
  BY SellFillFacts, PositionFacts
<1>5. FeeShare(s) = (pos[s].fees * f.quantity) \div pos[s].quantity
  BY <1>2 DEF FeeShare
<1>6. f.fees >= 0
  BY <1>3 DEF ValidFill
<1>7. SellOf(pos[s], f, price, fee, pnl, FeeShare(s))
  <2>1. 0 < f.quantity /\ f.quantity <= pos[s].quantity
    BY <1>1, <1>2, <1>4
  <2> QED
    BY <1>2, <1>5, <1>6, <2>1 DEF SellOf
<1> PICK q, m, l : q = pos[s].quantity /\ m = f.quantity /\ l = pos'[s].quantity
  OBVIOUS
<1>8. f.closed = (f.quantity = pos[s].quantity) /\ (~f.closed => f.quantity < pos[s].quantity)
  <2>1. q \in Nat /\ m \in Nat /\ m <= q /\ l = q - m /\ f.closed = (l = 0)
    BY <1>2, <1>4
  <2>2. (l = 0) = (m = q) /\ (l # 0 => m < q)
    BY <2>1
  <2>3. f.closed = (m = q) /\ (~f.closed => m < q)
    BY <2>1, <2>2
  <2> QED
    BY <2>3
<1>9. ToldWhenClosed(pos[s], f, pnl)
  BY <1>2, <1>8 DEF ToldWhenClosed
<1> PICK n : n = <<price, fee, pnl>>
  OBVIOUS
<1>10. n[1] = price /\ n[2] = fee /\ n[3] = pnl
  OBVIOUS
<1>11. SellsHeld(s, f, n)
  BY <1>1, <1>2, <1>3, <1>7, <1>8, <1>9, <1>10 DEF SellsHeld
<1> QED
  BY <1>11

LEMMA LeftMirrors ==
  ASSUME NEW e, NEW p, NEW at, NEW left, NEW f, NEW pnl, NEW share,
         LeftBy(left, p, e, at, f, pnl, share), NEW g, g.quantity = e.quantity - f.quantity,
         g.average = e.average, g.fees = e.fees - share, g.pnl = e.pnl + pnl
  PROVE  Mirrors(left, g, at)
<1> PICK rest : rest = LeftOf(e, f, pnl, share)
  OBVIOUS
<1>1. /\ rest.quantity = g.quantity /\ rest.average = g.average
      /\ rest.fees = g.fees /\ rest.pnl = g.pnl
  BY DEF LeftOf
<1>2. Mirrors(left, rest, at)
  BY DEF LeftBy
<1> QED
  BY <1>1, <1>2 DEF Mirrors

(* What is absorbed after a further sell was so before it.                 *)
LEMMA AbsorbedBefore ==
  ASSUME NEW p, p \in OpenPos, NEW left, NEW n \in Nat,
         left.closedQuantity = p.closedQuantity + n, Len(left.exits) = Len(p.exits) + 1,
         Absorbed(left)
  PROVE  Absorbed(p)
<1>1. PICK q \in Nat, k \in Nat : q = p.closedQuantity /\ k = Len(p.exits)
  BY LenProperties DEF OpenPos
<1>2. PICK t \in Nat : t = 4 * TickValue
  BY TickValueType
<1>3. k + 1 <= 2 /\ t * (q + n) <= 15 * Cent
  BY <1>1, <1>2 DEF Absorbed
<1>4. t * q <= t * (q + n)
  <2>1. q * t <= (q + n) * t
    BY TimesMonotone
  <2> QED
    BY <2>1
<1>5. t * q \in Int /\ t * (q + n) \in Int /\ Cent \in Int
  BY ProductType, CentFacts
<1>6. k <= 2 /\ t * q <= 15 * Cent
  BY <1>3, <1>4, <1>5
<1> QED
  BY <1>1, <1>2, <1>6 DEF Absorbed

(* What is left of the position s, and the row of it when nothing is left. *)
SellsFrom(s, f, k, n, p, left) ==
  /\ SellsHeld(s, f, n) /\ s \in HeldSymbols
  /\ p = BookNow.open[KeyOf(s)] /\ KeyOf(s) \in DOMAIN BookNow.open
  /\ Mirrors(p, pos[s], barAt[s])
  /\ left = Reduced(p, RowOf(k, f)) /\ f.closed = (left.quantity = 0)
  /\ LeftBy(left, p, pos[s], barAt[s], f, n[3], FeeShare(s))
  /\ CloseErrors(p, left, f) \subseteq Residuals
  /\ Absorbed(left) => CloseErrors(p, left, f) = {}
  /\ f.closed /\ "round_trip_realized_pnl_mismatch" \notin CloseErrors(p, left, f)
       => ~Beyond(f.roundTrip, left.engineNet, 15 * Cent)
  /\ BookNow' = SoldBook(BookNow, k, f, p, left)

LEMMA SellIsBooked ==
  ASSUME PricesShow,
         TypeOK, TypeOK', VolumeMetered, Booked, LedgerTypes, Timed, BookWell,
         NEW s \in Symbols, NEW ref \in Int, SoldNow(s, ref), NEW f, f = SellTrade(s, ref),
         NEW k \in Nat, k = Len(trades) + 1
  PROVE  \E n, p, left : SellsFrom(s, f, k, n, p, left)
<1>1. PICK n : SellsHeld(s, f, n)
  BY SellFacts
<1>2. /\ f \in Fill /\ f.side = "sell" /\ f.symbol = s /\ f.at = barAt[s] /\ ValidFill(f)
      /\ trades' = Append(trades, f)
      /\ SellOf(pos[s], f, n[1], n[2], n[3], FeeShare(s)) /\ ToldWhenClosed(pos[s], f, n[3])
  BY <1>1 DEF SellsHeld
<1> PICK e, at, share, price, fee, pnl :
        /\ e = pos[s] /\ at = barAt[s] /\ share = FeeShare(s)
        /\ price = n[1] /\ fee = n[2] /\ pnl = n[3]
  OBVIOUS
<1>4. /\ e \in Position /\ at \in Nat /\ SellOf(e, f, price, fee, pnl, share)
      /\ ToldWhenClosed(e, f, pnl)
      /\ f.quantity \in Nat /\ e.quantity \in Nat /\ 0 < f.quantity /\ f.quantity <= e.quantity
  BY <1>2, PositionFacts DEF LedgerTypes, SellOf, Fill
<1>5. s \in HeldSymbols /\ e.quantity # 0
  BY <1>4 DEF HeldSymbols, Held
<1> PICK key, p, row, left :
        /\ key = KeyOf(s) /\ p = BookNow.open[key] /\ row = RowOf(k, f)
        /\ left = Reduced(p, row)
  OBVIOUS
<1>6. Mirrors(p, e, at) /\ key \in DOMAIN BookNow.open
  BY <1>5 DEF BookWell
<1>7. /\ CloseErrors(p, left, f) \subseteq Residuals
      /\ Absorbed(left) => CloseErrors(p, left, f) = {}
      /\ f.closed = (left.quantity = 0)
      /\ f.closed /\ "round_trip_realized_pnl_mismatch" \notin CloseErrors(p, left, f)
           => ~Beyond(f.roundTrip, left.engineNet, 15 * Cent)
  BY <1>4, <1>6, ClosesWell
<1>8. LeftBy(left, p, e, at, f, pnl, share)
  BY <1>4, <1>6, ReducedFacts
<1>10. Admissible(BookNow, k, f)
  BY <1>2, NextIsAdmissible
<1>11. BookNow' = Admit(BookNow, row)
  BY <1>2, OneRowMore
<1>12. p \in OpenPos /\ p.quantity # 0 /\ f.quantity <= p.quantity
  BY <1>4, <1>5, <1>6 DEF Mirrors
<1>13. BookNow' = SoldBook(BookNow, k, f, p, left)
  <2>1. KeyOf(f.symbol) = key
    BY <1>2, <1>5
  <2>2. SellsOpen(BookNow, k, f, p, left)
    BY <1>2, <1>6, <1>10, <1>12, <2>1 DEF SellsOpen
  <2>3. Admit(BookNow, RowOf(k, f)) = SoldBook(BookNow, k, f, p, left)
    BY <2>2, SellAdmitted
  <2> QED
    BY <1>11, <2>3
<1>14. SellsFrom(s, f, k, n, p, left)
  BY <1>1, <1>5, <1>6, <1>7, <1>8, <1>13 DEF SellsFrom
<1> QED
  BY <1>14

(* The errors and the reach of the roundings after a sell.                 *)
LEMMA SellExplained ==
  ASSUME BookWell, NEW s \in Symbols, NEW f, NEW k, NEW n, NEW p, NEW left,
         SellsFrom(s, f, k, n, p, left), SameElsewhere(s),
         f.closed => /\ BookNow'.closed = Append(BookNow.closed, Completed(left, RowOf(k, f)))
                     /\ s \notin HeldSymbols',
         ~f.closed => /\ BookNow'.closed = BookNow.closed
                      /\ s \in HeldSymbols' /\ BookNow'.open[KeyOf(s)] = left
  PROVE  /\ RoundTripNoted => RoundTripNoted'
         /\ ErrorsExplained => ErrorsExplained'
         /\ f.closed /\ ~RoundTripNoted' => ~Beyond(f.roundTrip, left.engineNet, 15 * Cent)
<1> PICK errs, row : errs = CloseErrors(p, left, f) /\ row = Completed(left, RowOf(k, f))
  OBVIOUS
<1>1. /\ BookNow'.errors = BookNow.errors \cup errs
      /\ Absorbed(left) => errs = {}
      /\ f.closed /\ "round_trip_realized_pnl_mismatch" \notin errs
           => ~Beyond(f.roundTrip, left.engineNet, 15 * Cent)
  BY Zenon DEF SellsFrom, SoldBook
<1>2. /\ p = BookNow.open[KeyOf(s)] /\ s \in HeldSymbols /\ p \in OpenPos
      /\ f.quantity \in Nat /\ f.closed \in BOOLEAN
      /\ left.closedQuantity = p.closedQuantity + f.quantity
      /\ Len(left.exits) = Len(p.exits) + 1
  BY DEF SellsFrom, LeftBy, Mirrors, SellsHeld, Fill
<1>3. row.exits = left.exits /\ row.quantity = left.closedQuantity
  BY Zenon DEF Completed
<1>4. ASSUME AllAbsorbed' PROVE Absorbed(left) /\ AllAbsorbed
  <2>1. \A i \in 1..Len(BookNow'.closed) : Phase10Absorbs(BookNow'.closed[i])
    BY <1>4 DEF AllAbsorbed
  <2>2. \A t \in HeldSymbols' : Absorbed(BookNow'.open[KeyOf(t)])
    BY <1>4 DEF AllAbsorbed
  <2> PICK rows, more : rows = BookNow.closed /\ more = BookNow'.closed
    OBVIOUS
  <2>3. rows \in Seq(ClosedPos)
    BY DEF BookWell
  <2>4. Absorbed(left) /\ \A i \in 1..Len(rows) : Phase10Absorbs(rows[i])
    <3>1. CASE f.closed
      <4>1. more = Append(rows, row)
        BY <3>1
      <4>2. /\ Len(more) = Len(rows) + 1 /\ Len(rows) \in Nat
            /\ more[Len(rows) + 1] = row /\ \A i \in 1..Len(rows) : more[i] = rows[i]
        BY <2>3, <4>1, AppendProperties, LenProperties
      <4>3. \A i \in 1..Len(rows) : i \in 1..Len(more) /\ more[i] = rows[i]
        BY <4>2
      <4>4. \A i \in 1..Len(rows) : Phase10Absorbs(rows[i])
        BY <2>1, <4>3
      <4>5. Len(rows) + 1 \in 1..Len(more)
        BY <4>2
      <4>6. Phase10Absorbs(row)
        BY <2>1, <4>2, <4>5
      <4>7. Absorbed(left)
        BY <1>3, <4>6 DEF Phase10Absorbs, Absorbed
      <4> QED
        BY <4>4, <4>7
    <3>2. CASE ~f.closed
      <4>1. Absorbed(left)
        BY <2>2, <3>2
      <4> QED
        BY <2>1, <3>2, <4>1
    <3> QED
      BY <1>2, <3>1, <3>2
  <2>5. Absorbed(p)
    BY <1>2, <2>4, AbsorbedBefore
  <2>6. \A t \in HeldSymbols \ {s} :
          t \in HeldSymbols' /\ BookNow'.open[KeyOf(t)] = BookNow.open[KeyOf(t)]
    BY DEF SameElsewhere, HeldSymbols
  <2>7. \A t \in HeldSymbols : Absorbed(BookNow.open[KeyOf(t)])
    BY <1>2, <2>2, <2>5, <2>6
  <2> QED
    BY <2>4, <2>7 DEF AllAbsorbed
<1>5. ErrorsExplained => ErrorsExplained'
  BY <1>1, <1>4 DEF ErrorsExplained
<1> QED
  BY <1>1, <1>5 DEF RoundTripNoted

LEMMA BookSold ==
  ASSUME PricesShow,
         TypeOK, TypeOK', VolumeMetered, Booked, LedgerTypes, Timed, BookWell,
         NEW s \in Symbols, NEW ref \in Int, SoldNow(s, ref)
  PROVE  BookWell' /\ ClosedBy(SellTrade(s, ref))
<1>1. PICK f : f = SellTrade(s, ref)
  OBVIOUS
<1>3. PICK k \in Nat : k = Len(trades) + 1
  <2>1. f \in Fill /\ trades' = Append(trades, f)
    BY <1>1, SellFacts DEF SellsHeld
  <2>2. Len(trades) \in Nat
    BY <2>1, OneFillMore
  <2> QED
    BY <2>2
<1>4. PICK n, p, left : SellsFrom(s, f, k, n, p, left)
  BY <1>1, <1>3, SellIsBooked
<1> PICK e, at, share, price, fee, pnl :
        /\ e = pos[s] /\ at = barAt[s] /\ share = FeeShare(s)
        /\ price = n[1] /\ fee = n[2] /\ pnl = n[3]
  OBVIOUS
<1>2. /\ f \in Fill /\ f.symbol = s /\ f.at = barAt[s]
      /\ trades' = Append(trades, f) /\ BooksOnly
      /\ SellOf(e, f, price, fee, pnl, share) /\ ToldWhenClosed(e, f, pnl)
      /\ f.closed = (pos'[s].quantity = 0)
      /\ ~f.closed => /\ pos'[s].pnl = pos[s].pnl + pnl
                      /\ pos'[s].average = pos[s].average
      /\ pos'[s].quantity = pos[s].quantity - f.quantity
      /\ pos'[s].fees = pos[s].fees - FeeShare(s)
      /\ \A t \in Symbols \ {s} : pos'[t] = pos[t]
  BY <1>4 DEF SellsFrom, SellsHeld
<1> PICK key, row : key = KeyOf(s) /\ row = RowOf(k, f)
  OBVIOUS
<1>5. /\ s \in HeldSymbols /\ p = BookNow.open[key] /\ key \in DOMAIN BookNow.open
      /\ Mirrors(p, e, at) /\ left = Reduced(p, row) /\ f.closed = (left.quantity = 0)
      /\ LeftBy(left, p, e, at, f, pnl, share)
      /\ CloseErrors(p, left, f) \subseteq Residuals
      /\ BookNow' = SoldBook(BookNow, k, f, p, left)
  BY <1>4 DEF SellsFrom
<1>6. e \in Position /\ at \in Nat
  BY PositionFacts DEF LedgerTypes
<1> PICK kept : kept = Kept(BookNow, key)
  OBVIOUS
<1>13. BookNow' = [ errors |-> BookNow.errors \cup CloseErrors(p, left, f),
               seen |-> BookNow.seen \cup {<<1, k>>},
               last |-> Put(BookNow.last, key, f.at),
               open |-> IF left.quantity = 0 THEN kept ELSE Put(kept, key, left),
               closed |-> IF left.quantity = 0 THEN Append(BookNow.closed, Completed(left, row))
                          ELSE BookNow.closed ]
  <2>1. KeyOf(f.symbol) = key
    BY <1>2
  <2> QED
    BY <1>5, <2>1 DEF SoldBook
<1>14. Onward(f, k)
  <2>1. BookNow.errors \cup CloseErrors(p, left, f) \subseteq Residuals
    BY <1>5 DEF BookWell, Flawless
  <2> QED
    BY <1>2, <1>13, <2>1 DEF Onward, Flawless
<1>15. /\ DOMAIN kept = DOMAIN BookNow.open \ {key}
       /\ \A j \in DOMAIN BookNow.open \ {key} : kept[j] = BookNow.open[j]
  BY DEF Kept
<1>16. DOMAIN BookNow.open = {KeyOf(t) : t \in HeldSymbols}
  BY DEF BookWell
<1>17. DOMAIN kept = {KeyOf(t) : t \in HeldSymbols \ {s}}
  BY <1>15, <1>16, KeysDiffer
<1>18. \A t \in HeldSymbols \ {s} :
         KeyOf(t) # key /\ KeyOf(t) \in DOMAIN kept /\ kept[KeyOf(t)] = BookNow.open[KeyOf(t)]
  BY <1>15, <1>16, KeysDiffer
<1>19. /\ HeldSymbols' \ {s} = HeldSymbols \ {s} /\ (s \in HeldSymbols' <=> ~f.closed)
       /\ \A t \in Symbols \ {s} : t \in HeldSymbols' <=> t \in HeldSymbols
  <2>1. pos'[s].quantity \in Nat
    BY DEF TypeOK, Position
  <2>2. \A t \in Symbols \ {s} : pos'[t] = pos[t]
    BY <1>2
  <2>3. HeldSymbols' = {t \in Symbols : pos'[t].quantity > 0}
    BY DEF HeldSymbols, Held
  <2>4. HeldSymbols = {t \in Symbols : pos[t].quantity > 0}
    BY DEF HeldSymbols, Held
  <2>5. HeldSymbols' \ {s} = HeldSymbols \ {s}
    BY <2>2, <2>3, <2>4
  <2>6. s \in HeldSymbols' <=> pos'[s].quantity # 0
    BY <2>1, <2>3
  <2>7. ~f.closed <=> pos'[s].quantity # 0
    BY <1>2
  <2> QED
    BY <2>5, <2>6, <2>7
<1>20. \A t \in Symbols : KeyOf(t) \in DOMAIN BookNow'.last =>
         BookNow'.last[KeyOf(t)] \in Nat /\ BookNow'.last[KeyOf(t)] <= barAt'[t]
  BY <1>2, <1>14, LastStays
<1>21. BookNow'.seen = {<<1, i>> : i \in 1..Len(trades')} /\ Flawless(BookNow')
  BY <1>2, <1>3, <1>14, SeenFacts DEF Onward
<1>25. OpenNets[s] = p.engineNet
  BY <1>5 DEF OpenNets
<1>26. left.engineNet = p.engineNet + f.pnl
  BY <1>5 DEF LeftBy
<1>22. CASE f.closed
  <2>1. left.quantity = 0 /\ HeldSymbols' = HeldSymbols \ {s}
    BY <1>5, <1>19, <1>22
  <2>2. PICK r : r = Completed(left, row)
    OBVIOUS
  <2>3. BookNow'.open = kept /\ BookNow'.closed = Append(BookNow.closed, r)
    BY <1>13, <2>1, <2>2
  <2>4. SoundRow(r) /\ r.engineNet = p.engineNet + f.pnl
    <3>1. f.quantity = e.quantity
      BY <1>2, <1>22 DEF ToldWhenClosed
    <3>2. at <= f.at
      BY <1>2, <1>6
    <3> QED
      BY <1>2, <1>3, <1>5, <1>6, <2>2, <3>1, <3>2, CompletedIsSound
  <2>5. \A t \in HeldSymbols' \ {s} : Mirrors(kept[KeyOf(t)], pos'[t], barAt'[t])
    BY <1>2, <1>18, OthersMirrored
  <2>6. \A t \in HeldSymbols' : Mirrors(BookNow'.open[KeyOf(t)], pos'[t], barAt'[t])
    BY <2>1, <2>3, <2>5
  <2>7. DOMAIN BookNow'.open = {KeyOf(t) : t \in HeldSymbols'}
    BY <1>17, <2>1, <2>3
  <2>8. /\ BookNow'.closed \in Seq(ClosedPos)
        /\ \A i \in 1..Len(BookNow'.closed) : SoundRow(BookNow'.closed[i])
    <3> PICK old, new : old = BookNow.closed /\ new = BookNow'.closed
      OBVIOUS
    <3>1. /\ old \in Seq(ClosedPos) /\ r \in ClosedPos /\ new = Append(old, r)
          /\ \A i \in 1..Len(old) : SoundRow(old[i])
      BY <2>3, <2>4 DEF BookWell, SoundRow
    <3>2. /\ new \in Seq(ClosedPos) /\ Len(new) = Len(old) + 1 /\ Len(old) \in Nat
          /\ new[Len(old) + 1] = r /\ \A i \in 1..Len(old) : new[i] = old[i]
      BY <3>1, AppendProperties, LenProperties
    <3>3. \A i \in 1..Len(new) : i \in 1..Len(old) \/ i = Len(old) + 1
      BY <3>2
    <3>4. \A i \in 1..Len(new) : SoundRow(new[i])
      BY <2>4, <3>1, <3>2, <3>3
    <3> QED
      BY <3>2, <3>4
  <2>9. BookWell'
    BY <1>20, <1>21, <2>6, <2>7, <2>8 DEF BookWell
  <2>10. r \in ClosedPos
    BY <2>4 DEF SoundRow
  <2>11. SameElsewhere(s)
    BY <1>18, <1>19, <2>3 DEF SameElsewhere, HeldSymbols
  <2>12. OpenNets'[s] = 0
    BY <1>19, <1>22 DEF OpenNets
  <2>13. /\ RoundTripNoted => RoundTripNoted'
         /\ ErrorsExplained => ErrorsExplained'
         /\ ~RoundTripNoted' => ~Beyond(f.roundTrip, left.engineNet, 15 * Cent)
    BY <1>4, <1>19, <1>22, <2>2, <2>3, <2>11, SellExplained
  <2>14. r.engineNet = OpenNets[s] + f.pnl /\ r.engineNet = left.engineNet
    BY <1>25, <1>26, <2>4
  <2>15. \A t \in Symbols \ {s} : OpenNets'[t] = OpenNets[t]
    BY <2>11, OpenNetsElsewhere
  <2> QED
    BY <1>1, <1>2, <1>22, <2>3, <2>4, <2>9, <2>10, <2>12, <2>13, <2>14, <2>15 DEF ClosedBy
<1>23. CASE ~f.closed
  <2>1. left.quantity # 0 /\ s \in HeldSymbols' /\ HeldSymbols' = (HeldSymbols \ {s}) \cup {s}
    BY <1>5, <1>19, <1>23
  <2> PICK new : new = BookNow'.open
    OBVIOUS
  <2>2. new = Put(kept, key, left) /\ BookNow'.closed = BookNow.closed
    BY <1>13, <2>1
  <2>3. /\ DOMAIN new = DOMAIN kept \cup {key} /\ new[key] = left
        /\ \A j \in DOMAIN kept : j # key => new[j] = kept[j]
    BY <2>2 DEF Put
  <2>4. \A t \in HeldSymbols \ {s} : new[KeyOf(t)] = BookNow.open[KeyOf(t)]
    BY <1>18, <2>3
  <2>5. \A t \in HeldSymbols' \ {s} : Mirrors(new[KeyOf(t)], pos'[t], barAt'[t])
    BY <1>2, <2>4, OthersMirrored
  <2>6. Mirrors(new[KeyOf(s)], pos'[s], barAt'[s])
    <3> PICK g : g = pos'[s]
      OBVIOUS
    <3>1. /\ g.quantity = e.quantity - f.quantity /\ g.average = e.average
          /\ g.fees = e.fees - share /\ g.pnl = e.pnl + pnl
      BY <1>2, <1>23
    <3>2. Mirrors(left, g, at)
      BY <1>5, <3>1, LeftMirrors
    <3> QED
      BY <1>2, <2>3, <3>2 DEF BooksOnly
  <2>7. \A t \in HeldSymbols' : Mirrors(BookNow'.open[KeyOf(t)], pos'[t], barAt'[t])
    BY <2>5, <2>6
  <2>8. DOMAIN BookNow'.open = {KeyOf(t) : t \in HeldSymbols'}
    BY <1>17, <2>1, <2>3
  <2>9. /\ BookNow'.closed \in Seq(ClosedPos)
        /\ \A i \in 1..Len(BookNow'.closed) : SoundRow(BookNow'.closed[i])
    BY <2>2 DEF BookWell
  <2>10. BookWell'
    BY <1>20, <1>21, <2>7, <2>8, <2>9 DEF BookWell
  <2>11. SameElsewhere(s)
    BY <1>19, <2>4 DEF SameElsewhere, HeldSymbols
  <2>12. OpenNets'[s] = OpenNets[s] + f.pnl
    <3>1. OpenNets'[s] = new[KeyOf(s)].engineNet
      BY <2>1 DEF OpenNets
    <3> QED
      BY <1>25, <1>26, <2>3, <3>1
  <2>13. /\ RoundTripNoted => RoundTripNoted'
         /\ ErrorsExplained => ErrorsExplained'
    BY <1>4, <1>23, <2>1, <2>2, <2>3, <2>11, SellExplained
  <2>15. \A t \in Symbols \ {s} : OpenNets'[t] = OpenNets[t]
    BY <2>11, OpenNetsElsewhere
  <2> QED
    BY <1>1, <1>2, <1>23, <2>1, <2>2, <2>10, <2>12, <2>13, <2>15 DEF ClosedBy
<1>24. f.closed \in BOOLEAN
  BY <1>2 DEF Fill
<1> QED
  BY <1>22, <1>23, <1>24

LEMMA ClosedNet ==
  ASSUME NEW rows \in Seq(ClosedPos), NEW n \in 1..Len(rows)
  PROVE  /\ rows[n] \in ClosedPos /\ rows[n].net \in Int /\ rows[n].engineNet \in Int
         /\ rows[n].quantity \in Nat
<1>1. rows[n] \in ClosedPos
  BY ElementOfSeq
<1> QED
  BY <1>1 DEF ClosedPos

LEMMA NetsFacts ==
  ASSUME NEW rows \in Seq(ClosedPos)
  PROVE  /\ Len(rows) \in Nat /\ IsFiniteSet(1..Len(rows))
         /\ IsFiniteSet(ClearLosses(rows)) /\ IsFiniteSet(ClearWins(rows))
         /\ ClearLosses(rows) \subseteq 1..Len(rows) /\ ClearWins(rows) \subseteq 1..Len(rows)
         /\ Cardinality(ClearLosses(rows)) \in Nat /\ Cardinality(ClearWins(rows)) \in Nat
         /\ EngineNetsOf(rows) \in [1..Len(rows) -> Int]
         /\ SumFunction(EngineNetsOf(rows)) \in Int
<1>1. Len(rows) \in Nat
  BY LenProperties
<1>2. IsFiniteSet(1..Len(rows))
  BY <1>1, 1 \in Int, Len(rows) \in Int, FS_Interval
<1>3. ClearLosses(rows) \subseteq 1..Len(rows) /\ ClearWins(rows) \subseteq 1..Len(rows)
  BY DEF ClearLosses, ClearWins
<1>4. IsFiniteSet(ClearLosses(rows)) /\ IsFiniteSet(ClearWins(rows))
  BY <1>2, <1>3, FS_Subset
<1>5. EngineNetsOf(rows) \in [1..Len(rows) -> Int]
  BY ClosedNet DEF EngineNetsOf
<1>6. SumFunction(EngineNetsOf(rows)) \in Int
  BY <1>2, <1>5, SumType
<1> QED
  BY <1>1, <1>2, <1>3, <1>4, <1>5, <1>6, FS_CardinalityType

(* A profit that is clear is one in the engine's own rounding, too.        *)
LEMMA ClearTrip ==
  ASSUME NEW r \in ClosedPos, NEW trip \in Int, ~Beyond(trip, r.engineNet, 15 * Cent)
  PROVE  /\ Clearly(r.engineNet, r) => trip > 0
         /\ Clearly(0 - r.engineNet, r) => trip < 0
<1>1. PICK en \in Int, q \in Nat : en = r.engineNet /\ q = r.quantity
  BY DEF ClosedPos
<1>2. PICK c \in Nat : c = Cent
  BY RoundingAssumption
<1>3. PICK res \in Int : res = Residual(1, q) /\ res >= 0
  <2>1. /\ Residual(1, q) = 30 * (Cent * 1) + 6 * (TickValue * q)
        /\ Residual(1, q) \in Int
    BY <1>1, ResidualIs
  <2>2. PICK t \in Nat : t = TickValue * q
    BY <1>1, DriftFacts, 0 \in Nat
  <2> QED
    BY <1>2, <2>1, <2>2
<1>4. 10 * Off(trip, en) <= 15 * c
  BY <1>1, <1>2 DEF Beyond, Off
<1>5. ASSUME Clearly(r.engineNet, r) PROVE trip > 0
  <2>1. 10 * en > res + 15 * c
    BY <1>1, <1>2, <1>3, <1>5 DEF Clearly
  <2> QED
    BY <1>3, <1>4, <2>1 DEF Off
<1>6. ASSUME Clearly(0 - r.engineNet, r) PROVE trip < 0
  <2>1. 10 * (0 - en) > res + 15 * c
    BY <1>1, <1>2, <1>3, <1>6 DEF Clearly
  <2> QED
    BY <1>3, <1>4, <2>1 DEF Off
<1> QED
  BY <1>5, <1>6

LEMMA OneMoreCounted ==
  ASSUME NEW S, IsFiniteSet(S), NEW k, k \notin S, NEW T, NEW yes,
         yes => T = S \cup {k}, ~yes => T = S
  PROVE  Cardinality(T) = Cardinality(S) + (IF yes THEN 1 ELSE 0)
<1>1. Cardinality(S) \in Nat
  BY FS_CardinalityType
<1>2. CASE yes
  <2>1. Cardinality(S \cup {k}) = Cardinality(S) + 1
    BY FS_AddElement
  <2> QED
    BY <1>2, <2>1
<1>3. CASE ~yes
  BY <1>1, <1>3
<1> QED
  BY <1>2, <1>3

LEMMA OneClosedMore ==
  ASSUME NEW rows \in Seq(ClosedPos), NEW r \in ClosedPos, NEW more, more = Append(rows, r)
  PROVE  /\ Len(more) = Len(rows) + 1 /\ Len(rows) \in Nat
         /\ Cardinality(ClearLosses(more))
              = Cardinality(ClearLosses(rows)) + (IF Clearly(0 - r.engineNet, r) THEN 1 ELSE 0)
         /\ Cardinality(ClearWins(more))
              = Cardinality(ClearWins(rows)) + (IF Clearly(r.engineNet, r) THEN 1 ELSE 0)
         /\ SumFunction(EngineNetsOf(more)) = SumFunction(EngineNetsOf(rows)) + r.engineNet
<1>1. /\ more \in Seq(ClosedPos) /\ Len(more) = Len(rows) + 1 /\ Len(rows) \in Nat
      /\ more[Len(rows) + 1] = r /\ \A n \in 1..Len(rows) : more[n] = rows[n]
  BY AppendProperties, LenProperties
<1> PICK m \in Nat, k \in Nat : m = Len(rows) /\ k = m + 1
  BY <1>1
<1>2. /\ Len(rows) = m /\ Len(more) = k /\ 1..k = (1..m) \cup {k} /\ k \notin 1..m
      /\ more[k] = r /\ \A n \in 1..m : more[n] = rows[n]
  BY <1>1
<1>3. /\ IsFiniteSet(ClearLosses(rows)) /\ IsFiniteSet(ClearWins(rows))
      /\ k \notin ClearLosses(rows) /\ k \notin ClearWins(rows)
  BY <1>2, NetsFacts
<1>4. /\ Clearly(0 - r.engineNet, r) => ClearLosses(more) = ClearLosses(rows) \cup {k}
      /\ ~Clearly(0 - r.engineNet, r) => ClearLosses(more) = ClearLosses(rows)
  BY <1>2 DEF ClearLosses
<1>5. /\ Clearly(r.engineNet, r) => ClearWins(more) = ClearWins(rows) \cup {k}
      /\ ~Clearly(r.engineNet, r) => ClearWins(more) = ClearWins(rows)
  BY <1>2 DEF ClearWins
<1> PICK lost, won, lostMore, wonMore, isLost, isWon :
      /\ lost = ClearLosses(rows) /\ won = ClearWins(rows)
      /\ lostMore = ClearLosses(more) /\ wonMore = ClearWins(more)
      /\ isLost = Clearly(0 - r.engineNet, r) /\ isWon = Clearly(r.engineNet, r)
  OBVIOUS
<1>6. Cardinality(lostMore) = Cardinality(lost) + (IF isLost THEN 1 ELSE 0)
  BY <1>3, <1>4, OneMoreCounted
<1>8. Cardinality(wonMore) = Cardinality(won) + (IF isWon THEN 1 ELSE 0)
  BY <1>3, <1>5, OneMoreCounted
<1>7. SumFunction(EngineNetsOf(more)) = SumFunction(EngineNetsOf(rows)) + r.engineNet
  <2> PICK g, h : g = EngineNetsOf(rows) /\ h = EngineNetsOf(more)
    OBVIOUS
  <2>1. g \in [1..m -> Int] /\ h \in [1..k -> Int]
    BY <1>1, <1>2, NetsFacts
  <2>2. k \in 1..k /\ \A n \in 1..m : n \in 1..k
    BY <1>2
  <2>3. h[k] = r.engineNet /\ \A n \in 1..m : h[n] = g[n]
    BY <1>2, <2>2 DEF EngineNetsOf
  <2>4. SumFunction(h) = SumFunction(g) + h[m + 1]
    BY <2>1, <2>3, SumOfLonger
  <2> QED
    BY <2>3, <2>4
<1> QED
  BY <1>1, <1>6, <1>7, <1>8

LEMMA CountsStay ==
  ASSUME CountsAgree, BookNow'.closed = BookNow.closed,
         BookNow'.errors = BookNow.errors, OpenNets' = OpenNets, ExitPnls' = ExitPnls,
         RoundTrips' = RoundTrips, Losers' = Losers, Winners' = Winners
  PROVE  CountsAgree'
<1> PICK rows, errs : rows = BookNow.closed /\ errs = BookNow.errors
  OBVIOUS
<1>1. BookNow'.closed = rows /\ BookNow'.errors = errs
  OBVIOUS
<1>2. RoundTripNoted' = RoundTripNoted
  BY DEF RoundTripNoted
<1>3. /\ Len(rows) = Cardinality(RoundTrips')
      /\ SumFunction(EngineNetsOf(rows)) + SumFunction(OpenNets') = SumFunction(ExitPnls')
      /\ ~RoundTripNoted' => /\ Cardinality(ClearWins(rows)) <= Cardinality(Winners')
                             /\ Cardinality(ClearLosses(rows)) <= Cardinality(Losers')
  BY <1>2 DEF CountsAgree
<1> QED
  BY <1>1, <1>3 DEF CountsAgree

(* The engine's profits of the open positions are integers.                *)
LEMMA OpenNetsType ==
  ASSUME BookWell
  PROVE  OpenNets \in [Symbols -> Int]
<1> SUFFICES ASSUME NEW s \in Symbols
             PROVE (IF s \in HeldSymbols THEN BookNow.open[KeyOf(s)].engineNet ELSE 0) \in Int
  BY DEF OpenNets
<1>1. s \in HeldSymbols => BookNow.open[KeyOf(s)] \in OpenPos
  BY DEF BookWell, Mirrors
<1>2. s \in HeldSymbols => BookNow.open[KeyOf(s)].engineNet \in Int
  BY <1>1 DEF OpenPos
<1> QED
  BY <1>2

LEMMA BuyCounts ==
  ASSUME PricesShow,
         TypeOK, TypeOK', VolumeMetered, Booked, LedgerTypes, Timed, BookWell, CountsAgree,
         NEW s \in Symbols, BoughtNow(s)
  PROVE  CountsAgree'
<1>1. Enter(s) /\ trades' = Append(trades, BuyTrade(s))
  BY DEF BoughtNow
<1>2. PICK f \in Fill : f = BuyTrade(s)
  BY <1>1, BuyReported
<1>3. f.side = "buy" /\ trades' = Append(trades, f)
  BY <1>1, <1>2, BuyReported
<1>4. Exits' = Exits /\ ExitPnls' = ExitPnls /\ RoundTrips' = RoundTrips
  BY <1>3, BuyMetrics
<1>5. \A i \in Exits : trades'[i] = trades[i]
  BY <1>3, ExitFacts, OneFillMore
<1>7. Losers' = Losers /\ Winners' = Winners
  BY <1>4, <1>5 DEF Losers, Winners, RoundTrips
<1>8. /\ BookNow'.closed = BookNow.closed /\ BookNow'.errors = BookNow.errors
      /\ OpenNets' = OpenNets
  BY BookBought
<1> QED
  BY <1>4, <1>7, <1>8, CountsStay

LEMMA SellCounts ==
  ASSUME PricesShow,
         TypeOK, TypeOK', VolumeMetered, Booked, LedgerTypes, Timed, BookWell, CountsAgree,
         NEW s \in Symbols, NEW ref \in Int, SoldNow(s, ref)
  PROVE  CountsAgree'
<1>1. SellFill(s) > 0 /\ ExitPosition(s, ref) /\ trades' = Append(trades, SellTrade(s, ref))
  BY DEF SoldNow
<1>2. PICK f \in Fill : f = SellTrade(s, ref)
  BY <1>1, SellReport
<1>3. f.side = "sell" /\ trades' = Append(trades, f) /\ f.symbol = s
  BY <1>1, <1>2, SellReport
<1>4. ClosedBy(f) /\ BookWell'
  BY <1>2, BookSold
<1>5. f.closed \in BOOLEAN /\ f.roundTrip \in Int /\ f.pnl \in Int
  BY DEF Fill
<1>6. PICK k : k = Len(trades) + 1
  OBVIOUS
<1>7. /\ k \notin Exits
      /\ RoundTrips' = IF f.closed THEN RoundTrips \cup {k} ELSE RoundTrips
      /\ Winners' = IF f.closed /\ f.roundTrip > 0 THEN Winners \cup {k} ELSE Winners
      /\ Losers' = IF f.closed /\ f.roundTrip < 0 THEN Losers \cup {k} ELSE Losers
  BY <1>3, <1>6, SellExits
<1>10. /\ RoundTripNoted => RoundTripNoted'
       /\ \A t \in Symbols \ {s} : OpenNets'[t] = OpenNets[t]
  BY <1>3, <1>4 DEF ClosedBy
<1>11. /\ OpenNets \in [Symbols -> Int] /\ OpenNets' \in [Symbols -> Int]
  <2>1. OpenNets \in [Symbols -> Int]
    BY OpenNetsType
  <2>3. BookWell' => OpenNets' \in [Symbols -> Int]
    <3>1. ASSUME BookWell' PROVE OpenNets' \in [Symbols -> Int]
      <4> SUFFICES ASSUME NEW t \in Symbols
                   PROVE (IF t \in HeldSymbols' THEN BookNow'.open[KeyOf(t)].engineNet ELSE 0)
                           \in Int
        BY DEF OpenNets
      <4>1. t \in HeldSymbols' => BookNow'.open[KeyOf(t)] \in OpenPos
        BY <3>1 DEF BookWell, Mirrors
      <4> QED
        BY <4>1 DEF OpenPos
    <3> QED
      BY <3>1
  <2> QED
    BY <1>4, <2>1, <2>3
<1> PICK nets, nets2 : nets = OpenNets /\ nets2 = OpenNets'
  OBVIOUS
<1>12. SumFunction(nets2) = SumFunction(nets) + (nets2[s] - nets[s])
  BY <1>10, <1>11, SymbolsFinite, SumUpdate
<1>13. /\ SumFunction(nets) \in Int /\ nets[s] \in Int /\ nets2[s] \in Int
  BY <1>11, SymbolsFinite, SumType
<1>14. SumFunction(ExitPnls') = SumFunction(ExitPnls) + f.pnl
  BY <1>3, SellMetrics
<1>15. SumFunction(ExitPnls) \in Int
  BY ExitFacts, SumType
<1> PICK sum, sum2 : sum = SumFunction(ExitPnls) /\ sum2 = SumFunction(ExitPnls')
  OBVIOUS
<1> PICK rows, more : rows = BookNow.closed /\ more = BookNow'.closed
  OBVIOUS
<1>16. rows \in Seq(ClosedPos)
  BY DEF BookWell
<1> PICK trips, won, lost, trips2, won2, lost2 :
      /\ trips = RoundTrips /\ won = Winners /\ lost = Losers
      /\ trips2 = RoundTrips' /\ won2 = Winners' /\ lost2 = Losers'
  OBVIOUS
<1>17. /\ Len(rows) = Cardinality(trips)
       /\ SumFunction(EngineNetsOf(rows)) + SumFunction(nets) = sum
       /\ ~RoundTripNoted => /\ Cardinality(ClearWins(rows)) <= Cardinality(won)
                             /\ Cardinality(ClearLosses(rows)) <= Cardinality(lost)
  BY DEF CountsAgree
<1>18. /\ SumFunction(EngineNetsOf(rows)) \in Int
       /\ Cardinality(ClearWins(rows)) \in Nat /\ Cardinality(ClearLosses(rows)) \in Nat
  BY <1>16, NetsFacts
<1>8. CASE ~f.closed
  <2>1. more = rows /\ nets2[s] = nets[s] + f.pnl
    BY <1>3, <1>4, <1>8 DEF ClosedBy
  <2>2. SumFunction(EngineNetsOf(more)) + SumFunction(nets2) = sum2
    BY <1>5, <1>12, <1>13, <1>14, <1>15, <1>17, <1>18, <2>1
  <2>3. trips2 = trips /\ won2 = won /\ lost2 = lost
    BY <1>7, <1>8
  <2> QED
    BY <1>10, <1>17, <2>1, <2>2, <2>3 DEF CountsAgree
<1>9. CASE f.closed
  <2>1. PICK r \in ClosedPos : /\ r.engineNet = nets[s] + f.pnl /\ more = Append(rows, r)
                               /\ ~RoundTripNoted' => ~Beyond(f.roundTrip, r.engineNet, 15 * Cent)
    BY <1>3, <1>4, <1>9 DEF ClosedBy
  <2>2. nets2[s] = 0
    BY <1>3, <1>4, <1>9 DEF ClosedBy
  <2>3. /\ Len(more) = Len(rows) + 1 /\ Len(rows) \in Nat
        /\ Cardinality(ClearLosses(more))
             = Cardinality(ClearLosses(rows)) + (IF Clearly(0 - r.engineNet, r) THEN 1 ELSE 0)
        /\ Cardinality(ClearWins(more))
             = Cardinality(ClearWins(rows)) + (IF Clearly(r.engineNet, r) THEN 1 ELSE 0)
        /\ SumFunction(EngineNetsOf(more)) = SumFunction(EngineNetsOf(rows)) + r.engineNet
    BY <1>16, <2>1, OneClosedMore
  <2>4. /\ IsFiniteSet(trips) /\ IsFiniteSet(won) /\ IsFiniteSet(lost)
        /\ k \notin trips /\ k \notin won /\ k \notin lost
    BY <1>7, ExitFacts
  <2>5. /\ trips2 = trips \cup {k}
        /\ f.roundTrip > 0 => won2 = won \cup {k}
        /\ ~(f.roundTrip > 0) => won2 = won
        /\ f.roundTrip < 0 => lost2 = lost \cup {k}
        /\ ~(f.roundTrip < 0) => lost2 = lost
    BY <1>7, <1>9
  <2>6. Cardinality(trips2) = Cardinality(trips) + 1
    BY <2>4, <2>5, FS_AddElement
  <2>7. Cardinality(won2) = Cardinality(won) + (IF f.roundTrip > 0 THEN 1 ELSE 0)
    BY <2>4, <2>5, OneMoreCounted
  <2>8. Cardinality(lost2) = Cardinality(lost) + (IF f.roundTrip < 0 THEN 1 ELSE 0)
    BY <2>4, <2>5, OneMoreCounted
  <2>9. SumFunction(EngineNetsOf(more)) + SumFunction(nets2) = sum2
    <3> PICK g, g2, n, n2 :
          /\ g = SumFunction(EngineNetsOf(rows)) /\ g2 = SumFunction(EngineNetsOf(more))
          /\ n = SumFunction(nets) /\ n2 = SumFunction(nets2)
      OBVIOUS
    <3>1. g \in Int /\ n \in Int /\ nets[s] \in Int /\ sum \in Int
      BY <1>13, <1>15, <1>18
    <3>2. g2 = g + r.engineNet /\ r.engineNet = nets[s] + f.pnl
      BY <2>1, <2>3
    <3>3. n2 = n + (nets2[s] - nets[s]) /\ nets2[s] = 0 /\ sum2 = sum + f.pnl /\ g + n = sum
      BY <1>12, <1>14, <1>17, <2>2
    <3>4. g2 + n2 = sum2
      BY <1>5, <3>1, <3>2, <3>3
    <3> QED
      BY <3>4
  <2>10. ASSUME ~RoundTripNoted'
         PROVE  /\ Cardinality(ClearWins(more)) <= Cardinality(won2)
                /\ Cardinality(ClearLosses(more)) <= Cardinality(lost2)
    <3>1. /\ Clearly(r.engineNet, r) => f.roundTrip > 0
          /\ Clearly(0 - r.engineNet, r) => f.roundTrip < 0
      BY <1>5, <2>1, <2>10, ClearTrip
    <3>2. /\ Cardinality(ClearWins(rows)) <= Cardinality(won)
          /\ Cardinality(ClearLosses(rows)) <= Cardinality(lost)
      BY <1>10, <1>17, <2>10
    <3>3. Cardinality(won) \in Nat /\ Cardinality(lost) \in Nat
      BY <2>4, FS_CardinalityType
    <3>4. Cardinality(ClearWins(more)) <= Cardinality(won2)
      <4> PICK a, b, c, d : /\ a = Cardinality(ClearWins(more)) /\ b = Cardinality(won2)
                            /\ c = Cardinality(ClearWins(rows)) /\ d = Cardinality(won)
        OBVIOUS
      <4>1. c \in Nat /\ d \in Nat /\ c <= d
        BY <1>18, <3>2, <3>3
      <4>2. CASE f.roundTrip > 0
        <5> PICK one : one = IF Clearly(r.engineNet, r) THEN 1 ELSE 0
          OBVIOUS
        <5>2. a = c + one /\ one \in {0, 1}
          BY <2>3
        <5>3. b = d + 1
          BY <2>7, <4>2
        <5>1. b = d + 1 /\ (a = c + 1 \/ a = c)
          BY <4>1, <5>2, <5>3
        <5> QED
          BY <4>1, <5>1
      <4>3. CASE ~(f.roundTrip > 0)
        <5>1. b = d + 0 /\ a = c + 0
          BY <2>3, <2>7, <3>1, <4>3
        <5> QED
          BY <4>1, <5>1
      <4> QED
        BY <4>2, <4>3
    <3>5. Cardinality(ClearLosses(more)) <= Cardinality(lost2)
      <4> PICK a, b, c, d : /\ a = Cardinality(ClearLosses(more)) /\ b = Cardinality(lost2)
                            /\ c = Cardinality(ClearLosses(rows)) /\ d = Cardinality(lost)
        OBVIOUS
      <4>1. c \in Nat /\ d \in Nat /\ c <= d
        BY <1>18, <3>2, <3>3
      <4>2. CASE f.roundTrip < 0
        <5> PICK one : one = IF Clearly(0 - r.engineNet, r) THEN 1 ELSE 0
          OBVIOUS
        <5>2. a = c + one /\ one \in {0, 1}
          BY <2>3
        <5>3. b = d + 1
          BY <2>8, <4>2
        <5>1. b = d + 1 /\ (a = c + 1 \/ a = c)
          BY <4>1, <5>2, <5>3
        <5> QED
          BY <4>1, <5>1
      <4>3. CASE ~(f.roundTrip < 0)
        <5>1. b = d + 0 /\ a = c + 0
          BY <2>3, <2>8, <3>1, <4>3
        <5> QED
          BY <4>1, <5>1
      <4> QED
        BY <4>2, <4>3
    <3> QED
      BY <3>4, <3>5
  <2>11. Len(more) = Cardinality(trips2)
    BY <1>17, <2>3, <2>6
  <2> QED
    BY <2>9, <2>10, <2>11 DEF CountsAgree
<1> QED
  BY <1>5, <1>8, <1>9

-----------------------------------------------------------------------------
(* What the chain relies on holds of every run.                            *)
Vouching ==
  Timed /\ FillsAreGood /\ BookWell /\ CountsAgree /\ ErrorsExplained /\ SomethingBooked

LEMMA VouchingStarts == LedgerInit => Vouching
<1> SUFFICES ASSUME LedgerInit PROVE Vouching
  OBVIOUS
<1>1. /\ trades = <<>> /\ Len(trades) = 0 /\ batches = 0 /\ roundTripPnl = 0
      /\ \A s \in Symbols : pos[s] = Flat /\ bar[s] = NoBar
  BY DEF LedgerInit, Init
<1>2. 1..0 = {}
  OBVIOUS
<1>3. BookNow = EmptyBook
  <2> PICK fills : fills = trades
    OBVIOUS
  <2>1. fills \in Seq(Fill) /\ Len(fills) = 0
    BY <1>1
  <2>2. Len(Rows(fills)) = 0
    BY <2>1, RowsFacts
  <2> QED
    BY <2>2, BookStarts DEF BookNow
<1>4. /\ BookNow.errors = {} /\ BookNow.seen = {} /\ BookNow.last = << >>
      /\ BookNow.open = << >> /\ BookNow.closed = <<>> /\ Len(BookNow.closed) = 0
      /\ DOMAIN BookNow.last = {} /\ DOMAIN BookNow.open = {}
  BY <1>3 DEF EmptyBook
<1>5. HeldSymbols = {}
  BY <1>1, FlatFacts DEF HeldSymbols, Held
<1>6. Timed
  BY <1>1, RequestAssumption DEF Timed
<1>7. FillsAreGood
  BY <1>1, <1>2 DEF FillsAreGood
<1>8. BookWell
  <2>1. Flawless(BookNow)
    BY <1>3 DEF Flawless, EmptyBook
  <2>2. BookNow.seen = {<<1, i>> : i \in 1..Len(trades)}
    BY <1>1, <1>2, <1>4
  <2>3. DOMAIN BookNow.open = {KeyOf(s) : s \in HeldSymbols}
    BY <1>4, <1>5
  <2>4. BookNow.closed \in Seq(ClosedPos)
    BY <1>4
  <2>5. \A n \in 1..Len(BookNow.closed) : SoundRow(BookNow.closed[n])
    BY <1>2, <1>4
  <2> QED
    BY <1>4, <1>5, <2>1, <2>2, <2>3, <2>4, <2>5 DEF BookWell
<1>9. CountsAgree
  <2> PICK rows, nets : rows = BookNow.closed /\ nets = OpenNets
    OBVIOUS
  <2>1. Len(rows) = 0
    BY <1>4
  <2>2. ClearLosses(rows) = {} /\ ClearWins(rows) = {} /\ EngineNetsOf(rows) \in [{} -> {0}]
    BY <1>2, <2>1 DEF ClearLosses, ClearWins, EngineNetsOf
  <2>3. RoundTrips = {} /\ Losers = {} /\ Winners = {} /\ Exits = {}
    BY <1>1, <1>2 DEF RoundTrips, Losers, Winners, Exits
  <2>4. IsFiniteSet({}) /\ Cardinality({}) = 0
    BY FS_EmptySet
  <2>5. SumFunction(EngineNetsOf(rows)) = 0
    BY <2>2, <2>4, SumOfZeros
  <2>6. SumFunction(nets) = 0
    <3>1. nets \in [Symbols -> {0}]
      BY <1>5 DEF OpenNets
    <3> QED
      BY <3>1, SymbolsFinite, SumOfZeros
  <2>7. SumFunction(ExitPnls) = 0
    <3>1. ExitPnls \in [{} -> {0}]
      BY <2>3 DEF ExitPnls
    <3> QED
      BY <2>4, <3>1, SumOfZeros
  <2>8. SumFunction(EngineNetsOf(rows)) + SumFunction(nets) = SumFunction(ExitPnls)
    BY <2>5, <2>6, <2>7
  <2> QED
    BY <2>1, <2>2, <2>3, <2>4, <2>8 DEF CountsAgree
<1>10. ErrorsExplained
  BY <1>4 DEF ErrorsExplained
<1> QED
  BY <1>1, <1>6, <1>7, <1>8, <1>9, <1>10 DEF Vouching, SomethingBooked

LEMMA VouchingStep ==
  ASSUME PricesShow,
         TypeOK, TypeOK', VolumeMetered, Booked, LedgerTypes, Vouching,
         [LedgerNext]_ledgerVars
  PROVE  Vouching'
<1>1. Timed /\ FillsAreGood /\ BookWell /\ CountsAgree /\ ErrorsExplained /\ SomethingBooked
  BY DEF Vouching
<1>2. \/ NoFill
      \/ \E s \in Symbols : BoughtNow(s)
      \/ \E s \in Symbols, ref \in Int : SoldNow(s, ref)
  BY LedgerSteps
<1>3. Timed' /\ FillsAreGood'
  BY <1>1, TimedStep, GoodFillsStep
<1>4. ASSUME NoFill
      PROVE  BookWell' /\ CountsAgree' /\ ErrorsExplained' /\ SomethingBooked'
  <2>1. UNCHANGED <<trades, pos>>
    BY <1>4 DEF NoFill
  <2>2. BookNow' = BookNow /\ HeldSymbols' = HeldSymbols /\ RoundTrips' = RoundTrips
    BY <2>1 DEF BookNow, HeldSymbols, Held, RoundTrips, Exits
  <2>3. Losers' = Losers /\ Winners' = Winners /\ ExitPnls' = ExitPnls
    BY <2>1, <2>2 DEF Losers, Winners, ExitPnls, Exits
  <2>4. OpenNets' = OpenNets /\ (AllAbsorbed' <=> AllAbsorbed)
    BY <2>2 DEF OpenNets, AllAbsorbed
  <2>5. CountsAgree'
    BY <1>1, <2>2, <2>3, <2>4, CountsStay
  <2>6. SomethingBooked' /\ ErrorsExplained'
    BY <1>1, <2>1, <2>2, <2>4 DEF SomethingBooked, ErrorsExplained
  <2> QED
    BY <1>1, <1>4, <2>5, <2>6, BookStays
<1>5. ASSUME NEW s \in Symbols, BoughtNow(s)
      PROVE  BookWell' /\ CountsAgree' /\ ErrorsExplained' /\ SomethingBooked'
  <2>1. BookWell' /\ HeldSymbols' # {} /\ ErrorsExplained'
    BY <1>1, <1>5, BookBought
  <2>2. CountsAgree'
    BY <1>1, <1>5, BuyCounts
  <2> QED
    BY <2>1, <2>2 DEF SomethingBooked
<1>6. ASSUME NEW s \in Symbols, NEW ref \in Int, SoldNow(s, ref)
      PROVE  BookWell' /\ CountsAgree' /\ ErrorsExplained' /\ SomethingBooked'
  <2>1. PICK f : f = SellTrade(s, ref)
    OBVIOUS
  <2>2. BookWell' /\ ClosedBy(f)
    BY <1>1, <1>6, <2>1, BookSold
  <2>3. CountsAgree'
    BY <1>1, <1>6, SellCounts
  <2>5. ErrorsExplained'
    BY <1>1, <2>2 DEF ClosedBy
  <2>4. BookNow'.closed # <<>> \/ HeldSymbols' # {}
    <3>1. CASE f.closed
      <4>1. PICK r \in ClosedPos : BookNow'.closed = Append(BookNow.closed, r)
        BY <2>2, <3>1 DEF ClosedBy
      <4>2. PICK rows \in Seq(ClosedPos) : rows = BookNow.closed
        BY <1>1 DEF BookWell
      <4>3. Append(rows, r) # <<>>
        BY AppendProperties
      <4> QED
        BY <4>1, <4>2, <4>3
    <3>2. CASE ~f.closed
      BY <2>2, <3>2 DEF ClosedBy
    <3> QED
      BY <3>1, <3>2
  <2> QED
    BY <2>2, <2>3, <2>4, <2>5 DEF SomethingBooked
<1> QED
  BY <1>2, <1>3, <1>4, <1>5, <1>6 DEF Vouching

LEMMA VouchingInv ==
  ASSUME PricesShow
  PROVE  LedgerSpec => [](TypeOK /\ Booked /\ LedgerTypes /\ Vouching)
<1> DEFINE Inv == TypeOK /\ Booked /\ Ledgered /\ VolumeMetered /\ Vouching
<1>1. LedgerInit => Inv
  BY LedgerIsEngine, TypeInit, BookedInit, LedgerStarts, VolumeInit, VouchingStarts
<1>2. Inv /\ [LedgerNext]_ledgerVars => Inv'
  <2> SUFFICES ASSUME Inv, [LedgerNext]_ledgerVars PROVE Inv'
    OBVIOUS
  <2>1. TypeOK' /\ Booked' /\ Ledgered' /\ VolumeMetered'
    BY LedgerIsEngine, TypeStep, BookedStep, LedgerStep, VolumeStep
  <2>2. LedgerTypes
    BY DEF Ledgered
  <2>3. Vouching'
    BY <2>1, <2>2, VouchingStep
  <2> QED
    BY <2>1, <2>3
<1>3. Inv => TypeOK /\ Booked /\ LedgerTypes /\ Vouching
  BY DEF Ledgered
<1> QED
  BY <1>1, <1>2, <1>3, PTL DEF LedgerSpec

-----------------------------------------------------------------------------
(* The report of a window that was traded, alone and with an abstention.   *)
LEMMA FlattenOne ==
  ASSUME NEW seqs, Len(seqs) = 1
  PROVE  FlattenSeq(seqs) = seqs[1]
<1> DEFINE Step(f) == [i \in 1..Len(seqs) |-> IF i = 1 THEN seqs[i] ELSE f[i - 1] \o seqs[i]]
           flatten == CHOOSE f : f = Step(f)
           g == [i \in 1..1 |-> seqs[1]]
<1>1. 1..1 = {1}
  OBVIOUS
<1>2. g = Step(g)
  BY <1>1
<1>3. flatten = Step(flatten)
  <2> HIDE DEF Step, g
  <2> QED
    BY <1>2
<1>4. flatten[1] = seqs[1]
  <2>1. Step(flatten)[1] = seqs[1]
    OBVIOUS
  <2> HIDE DEF Step, flatten
  <2> QED
    BY <1>3, <2>1
<1>5. FlattenSeq(seqs) = flatten[1]
  BY SMTT(40) DEF FlattenSeq
<1> QED
  BY <1>4, <1>5

LEMMA FlattenTwo ==
  ASSUME NEW seqs, Len(seqs) = 2
  PROVE  FlattenSeq(seqs) = seqs[1] \o seqs[2]
<1> DEFINE Step(f) == [i \in 1..Len(seqs) |-> IF i = 1 THEN seqs[i] ELSE f[i - 1] \o seqs[i]]
           flatten == CHOOSE f : f = Step(f)
           g == [i \in 1..2 |-> IF i = 1 THEN seqs[1] ELSE seqs[1] \o seqs[2]]
<1>1. 1..2 = {1, 2}
  OBVIOUS
<1>2. g = Step(g)
  BY <1>1
<1>3. flatten = Step(flatten)
  <2> HIDE DEF Step, g
  <2> QED
    BY <1>2
<1>4. flatten[2] = seqs[1] \o seqs[2]
  <2> HIDE DEF flatten
  <2>1. Step(flatten)[1] = seqs[1]
    BY <1>1
  <2>2. Step(flatten)[2] = flatten[2 - 1] \o seqs[2]
    BY <1>1
  <2> HIDE DEF Step
  <2>3. flatten[1] = seqs[1]
    BY <1>3, <2>1
  <2>4. flatten[2] = flatten[2 - 1] \o seqs[2] /\ 2 - 1 = 1
    BY <1>3, <2>2
  <2> QED
    BY <2>3, <2>4
<1>5. FlattenSeq(seqs) = flatten[2]
  BY DEF FlattenSeq
<1> QED
  BY <1>4, <1>5

(* The fills of a run, as phase 9 has to find them.                        *)
Sound(fills) ==
  /\ fills \in Seq(Fill) /\ fills # <<>>
  /\ \A i \in 1..Len(fills) : ValidFill(fills[i]) /\ 1 <= fills[i].at /\ fills[i].at <= MaxBatches

Traded(w, fills) ==
  /\ w.decision = "TRADE" /\ w.strategy = "candidate" /\ w.recorded
  /\ w.fills = fills /\ w.fillCount = Len(fills) /\ w.feesPaid = FeesOf(fills)
  /\ w.start = 1 /\ w.end = MaxBatches /\ Available(w) = fills

LEMMA WindowIs ==
  ASSUME NEW fills
  PROVE  Traded(Window(fills, Costs(fills)), fills)
BY DEF Traded, Window, Costs, Available

LEMMA FeesType ==
  ASSUME NEW fills \in Seq(Fill)
  PROVE  FeesOf(fills) \in Int
<1> PICK S, g : S = 1..Len(fills) /\ g = [i \in S |-> fills[i].fees]
  OBVIOUS
<1>1. IsFiniteSet(S)
  <2>1. Len(fills) \in Int
    BY LenProperties
  <2> QED
    BY <2>1, 1 \in Int, FS_Interval
<1>2. ASSUME NEW i \in 1..Len(fills)
      PROVE  fills[i].fees \in Int
  <2>1. fills[i] \in Fill
    BY ElementOfSeq
  <2> QED
    BY <2>1 DEF Fill
<1>3. g \in [S -> Int]
  BY <1>2
<1> QED
  BY <1>1, <1>3, SumType DEF FeesOf

LEMMA WindowIsClean ==
  ASSUME MaxBatches > 1, NEW fills, Sound(fills), NEW w, Traded(w, fills)
  PROVE  FoldErrors(w) = {}
<1>1. /\ w.decision = "TRADE" /\ w.strategy = "candidate" /\ w.recorded
      /\ w.fillCount = Len(fills) /\ w.feesPaid = FeesOf(fills)
      /\ w.start = 1 /\ w.end = MaxBatches /\ Available(w) = fills
  BY DEF Traded
<1>2. ~(w.start >= w.end)
  BY <1>1, RequestAssumption
<1>3. ASSUME NEW i \in 1..Len(fills)
      PROVE  FillErrors(w, fills[i]) = {}
  <2> PICK f : f = fills[i]
    OBVIOUS
  <2>1. f \in Fill /\ ValidFill(f) /\ 1 <= f.at /\ f.at <= MaxBatches
    BY ElementOfSeq DEF Sound
  <2>2. f.quantity \in Nat /\ f.price \in Int /\ f.fees \in Int
    BY <2>1 DEF Fill
  <2>3. /\ ~(f.quantity <= 0) /\ ~(f.price <= 0) /\ ~(f.fees < 0)
        /\ w.start <= f.at /\ f.at <= w.end
    BY <1>1, <2>1, <2>2 DEF ValidFill
  <2>4. FillErrors(w, f) = {}
    BY <2>3 DEF FillErrors
  <2> QED
    BY <2>4
<1>4. TradeErrors(w) = {}
  <2>1. /\ w.recorded /\ w.strategy # NoStrategy /\ ~(w.fillCount # Len(Available(w)))
        /\ ~Beyond(w.feesPaid, FeesOf(Available(w)), 11 * Cent)
    <3>1. FeesOf(fills) \in Int
      BY FeesType DEF Sound
    <3>2. ~Beyond(FeesOf(fills), FeesOf(fills), 11 * Cent)
      BY <3>1, RoundingAssumption DEF Beyond, Off
    <3> QED
      BY <1>1, <3>2 DEF NoStrategy
  <2>2. UNION {FillErrors(w, Available(w)[i]) : i \in 1..Len(Available(w))} = {}
    <3>1. \A i \in 1..Len(Available(w)) : FillErrors(w, Available(w)[i]) = {}
      BY <1>1, <1>3
    <3> QED
      BY <3>1
  <2> QED
    BY <2>1, <2>2 DEF TradeErrors
<1> QED
  BY <1>1, <1>2, <1>4 DEF FoldErrors

LEMMA AbstentionIsClean ==
  ASSUME MaxBatches > 1
  PROVE  FoldErrors(Abstention) = {}
<1> PICK w : w = Abstention
  OBVIOUS
<1>1. /\ w.decision = "NO_TRADE" /\ w.strategy = NoStrategy /\ w.fills = <<>>
      /\ w.start = 1 /\ w.end = MaxBatches
  BY DEF Abstention
<1>2. ~(w.start >= w.end)
  BY <1>1, RequestAssumption
<1>3. AbstentionErrors(w) = {}
  BY <1>1 DEF AbstentionErrors
<1> QED
  BY <1>1, <1>2, <1>3 DEF FoldErrors

(* A complete report of these fills.                                       *)
Complete(report, fills) ==
  /\ report.records = Rows(fills) /\ report.count = Len(fills) /\ report.errors = {}
  /\ report.verified

LEMMA Collects ==
  ASSUME MaxBatches > 1, NEW fills, Sound(fills), NEW windows,
         NEW n \in {1, 2}, Len(windows) = n, windows # <<>>,
         windows[1] = Window(fills, Costs(fills)), n = 2 => windows[2] = Abstention
  PROVE  Complete(Collected(windows), fills)
<1> DEFINE folds == 1..Len(windows)
           lists == [fold \in folds |-> FoldRecords(windows, fold)]
           records == FlattenSeq(lists)
           withTrade == {fold \in folds : windows[fold].decision = "TRADE"}
           errors == UNION {FoldErrors(windows[fold]) : fold \in folds}
                       \cup (IF windows = <<>> THEN {"nested_oos_evidence_unavailable"} ELSE {})
                       \cup (IF withTrade # {} /\ records = <<>>
                             THEN {"no_observed_oos_fills"} ELSE {})
<1> PICK w : w = windows[1]
  OBVIOUS
<1>1. /\ w.decision = "TRADE" /\ w.strategy = "candidate" /\ Available(w) = fills
      /\ FoldErrors(w) = {}
  <2>1. Traded(w, fills)
    BY WindowIs
  <2>2. FoldErrors(w) = {}
    BY <2>1, WindowIsClean
  <2> QED
    BY <2>1, <2>2 DEF Traded
<1>2. /\ Rows(fills) \in Seq(RowSet) /\ Len(Rows(fills)) = Len(fills) /\ Len(fills) \in Nat
  BY RowsFacts DEF Sound
<1>3. Rows(fills) # <<>>
  <2>1. Len(fills) # 0
    BY EmptySeq, <1>2 DEF Sound
  <2> QED
    BY <1>2, <2>1
<1>4. FoldRecords(windows, 1) = Rows(fills)
  BY <1>1 DEF FoldRecords, Rows, RowOf
<1>5. n = 2 => FoldRecords(windows, 2) = <<>> /\ FoldErrors(windows[2]) = {}
  <2>1. Abstention.decision # "TRADE"
    BY DEF Abstention
  <2> HIDE DEF folds
  <2>2. n = 2 => FoldRecords(windows, 2) = <<>>
    BY <2>1 DEF FoldRecords
  <2> QED
    BY <2>2, AbstentionIsClean
<1>6. folds = 1..n /\ 1 \in folds /\ \A k \in folds : k = 1 \/ (k = 2 /\ n = 2)
  OBVIOUS
<1>7. records = Rows(fills)
  <2>1. DOMAIN lists = 1..n /\ \A k \in 1..n : lists[k] = FoldRecords(windows, k)
    BY <1>6
  <2>2. Len(lists) = n
    <3>1. PICK S : S = {FoldRecords(windows, k) : k \in 1..n}
      OBVIOUS
    <3>2. lists \in [1..n -> S] /\ n \in Nat
      BY <1>6, <3>1
    <3> HIDE DEF lists
    <3> QED
      BY <3>2, ListOf
  <2>3. lists[1] = Rows(fills) /\ (n = 2 => lists[2] = <<>>)
    BY <1>4, <1>5, <1>6, <2>1
  <2> HIDE DEF lists
  <2>4. CASE n = 1
    BY <2>2, <2>3, <2>4, FlattenOne
  <2>5. CASE n = 2
    <3>1. records = Rows(fills) \o <<>>
      BY <2>2, <2>3, <2>5, FlattenTwo
    <3> QED
      BY <1>2, <3>1, ConcatEmptySeq
  <2> QED
    BY <2>4, <2>5
<1>8. withTrade # {}
  BY <1>1, <1>6
<1> HIDE DEF lists, records, withTrade, folds
<1>9. errors = {}
  <2>1. \A k \in folds : FoldErrors(windows[k]) = {}
    BY <1>1, <1>5, <1>6
  <2>2. UNION {FoldErrors(windows[fold]) : fold \in folds} = {}
    BY <2>1
  <2> QED
    BY <1>3, <1>7, <2>2
<1> HIDE DEF errors
<1>10. Collected(windows)
         = [ records |-> records, count |-> Len(records), errors |-> errors,
             verified |-> windows # <<>> /\ withTrade # {} /\ records # <<>> /\ errors = {} ]
  BY DEF Collected, Phase9, folds, lists, records, withTrade, errors
<1>11. (windows # <<>> /\ withTrade # {} /\ records # <<>> /\ errors = {}) = TRUE
  BY <1>3, <1>7, <1>8, <1>9
<1>12. Collected(windows)
         = [ records |-> records, count |-> Len(records), errors |-> errors, verified |-> TRUE ]
  BY <1>10, <1>11
<1> QED
  BY <1>2, <1>7, <1>9, <1>12 DEF Complete

(* What phase 10 makes of it: the closed positions, and the open ones and  *)
(* the roundings are the only thing it can find wrong.                     *)
Closes(closeout) ==
  /\ closeout.closed = BookNow.closed
  /\ closeout.errors \subseteq {"unclosed_position", "no_closed_positions"} \cup Residuals
  /\ closeout.open = {KeyOf(s) : s \in HeldSymbols}
  /\ closeout.verified <=> HeldSymbols = {} /\ BookNow.errors = {}

LEMMA CloseoutIs ==
  ASSUME BookWell, SomethingBooked, trades \in Seq(Fill), trades # <<>>,
         NEW report, Complete(report, trades)
  PROVE  Closes(Phase10(report))
<1> DEFINE end == BookOf(report.records)
           errors == end.errors
                  \cup (IF report.records = <<>> THEN {"no_observed_fills"} ELSE {})
                  \cup (IF report.verified THEN {} ELSE {"upstream_unverified"})
                  \cup (IF report.count # Len(report.records)
                        THEN {"observed_fill_count_mismatch"} ELSE {})
                  \cup (IF DOMAIN end.open # {} THEN {"unclosed_position"} ELSE {})
                  \cup (IF end.closed = <<>> THEN {"no_closed_positions"} ELSE {})
<1>1. end = BookNow
  BY DEF Complete, BookNow
<1>2. /\ report.records # <<>> /\ report.verified /\ report.count = Len(report.records)
  <2>1. /\ Rows(trades) \in Seq(RowSet) /\ Len(Rows(trades)) = Len(trades)
    BY RowsFacts
  <2>2. Len(trades) # 0
    BY EmptySeq
  <2>3. Rows(trades) # <<>>
    BY <2>1, <2>2
  <2> QED
    BY <2>1, <2>3 DEF Complete
<1>3. end.errors \subseteq Residuals
  BY <1>1 DEF BookWell, Flawless
<1>4. DOMAIN end.open = {KeyOf(s) : s \in HeldSymbols}
  BY <1>1 DEF BookWell
<1>5. end.closed # <<>> \/ HeldSymbols # {}
  BY <1>1 DEF SomethingBooked
<1> HIDE DEF end
<1>6. errors \subseteq {"unclosed_position", "no_closed_positions"} \cup Residuals
  BY <1>2, <1>3
<1>7. errors = {} <=> DOMAIN end.open = {} /\ end.closed # <<>> /\ end.errors = {}
  BY <1>2
<1> HIDE DEF errors
<1>8. (report.verified /\ end.closed # <<>> /\ errors = {})
        <=> HeldSymbols = {} /\ end.errors = {}
  BY <1>2, <1>4, <1>5, <1>7
<1>9. Phase10(report)
        = [ closed |-> end.closed, open |-> DOMAIN end.open, errors |-> errors,
            verified |-> report.verified /\ end.closed # <<>> /\ errors = {} ]
  BY DEF Phase10, Reconciled, end, errors
<1>10. Phase10(report).verified = (report.verified /\ end.closed # <<>> /\ errors = {})
  BY <1>9
<1>11. /\ Phase10(report).closed = end.closed /\ Phase10(report).errors = errors
       /\ Phase10(report).open = DOMAIN end.open
  BY <1>9
<1> QED
  BY <1>1, <1>4, <1>6, <1>8, <1>10, <1>11 DEF Closes

(* Nothing is held when no position is open, and then the engine's profits *)
(* of the closed positions are all that it realized.                       *)
LEMMA NothingHeld ==
  ASSUME BookWell, CountsAgree
  PROVE  /\ OpenPositions = 0 <=> HeldSymbols = {}
         /\ HeldSymbols = {}
              => SumFunction(EngineNetsOf(BookNow.closed)) = SumFunction(ExitPnls)
<1>1. IsFiniteSet(HeldSymbols) /\ OpenPositions = Cardinality(HeldSymbols)
  BY SymbolsFinite, FS_Subset DEF HeldSymbols, OpenPositions
<1>2. OpenPositions = 0 <=> HeldSymbols = {}
  BY <1>1, FS_EmptySet
<1>3. ASSUME HeldSymbols = {}
      PROVE  SumFunction(EngineNetsOf(BookNow.closed)) = SumFunction(ExitPnls)
  <2> PICK nets : nets = OpenNets
    OBVIOUS
  <2>1. nets \in [Symbols -> {0}]
    BY <1>3 DEF OpenNets
  <2>2. SumFunction(nets) = 0
    BY <2>1, SymbolsFinite, SumOfZeros
  <2>3. SumFunction(EngineNetsOf(BookNow.closed)) \in Int
    BY NetsFacts DEF BookWell
  <2>4. SumFunction(EngineNetsOf(BookNow.closed)) + SumFunction(nets) = SumFunction(ExitPnls)
    BY DEF CountsAgree
  <2> QED
    BY <2>2, <2>3, <2>4
<1> QED
  BY <1>2, <1>3

(* A row whose rounding phase 11 takes has nothing wrong.                  *)
LEMMA RowIsAbsorbed ==
  ASSUME NEW r, SoundRow(r), Phase11Absorbs(r)
  PROVE  PositionErrors(r) = {}
<1>1. /\ r \in ClosedPos /\ r.entryTime <= r.exitTime /\ r.fees >= 0 /\ r.quantity > 0
      /\ Near(r.gross - r.fees, r.net, 3 * Cent)
      /\ Near(r.net, r.engineNet, Drift(r.quantity, 2 * (Len(r.exits) + 1)))
  BY DEF SoundRow
<1>2. /\ r.entryTime \in Nat /\ r.exitTime \in Nat /\ r.fees \in Int /\ r.quantity \in Nat
      /\ r.gross \in Int /\ r.net \in Int /\ r.engineNet \in Int /\ Len(r.exits) \in Nat
  BY <1>1, LenProperties DEF ClosedPos
<1>3. PICK c \in Nat : c = Cent
  BY RoundingAssumption
<1>4. PICK q \in Nat, k \in Nat : q = r.quantity /\ k = Len(r.exits)
  BY <1>2
<1>5. PICK t \in Nat : t = TickValue * q
  BY DriftFacts
<1>6. k <= 1 /\ 4 * t <= 10 * c
  BY <1>3, <1>4, <1>5, ResidualIs DEF Phase11Absorbs
<1>7. Drift(q, 2 * (k + 1)) <= 2 * t + 4 * c /\ Drift(q, 2 * (k + 1)) \in Int
  <2>1. PICK m \in Nat : m = 2 * (k + 1) /\ m <= 4
    BY <1>6
  <2>2. m * c <= 4 * c /\ m * c = c * m /\ c * m \in Nat
    BY <2>1, TimesMonotone, ProductType
  <2> QED
    BY <1>3, <1>5, <2>1, <2>2 DEF Drift
<1>8. Residual(1, q) = 30 * c + 6 * t
  BY <1>3, <1>5, ResidualIs, 1 \in Nat
<1> PICK gross, fees, net, en :
      gross = r.gross /\ fees = r.fees /\ net = r.net /\ en = r.engineNet
  OBVIOUS
<1>9. ~Beyond(gross - fees, net, 21 * Cent)
  <2>1. 2 * Off(gross - fees, net) <= 3 * c
    BY <1>1, <1>3 DEF Near
  <2> QED
    BY <1>2, <1>3, <2>1 DEF Beyond, Off
<1>10. ~Beyond(net, en, Residual(1, q))
  <2>1. PICK d \in Int : d = Drift(q, 2 * (k + 1)) /\ 2 * Off(net, en) <= d /\ d <= 2 * t + 4 * c
    BY <1>1, <1>4, <1>7 DEF Near
  <2> QED
    BY <1>2, <1>6, <1>8, <2>1 DEF Beyond, Off
<1>11. ~(r.entryTime > r.exitTime) /\ ~(r.fees < 0) /\ ~(r.quantity <= 0)
  BY <1>1, <1>2
<1> QED
  BY <1>4, <1>9, <1>10, <1>11 DEF PositionErrors

(* Phase 11 verifies what phase 10 does, as one group, where its tolerance *)
(* takes the rounding; what it verifies is that group's summary.           *)
LEMMA LossesVerified ==
  ASSUME NEW rows \in Seq(ClosedPos), rows # <<>>, \A n \in 1..Len(rows) : SoundRow(rows[n]),
         NEW closeout, closeout.closed = rows, closeout.verified
  PROVE  /\ (\A n \in 1..Len(rows) : Phase11Absorbs(rows[n])) => Phase11(closeout).verified
         /\ Phase11(closeout).verified =>
              /\ Phase11(closeout).summaries
                   = [g \in {<<1, "candidate">>} |-> Summary(rows, 1..Len(rows))]
              /\ \A n \in 1..Len(rows) :
                   ~Beyond(rows[n].net, rows[n].engineNet, Residual(1, rows[n].quantity))
<1> DEFINE places == 1..Len(rows)
           errors == UNION {PositionErrors(rows[i]) : i \in places}
           valid == closeout.verified /\ rows # <<>> /\ errors = {}
           summaries == [g \in {Group(rows[i]) : i \in places} |->
                           Summary(rows, {i \in places : Group(rows[i]) = g})]
<1>1. ASSUME NEW n \in places
      PROVE  Group(rows[n]) = <<1, "candidate">>
  <2>1. rows[n] \in ClosedPos
    BY ElementOfSeq
  <2> QED
    BY <2>1 DEF Group, ClosedPos
<1>2. 1 \in places
  <2>1. Len(rows) \in Nat /\ Len(rows) # 0
    BY EmptySeq, LenProperties
  <2> QED
    BY <2>1
<1>3. ASSUME \A n \in places : Phase11Absorbs(rows[n])
      PROVE  errors = {}
  <2>1. \A n \in places : PositionErrors(rows[n]) = {}
    BY <1>3, RowIsAbsorbed
  <2> QED
    BY <2>1
<1>4. ASSUME errors = {}, NEW n \in places
      PROVE  ~Beyond(rows[n].net, rows[n].engineNet, Residual(1, rows[n].quantity))
  <2>1. PositionErrors(rows[n]) = {}
    BY <1>4
  <2> QED
    BY <2>1 DEF PositionErrors
<1> HIDE DEF places, errors
<1>5. {Group(rows[i]) : i \in places} = {<<1, "candidate">>}
  BY <1>1, <1>2
<1>6. {i \in places : Group(rows[i]) = <<1, "candidate">>} = places
  BY <1>1
<1>7. summaries = [g \in {<<1, "candidate">>} |-> Summary(rows, places)]
  BY <1>5, <1>6
<1>8. valid <=> errors = {}
  OBVIOUS
<1> HIDE DEF valid, summaries
<1>9. Phase11(closeout) = [ verified |-> valid, errors |-> errors,
                            summaries |-> IF valid THEN summaries ELSE << >> ]
  BY DEF Phase11, places, errors, valid, summaries
<1>10. /\ Phase11(closeout).verified = valid
       /\ valid => Phase11(closeout).summaries = summaries
  BY <1>9
<1> QED
  BY <1>3, <1>4, <1>7, <1>8, <1>10 DEF places

(* The tolerance of a sum is the sum of the tolerances.                    *)
LEMMA ResidualsAdd ==
  ASSUME NEW n \in Nat, NEW q \in Nat, NEW m \in Nat
  PROVE  Residual(n + 1, m + q) = Residual(1, m) + Residual(n, q)
<1>1. PICK c \in Nat, t \in Nat : c = Cent /\ t = TickValue
  BY RoundingAssumption, TickValueType
<1>2. /\ Residual(n + 1, m + q) = 30 * (c * (n + 1)) + 6 * (t * (m + q))
      /\ Residual(1, m) = 30 * (c * 1) + 6 * (t * m)
      /\ Residual(n, q) = 30 * (c * n) + 6 * (t * q)
  <2>1. n + 1 \in Nat /\ m + q \in Nat /\ 1 \in Nat
    OBVIOUS
  <2> QED
    BY <1>1, <2>1, ResidualIs
<1>3. /\ c * (n + 1) = c * n + c /\ c * 1 = c /\ t * (m + q) = t * m + t * q
      /\ c * n \in Int /\ t * m \in Int /\ t * q \in Int
  BY ProductType
<1> QED
  BY <1>2, <1>3

LEMMA SumsWithin ==
  ASSUME NEW S, IsFiniteSet(S), NEW g \in [S -> Int], NEW h \in [S -> Int], NEW q \in [S -> Nat],
         \A x \in S : ~Beyond(g[x], h[x], Residual(1, q[x]))
  PROVE  ~Beyond(SumFunction(g), SumFunction(h), Residual(Cardinality(S), SumFunction(q)))
<1> DEFINE Good == {T \in SUBSET S :
                      /\ TheSums(g, S)[T] \in Int /\ TheSums(h, S)[T] \in Int
                      /\ TheSums(q, S)[T] \in Nat
                      /\ 10 * Off(TheSums(g, S)[T], TheSums(h, S)[T])
                           <= Residual(Cardinality(T), TheSums(q, S)[T])}
<1>1. {} \in Good
  <2>1. /\ TheSums(g, S)[{}] = 0 /\ TheSums(h, S)[{}] = 0 /\ TheSums(q, S)[{}] = 0
        /\ Cardinality({}) = 0
    BY SumOfNone, FS_EmptySet
  <2>2. Residual(0, 0) = 0 /\ Off(0, 0) = 0
    BY RoundingAssumption, TickValueType DEF Residual, Off
  <2> QED
    BY <2>1, <2>2
<1>2. ASSUME NEW T \in SUBSET S, T # {}, Pick(T) \in S, T \ {Pick(T)} \in Good
      PROVE  T \in Good
  <2>1. PICK p : p = Pick(T)
    OBVIOUS
  <2>2. PICK U : U = T \ {p}
    OBVIOUS
  <2>3. p \in T /\ p \notin U /\ T = U \cup {p}
    BY <1>2, <2>1, <2>2, Picked
  <2>4. PICK n \in Nat : n = Cardinality(U) /\ Cardinality(T) = n + 1
    <3>1. IsFiniteSet(U)
      BY <2>2, FS_Subset
    <3> QED
      BY <2>3, <3>1, FS_AddElement, FS_CardinalityType
  <2>5. PICK G \in Int, H \in Int, Q \in Nat :
          /\ G = TheSums(g, S)[U] /\ H = TheSums(h, S)[U] /\ Q = TheSums(q, S)[U]
          /\ 10 * Off(G, H) <= Residual(n, Q)
    BY <1>2, <2>1, <2>2, <2>4
  <2>6. PICK a \in Int, b \in Int, m \in Nat : a = g[p] /\ b = h[p] /\ m = q[p]
    BY <1>2, <2>1
  <2>7. /\ TheSums(g, S)[T] = a + G /\ TheSums(h, S)[T] = b + H /\ TheSums(q, S)[T] = m + Q
    <3>1. /\ TheSums(g, S)[T] = g[p] + TheSums(g, S)[U]
          /\ TheSums(h, S)[T] = h[p] + TheSums(h, S)[U]
          /\ TheSums(q, S)[T] = q[p] + TheSums(q, S)[U]
      <4>1. /\ TheSums(g, S)[T] = g[Pick(T)] + TheSums(g, S)[T \ {Pick(T)}]
            /\ TheSums(h, S)[T] = h[Pick(T)] + TheSums(h, S)[T \ {Pick(T)}]
            /\ TheSums(q, S)[T] = q[Pick(T)] + TheSums(q, S)[T \ {Pick(T)}]
        BY <1>2, SumOfMore
      <4> QED
        BY <2>1, <2>2, <4>1
    <3> QED
      BY <2>5, <2>6, <3>1
  <2>8. 10 * Off(a, b) <= Residual(1, m)
    <3>1. ~Beyond(a, b, Residual(1, m)) /\ Residual(1, m) \in Int
      BY <1>2, <2>1, <2>6, ResidualIs
    <3> QED
      BY <3>1 DEF Beyond, Off
  <2>9. PICK r1 \in Int, r2 \in Int : r1 = Residual(1, m) /\ r2 = Residual(n, Q)
    BY ResidualIs
  <2>10. Residual(n + 1, m + Q) = r1 + r2
    BY <2>9, ResidualsAdd
  <2>11. 10 * Off(a + G, b + H) <= r1 + r2
    BY <2>5, <2>8, <2>9 DEF Off
  <2>12. a + G \in Int /\ b + H \in Int /\ m + Q \in Nat
    OBVIOUS
  <2> QED
    BY <2>4, <2>7, <2>10, <2>11, <2>12, SMTT(30)
<1>3. S \in Good
  <2> HIDE DEF Good
  <2> QED
    BY <1>1, <1>2, PickInduction
<1>4. /\ SumFunction(g) = TheSums(g, S)[S] /\ SumFunction(h) = TheSums(h, S)[S]
      /\ SumFunction(q) = TheSums(q, S)[S]
  BY SumIsFold
<1>5. PICK x \in Int, y \in Int, z \in Nat, n \in Nat :
        /\ x = SumFunction(g) /\ y = SumFunction(h) /\ z = SumFunction(q) /\ n = Cardinality(S)
        /\ 10 * Off(x, y) <= Residual(n, z)
  BY <1>3, <1>4, FS_CardinalityType
<1>6. PICK r \in Int : r = Residual(n, z)
  BY ResidualIs
<1>7. ~Beyond(x, y, r)
  BY <1>5, <1>6 DEF Beyond, Off
<1> QED
  BY <1>5, <1>6, <1>7

(* A clear profit is one in the prices too, unless phase 11 says so.       *)
LEMMA ClearIsCounted ==
  ASSUME NEW r \in ClosedPos, ~Beyond(r.net, r.engineNet, Residual(1, r.quantity))
  PROVE  /\ Clearly(r.engineNet, r) => Won(r.net)
         /\ Clearly(0 - r.engineNet, r) => Lost(r.net)
<1>1. PICK net \in Int, en \in Int, q \in Nat :
        net = r.net /\ en = r.engineNet /\ q = r.quantity
  BY DEF ClosedPos
<1>2. PICK c \in Nat, res \in Int : c = Cent /\ res = Residual(1, q)
  BY RoundingAssumption, ResidualIs, 1 \in Nat
<1>3. 10 * Off(net, en) <= res
  BY <1>1, <1>2 DEF Beyond, Off
<1>4. ASSUME Clearly(r.engineNet, r) PROVE Won(r.net)
  <2>1. 10 * en > res + 15 * c
    BY <1>1, <1>2, <1>4 DEF Clearly
  <2>2. 2 * net > c
    BY <1>2, <1>3, <2>1 DEF Off
  <2> QED
    BY <1>1, <1>2, <2>2 DEF Won
<1>5. ASSUME Clearly(0 - r.engineNet, r) PROVE Lost(r.net)
  <2>1. 10 * (0 - en) > res + 15 * c
    BY <1>1, <1>2, <1>5 DEF Clearly
  <2>2. 2 * net < 0 - c
    BY <1>2, <1>3, <2>1 DEF Off
  <2> QED
    BY <1>1, <1>2, <2>2 DEF Lost
<1> QED
  BY <1>4, <1>5

(* The totals of rows that phase 11 has found nothing wrong with.          *)
LEMMA SummaryIs ==
  ASSUME NEW rows \in Seq(ClosedPos),
         \A n \in 1..Len(rows) :
           ~Beyond(rows[n].net, rows[n].engineNet, Residual(1, rows[n].quantity)),
         NEW summary, summary = Summary(rows, 1..Len(rows))
  PROVE  /\ summary.trades = Len(rows)
         /\ Cardinality(ClearWins(rows)) <= summary.wins
         /\ Cardinality(ClearLosses(rows)) <= summary.losses
         /\ summary.wins + summary.losses <= summary.trades
         /\ ~Beyond(summary.net, SumFunction(EngineNetsOf(rows)),
                    Residual(summary.trades,
                             SumFunction([i \in 1..Len(rows) |-> rows[i].quantity])))
<1> DEFINE places == 1..Len(rows)
           won == {i \in places : Won(rows[i].net)}
           lost == {i \in places : Lost(rows[i].net)}
           nets == [i \in places |-> rows[i].net]
           shares == [i \in places |-> rows[i].quantity]
           engine == EngineNetsOf(rows)
<1>1. Len(rows) \in Nat /\ IsFiniteSet(places) /\ Cardinality(places) = Len(rows)
  <2>1. Len(rows) \in Nat
    BY LenProperties
  <2>2. IsFiniteSet(1..Len(rows))
        /\ Cardinality(1..Len(rows)) = IF 1 > Len(rows) THEN 0 ELSE Len(rows) - 1 + 1
    BY <2>1, 1 \in Int, Len(rows) \in Int, FS_Interval
  <2> QED
    BY <2>1, <2>2
<1>2. ASSUME NEW i \in places
      PROVE  /\ rows[i] \in ClosedPos /\ rows[i].net \in Int /\ rows[i].quantity \in Nat
             /\ ~Beyond(rows[i].net, rows[i].engineNet, Residual(1, rows[i].quantity))
             /\ engine[i] = rows[i].engineNet
  BY ClosedNet DEF EngineNetsOf
<1>3. /\ summary.trades = Cardinality(places)
      /\ summary.losses = Cardinality(lost) /\ summary.wins = Cardinality(won)
      /\ summary.net = SumFunction(nets)
  BY DEF Summary, places
<1>4. ClearWins(rows) \subseteq places /\ ClearLosses(rows) \subseteq places
  BY DEF ClearWins, ClearLosses
<1>5. ClearWins(rows) \subseteq won
  <2> SUFFICES ASSUME NEW i \in ClearWins(rows) PROVE i \in won
    OBVIOUS
  <2>1. i \in places /\ Clearly(rows[i].engineNet, rows[i])
    BY DEF ClearWins
  <2> QED
    BY <1>2, <2>1, ClearIsCounted
<1>6. ClearLosses(rows) \subseteq lost
  <2> SUFFICES ASSUME NEW i \in ClearLosses(rows) PROVE i \in lost
    OBVIOUS
  <2>1. i \in places /\ Clearly(0 - rows[i].engineNet, rows[i])
    BY DEF ClearLosses
  <2> QED
    BY <1>2, <2>1, ClearIsCounted
<1>7. won \cap lost = {}
  <2> SUFFICES ASSUME NEW i \in places, Won(rows[i].net), Lost(rows[i].net) PROVE FALSE
    OBVIOUS
  <2>1. rows[i].net \in Int
    BY <1>2
  <2> QED
    BY <2>1, RoundingAssumption DEF Won, Lost
<1>8. shares \in [places -> Nat] /\ nets \in [places -> Int] /\ engine \in [places -> Int]
  BY <1>2, NetsFacts
<1>9. \A i \in places : ~Beyond(nets[i], engine[i], Residual(1, shares[i]))
  BY <1>2
<1>10. won \subseteq places /\ lost \subseteq places
  OBVIOUS
<1> HIDE DEF places, won, lost, nets, shares, engine
<1>11. ~Beyond(SumFunction(nets), SumFunction(engine),
               Residual(Cardinality(places), SumFunction(shares)))
  BY <1>1, <1>8, <1>9, SumsWithin
<1>12. IsFiniteSet(won) /\ IsFiniteSet(lost)
  BY <1>1, <1>10, FS_Subset
<1>13. /\ Cardinality(ClearWins(rows)) <= Cardinality(won)
       /\ Cardinality(ClearLosses(rows)) <= Cardinality(lost)
  BY <1>5, <1>6, <1>12, FS_Subset
<1>14. Cardinality(won) + Cardinality(lost) <= Cardinality(places)
  <2>1. /\ Cardinality(won \cup lost) = Cardinality(won) + Cardinality(lost) - Cardinality({})
        /\ Cardinality({}) = 0
    BY <1>7, <1>12, FS_Union, FS_EmptySet
  <2>2. won \cup lost \subseteq places
    BY <1>10
  <2>3. Cardinality(won \cup lost) <= Cardinality(places)
    BY <1>1, <2>2, FS_Subset
  <2>4. Cardinality(won) \in Nat /\ Cardinality(lost) \in Nat
    BY <1>12, FS_CardinalityType
  <2> QED
    BY <2>1, <2>3, <2>4
<1> QED
  BY <1>1, <1>3, <1>11, <1>13, <1>14 DEF places, shares, engine

(* The books of a run that is done, seen by the chain.                     *)
LEMMA RunIsSound ==
  ASSUME TypeOK, LedgerTypes, Vouching, trades # <<>>
  PROVE  Sound(trades)
<1>1. batches <= MaxBatches /\ batches \in Nat /\ MaxBatches \in Nat
  BY RequestAssumption DEF Vouching, Timed, TypeOK
<1>2. ASSUME NEW i \in 1..Len(trades)
      PROVE  ValidFill(trades[i]) /\ 1 <= trades[i].at /\ trades[i].at <= MaxBatches
  <2>1. ValidFill(trades[i]) /\ InTime(trades[i])
    BY DEF Vouching, FillsAreGood
  <2>2. trades[i].at \in Nat
    BY FillFacts DEF LedgerTypes
  <2> QED
    BY <1>1, <2>1, <2>2 DEF InTime
<1> QED
  BY <1>2 DEF Sound, LedgerTypes

LEMMA VouchedWhenDone ==
  ASSUME MaxBatches > 1, TypeOK, Booked, LedgerTypes, Vouching
  PROVE  GenuineIsVouched
<1> SUFFICES ASSUME Done PROVE GenuineIsVouched
  BY DEF GenuineIsVouched, GenuineRunVerifies, EvidenceAgreesWithMetrics
<1>1. trades \in Seq(Fill) /\ trades # <<>> /\ Sound(trades)
  BY RunIsSound DEF Done, LedgerTypes
<1>2. BookWell /\ CountsAgree /\ SomethingBooked /\ ErrorsExplained
  BY DEF Vouching
<1> PICK rows : rows = BookNow.closed
  OBVIOUS
<1>3. rows \in Seq(ClosedPos) /\ \A n \in 1..Len(rows) : SoundRow(rows[n])
  BY <1>2 DEF BookWell
<1>4. HeldSymbols = {} => rows # <<>>
  BY <1>1, <1>2 DEF SomethingBooked
<1>5. ASSUME NEW windows, Complete(Collected(windows), trades)
      PROVE  LET closeout == Closeout(windows)
             IN  /\ Closes(closeout)
                 /\ closeout.verified /\ (\A n \in 1..Len(rows) : Phase11Absorbs(rows[n]))
                      => Phase11(closeout).verified
                 /\ closeout.verified /\ Phase11(closeout).verified =>
                      /\ Phase11(closeout).summaries
                           = [g \in {<<1, "candidate">>} |-> Summary(rows, 1..Len(rows))]
                      /\ \A n \in 1..Len(rows) :
                           ~Beyond(rows[n].net, rows[n].engineNet, Residual(1, rows[n].quantity))
  <2> PICK closeout : closeout = Closeout(windows)
    OBVIOUS
  <2>1. Closes(closeout)
    BY <1>1, <1>2, <1>5, CloseoutIs DEF Closeout
  <2>2. closeout.closed = rows /\ (closeout.verified => rows # <<>>)
    BY <1>4, <2>1 DEF Closes
  <2> QED
    BY <1>3, <2>1, <2>2, LossesVerified
<1>6. Complete(Collected(<<Run, Abstention>>), trades)
  <2> PICK windows : windows = <<Run, Abstention>>
    OBVIOUS
  <2>1. Len(windows) = 2 /\ windows # <<>> /\ windows[1] = Run /\ windows[2] = Abstention
    OBVIOUS
  <2>2. Run = Window(trades, Costs(trades))
    BY DEF Run
  <2> QED
    BY <1>1, <2>1, <2>2, Collects
<1>7. Complete(Collected(<<Run>>), trades)
  <2> PICK windows : windows = <<Run>>
    OBVIOUS
  <2>1. Len(windows) = 1 /\ windows # <<>> /\ windows[1] = Run
    OBVIOUS
  <2>2. Run = Window(trades, Costs(trades))
    BY DEF Run
  <2> QED
    BY <1>1, <2>1, <2>2, Collects
<1>8. GenuineRunVerifies
  <2> PICK windows : windows = <<Run, Abstention>>
    OBVIOUS
  <2> PICK closeout : closeout = Closeout(windows)
    OBVIOUS
  <2>1. Complete(Collected(windows), trades)
    BY <1>6
  <2>2. /\ Closes(closeout)
        /\ closeout.verified /\ (\A n \in 1..Len(rows) : Phase11Absorbs(rows[n]))
             => Phase11(closeout).verified
    BY <1>5, <2>1
  <2>3. /\ closeout.closed = rows
        /\ closeout.errors \subseteq {"unclosed_position", "no_closed_positions"} \cup Residuals
        /\ closeout.open = {KeyOf(s) : s \in HeldSymbols}
        /\ closeout.verified <=> HeldSymbols = {} /\ BookNow.errors = {}
    BY <2>2 DEF Closes
  <2>4. Collected(windows).verified
    BY <2>1 DEF Complete
  <2>5. {KeyOf(s) : s \in HeldSymbols} = {<<1, "candidate", s>> : s \in {t \in Symbols : Held(t)}}
    BY DEF KeyOf, HeldSymbols
  <2>6. OpenPositions = 0 <=> HeldSymbols = {}
    BY <1>2, NothingHeld
  <2>7. Len(rows) = TradeMetrics.tradeCount
    BY <1>2 DEF CountsAgree, TradeMetrics
  <2>8. DOMAIN rows = 1..Len(rows)
    BY <1>3
  <2>9. \A n \in 1..Len(rows) : rows[n] \in Range(closeout.closed)
    BY <2>3, <2>8 DEF Range
  <2>10. ASSUME OpenPositions = 0, \A p \in Range(closeout.closed) : Phase10Absorbs(p)
         PROVE  closeout.verified
    <3>1. HeldSymbols = {}
      BY <2>6, <2>10
    <3>2. \A n \in 1..Len(rows) : Phase10Absorbs(rows[n])
      BY <2>9, <2>10
    <3>3. AllAbsorbed
      BY <3>1, <3>2 DEF AllAbsorbed
    <3> QED
      BY <1>2, <2>3, <3>1, <3>3 DEF ErrorsExplained
  <2>11. ASSUME closeout.verified, \A p \in Range(closeout.closed) : Phase11Absorbs(p)
         PROVE  Phase11(closeout).verified
    BY <2>2, <2>9, <2>11
  <2> QED
    BY <2>3, <2>4, <2>5, <2>6, <2>7, <2>10, <2>11 DEF GenuineRunVerifies
<1>9. EvidenceAgreesWithMetrics
  <2> PICK closeout : closeout = Closeout(<<Run>>)
    OBVIOUS
  <2>1. Closes(closeout) /\ closeout.closed = rows
    BY <1>5, <1>7 DEF Closes
  <2> SUFFICES ASSUME Phase11(closeout).verified
               PROVE  LET summaries == Phase11(closeout).summaries
                          summary   == summaries[<<1, "candidate">>]
                          wins      == Cardinality(ClearWins(rows))
                          losses    == Cardinality(ClearLosses(rows))
                          Sum(field) == SumFunction([i \in 1..Len(rows) |-> rows[i][field]])
                      IN  /\ DOMAIN summaries = {<<1, "candidate">>}
                          /\ summary.trades = TradeMetrics.tradeCount
                          /\ wins <= Smaller(summary.wins, TradeMetrics.winners)
                          /\ losses <= Smaller(summary.losses, TradeMetrics.losers)
                          /\ summary.wins + summary.losses <= summary.trades
                          /\ Sum("engineNet") = TradeMetrics.realized
                          /\ ~Beyond(summary.net, TradeMetrics.realized,
                                     Residual(summary.trades, Sum("quantity")))
    BY <2>1 DEF EvidenceAgreesWithMetrics
  <2>2. closeout.verified
    BY DEF Phase11
  <2>3. HeldSymbols = {} /\ BookNow.errors = {}
    BY <2>1, <2>2 DEF Closes
  <2> PICK summary, key : summary = Summary(rows, 1..Len(rows)) /\ key = <<1, "candidate">>
    OBVIOUS
  <2>4. /\ DOMAIN Phase11(closeout).summaries = {key}
        /\ Phase11(closeout).summaries[key] = summary
        /\ \A n \in 1..Len(rows) :
             ~Beyond(rows[n].net, rows[n].engineNet, Residual(1, rows[n].quantity))
    BY <1>5, <1>7, <2>2
  <2>5. /\ summary.trades = Len(rows)
        /\ Cardinality(ClearWins(rows)) <= summary.wins
        /\ Cardinality(ClearLosses(rows)) <= summary.losses
        /\ summary.wins + summary.losses <= summary.trades
        /\ ~Beyond(summary.net, SumFunction(EngineNetsOf(rows)),
                   Residual(summary.trades,
                            SumFunction([i \in 1..Len(rows) |-> rows[i].quantity])))
    BY <1>3, <2>4, SummaryIs
  <2>6. SumFunction(EngineNetsOf(rows)) = TradeMetrics.realized
    BY <1>2, <2>3, NothingHeld DEF TradeMetrics, ExitPnls
  <2>7. Len(rows) = TradeMetrics.tradeCount
    BY <1>2 DEF CountsAgree, TradeMetrics
  <2>8. /\ Cardinality(ClearWins(rows)) <= TradeMetrics.winners
        /\ Cardinality(ClearLosses(rows)) <= TradeMetrics.losers
    <3>1. ~RoundTripNoted
      BY <2>3 DEF RoundTripNoted
    <3> QED
      BY <1>2, <3>1 DEF CountsAgree, TradeMetrics
  <2>9. /\ Cardinality(ClearWins(rows)) <= Smaller(summary.wins, TradeMetrics.winners)
        /\ Cardinality(ClearLosses(rows)) <= Smaller(summary.losses, TradeMetrics.losers)
    BY <2>5, <2>8 DEF Smaller
  <2>10. EngineNetsOf(rows) = [i \in 1..Len(rows) |-> rows[i]["engineNet"]]
    BY DEF EngineNetsOf
  <2> QED
    BY <2>4, <2>5, <2>6, <2>7, <2>9, <2>10
<1> QED
  BY <1>8, <1>9 DEF GenuineIsVouched

(* What any run leaves behind is vouched for: phase 9 takes all of its     *)
(* fills, phase 10 finds the closed positions that the metrics count and   *)
(* just those open that are, with nothing wrong but a sum that a rounding  *)
(* has moved - not even that where its tolerance takes the rounding, and   *)
(* then phase 11 follows; what that verifies gives the metrics' own        *)
(* profit up to the roundings and counts every clear win and loss          *)
(* (phase9_oos_fill_evidence.py to phase11_trade_level_loss_attribution.py;*)
(* engine.py:165, :233-258).                                               *)
THEOREM GenuineStaysVouched ==
  ASSUME PricesShow, MaxBatches > 1
  PROVE  LedgerSpec => []GenuineIsVouched
<1>1. LedgerSpec => [](TypeOK /\ Booked /\ LedgerTypes /\ Vouching)
  BY VouchingInv
<1>2. TypeOK /\ Booked /\ LedgerTypes /\ Vouching => GenuineIsVouched
  BY VouchedWhenDone
<1> QED
  BY <1>1, <1>2, PTL
=============================================================================
