-------------------------- MODULE Execution_proofs --------------------------
(***************************************************************************)
(* What the operators of Execution return, for every policy: prices and    *)
(* money are integers, quantities natural numbers, and the largest entry   *)
(* exists and stays within what was asked for and what is available.  At   *)
(* the end, what sums over the symbols promise.                            *)
(***************************************************************************)
EXTENDS Execution, Functions, FiniteSetTheorems, TLAPS

(* Multiplying by a natural number keeps an order.                         *)
LEMMA TimesMonotone ==
  ASSUME NEW a \in Int, NEW b \in Int, NEW c \in Nat, a <= b
  PROVE  a * c <= b * c
  OBVIOUS

(* So does dividing by a positive one, and the quotient is an integer.     *)
LEMMA DivMonotone ==
  ASSUME NEW a \in Nat, NEW b \in Nat, NEW c \in Nat \ {0}, a <= b
  PROVE  /\ a \div c \in Nat
         /\ a \div c <= b \div c
  OBVIOUS

(* A product of natural numbers is one, and grows with each factor.        *)
LEMMA ProductMonotone ==
  ASSUME NEW a \in Nat, NEW b \in Nat, NEW c \in Nat, NEW d \in Nat,
         a <= b, c <= d
  PROVE  /\ a * c \in Nat
         /\ a * c <= b * d
  <1>1. a * c <= b * c
    BY TimesMonotone
  <1>2. c * b <= d * b
    BY TimesMonotone
  <1> QED
    BY <1>1, <1>2

(* The impact of a fill is a natural number and grows with the fill        *)
(* (linear_market_impact_bps, execution.py:20).                            *)
LEMMA ImpactGrows ==
  ASSUME NEW q \in Nat, NEW r \in Nat, NEW volume \in Nat, q <= r
  PROVE  /\ MarketImpact(q, volume) \in Nat
         /\ MarketImpact(r, volume) \in Nat
         /\ MarketImpact(q, volume) <= MarketImpact(r, volume)
  <1>1. CASE volume = 0
    BY <1>1 DEF MarketImpact
  <1>2. CASE volume > 0
    <2> DEFINE small == MarketImpactBps * Smaller(q, volume)
               large == MarketImpactBps * Smaller(r, volume)
    <2>1. Smaller(q, volume) \in Nat /\ Smaller(r, volume) \in Nat
          /\ Smaller(q, volume) <= Smaller(r, volume)
      BY <1>2 DEF Smaller
    <2>2. small \in Nat /\ large \in Nat /\ small <= large
      BY <2>1, ProductMonotone, PolicyAssumption
    <2>3. /\ small \div volume \in Nat /\ large \div volume \in Nat
          /\ small \div volume <= large \div volume
      <3> HIDE DEF small, large
      <3> QED BY <1>2, <2>2, DivMonotone
    <2>4. r > 0 => MarketImpact(r, volume) = large \div volume
      BY <1>2 DEF MarketImpact
    <2>5. q > 0 => MarketImpact(q, volume) = small \div volume
      BY <1>2 DEF MarketImpact
    <2>6. q <= 0 => MarketImpact(q, volume) = 0
      BY DEF MarketImpact
    <2>7. r <= 0 => MarketImpact(r, volume) = 0
      BY DEF MarketImpact
    <2> HIDE DEF small, large
    <2> QED BY <2>3, <2>4, <2>5, <2>6, <2>7
  <1> QED BY <1>1, <1>2

(* So does the price of a buy (buy_execution_price, execution.py:28).      *)
LEMMA BuyPriceGrows ==
  ASSUME NEW q \in Nat, NEW r \in Nat, NEW ref \in Nat, NEW volume \in Nat,
         q <= r
  PROVE  /\ BuyExecutionPrice(ref, q, volume) \in Nat
         /\ BuyExecutionPrice(ref, r, volume) \in Nat
         /\ BuyExecutionPrice(ref, q, volume) <= BuyExecutionPrice(ref, r, volume)
  <1> DEFINE factor(x) == BPS + SlippageBps + MarketImpact(x, volume) + HalfSpreadBps
  <1>1. factor(q) \in Nat /\ factor(r) \in Nat /\ factor(q) <= factor(r)
    <2>1. /\ MarketImpact(q, volume) \in Nat /\ MarketImpact(r, volume) \in Nat
          /\ MarketImpact(q, volume) <= MarketImpact(r, volume)
      BY ImpactGrows
    <2>2. BPS \in Nat /\ SlippageBps \in Nat /\ HalfSpreadBps \in Nat
      BY PolicyAssumption
    <2> QED BY <2>1, <2>2
  <1>2. /\ BuyExecutionPrice(ref, q, volume) = ref * factor(q)
        /\ BuyExecutionPrice(ref, r, volume) = ref * factor(r)
    BY DEF BuyExecutionPrice
  <1> HIDE DEF factor
  <1>3. ref * factor(q) \in Nat /\ ref * factor(r) \in Nat
        /\ ref * factor(q) <= ref * factor(r)
    BY <1>1, ProductMonotone
  <1> QED BY <1>2, <1>3

-----------------------------------------------------------------------------
(* Types.                                                                  *)

LEMMA DivType ==
  ASSUME NEW a \in Int, NEW d \in Nat \ {0}
  PROVE  /\ a \div d \in Int
         /\ a \in Nat => a \div d \in Nat
  OBVIOUS

LEMMA ProductType ==
  ASSUME NEW a \in Int, NEW b \in Int
  PROVE  /\ a * b \in Int
         /\ a \in Nat /\ b \in Nat => a * b \in Nat
         /\ a \in Nat \ {0} /\ b \in Nat \ {0} => a * b \in Nat \ {0}
  OBVIOUS

LEMMA PolicyTypes ==
  /\ BPS \in Nat \ {0} /\ QuantityIncrement \in Nat \ {0}
  /\ HalfSpreadBps \in Int /\ SlippageBps \in Int /\ MarketImpactBps \in Int
  /\ FeeBps \in Int /\ MaxVolumeParticipation \in Nat
  /\ StopLossPct \in Int /\ RewardRiskRatio \in Int
  /\ RiskPerTrade \in Int /\ MaxPositionPct \in Int
BY PolicyAssumption, SizingAssumption

LEMMA ImpactType ==
  ASSUME NEW q \in Int, NEW volume \in Int
  PROVE  MarketImpact(q, volume) \in Int
<1>1. CASE q <= 0 \/ volume <= 0
  BY <1>1 DEF MarketImpact
<1>2. CASE q > 0 /\ volume > 0
  <2>1. MarketImpactBps * Smaller(q, volume) \in Int
    BY <1>2, PolicyTypes, ProductType DEF Smaller
  <2>2. (MarketImpactBps * Smaller(q, volume)) \div volume \in Int
    BY <2>1, <1>2, DivType
  <2> QED
    BY <1>2, <2>2 DEF MarketImpact
<1> QED
  BY <1>1, <1>2

LEMMA PriceTypes ==
  ASSUME NEW ref \in Int, NEW q \in Int, NEW volume \in Int
  PROVE  /\ BuyExecutionPrice(ref, q, volume) \in Int
         /\ SellExecutionPrice(ref, q, volume) \in Int
         /\ SizingPrice(ref) \in Int
<1>1. MarketImpact(q, volume) \in Int
  BY ImpactType
<1>2. /\ BPS + SlippageBps + MarketImpact(q, volume) + HalfSpreadBps \in Int
      /\ BPS - (SlippageBps + MarketImpact(q, volume) + HalfSpreadBps) \in Int
      /\ BPS + SlippageBps \in Int
  BY <1>1, PolicyTypes
<1> QED
  BY <1>2, ProductType DEF BuyExecutionPrice, SellExecutionPrice, SizingPrice

LEMMA ReferenceType ==
  ASSUME NEW price \in Nat
  PROVE  Reference(price) \in Nat
BY PolicyTypes, ProductType DEF Reference

LEMMA MoneyTypes ==
  ASSUME NEW price \in Int, NEW q \in Int
  PROVE  Value(price, q) \in Int /\ Fee(price, q) \in Int
BY PolicyTypes, ProductType DEF Value, Fee

LEMMA ProtectionTypes ==
  ASSUME NEW entry \in Int
  PROVE  StopLossPrice(entry) \in Int /\ TakeProfitPrice(entry) \in Int
<1>1. StopLossPrice(entry) \in Int
  <2>1. entry * (BPS - StopLossPct) \in Int /\ BPS * BPS \in Nat \ {0}
    BY PolicyTypes, ProductType
  <2> QED
    BY <2>1, DivType DEF StopLossPrice
<1>2. entry \div BPS \in Int
  BY PolicyTypes, DivType
<1> QED
  BY <1>1, <1>2, PolicyTypes, ProductType DEF TakeProfitPrice

LEMMA QuantizeFacts ==
  ASSUME NEW q \in Int
  PROVE  /\ QuantizeQuantity(q) \in Nat
         /\ QuantizeQuantity(q) <= AtLeastZero(q)
         /\ QuantizeQuantity(q) = (QuantizeQuantity(q) \div QuantityIncrement) * QuantityIncrement
<1>1. CASE q <= 0
  BY <1>1, PolicyTypes DEF QuantizeQuantity, AtLeastZero
<1>2. CASE q > 0
  <2> DEFINE n == q \div QuantityIncrement
  <2>1. n \in Nat /\ n * QuantityIncrement <= q
    BY <1>2, PolicyTypes
  <2>2. QuantizeQuantity(q) = n * QuantityIncrement
    BY <1>2 DEF QuantizeQuantity
  <2>3. n * QuantityIncrement \in Nat
    BY <2>1, PolicyTypes, ProductType
  <2>4. (n * QuantityIncrement) \div QuantityIncrement = n
    <3> HIDE DEF n
    <3> QED
      BY <2>1, PolicyTypes
  <2> HIDE DEF n
  <2> QED
    BY <1>2, <2>1, <2>2, <2>3, <2>4 DEF AtLeastZero
<1> QED
  BY <1>1, <1>2

LEMMA CapacityType ==
  ASSUME NEW volume \in Nat
  PROVE  VolumeCapacity(volume) \in Nat
<1>1. (volume * MaxVolumeParticipation) \div BPS \in Int
  BY PolicyTypes, ProductType, DivType
<1> QED
  BY <1>1, QuantizeFacts DEF VolumeCapacity

-----------------------------------------------------------------------------
(* Sizing.                                                                 *)

(* A bounded set of natural numbers that is not empty has a greatest.      *)
LEMMA GreatestBelow ==
  ASSUME NEW k \in Nat, NEW N \in SUBSET Nat, N # {}, \A n \in N : n <= k
  PROVE  \E n \in N : \A m \in N : m <= n
<1> DEFINE Gaps == {g \in Nat : k - g \in N}
           R == OpToRel(<, Nat)
<1>1. \A n \in N : k - n \in Gaps /\ k - n \in Nat
  <2>1. TAKE n \in N
  <2>2. n \in Nat /\ n <= k
    OBVIOUS
  <2>3. k - (k - n) = n /\ k - n \in Nat
    BY <2>2
  <2> QED
    BY <2>3
<1>2. PICK g \in Gaps : \A h \in Gaps : <<h, g>> \notin R
  <2>1. Gaps \subseteq Nat
    OBVIOUS
  <2>2. Gaps # {}
    BY <1>1
  <2> HIDE DEF Gaps
  <2> QED
    BY <2>1, <2>2, NatLessThanWellFounded, WFMin
<1>3. k - g \in N /\ g \in Nat
  OBVIOUS
<1>4. ASSUME NEW m \in N, ~(m <= k - g)
      PROVE  FALSE
  <2>1. m \in Nat
    OBVIOUS
  <2>2. k - m < g
    BY <1>3, <1>4, <2>1
  <2>3. <<k - m, g>> \in R
    BY <1>1, <1>3, <2>2 DEF OpToRel
  <2> QED
    BY <1>1, <1>2, <2>3
<1> QED
  BY <1>3, <1>4

LEMMA CeilingFacts ==
  ASSUME NEW requested \in Int, NEW available \in Int
  PROVE  /\ EntryCeiling(requested, available) \in Nat
         /\ EntryCeiling(requested, available) <= AtLeastZero(requested)
         /\ EntryCeiling(requested, available) <= AtLeastZero(available)
         /\ EntryCeiling(requested, available) \div QuantityIncrement \in Nat
         /\ EntryCeiling(requested, available)
              = (EntryCeiling(requested, available) \div QuantityIncrement) * QuantityIncrement
<1> DEFINE a == AtLeastZero(Smaller(requested, available))
<1>1. a \in Nat /\ a <= AtLeastZero(requested) /\ a <= AtLeastZero(available)
  BY DEF AtLeastZero, Smaller
<1>2. EntryCeiling(requested, available) = QuantizeQuantity(a)
  BY DEF EntryCeiling
<1> HIDE DEF a
<1>3. /\ QuantizeQuantity(a) \in Nat /\ QuantizeQuantity(a) <= a
      /\ QuantizeQuantity(a) = (QuantizeQuantity(a) \div QuantityIncrement) * QuantityIncrement
  BY <1>1, QuantizeFacts DEF AtLeastZero
<1>4. QuantizeQuantity(a) \div QuantityIncrement \in Nat
  BY <1>3, PolicyTypes, DivType
<1>5. AtLeastZero(requested) \in Int /\ AtLeastZero(available) \in Int
  BY DEF AtLeastZero
<1> QED
  BY <1>1, <1>2, <1>3, <1>4, <1>5

(* max_entry_quantity finds something for every order, and it is neither   *)
(* more than was asked for nor more than the bar has left.                 *)
LEMMA MaxEntryFacts ==
  ASSUME NEW requested \in Int, NEW available \in Int, NEW ref, NEW volume, NEW limits
  PROVE  LET q == MaxEntryQuantity(requested, available, ref, volume, limits)
         IN  /\ IsMaxEntry(q, requested, available, ref, volume, limits)
             /\ q \in Nat
             /\ q <= AtLeastZero(requested) /\ q <= AtLeastZero(available)
             /\ q > 0 => EntryAllowed(q, ref, volume, limits)
<1> DEFINE ceiling == EntryCeiling(requested, available)
           steps == 0..(ceiling \div QuantityIncrement)
           Fits(n) == n = 0 \/ EntryAllowed(n * QuantityIncrement, ref, volume, limits)
           good == {n \in steps : Fits(n)}
           IsMax(q) == IsMaxEntry(q, requested, available, ref, volume, limits)
<1>1. /\ ceiling \in Nat /\ ceiling <= AtLeastZero(requested)
      /\ ceiling <= AtLeastZero(available)
      /\ ceiling \div QuantityIncrement \in Nat
      /\ ceiling = (ceiling \div QuantityIncrement) * QuantityIncrement
  BY CeilingFacts
<1>2. PICK n \in good : \A m \in good : m <= n
  <2>1. /\ good \in SUBSET Nat /\ good # {}
        /\ \A n \in good : n <= ceiling \div QuantityIncrement
    BY <1>1
  <2> HIDE DEF good, ceiling
  <2> QED
    BY <1>1, <2>1, GreatestBelow
<1>3. IsMax(n * QuantityIncrement)
  BY <1>2 DEF IsMaxEntry
<1>4. ASSUME NEW m \in steps
      PROVE  m * QuantityIncrement \in Nat /\ m * QuantityIncrement <= ceiling
  <2> HIDE DEF ceiling
  <2>1. m \in Nat /\ m <= ceiling \div QuantityIncrement
    BY <1>1
  <2> DEFINE k == ceiling \div QuantityIncrement
  <2> HIDE DEF k
  <2>2. m * QuantityIncrement \in Nat /\ m * QuantityIncrement <= k * QuantityIncrement
    BY <1>1, <2>1, PolicyTypes, TimesMonotone DEF k
  <2> QED
    BY <1>1, <2>2 DEF k
<1>5. AtLeastZero(requested) \in Nat /\ AtLeastZero(available) \in Nat
  BY DEF AtLeastZero
<1> DEFINE q == MaxEntryQuantity(requested, available, ref, volume, limits)
<1>6. n * QuantityIncrement \in 0..AtLeastZero(requested)
  BY <1>1, <1>2, <1>4, <1>5
<1>7. q \in 0..AtLeastZero(requested) /\ IsMax(q)
  <2> HIDE DEF IsMax, good
  <2>1. q = CHOOSE x \in 0..AtLeastZero(requested) : IsMax(x)
    BY DEF MaxEntryQuantity, IsMax
  <2> QED
    BY <1>3, <1>6, <2>1
<1>8. PICK m \in steps : q = m * QuantityIncrement /\ Fits(m)
  BY <1>7 DEF IsMaxEntry
<1>9. q <= AtLeastZero(available)
  BY <1>1, <1>4, <1>5, <1>8
<1>10. q > 0 => EntryAllowed(q, ref, volume, limits)
  <2>1. 0 * QuantityIncrement = 0
    BY PolicyTypes
  <2> QED
    BY <1>8, <2>1
<1> QED
  BY <1>5, <1>7, <1>9, <1>10

LEMMA PositionSizeType ==
  ASSUME NEW cash \in Int, NEW equity \in Int, NEW ref \in Int
  PROVE  PositionSize(cash, equity, ref) \in Nat
<1> DEFINE entry == SizingPrice(ref)
           perShare == entry - StopLossPrice(entry) * BPS
<1>0. SizingPrice(ref) \in Int
  BY PolicyTypes, ProductType DEF SizingPrice
<1>1. entry \in Int /\ perShare \in Int
  <2> HIDE DEF entry
  <2>1. entry \in Int /\ StopLossPrice(entry) \in Int
    BY <1>0, ProtectionTypes DEF entry
  <2> QED
    BY <2>1, PolicyTypes, ProductType
<1> HIDE DEF entry, perShare
<1>2. CASE entry > 0 /\ perShare > 0
  <2>1. /\ equity * RiskPerTrade \in Int /\ equity * MaxPositionPct \in Int
        /\ perShare * BPS * BPS \in Nat \ {0} /\ entry * BPS * BPS \in Nat \ {0}
        /\ entry * (BPS + FeeBps) \in Nat \ {0}
    <3>1. BPS + FeeBps \in Nat \ {0}
      BY PolicyAssumption
    <3>2. entry \in Nat \ {0} /\ perShare \in Nat \ {0}
      BY <1>1, <1>2
    <3> QED
      BY <1>1, <3>1, <3>2, PolicyTypes, ProductType
  <2>2. /\ (equity * RiskPerTrade) \div (perShare * BPS * BPS) \in Int
        /\ (equity * MaxPositionPct) \div (entry * BPS * BPS) \in Int
        /\ cash \div (entry * (BPS + FeeBps)) \in Int
    BY <2>1, DivType
  <2>3. \A a, b, c \in Int : AtLeastZero(Smaller(a, Smaller(b, c))) \in Nat
    BY DEF AtLeastZero, Smaller
  <2> QED
    BY <2>2, <2>3 DEF PositionSize, entry, perShare
<1>3. CASE ~(entry > 0 /\ perShare > 0)
  <2>1. entry <= 0 \/ perShare <= 0
    BY <1>1, <1>3
  <2> QED
    BY <2>1 DEF PositionSize, entry, perShare
<1> QED
  BY <1>2, <1>3

(* The risk adapter clips a quantity and never raises it.                  *)
LEMMA RiskFacts ==
  ASSUME NEW q \in Nat, NEW entry \in Int, NEW equity \in Int,
         q > 0, entry > 0, entry > StopLossPrice(entry) * BPS
  PROVE  RiskQuantity(q, entry, equity) \in Nat /\ RiskQuantity(q, entry, equity) <= q
<1> DEFINE perShare == entry - StopLossPrice(entry) * BPS
           clipped == IF Value(entry, q) * BPS > equity * MaxPositionPct
                      THEN (equity * MaxPositionPct) \div (entry * BPS * BPS) ELSE q
           budget == (equity * RiskPerTrade) \div (perShare * BPS * BPS)
<1>1. perShare \in Nat \ {0} /\ entry \in Nat \ {0}
  BY ProtectionTypes, PolicyTypes, ProductType
<1>2. budget \in Int
  <2> HIDE DEF perShare
  <2>1. equity * RiskPerTrade \in Int /\ perShare * BPS * BPS \in Nat \ {0}
    BY <1>1, PolicyTypes, ProductType
  <2> QED
    BY <2>1, DivType
<1>3. clipped \in Int /\ clipped <= q
  <2> DEFINE most == equity * MaxPositionPct
             price == entry * BPS * BPS
  <2>1. most \in Int /\ price \in Nat \ {0}
    BY <1>1, PolicyTypes, ProductType
  <2>2. Value(entry, q) * BPS = q * price
    BY <1>1, PolicyTypes DEF Value
  <2> HIDE DEF most, price
  <2>3. most < q * price => most \div price \in Int /\ most \div price <= q
    BY <2>1
  <2>4. q * price \in Int
    BY <2>1
  <2> QED
    BY <2>1, <2>2, <2>3, <2>4 DEF most, price
<1>4. RiskQuantity(q, entry, equity) = QuantizeQuantity(Smaller(clipped, budget))
  BY DEF RiskQuantity
<1> HIDE DEF clipped, budget
<1>5. Smaller(clipped, budget) \in Int /\ AtLeastZero(Smaller(clipped, budget)) <= q
  BY <1>2, <1>3 DEF Smaller, AtLeastZero
<1>6. AtLeastZero(Smaller(clipped, budget)) \in Int
  BY <1>5 DEF AtLeastZero
<1> QED
  BY <1>4, <1>5, <1>6, QuantizeFacts

-----------------------------------------------------------------------------
(* Whole increments, and what an order leaves.                             *)

Aligned(q) == \E n \in Int : q = n * QuantityIncrement

LEMMA Quotients ==
  ASSUME NEW n \in Int, NEW d \in Nat \ {0}
  PROVE  /\ (n * d) \div d = n /\ (n * d) % d = 0
         /\ \A m \in Int : n * d <= m => n <= m \div d
  OBVIOUS

LEMMA AlignedFacts ==
  /\ Aligned(0)
  /\ \A q \in Int : Aligned(q) => q % QuantityIncrement = 0
  /\ \A q \in Int : Aligned(QuantizeQuantity(q))
  /\ \A q \in Nat : Aligned(q) => QuantizeQuantity(q) = q
  /\ \A p, q : Aligned(p) /\ Aligned(q) => Aligned(p - q)
<1> DEFINE d == QuantityIncrement
<1>0. d \in Nat \ {0}
  BY PolicyTypes
<1>1. Aligned(0)
  <2>1. 0 \in Int /\ 0 * d = 0
    BY <1>0
  <2> QED
    BY <2>1 DEF Aligned
<1>2. \A q \in Int : Aligned(q) => q % d = 0
  BY <1>0, Quotients DEF Aligned
<1>3. ASSUME NEW q \in Int PROVE Aligned(QuantizeQuantity(q))
  <2>1. QuantizeQuantity(q) = (QuantizeQuantity(q) \div d) * d /\ QuantizeQuantity(q) \in Nat
    BY QuantizeFacts
  <2>2. QuantizeQuantity(q) \div d \in Int
    BY <1>0, <2>1, DivType
  <2> QED
    BY <2>1, <2>2 DEF Aligned
<1>4. ASSUME NEW q \in Nat, Aligned(q) PROVE QuantizeQuantity(q) = q
  <2>1. PICK n \in Int : q = n * d
    BY <1>4 DEF Aligned
  <2>2. (q \div d) * d = q
    BY <1>0, <2>1, Quotients
  <2> QED
    BY <2>2 DEF QuantizeQuantity
<1>5. ASSUME NEW p, NEW q, Aligned(p), Aligned(q) PROVE Aligned(p - q)
  <2>1. PICK m \in Int, n \in Int : p = m * d /\ q = n * d
    BY <1>5 DEF Aligned
  <2>2. p - q = (m - n) * d /\ m - n \in Int
    BY <1>0, <2>1
  <2> QED
    BY <2>2 DEF Aligned
<1> QED
  BY <1>1, <1>2, <1>3, <1>4, <1>5

LEMMA MaxEntryAligned ==
  ASSUME NEW requested \in Int, NEW available \in Int, NEW ref, NEW volume, NEW limits
  PROVE  Aligned(MaxEntryQuantity(requested, available, ref, volume, limits))
<1> DEFINE q == MaxEntryQuantity(requested, available, ref, volume, limits)
           k == EntryCeiling(requested, available) \div QuantityIncrement
<1>1. \E n \in 0..k : q = n * QuantityIncrement
  BY MaxEntryFacts DEF IsMaxEntry
<1> QED
  BY <1>1 DEF Aligned

(* A stop lies its percentage below an entry, to the last unit: an entry   *)
(* price is a multiple of BPS * BPS.                                       *)
LEMMA RiskPerShare ==
  ASSUME NEW m \in Nat
  PROVE  LET entry == m * (BPS * BPS) IN
         (entry - StopLossPrice(entry) * BPS) * BPS = entry * StopLossPct
<1> DEFINE entry == m * (BPS * BPS)
           k == BPS - StopLossPct
<1>1. BPS \in Nat \ {0} /\ BPS * BPS \in Nat \ {0} /\ k \in Int /\ StopLossPct \in Int
  BY PolicyTypes, ProductType
<1>2. entry * k = (m * k) * (BPS * BPS) /\ m * k \in Int
  BY <1>1
<1>3. StopLossPrice(entry) = m * k
  BY <1>1, <1>2, Quotients DEF StopLossPrice
<1>4. (m * (BPS * BPS) - (m * (BPS - StopLossPct)) * BPS) * BPS
        = (m * (BPS * BPS)) * StopLossPct
  BY <1>1
<1> QED
  BY <1>3, <1>4

LEMMA ProtectionNatural ==
  ASSUME NEW m \in Nat
  PROVE  LET entry == m * (BPS * BPS) IN
         StopLossPrice(entry) \in Nat /\ TakeProfitPrice(entry) \in Nat
<1> DEFINE entry == m * (BPS * BPS)
           k == BPS - StopLossPct
<1>1. /\ BPS \in Nat \ {0} /\ BPS * BPS \in Nat \ {0} /\ k \in Nat /\ k <= BPS
      /\ RewardRiskRatio \in Nat
  BY PolicyTypes, ProductType, SizingAssumption
<1>2. entry * k = (m * k) * (BPS * BPS) /\ entry = (m * BPS) * BPS
  BY <1>1
<1>3. m * k \in Nat /\ m * k \in Int /\ m * BPS \in Nat /\ k * m <= BPS * m
  BY <1>1, ProductMonotone
<1>4. StopLossPrice(entry) = m * k
  BY <1>1, <1>2, <1>3, Quotients DEF StopLossPrice
<1>5. entry \div BPS = m * BPS
  BY <1>1, <1>2, <1>3, Quotients
<1> DEFINE paid == m * BPS
           stop == m * k
<1>6. paid \in Nat /\ stop \in Nat /\ stop <= paid
  BY <1>1, <1>3
<1>7. TakeProfitPrice(entry) = paid + (paid - stop) * RewardRiskRatio
  BY <1>4, <1>5 DEF TakeProfitPrice
<1>8. StopLossPrice(entry) = stop
  BY <1>4
<1> HIDE DEF paid, stop, entry
<1>9. paid - stop \in Nat
  BY <1>6
<1>10. (paid - stop) * RewardRiskRatio \in Nat
  BY <1>1, <1>9, ProductType
<1>11. paid + (paid - stop) * RewardRiskRatio \in Nat
  BY <1>6, <1>10
<1> QED
  BY <1>6, <1>7, <1>8, <1>11 DEF entry

(* A sell whose adjustments leave something brings in something, as long   *)
(* as its fee is no more than its value.                                   *)
LEMMA ImpactBounded ==
  ASSUME NEW q \in Nat, NEW volume \in Nat
  PROVE  MarketImpact(q, volume) <= MarketImpactBps
<1> DEFINE n == Smaller(q, volume)
<1>1. MarketImpactBps \in Nat /\ n \in Nat /\ n <= volume
  BY PolicyAssumption DEF Smaller
<1> HIDE DEF n
<1>2. CASE volume > 0
  <2>1. MarketImpactBps * n <= MarketImpactBps * volume /\ MarketImpactBps * n \in Nat
    BY <1>1, ProductMonotone
  <2>2. (MarketImpactBps * volume) \div volume = MarketImpactBps
    BY <1>1, <1>2
  <2>3. (MarketImpactBps * n) \div volume <= (MarketImpactBps * volume) \div volume
    BY <1>1, <1>2, <2>1, ProductType, DivMonotone
  <2> QED
    BY <1>1, <2>2, <2>3 DEF MarketImpact, n
<1> QED
  BY <1>1, <1>2 DEF MarketImpact

LEMMA SellProceeds ==
  ASSUME SlippageBps + MarketImpactBps + HalfSpreadBps <= BPS, FeeBps <= BPS,
         NEW ref \in Nat, NEW q \in Nat, NEW volume \in Nat
  PROVE  LET price == SellExecutionPrice(ref, q, volume) IN
         /\ Value(price, q) \in Nat /\ Fee(price, q) \in Nat
         /\ Fee(price, q) <= Value(price, q)
<1> DEFINE price == SellExecutionPrice(ref, q, volume)
           left == BPS - (SlippageBps + MarketImpact(q, volume) + HalfSpreadBps)
<1>1. left \in Nat
  <2>1. MarketImpact(q, volume) \in Int /\ MarketImpact(q, volume) <= MarketImpactBps
    BY ImpactType, ImpactBounded
  <2> QED
    BY <2>1, PolicyTypes
<1>2. price = ref * left
  BY DEF SellExecutionPrice
<1> HIDE DEF left, price
<1>3. price * q \in Nat
  BY <1>1, <1>2, ProductType
<1> DEFINE gross == price * q
<1>4. gross \in Nat /\ BPS \in Nat /\ FeeBps \in Nat
  BY <1>3, PolicyAssumption
<1> HIDE DEF gross
<1>5. gross * FeeBps <= gross * BPS /\ gross * FeeBps \in Nat /\ gross * BPS \in Nat
  BY <1>4, ProductMonotone, ProductType
<1> QED
  BY <1>5 DEF gross, Value, Fee, price

(* The risk adapter leaves what respects the two limits it knows.          *)
LEMMA RiskLeaves ==
  ASSUME NEW m \in Nat, NEW q \in Nat \ {0}, NEW equity \in Int, Aligned(q),
         m * (BPS * BPS) > 0,
         Value(m * (BPS * BPS), q) * BPS <= equity * MaxPositionPct,
         Value(m * (BPS * BPS), q) * StopLossPct <= equity * RiskPerTrade
  PROVE  RiskQuantity(q, m * (BPS * BPS), equity) = q
<1> DEFINE entry == m * (BPS * BPS)
           share == entry - StopLossPrice(entry) * BPS
           budget == (equity * RiskPerTrade) \div (share * BPS * BPS)
<1>1. /\ BPS \in Nat \ {0} /\ entry \in Nat \ {0} /\ StopLossPct \in Nat \ {0}
      /\ share \in Int /\ equity * RiskPerTrade \in Int /\ equity * MaxPositionPct \in Int
  <2>1. entry \in Nat \ {0}
    BY PolicyTypes, ProductType
  <2>2. StopLossPrice(entry) * BPS \in Int
    BY <2>1, ProtectionTypes, PolicyTypes, ProductType
  <2> HIDE DEF entry
  <2> QED
    BY <2>1, <2>2, PolicyTypes, SizingAssumption, ProductType
<1>2. share * BPS = entry * StopLossPct
  BY RiskPerShare
<1> HIDE DEF entry, share
<1>3. share * BPS * BPS \in Nat \ {0}
  BY <1>1, <1>2, ProductType
<1>4. q * (share * BPS * BPS) = Value(entry, q) * StopLossPct
  <2>1. q * (share * BPS * BPS) = q * ((share * BPS) * BPS)
    OBVIOUS
  <2>2. q * ((entry * StopLossPct) * BPS) = (entry * q * BPS) * StopLossPct
    BY <1>1
  <2> QED
    BY <1>2, <2>1, <2>2 DEF Value
<1>5. q <= budget
  <2>1. q * (share * BPS * BPS) <= equity * RiskPerTrade
    BY <1>4 DEF entry
  <2> DEFINE d == share * BPS * BPS
             n == equity * RiskPerTrade
  <2>2. d \in Nat \ {0} /\ n \in Int /\ q * d <= n
    BY <1>1, <1>3, <2>1
  <2> HIDE DEF d, n
  <2>3. q <= n \div d
    BY <2>2, Quotients
  <2> QED
    BY <2>3 DEF d, n
<1>6. ~(Value(entry, q) * BPS > equity * MaxPositionPct)
  <2>1. Value(entry, q) * BPS <= equity * MaxPositionPct
    BY DEF entry
  <2>2. Value(entry, q) * BPS \in Int
    BY <1>1, MoneyTypes, ProductType
  <2> QED
    BY <1>1, <2>1, <2>2
<1>7. Smaller(q, budget) = q
  BY <1>5 DEF Smaller
<1>8. RiskQuantity(q, entry, equity) = QuantizeQuantity(q)
  BY <1>6, <1>7 DEF RiskQuantity, share
<1> QED
  BY <1>8, AlignedFacts DEF entry

-----------------------------------------------------------------------------
(* A sum over a finite set of symbols is an integer, changes by as much as *)
(* one of its terms does, and is at least any one of them when none is     *)
(* negative.  SumFunction is a fold, a function over the subsets defined   *)
(* by recursion; that there is such a function is the first thing to show, *)
(* and the rest is by the smallest subset that would not do.               *)

Pick(S) == CHOOSE x \in S : TRUE

(* f sums g over every subset of S, one picked element after the other.    *)
Sums(f, g, S) ==
  f = [T \in SUBSET S |-> IF T = {} THEN 0 ELSE g[Pick(T)] + f[T \ {Pick(T)}]]

TheSums(g, S) == CHOOSE f : Sums(f, g, S)

LEMMA SumIsFold ==
  ASSUME NEW g
  PROVE  SumFunction(g) = TheSums(g, DOMAIN g)[DOMAIN g]
BY DEF SumFunction, SumFunctionOnSet, FoldFunctionOnSet, MapThenFoldSet, TheSums, Sums, Pick

(* Of the subsets of a finite set that are bad in any way, some have no    *)
(* bad subset of their own.                                                *)
LEMMA SmallestBad ==
  ASSUME NEW S, IsFiniteSet(S), NEW Bad \in SUBSET (SUBSET S), Bad # {}
  PROVE  \E T \in Bad : \A U \in SUBSET T : U # T => U \notin Bad
<1>1. IsWellFoundedOn(StrictSubsetOrdering(S), FiniteSubsetsOf(S))
  BY FS_StrictSubsetOrderingWellFounded
<1>2. FiniteSubsetsOf(S) = SUBSET S
  BY FS_FiniteSubsetsOfFinite
<1>3. PICK T \in Bad : \A U \in Bad : <<U, T>> \notin StrictSubsetOrdering(S)
  BY <1>1, <1>2, WFMin
<1>4. ASSUME NEW U \in SUBSET T, U # T, U \in Bad
      PROVE  FALSE
  <2>1. <<U, T>> \in (SUBSET S) \X (SUBSET S)
    OBVIOUS
  <2>2. <<U, T>> \in StrictSubsetOrdering(S)
    BY <2>1, <1>4 DEF StrictSubsetOrdering
  <2> QED
    BY <2>2, <1>3, <1>4
<1> QED
  BY <1>3, <1>4

LEMMA LeastNatural ==
  ASSUME NEW N \in SUBSET Nat, N # {}
  PROVE  \E n \in N : \A m \in N : ~(m < n)
<1> DEFINE R == OpToRel(<, Nat)
<1>1. PICK n \in N : \A m \in N : <<m, n>> \notin R
  BY NatLessThanWellFounded, WFMin
<1>2. \A m \in N : m < n => <<m, n>> \in R
  BY DEF OpToRel
<1> QED
  BY <1>1, <1>2

LEMMA Picked ==
  ASSUME NEW T, T # {}
  PROVE  Pick(T) \in T
BY DEF Pick

(* Subsets of at most n elements.                                          *)
UpTo(S, n) == {T \in SUBSET S : Cardinality(T) <= n}

SumsUpTo(f, g, S, n) ==
  f = [T \in UpTo(S, n) |-> IF T = {} THEN 0 ELSE g[Pick(T)] + f[T \ {Pick(T)}]]

LEMMA SmallerByOne ==
  ASSUME NEW S, IsFiniteSet(S), NEW n \in Nat, NEW T \in UpTo(S, n + 1), T # {}
  PROVE  T \ {Pick(T)} \in UpTo(S, n)
<1>1. IsFiniteSet(T) /\ T \subseteq S
  BY FS_Subset DEF UpTo
<1>2. Cardinality(T \ {Pick(T)}) = Cardinality(T) - 1
  BY <1>1, Picked, FS_RemoveElement
<1>3. Cardinality(T) \in Nat /\ Cardinality(T) <= n + 1
  BY <1>1, FS_CardinalityType DEF UpTo
<1> QED
  BY <1>1, <1>2, <1>3 DEF UpTo

LEMMA SumsUpToExist ==
  ASSUME NEW S, IsFiniteSet(S), NEW g
  PROVE  \A n \in Nat : \E f : SumsUpTo(f, g, S, n)
<1> DEFINE P(n) == \E f : SumsUpTo(f, g, S, n)
<1>1. P(0)
  <2> DEFINE z == [T \in UpTo(S, 0) |-> 0]
  <2>1. \A T \in UpTo(S, 0) : T = {}
    BY FS_Subset, FS_EmptySet, FS_CardinalityType DEF UpTo
  <2>2. SumsUpTo(z, g, S, 0)
    BY <2>1 DEF SumsUpTo
  <2> QED
    BY <2>2
<1>2. ASSUME NEW n \in Nat, P(n)
      PROVE  P(n + 1)
  <2>1. PICK f : SumsUpTo(f, g, S, n)
    BY <1>2
  <2> DEFINE h == [T \in UpTo(S, n + 1) |->
                     IF T = {} THEN 0 ELSE g[Pick(T)] + f[T \ {Pick(T)}]]
  <2>2. \A T \in UpTo(S, n) : T \in UpTo(S, n + 1)
    BY FS_Subset, FS_CardinalityType DEF UpTo
  <2>3. \A T \in UpTo(S, n) : h[T] = f[T]
    BY <2>1, <2>2 DEF SumsUpTo
  <2>4. \A T \in UpTo(S, n + 1) : T # {} => h[T \ {Pick(T)}] = f[T \ {Pick(T)}]
    BY <2>3, SmallerByOne
  <2>5. SumsUpTo(h, g, S, n + 1)
    BY <2>4 DEF SumsUpTo
  <2> QED
    BY <2>5
<1> DEFINE Without == {n \in Nat : ~P(n)}
<1> HIDE DEF P
<1>3. ASSUME Without # {}
      PROVE  FALSE
  <2>1. PICK n \in Without : \A m \in Without : ~(m < n)
    BY <1>3, LeastNatural
  <2>2. n # 0 /\ n - 1 \in Nat
    BY <1>1
  <2>3. P(n - 1)
    BY <2>1, <2>2
  <2>4. P((n - 1) + 1)
    BY <1>2, <2>2, <2>3
  <2> QED
    BY <2>4
<1> QED
  BY <1>3 DEF P

LEMMA TheSumsExist ==
  ASSUME NEW S, IsFiniteSet(S), NEW g
  PROVE  Sums(TheSums(g, S), g, S)
<1>1. Cardinality(S) \in Nat
  BY FS_CardinalityType
<1>2. UpTo(S, Cardinality(S)) = SUBSET S
  BY FS_Subset DEF UpTo
<1>3. PICK f : SumsUpTo(f, g, S, Cardinality(S))
  BY <1>1, SumsUpToExist
<1>4. Sums(f, g, S)
  BY <1>2, <1>3 DEF SumsUpTo, Sums
<1> QED
  BY <1>4 DEF TheSums

-----------------------------------------------------------------------------
(* The recursion, one step at a time, and the induction along it.          *)
LEMMA SumOfNone ==
  ASSUME NEW S, IsFiniteSet(S), NEW g
  PROVE  TheSums(g, S)[{}] = 0
<1>1. Sums(TheSums(g, S), g, S) /\ {} \in SUBSET S
  BY TheSumsExist
<1> QED
  BY <1>1 DEF Sums

LEMMA SumOfMore ==
  ASSUME NEW S, IsFiniteSet(S), NEW g, NEW T \in SUBSET S, T # {}
  PROVE  TheSums(g, S)[T] = g[Pick(T)] + TheSums(g, S)[T \ {Pick(T)}]
<1>1. Sums(TheSums(g, S), g, S)
  BY TheSumsExist
<1> QED
  BY <1>1 DEF Sums

LEMMA PickInduction ==
  ASSUME NEW S, IsFiniteSet(S), NEW Good, {} \in Good,
         \A T \in SUBSET S :
           T # {} /\ Pick(T) \in S /\ T \ {Pick(T)} \in Good => T \in Good
  PROVE  S \in Good
<1> DEFINE Bad == {T \in SUBSET S : T \notin Good}
<1>1. Bad \in SUBSET (SUBSET S)
  OBVIOUS
<1>2. ASSUME S \in Bad
      PROVE  FALSE
  <2>1. Bad # {}
    BY <1>2
  <2>2. \E T \in Bad : \A U \in SUBSET T : U # T => U \notin Bad
    <3> HIDE DEF Bad
    <3> QED
      BY <1>1, <2>1, SmallestBad
  <2>3. PICK T \in Bad : \A U \in SUBSET T : U # T => U \notin Bad
    BY <2>2
  <2>4. T # {} /\ T \in SUBSET S
    OBVIOUS
  <2>5. Pick(T) \in T
    BY <2>4, Picked
  <2>6. T \ {Pick(T)} \in SUBSET T /\ T \ {Pick(T)} # T
    BY <2>5
  <2>7. T \ {Pick(T)} \in Good
    BY <2>3, <2>4, <2>6
  <2> QED
    BY <2>3, <2>4, <2>5, <2>7
<1> QED
  BY <1>2

(* A sum of integers is an integer.                                        *)
LEMMA SumType ==
  ASSUME NEW S, IsFiniteSet(S), NEW g \in [S -> Int]
  PROVE  SumFunction(g) \in Int
<1> DEFINE Good == {T \in SUBSET S : TheSums(g, S)[T] \in Int}
<1>1. {} \in Good
  BY SumOfNone
<1>2. ASSUME NEW T \in SUBSET S, T # {}, Pick(T) \in S, T \ {Pick(T)} \in Good
      PROVE  T \in Good
  <2>1. TheSums(g, S)[T] = g[Pick(T)] + TheSums(g, S)[T \ {Pick(T)}]
    BY <1>2, SumOfMore
  <2>2. g[Pick(T)] \in Int
    BY <1>2
  <2> QED
    BY <1>2, <2>1, <2>2
<1>3. S \in Good
  <2> HIDE DEF Good
  <2> QED
    BY <1>1, <1>2, PickInduction
<1> QED
  BY <1>3, SumIsFold

(* A sum of naturals is one, and no term exceeds it.                       *)
LEMMA SumOfNaturals ==
  ASSUME NEW S, IsFiniteSet(S), NEW g \in [S -> Nat]
  PROVE  /\ SumFunction(g) \in Nat
         /\ \A k \in S : g[k] <= SumFunction(g)
<1> DEFINE Good == {T \in SUBSET S : /\ TheSums(g, S)[T] \in Nat
                                   /\ \A k \in T : g[k] <= TheSums(g, S)[T]}
<1>1. {} \in Good
  BY SumOfNone
<1>2. ASSUME NEW T \in SUBSET S, T # {}, Pick(T) \in S, T \ {Pick(T)} \in Good
      PROVE  T \in Good
  <2>1. TheSums(g, S)[T] = g[Pick(T)] + TheSums(g, S)[T \ {Pick(T)}]
    BY <1>2, SumOfMore
  <2>2. /\ TheSums(g, S)[T] \in Nat /\ g[Pick(T)] <= TheSums(g, S)[T]
        /\ TheSums(g, S)[T \ {Pick(T)}] <= TheSums(g, S)[T]
    BY <1>2, <2>1
  <2>3. ASSUME NEW k \in T
        PROVE  g[k] <= TheSums(g, S)[T]
    <3>1. CASE k = Pick(T)
      BY <2>2, <3>1
    <3>2. CASE k # Pick(T)
      BY <1>2, <2>2, <3>2
    <3> QED
      BY <3>1, <3>2
  <2> QED
    BY <2>2, <2>3
<1>3. S \in Good
  <2> HIDE DEF Good
  <2> QED
    BY <1>1, <1>2, PickInduction
<1> QED
  BY <1>3, SumIsFold

LEMMA SumOfZeros ==
  ASSUME NEW S, IsFiniteSet(S), NEW g \in [S -> {0}]
  PROVE  SumFunction(g) = 0
<1> DEFINE Good == {T \in SUBSET S : TheSums(g, S)[T] = 0}
<1>1. {} \in Good
  BY SumOfNone
<1>2. ASSUME NEW T \in SUBSET S, T # {}, Pick(T) \in S, T \ {Pick(T)} \in Good
      PROVE  T \in Good
  <2>1. TheSums(g, S)[T] = g[Pick(T)] + TheSums(g, S)[T \ {Pick(T)}]
    BY <1>2, SumOfMore
  <2>2. g[Pick(T)] \in {0}
    BY <1>2
  <2> QED
    BY <1>2, <2>1, <2>2
<1>3. S \in Good
  <2> HIDE DEF Good
  <2> QED
    BY <1>1, <1>2, PickInduction
<1> QED
  BY <1>3, SumIsFold

(* When one term changes the sum changes by as much.                       *)
LEMMA SumUpdate ==
  ASSUME NEW S, IsFiniteSet(S), NEW g \in [S -> Int], NEW h \in [S -> Int],
         NEW k \in S, \A x \in S \ {k} : h[x] = g[x]
  PROVE  SumFunction(h) = SumFunction(g) + (h[k] - g[k])
<1> DEFINE Change(T) == IF k \in T THEN h[k] - g[k] ELSE 0
           Good == {T \in SUBSET S : /\ TheSums(g, S)[T] \in Int
                                   /\ TheSums(h, S)[T] = TheSums(g, S)[T] + Change(T)}
<1>1. {} \in Good
  BY SumOfNone
<1>2. ASSUME NEW T \in SUBSET S, T # {}, Pick(T) \in S, T \ {Pick(T)} \in Good
      PROVE  T \in Good
  <2>1. /\ TheSums(g, S)[T] = g[Pick(T)] + TheSums(g, S)[T \ {Pick(T)}]
        /\ TheSums(h, S)[T] = h[Pick(T)] + TheSums(h, S)[T \ {Pick(T)}]
        /\ Pick(T) \in T
    BY <1>2, SumOfMore, Picked
  <2>2. Change(T) = Change(T \ {Pick(T)}) + (h[Pick(T)] - g[Pick(T)])
    <3>1. CASE k = Pick(T)
      BY <2>1, <3>1
    <3>2. CASE k # Pick(T)
      BY <1>2, <3>2
    <3> QED
      BY <3>1, <3>2
  <2>3. Change(T \ {Pick(T)}) \in Int
    OBVIOUS
  <2>4. g[Pick(T)] \in Int /\ h[Pick(T)] \in Int
    BY <1>2
  <2>5. T \in SUBSET S
    OBVIOUS
  <2>6. /\ TheSums(g, S)[T \ {Pick(T)}] \in Int
        /\ TheSums(h, S)[T \ {Pick(T)}]
             = TheSums(g, S)[T \ {Pick(T)}] + Change(T \ {Pick(T)})
    BY <1>2
  <2> HIDE DEF Change
  <2> QED
    BY <2>1, <2>2, <2>3, <2>4, <2>5, <2>6
<1>3. S \in Good
  <2> HIDE DEF Good
  <2> QED
    BY <1>1, <1>2, PickInduction
<1> QED
  BY <1>3, SumIsFold

(* A sum of differences is the difference of the sums.                     *)
LEMMA SumOfDifferences ==
  ASSUME NEW S, IsFiniteSet(S), NEW g \in [S -> Int], NEW h \in [S -> Int],
         NEW d \in [S -> Int], \A x \in S : d[x] = g[x] - h[x]
  PROVE  SumFunction(d) = SumFunction(g) - SumFunction(h)
<1> DEFINE Good == {T \in SUBSET S : /\ TheSums(g, S)[T] \in Int
                                   /\ TheSums(h, S)[T] \in Int
                                   /\ TheSums(d, S)[T]
                                        = TheSums(g, S)[T] - TheSums(h, S)[T]}
<1>1. {} \in Good
  BY SumOfNone
<1>2. ASSUME NEW T \in SUBSET S, T # {}, Pick(T) \in S, T \ {Pick(T)} \in Good
      PROVE  T \in Good
  <2>1. /\ TheSums(g, S)[T] = g[Pick(T)] + TheSums(g, S)[T \ {Pick(T)}]
        /\ TheSums(h, S)[T] = h[Pick(T)] + TheSums(h, S)[T \ {Pick(T)}]
        /\ TheSums(d, S)[T] = d[Pick(T)] + TheSums(d, S)[T \ {Pick(T)}]
    BY <1>2, SumOfMore
  <2>2. d[Pick(T)] = g[Pick(T)] - h[Pick(T)]
    BY <1>2
  <2> QED
    BY <1>2, <2>1, <2>2
<1>3. S \in Good
  <2> HIDE DEF Good
  <2> QED
    BY <1>1, <1>2, PickInduction
<1> QED
  BY <1>3, SumIsFold
-----------------------------------------------------------------------------
(* Sums over a part of the set, and over one element more.                 *)

LEMMA SumsAreInts ==
  ASSUME NEW S, IsFiniteSet(S), NEW g \in [S -> Int], NEW T \in SUBSET S
  PROVE  TheSums(g, S)[T] \in Int
<1> DEFINE Good == {U \in SUBSET S : U \subseteq T => TheSums(g, S)[U] \in Int}
<1>0. IsFiniteSet(T)
  BY FS_Subset
<1>1. {} \in Good
  BY SumOfNone
<1>2. ASSUME NEW U \in SUBSET T, U # {}, Pick(U) \in T, U \ {Pick(U)} \in Good
      PROVE  U \in Good
  <2>1. TheSums(g, S)[U] = g[Pick(U)] + TheSums(g, S)[U \ {Pick(U)}]
    BY <1>2, SumOfMore
  <2>2. g[Pick(U)] \in Int
    BY <1>2
  <2> QED
    BY <1>2, <2>1, <2>2
<1>3. T \in Good
  <2> HIDE DEF Good
  <2> QED
    BY <1>0, <1>1, <1>2, PickInduction
<1> QED
  BY <1>3

(* Any term may be taken first.                                            *)
LEMMA SumWithout ==
  ASSUME NEW S, IsFiniteSet(S), NEW g \in [S -> Int], NEW T \in SUBSET S, NEW p \in T
  PROVE  TheSums(g, S)[T] = g[p] + TheSums(g, S)[T \ {p}]
<1> DEFINE s == TheSums(g, S)
           Bad == {U \in SUBSET S : \E x \in U : s[U] # g[x] + s[U \ {x}]}
<1>1. ASSUME Bad # {}
      PROVE  FALSE
  <2>1. \E U \in Bad : \A V \in SUBSET U : V # U => V \notin Bad
    <3>1. Bad \in SUBSET (SUBSET S)
      OBVIOUS
    <3> HIDE DEF Bad
    <3> QED
      BY <1>1, <3>1, SmallestBad
  <2>2. PICK U \in Bad : \A V \in SUBSET U : V # U => V \notin Bad
    BY <2>1
  <2>3. PICK x \in U : s[U] # g[x] + s[U \ {x}]
    OBVIOUS
  <2> DEFINE q == Pick(U)
  <2>4. U \in SUBSET S /\ q \in U
    BY Picked
  <2>5. s[U] = g[q] + s[U \ {q}]
    BY <2>4, SumOfMore
  <2> HIDE DEF q
  <2>6. x # q
    BY <2>3, <2>5
  <2>7. s[U \ {q}] = g[x] + s[(U \ {q}) \ {x}]
    BY <2>2, <2>4, <2>6
  <2>8. s[U \ {x}] = g[q] + s[(U \ {x}) \ {q}]
    BY <2>2, <2>4, <2>6
  <2>9. (U \ {q}) \ {x} = (U \ {x}) \ {q} /\ (U \ {x}) \ {q} \in SUBSET S
    BY <2>4
  <2>10. g[x] \in Int /\ g[q] \in Int
    BY <2>4
  <2>11. s[(U \ {x}) \ {q}] \in Int
    BY <2>9, SumsAreInts
  <2> DEFINE last == s[(U \ {x}) \ {q}]
  <2>12. s[U \ {q}] = g[x] + last /\ s[U \ {x}] = g[q] + last /\ last \in Int
    BY <2>7, <2>8, <2>9, <2>11
  <2> HIDE DEF last
  <2>13. s[U] = g[q] + (g[x] + last) /\ s[U] # g[x] + (g[q] + last)
    BY <2>3, <2>5, <2>12
  <2> QED
    BY <2>10, <2>12, <2>13
<1> QED
  BY <1>1

(* The sum of two parts that have nothing in common.                       *)
LEMMA SumOfTwo ==
  ASSUME NEW S, IsFiniteSet(S), NEW g \in [S -> Int],
         NEW A \in SUBSET S, NEW B \in SUBSET S, A \cap B = {}
  PROVE  TheSums(g, S)[A \cup B] = TheSums(g, S)[A] + TheSums(g, S)[B]
<1> DEFINE s == TheSums(g, S)
           Good == {T \in SUBSET B : s[A \cup T] = s[A] + s[T]}
<1>0. IsFiniteSet(B) /\ s[A] \in Int
  BY FS_Subset, SumsAreInts
<1>1. {} \in Good
  <2>1. s[{}] = 0 /\ A \cup {} = A
    BY SumOfNone
  <2> HIDE DEF s
  <2> QED
    BY <1>0, <2>1
<1>2. ASSUME NEW T \in SUBSET B, T # {}, Pick(T) \in B, T \ {Pick(T)} \in Good
      PROVE  T \in Good
  <2> DEFINE p == Pick(T)
             rest == T \ {p}
  <2>1. p \in T /\ p \in S /\ p \notin A
    BY <1>2, Picked
  <2>2. T \in SUBSET S /\ A \cup T \in SUBSET S /\ rest \in SUBSET S
    OBVIOUS
  <2>3. (A \cup T) \ {p} = A \cup rest
    BY <2>1
  <2>4. s[T] = g[p] + s[rest]
    <3>1. \A U \in SUBSET S : \A x \in U : s[U] = g[x] + s[U \ {x}]
      BY SumWithout
    <3> HIDE DEF s, p
    <3> QED
      BY <2>1, <2>2, <3>1
  <2>5. s[A \cup T] = g[p] + s[(A \cup T) \ {p}]
    BY <2>1, <2>2, SumWithout
  <2>6. s[A \cup rest] = s[A] + s[rest]
    BY <1>2
  <2>7. g[p] \in Int /\ s[rest] \in Int
    BY <2>1, <2>2, SumsAreInts
  <2>8. s[A \cup T] = g[p] + s[A \cup rest]
    BY <2>3, <2>5
  <2>9. s[A \cup T] = s[A] + s[T]
    <3> HIDE DEF s, p, rest
    <3> QED
      BY <1>0, <2>4, <2>6, <2>7, <2>8
  <2> QED
    BY <2>9
<1>3. B \in Good
  <2> HIDE DEF Good
  <2> QED
    BY <1>0, <1>1, <1>2, PickInduction
<1> QED
  BY <1>3

(* The sum of a part of a function.                                        *)
LEMMA SumOfPart ==
  ASSUME NEW S, IsFiniteSet(S), NEW g \in [S -> Int], NEW A \in SUBSET S
  PROVE  SumFunction([x \in A |-> g[x]]) = TheSums(g, S)[A]
<1> DEFINE h == [x \in A |-> g[x]]
           Good == {T \in SUBSET A : TheSums(h, A)[T] = TheSums(g, S)[T]}
<1>0. IsFiniteSet(A) /\ DOMAIN h = A
  BY FS_Subset
<1>1. {} \in Good
  BY <1>0, SumOfNone
<1>2. ASSUME NEW T \in SUBSET A, T # {}, Pick(T) \in A, T \ {Pick(T)} \in Good
      PROVE  T \in Good
  <2>1. T \in SUBSET S /\ h[Pick(T)] = g[Pick(T)]
    BY <1>2
  <2>2. TheSums(g, S)[T] = g[Pick(T)] + TheSums(g, S)[T \ {Pick(T)}]
    BY <1>2, <2>1, SumOfMore
  <2> HIDE DEF h
  <2>3. TheSums(h, A)[T] = h[Pick(T)] + TheSums(h, A)[T \ {Pick(T)}]
    BY <1>0, <1>2, SumOfMore
  <2> QED
    BY <1>2, <2>1, <2>2, <2>3
<1>3. A \in Good
  <2> HIDE DEF Good
  <2> QED
    BY <1>0, <1>1, <1>2, PickInduction
<1>4. TheSums(h, A)[A] = TheSums(g, S)[A]
  BY <1>3
<1> HIDE DEF h
<1>5. SumFunction(h) = TheSums(h, A)[A]
  BY <1>0, SumIsFold
<1>6. SumFunction(h) = TheSums(g, S)[A]
  BY <1>4, <1>5
<1> QED
  BY <1>6 DEF h

(* One more term adds itself.                                              *)
SameOn(S, h, g) == \A x \in S : h[x] = g[x]

LEMMA SumWithOneMore ==
  ASSUME NEW S, IsFiniteSet(S), NEW k, k \notin S,
         NEW g \in [S -> Int], NEW h \in [S \cup {k} -> Int], SameOn(S, h, g)
  PROVE  SumFunction(h) = SumFunction(g) + h[k]
<1> DEFINE all == S \cup {k}
<1>1. IsFiniteSet(all) /\ S \in SUBSET all /\ k \in all /\ all \ {k} = S
  BY FS_AddElement
<1>2. SumFunction(h) = TheSums(h, all)[all]
  BY SumIsFold
<1>3. TheSums(h, all)[all] = h[k] + TheSums(h, all)[S]
  <2> HIDE DEF all
  <2>1. h \in [all -> Int]
    BY DEF all
  <2>2. TheSums(h, all)[all] = h[k] + TheSums(h, all)[all \ {k}]
    BY <1>1, <2>1, SumWithout
  <2> QED
    BY <1>1, <2>2
<1>4. SumFunction([x \in S |-> h[x]]) = TheSums(h, all)[S]
  <2> HIDE DEF all
  <2>1. h \in [all -> Int]
    BY DEF all
  <2> QED
    BY <1>1, <2>1, SumOfPart
<1>5. [x \in S |-> h[x]] = g
  BY DEF SameOn
<1>6. h[k] \in Int /\ SumFunction(g) \in Int
  BY SumType
<1> HIDE DEF all
<1> QED
  BY <1>2, <1>3, <1>4, <1>5, <1>6
=============================================================================
