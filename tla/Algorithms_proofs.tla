-------------------------- MODULE Algorithms_proofs --------------------------
(***************************************************************************)
(* The four algorithms that work alone, for all values of the constants.   *)
(*                                                                         *)
(* The binary search of max_entry_quantity returns the largest fill within *)
(* the limits.  The heart is FitsDownward: the impact raises the price     *)
(* with the quantity, so what a fill costs grows with it, and a smaller    *)
(* fill of an allowed one is allowed.  The rest is the bracketing argument *)
(* of the search.                                                          *)
(*                                                                         *)
(* What fetch_bars returns is the first bars without a gap however the     *)
(* service pages: what it did wrong shows in the rows, and stays there.    *)
(*                                                                         *)
(* The signals look at the last bars only and do not contradict one        *)
(* another: an average lies between the closes it is taken from.           *)
(*                                                                         *)
(* The overfitting gate decides by what generalises: a score adds up over  *)
(* the slices, and a split and its complement trade places.                *)
(***************************************************************************)
EXTENDS EntrySearch, MarketData, Strategies, OverfitGate, Execution_proofs,
        SequenceTheorems

(***************************************************************************)
(* The search for the entry quantity.                                      *)
(***************************************************************************)

(* A smaller fill of an allowed one is allowed: each of the four limits    *)
(* bounds something that grows with the quantity.                          *)
LEMMA FitsDownward ==
  ASSUME NEW o \in Orders, NEW m \in Nat, NEW n \in Nat, m <= n, Allowed(o, n)
  PROVE  Allowed(o, m)
  <1> DEFINE q == m * QuantityIncrement
             r == n * QuantityIncrement
             p == BuyExecutionPrice(o.ref, q, o.volume)
             s == BuyExecutionPrice(o.ref, r, o.volume)
  <1>0. /\ o.ref \in Nat /\ o.volume \in Nat
        /\ o.limits.cash \in Int /\ o.limits.exposure \in Int
        /\ o.limits.equity \in Int
    BY OrdersAssumption
  <1>1. q \in Nat /\ r \in Nat /\ q <= r
    BY ProductMonotone, PolicyAssumption
  <1>2. p \in Nat /\ s \in Nat /\ p <= s
    <2> HIDE DEF q, r
    <2> QED BY <1>0, <1>1, BuyPriceGrows
  <1> HIDE DEF q, r, p, s
  <1>3. p * q \in Nat /\ s * r \in Nat /\ p * q <= s * r
    BY <1>1, <1>2, ProductMonotone
  <1>4. /\ Value(p, q) \in Nat /\ Value(s, r) \in Nat
        /\ Value(p, q) <= Value(s, r)
    BY <1>3, ProductMonotone, PolicyAssumption DEF Value
  <1>5. Fee(p, q) \in Nat /\ Fee(s, r) \in Nat /\ Fee(p, q) <= Fee(s, r)
    BY <1>3, ProductMonotone, PolicyAssumption DEF Fee
  <1>6. /\ Value(p, q) * BPS \in Nat /\ Value(s, r) * BPS \in Nat
        /\ Value(p, q) * BPS <= Value(s, r) * BPS
    BY <1>4, ProductMonotone, PolicyAssumption
  <1>7. /\ Value(p, q) * StopLossPct \in Nat /\ Value(s, r) * StopLossPct \in Nat
        /\ Value(p, q) * StopLossPct <= Value(s, r) * StopLossPct
    BY <1>4, ProductMonotone, SizingAssumption
  <1>8. /\ Value(s, r) + Fee(s, r) <= o.limits.cash
        /\ Value(s, r) <= o.limits.exposure
        /\ Value(s, r) * BPS <= o.limits.equity * MaxPositionPct
        /\ Value(s, r) * StopLossPct <= o.limits.equity * RiskPerTrade
    BY DEF Allowed, EntryAllowed, r, s
  <1>9. /\ o.limits.equity * MaxPositionPct \in Int
        /\ o.limits.equity * RiskPerTrade \in Int
    BY <1>0, SizingAssumption
  <1>10. /\ Value(p, q) + Fee(p, q) <= o.limits.cash
         /\ Value(p, q) <= o.limits.exposure
         /\ Value(p, q) * BPS <= o.limits.equity * MaxPositionPct
         /\ Value(p, q) * StopLossPct <= o.limits.equity * RiskPerTrade
    BY <1>0, <1>4, <1>5, <1>6, <1>7, <1>8, <1>9
  <1> QED BY <1>10 DEF Allowed, EntryAllowed, p, q

-----------------------------------------------------------------------------
(* How many steps there are, and where the next one is taken.              *)
LEMMA StepsNat ==
  ASSUME NEW o \in Orders
  PROVE  Steps(o) \in Nat
  <1> DEFINE wanted == AtLeastZero(Smaller(o.requested, o.available))
  <1>1. wanted \in Nat
    BY OrdersAssumption DEF AtLeastZero, Smaller
  <1> HIDE DEF wanted
  <1>2. QuantizeQuantity(wanted) \in Nat
    BY <1>1, PolicyAssumption, DivMonotone, ProductMonotone DEF QuantizeQuantity
  <1>3. EntryCeiling(o.requested, o.available) \in Nat
    BY <1>2 DEF EntryCeiling, wanted
  <1> QED
    BY <1>3, PolicyAssumption, DivMonotone DEF Steps

LEMMA MiddleBetween ==
  ASSUME lowSteps \in Nat, highSteps \in Nat, lowSteps < highSteps
  PROVE  /\ Middle \in Nat
         /\ lowSteps < Middle
         /\ Middle <= highSteps
  BY DEF Middle

(* The invariant of the loop: the types and the bracket.  Without the      *)
(* types the comparisons of the bracket mean nothing.                      *)
Inv == TypeOK /\ Bracketed

THEOREM InvInit == Init => Inv
  <1> SUFFICES ASSUME Init PROVE Inv
    OBVIOUS
  <1>1. Steps(order) \in Nat
    BY StepsNat DEF Init
  <1>2. TypeOK
    BY <1>1 DEF Init, TypeOK
  <1>3. Bracketed
    BY <1>1 DEF Init, Bracketed
  <1> QED BY <1>2, <1>3 DEF Inv

(* Raise and Lower each keep both ends right.  Lower is where FitsDownward *)
(* is needed: one refused fill refuses every larger one.                   *)
THEOREM InvStep == Inv /\ [Next]_vars => Inv'
  <1> SUFFICES ASSUME Inv, [Next]_vars PROVE Inv'
    OBVIOUS
  <1> USE DEF Inv, TypeOK
  <1>0. Steps(order) \in Nat
    BY StepsNat
  <1>1. CASE Raise
    <2>1. Middle \in Nat /\ Middle <= highSteps
      BY <1>1, MiddleBetween DEF Raise
    <2>2. TypeOK'
      BY <1>1, <2>1 DEF Raise
    <2>3. Bracketed'
      BY <1>0, <1>1, <2>1 DEF Raise, Bracketed
    <2> QED BY <2>2, <2>3
  <1>2. CASE Lower
    <2>1. Middle \in Nat /\ lowSteps < Middle /\ Middle <= highSteps
      BY <1>2, MiddleBetween DEF Lower
    <2>2. TypeOK'
      BY <1>2, <2>1 DEF Lower
    <2>3. ASSUME NEW n \in Middle..Steps(order)
          PROVE  ~Allowed(order, n)
      BY <1>0, <1>2, <2>1, FitsDownward DEF Lower
    <2>4. Bracketed'
      BY <1>0, <1>2, <2>1, <2>3 DEF Lower, Bracketed
    <2> QED BY <2>2, <2>4
  <1>3. CASE UNCHANGED vars
    BY <1>3 DEF vars, Bracketed
  <1> QED BY <1>1, <1>2, <1>3 DEF Next

(* The bracket holds at every step of every search.                        *)
THEOREM SearchIsBracketed == Spec => [](TypeOK /\ Bracketed)
  <1>1. Spec => []Inv
    BY InvInit, InvStep, PTL DEF Spec
  <1> QED BY <1>1, PTL DEF Inv

(* When the ends meet, what is between them is the largest fill allowed.   *)
LEMMA BracketIsAnswer == Inv => ReturnsTheLargest
  <1> SUFFICES ASSUME Inv, Found PROVE
        IsMaxEntry(lowSteps * QuantityIncrement, order.requested,
                   order.available, order.ref, order.volume, order.limits)
    BY DEF ReturnsTheLargest
  <1> USE DEF Inv, TypeOK
  <1> DEFINE steps == 0..Steps(order)
             Fits(n) == n = 0 \/ EntryAllowed(n * QuantityIncrement, order.ref,
                                              order.volume, order.limits)
  <1>0. Steps(order) \in Nat
    BY StepsNat
  <1>1. lowSteps \in steps /\ Fits(lowSteps)
    BY <1>0 DEF Bracketed, Allowed
  <1>2. ASSUME NEW m \in steps, Fits(m)
        PROVE  m <= lowSteps
    BY <1>0, <1>2 DEF Bracketed, Allowed, Found
  <1>3. \E n \in steps : /\ lowSteps * QuantityIncrement = n * QuantityIncrement
                         /\ Fits(n)
                         /\ \A m \in steps : Fits(m) => m <= n
    BY <1>1, <1>2
  <1> QED BY <1>3 DEF IsMaxEntry, Steps

(* max_entry_quantity returns what its docstring promises                  *)
(* (execution.py:76), for every policy, order and limit.                   *)
THEOREM SearchReturnsTheLargest == Spec => []ReturnsTheLargest
  BY SearchIsBracketed, BracketIsAnswer, PTL DEF Inv

(* The search of max_entry_quantity keeps the order it was given, and its  *)
(* two ends never leave the natural numbers.                               *)
THEOREM SearchTypes == Spec => []TypeOK
  BY SearchIsBracketed, PTL DEF Inv

(***************************************************************************)
(* The fetching of the bars.                                               *)
(***************************************************************************)

(* The bars of the range, 1 to n.                                          *)
Upto(n) == [k \in 1 .. n |-> k]

Shortest == IF total < Limit THEN total ELSE Limit

(* What no reading may return: a bad bar, or one twice.                    *)
Spoilt(rows) == BadBar \in Range(rows) \/ ~IsInjective(rows)

FetchTypes ==
  /\ total \in Nat /\ token \in 0 .. total
  /\ raw \in Seq(Nat) /\ Len(raw) <= Limit
  /\ first \in BOOLEAN /\ strange \in BOOLEAN
  /\ pc \in {"fetching", "failed", "returned"}

(* As long as the service does as it is asked the call has the first bars, *)
(* as many as the token says, and all of them when no token came.          *)
NothingMissing ==
  /\ first => raw = << >> /\ token = 0
  /\ ~strange => /\ raw = Upto(Len(raw)) /\ Len(raw) <= total
                 /\ token # 0 => Len(raw) = token
                 /\ ~first /\ token = 0 => Len(raw) = total

(* Whatever else the service did shows in the rows.                        *)
FaultsShow == strange /\ pc # "failed" => Spoilt(raw)

FetchInv == FetchTypes /\ NothingMissing /\ FaultsShow /\ FetchIsFaithful

LEMMA UptoFacts ==
  ASSUME NEW n \in Nat
  PROVE  /\ Upto(n) \in Seq(Nat) /\ Len(Upto(n)) = n
         /\ \A k \in 1 .. n : Upto(n)[k] = k
         /\ ~Spoilt(Upto(n))
<1>1. Upto(n) \in Seq(Nat) /\ Len(Upto(n)) = n /\ \A k \in 1 .. n : Upto(n)[k] = k
  <2>1. Upto(n) \in [1 .. n -> Nat]
    BY DEF Upto
  <2> QED
    BY <2>1 DEF Upto
<1>2. ~Spoilt(Upto(n))
  BY DEF Spoilt, Range, IsInjective, Upto, BadBar
<1> QED
  BY <1>1, <1>2

(* The first bars are in order already.                                    *)
LEMMA SortedUpto ==
  ASSUME NEW n \in Nat
  PROVE  Sorted(Upto(n)) = Upto(n)
<1> DEFINE rows == Upto(n)
<1>1. /\ Len(rows) = n /\ DOMAIN rows = 1 .. n /\ Range(rows) = 1 .. n
      /\ \A k \in 1 .. n : rows[k] = k
  BY UptoFacts DEF Range, Upto
<1>2. \A t \in 1 .. n : /\ Cardinality({i \in DOMAIN rows : rows[i] < t}) = t - 1
                        /\ Cardinality({i \in DOMAIN rows : rows[i] <= t}) = t
  <2> TAKE t \in 1 .. n
  <2>1. /\ {i \in DOMAIN rows : rows[i] < t} = 1 .. (t - 1)
        /\ {i \in DOMAIN rows : rows[i] <= t} = 1 .. t
    BY <1>1
  <2>2. Cardinality(1 .. (t - 1)) = t - 1 /\ Cardinality(1 .. t) = t
    BY FS_Interval
  <2> QED
    BY <2>1, <2>2
<1>3. ASSUME NEW k \in 1 .. n
      PROVE  (CHOOSE t \in Range(rows) :
                /\ Cardinality({i \in DOMAIN rows : rows[i] < t}) < k
                /\ k <= Cardinality({i \in DOMAIN rows : rows[i] <= t})) = k
  <2> DEFINE Fits(t) == /\ Cardinality({i \in DOMAIN rows : rows[i] < t}) < k
                        /\ k <= Cardinality({i \in DOMAIN rows : rows[i] <= t})
  <2>1. \A t \in 1 .. n : Fits(t) <=> t = k
    BY <1>2
  <2> HIDE DEF Fits
  <2>2. (CHOOSE t \in 1 .. n : Fits(t)) = k
    BY <2>1
  <2> QED
    BY <1>1, <2>2 DEF Fits
<1> QED
  BY <1>1, <1>3 DEF Sorted, Upto

(* Nothing that comes later hides a fault.                                 *)
LEMMA SpoiltStays ==
  ASSUME NEW rows \in Seq(Nat), NEW more \in Seq(Nat), Spoilt(rows)
  PROVE  Spoilt(rows \o more)
<1>1. /\ DOMAIN rows = 1 .. Len(rows) /\ DOMAIN (rows \o more) = 1 .. Len(rows) + Len(more)
      /\ Len(rows) \in Nat /\ Len(more) \in Nat
      /\ \A k \in 1 .. Len(rows) : (rows \o more)[k] = rows[k]
  BY ConcatProperties, LenProperties
<1>2. CASE BadBar \in Range(rows)
  <2>1. PICK k \in DOMAIN rows : rows[k] = BadBar
    BY <1>2 DEF Range
  <2>2. k \in DOMAIN (rows \o more) /\ (rows \o more)[k] = BadBar
    BY <1>1, <2>1
  <2> QED
    BY <2>2 DEF Spoilt, Range
<1>3. CASE ~IsInjective(rows)
  <2>1. PICK a \in DOMAIN rows, b \in DOMAIN rows : rows[a] = rows[b] /\ a # b
    BY <1>3 DEF IsInjective
  <2>2. /\ a \in DOMAIN (rows \o more) /\ b \in DOMAIN (rows \o more)
        /\ (rows \o more)[a] = (rows \o more)[b]
    BY <1>1, <2>1
  <2> QED
    BY <2>1, <2>2 DEF Spoilt, IsInjective
<1> QED
  BY <1>2, <1>3 DEF Spoilt

LEMMA BadSpoils ==
  ASSUME NEW rows \in Seq(Nat), NEW more \in Seq(Nat), BadBar \in Range(more)
  PROVE  Spoilt(rows \o more)
<1>1. /\ DOMAIN more = 1 .. Len(more) /\ DOMAIN (rows \o more) = 1 .. Len(rows) + Len(more)
      /\ Len(rows) \in Nat /\ Len(more) \in Nat
      /\ \A k \in 1 .. Len(rows) + Len(more) : k > Len(rows) =>
            (rows \o more)[k] = more[k - Len(rows)]
  BY ConcatProperties, LenProperties
<1>2. PICK k \in DOMAIN more : more[k] = BadBar
  BY DEF Range
<1>3. /\ k + Len(rows) \in DOMAIN (rows \o more)
      /\ (rows \o more)[k + Len(rows)] = BadBar
  BY <1>1, <1>2
<1> QED
  BY <1>3 DEF Spoilt, Range

(* A repeated bar is there twice.                                          *)
LEMMA RepeatSpoils ==
  ASSUME NEW n \in Nat \ {0}, NEW more \in Seq(Nat)
  PROVE  Spoilt(Upto(n) \o <<n>> \o more)
<1> DEFINE rows == Upto(n) \o <<n>>
<1>0. Upto(n) \in Seq(Nat) /\ Len(Upto(n)) = n /\ Upto(n)[n] = n
  BY UptoFacts
<1>1. <<n>> \in Seq(Nat) /\ Len(<<n>>) = 1 /\ <<n>>[1] = n
  OBVIOUS
<1>2. rows \in Seq(Nat) /\ Len(rows) = n + 1 /\ rows[n] = n /\ rows[n + 1] = n
  BY <1>0, <1>1, ConcatProperties
<1>3. n \in DOMAIN rows /\ n + 1 \in DOMAIN rows
  BY <1>2, LenProperties
<1> HIDE DEF rows
<1>4. Spoilt(rows)
  <2>1. n \in Nat /\ n # n + 1 /\ rows[n] = rows[n + 1]
    BY <1>2
  <2> QED
    BY <1>3, <2>1 DEF Spoilt, IsInjective
<1>5. Spoilt(rows \o more)
  BY <1>2, <1>4, SpoiltStays
<1> QED
  BY <1>5 DEF rows

(* A page continues where the last one ended.                              *)
LEMMA PageFacts ==
  ASSUME NEW n \in Nat, total \in Nat, token \in 0 .. total, NEW page \in Pages(n)
  PROVE  /\ page \in Seq(Nat) /\ Len(page) <= n /\ Len(page) \in Nat
         /\ token + Len(page) <= total
         /\ Upto(token) \o page = Upto(token + Len(page))
<1> DEFINE most == IF n < total - token THEN n ELSE total - token
           all == [b \in 1 .. total |-> b]
<1>0. most \in Nat /\ most <= n /\ token + most <= total /\ token \in Nat
  OBVIOUS
<1>1. PICK k \in 0 .. most : page = SubSeq(all, token + 1, token + k)
  BY DEF Pages
<1>2. all \in Seq(Nat) /\ Len(all) = total /\ \A b \in 1 .. total : all[b] = b
  BY UptoFacts DEF Upto
<1> HIDE DEF all, most
<1>3. k \in Nat /\ token + k <= total
  BY <1>0
<1>4. /\ page \in Seq(Nat) /\ Len(page) = k
      /\ \A i \in 1 .. k : page[i] = token + i
  <2>1. /\ token + 1 \in 1 .. Len(all) + 1
        /\ token + k \in token + 1 - 1 .. Len(all)
    BY <1>0, <1>2, <1>3
  <2>2. /\ SubSeq(all, token + 1, token + k) \in Seq(Nat)
        /\ Len(SubSeq(all, token + 1, token + k)) = (token + k) - (token + 1) + 1
        /\ \A i \in 1 .. ((token + k) - (token + 1) + 1) :
              SubSeq(all, token + 1, token + k)[i] = all[(token + 1) + i - 1]
    BY <1>2, <2>1, SubSeqProperties
  <2> QED
    BY <1>0, <1>1, <1>2, <1>3, <2>2
<1>5. Upto(token) \in Seq(Nat) /\ Len(Upto(token)) = token
      /\ \A i \in 1 .. token : Upto(token)[i] = i
  BY <1>0, UptoFacts
<1>6. /\ Upto(token) \o page \in Seq(Nat) /\ Len(Upto(token) \o page) = token + k
      /\ \A i \in 1 .. token + k : (Upto(token) \o page)[i] = i
  <2> DEFINE front == Upto(token)
  <2>0. front \in Seq(Nat) /\ page \in Seq(Nat) /\ Len(front) = token /\ Len(page) = k
    BY <1>4, <1>5
  <2> HIDE DEF front
  <2>2. /\ front \o page \in Seq(Nat) /\ Len(front \o page) = token + k
        /\ \A i \in 1 .. token + k :
              (front \o page)[i] = IF i <= token THEN front[i] ELSE page[i - token]
    BY <2>0, ConcatProperties
  <2>1. /\ Upto(token) \o page \in Seq(Nat) /\ Len(Upto(token) \o page) = token + k
        /\ \A i \in 1 .. token + k :
              (Upto(token) \o page)[i]
                = IF i <= token THEN Upto(token)[i] ELSE page[i - token]
    BY <2>2 DEF front
  <2> QED
    BY <1>0, <1>3, <1>4, <1>5, <2>1
<1>7. token + k \in Nat
  BY <1>0, <1>3
<1>8. /\ Upto(token + k) \in Seq(Nat) /\ Len(Upto(token + k)) = token + k
      /\ \A i \in 1 .. token + k : Upto(token + k)[i] = i
  BY <1>7, UptoFacts
<1>9. Upto(token) \o page = Upto(token + k)
  BY <1>6, <1>8, <1>7, SeqEqual
<1> QED
  BY <1>0, <1>3, <1>4, <1>9

LEMMA InitFetchInv == FetchInit => FetchInv
<1> SUFFICES ASSUME FetchInit PROVE FetchInv
  OBVIOUS
<1>1. raw = << >> /\ raw \in Seq(Nat) /\ Len(raw) = 0 /\ raw = Upto(0)
  BY DEF FetchInit, Upto
<1>2. /\ total \in Nat /\ token = 0 /\ first = TRUE /\ strange = FALSE
      /\ pc = "fetching"
  BY MarketDataAssumption DEF FetchInit
<1>3. FetchTypes
  <2>1. token \in 0 .. total /\ Len(raw) <= Limit
    BY <1>1, <1>2, MarketDataAssumption
  <2> QED
    BY <1>1, <1>2, <2>1 DEF FetchTypes
<1>4. NothingMissing /\ FaultsShow
  BY <1>1, <1>2 DEF NothingMissing, FaultsShow
<1> QED
  BY <1>2, <1>3, <1>4
     DEF FetchInv, FetchIsFaithful, ReturnsThePrefix, RefusalsAreJustified

LEMMA FetchKeeps ==
  ASSUME FetchInv, Fetch
  PROVE  FetchInv'
<1>0. /\ total \in Nat /\ token \in 0 .. total /\ token \in Nat
      /\ raw \in Seq(Nat) /\ Len(raw) \in Nat /\ Len(raw) < Limit
      /\ first \in BOOLEAN /\ strange \in BOOLEAN
  BY DEF FetchInv, FetchTypes, Fetch, MorePages
<1>1. Asked \in Nat /\ Len(raw) + Asked <= Limit
  BY <1>0, MarketDataAssumption DEF Asked
<1>2. PICK page \in Pages(Asked) :
         LET sent == token + Len(page) IN
           /\ Len(page) = 0 => total = token
           /\ token' = IF sent = total THEN 0 ELSE sent
           /\ \/ raw' = raw \o page /\ UNCHANGED strange
              \/ /\ token # 0 /\ Len(page) < Asked
                 /\ raw' = raw \o <<token>> \o page /\ strange' = TRUE
              \/ /\ page # << >>
                 /\ raw' = raw \o [page EXCEPT ![1] = BadBar] /\ strange' = TRUE
  BY DEF Fetch
<1>3. /\ page \in Seq(Nat) /\ Len(page) <= Asked /\ Len(page) \in Nat
      /\ token + Len(page) <= total
      /\ Upto(token) \o page = Upto(token + Len(page))
  BY <1>0, <1>1, PageFacts
<1>4. /\ total' = total /\ pc' = pc /\ pc = "fetching" /\ first' = FALSE
      /\ (first \/ token # 0)
  BY DEF Fetch, MorePages
<1>5. token' \in 0 .. total /\ (token' = 0 \/ token' = token + Len(page))
      /\ (token' = 0 => token + Len(page) = total)
  BY <1>0, <1>2, <1>3
<1>6. ~strange => raw = Upto(token) /\ Len(raw) = token
  BY <1>4, UptoFacts DEF FetchInv, NothingMissing, Upto
<1>7. CASE raw' = raw \o page /\ UNCHANGED strange
  <2>1. raw' \in Seq(Nat) /\ Len(raw') = Len(raw) + Len(page)
    BY <1>0, <1>3, <1>7, ConcatProperties
  <2>2. ASSUME ~strange
        PROVE  raw' = Upto(Len(raw')) /\ Len(raw') = token + Len(page)
    BY <1>3, <1>6, <1>7, <2>1, <2>2
  <2>3. strange => Spoilt(raw')
    <3>1. strange => Spoilt(raw)
      BY <1>4 DEF FetchInv, FaultsShow
    <3> QED
      BY <1>0, <1>3, <1>7, <3>1, SpoiltStays
  <2>4. Len(raw') <= Limit
    BY <1>0, <1>1, <1>3, <2>1, MarketDataAssumption
  <2>5. first' \in BOOLEAN /\ strange' \in BOOLEAN
    BY <1>0, <1>4, <1>7
  <2>6. FetchTypes'
    BY <1>0, <1>4, <1>5, <2>1, <2>4, <2>5 DEF FetchTypes
  <2>7. NothingMissing'
    BY <1>3, <1>4, <1>5, <1>7, <2>2 DEF NothingMissing
  <2>8. FaultsShow'
    BY <1>7, <2>3 DEF FaultsShow
  <2> QED
    BY <1>4, <2>6, <2>7, <2>8
       DEF FetchInv, FetchIsFaithful, ReturnsThePrefix, RefusalsAreJustified
<1>8. ASSUME strange', Spoilt(raw'), raw' \in Seq(Nat), Len(raw') <= Limit
      PROVE  FetchInv'
  <2>1. FetchTypes'
    BY <1>0, <1>4, <1>5, <1>8, strange' = TRUE DEF FetchTypes
  <2>2. NothingMissing' /\ FaultsShow'
    BY <1>4, <1>8 DEF NothingMissing, FaultsShow
  <2> QED
    BY <1>4, <2>1, <2>2
       DEF FetchInv, FetchIsFaithful, ReturnsThePrefix, RefusalsAreJustified
<1>9. CASE /\ token # 0 /\ Len(page) < Asked
           /\ raw' = raw \o <<token>> \o page /\ strange' = TRUE
  <2>1. <<token>> \in Seq(Nat) /\ Len(<<token>>) = 1
    BY <1>0
  <2>2. raw \o <<token>> \in Seq(Nat) /\ Len(raw \o <<token>>) = Len(raw) + 1
    BY <1>0, <2>1, ConcatProperties
  <2>3. raw' \in Seq(Nat) /\ Len(raw') = Len(raw) + 1 + Len(page)
    BY <1>3, <1>9, <2>2, ConcatProperties
  <2>4. Len(raw') <= Limit
    BY <1>0, <1>1, <1>3, <1>9, <2>3, MarketDataAssumption
  <2>5. CASE strange
    <3>1. Spoilt(raw)
      BY <1>4, <2>5 DEF FetchInv, FaultsShow
    <3>2. Spoilt(raw \o <<token>>)
      BY <1>0, <2>1, <3>1, SpoiltStays
    <3>3. Spoilt(raw')
      BY <1>3, <1>9, <2>2, <3>2, SpoiltStays
    <3> QED
      BY <1>8, <1>9, <2>3, <2>4, <3>3
  <2>6. CASE ~strange
    <3>1. Spoilt(raw')
      BY <1>0, <1>3, <1>6, <1>9, <2>6, RepeatSpoils
    <3> QED
      BY <1>8, <1>9, <2>3, <2>4, <3>1
  <2> QED
    BY <2>5, <2>6
<1>10. CASE /\ page # << >>
            /\ raw' = raw \o [page EXCEPT ![1] = BadBar] /\ strange' = TRUE
  <2> DEFINE bad == [page EXCEPT ![1] = BadBar]
  <2>1. /\ bad \in Seq(Nat) /\ Len(bad) = Len(page) /\ 1 \in DOMAIN bad
        /\ bad[1] = BadBar
    BY <1>3, <1>10, EmptySeq, LenProperties, ExceptSeq DEF BadBar
  <2>2. BadBar \in Range(bad)
    BY <2>1 DEF Range
  <2>3. Spoilt(raw')
    BY <1>0, <1>10, <2>1, <2>2, BadSpoils
  <2>4. raw' \in Seq(Nat) /\ Len(raw') = Len(raw) + Len(page)
    BY <1>0, <1>10, <2>1, ConcatProperties
  <2>5. Len(raw') <= Limit
    BY <1>0, <1>1, <1>3, <2>4, MarketDataAssumption
  <2> QED
    BY <1>8, <1>10, <2>3, <2>4, <2>5
<1> QED
  BY <1>2, <1>7, <1>9, <1>10

LEMMA FailKeeps ==
  ASSUME FetchInv, Fail
  PROVE  FetchInv'
BY DEF Fail, FetchInv, FetchTypes, NothingMissing, FaultsShow, FetchIsFaithful,
       ReturnsThePrefix, RefusalsAreJustified

LEMMA ValidateKeeps ==
  ASSUME FetchInv, Validate
  PROVE  FetchInv'
<1>0. /\ total \in Nat /\ raw \in Seq(Nat) /\ Len(raw) \in Nat /\ Len(raw) <= Limit
      /\ Limit \in Nat /\ MinimumBars \in Nat
  BY MarketDataAssumption DEF FetchInv, FetchTypes
<1>1. /\ UNCHANGED <<total, raw, token, first, strange>> /\ pc = "fetching"
      /\ (Len(raw) >= Limit \/ (~first /\ token = 0))
  BY <1>0 DEF Validate, MorePages, FetchInv, FetchTypes
<1>2. ~strange => raw = Upto(Shortest) /\ Len(raw) = Shortest /\ Shortest \in Nat
  BY <1>0, <1>1 DEF FetchInv, NothingMissing, Shortest
<1>3. strange => ~Acceptable(raw)
  BY <1>1 DEF FetchInv, FaultsShow, Spoilt, Acceptable
<1>4. NothingMissing'
  BY <1>1 DEF FetchInv, NothingMissing
<1>5. CASE Acceptable(raw)
  <2>1. ~strange /\ pc' = "returned" /\ bars' = Sorted(raw)
    BY <1>3, <1>5 DEF Validate
  <2>2. Sorted(raw) = Upto(Shortest)
    BY <1>2, <2>1, SortedUpto
  <2>3. /\ Upto(Shortest) = [k \in 1 .. (IF total < Limit THEN total ELSE Limit) |-> k]
        /\ Len(Upto(Shortest)) = Shortest
    BY <1>2, <2>1, UptoFacts DEF Upto, Shortest
  <2>4. Len(raw) >= MinimumBars
    BY <1>5 DEF Acceptable
  <2>5. ReturnsThePrefix'
    BY <1>1, <1>2, <2>1, <2>2, <2>3, <2>4 DEF ReturnsThePrefix
  <2> QED
    BY <1>1, <1>4, <2>1, <2>5
       DEF FetchInv, FetchTypes, FaultsShow, FetchIsFaithful, RefusalsAreJustified
<1>6. CASE ~Acceptable(raw)
  <2>1. pc' = "failed"
    BY <1>6 DEF Validate
  <2>2. ~strange => Shortest < MinimumBars
    <3>1. ~strange => ~Spoilt(raw)
      BY <1>2, UptoFacts
    <3> QED
      BY <1>0, <1>2, <1>6, <3>1 DEF Acceptable, Spoilt
  <2>3. RefusalsAreJustified'
    BY <1>1, <2>2 DEF RefusalsAreJustified, Shortest
  <2> QED
    BY <1>1, <1>4, <2>1, <2>3
       DEF FetchInv, FetchTypes, FaultsShow, FetchIsFaithful, ReturnsThePrefix
<1> QED
  BY <1>5, <1>6

(* However the service cuts, repeats or spoils its pages, a call returns   *)
(* the first bars without a gap, up to the limit, or refuses for a reason  *)
(* (fetch_bars, validate_price_bars, app/data_provider.py).                *)
THEOREM SpecFetchIsFaithful == FetchSpec => []FetchIsFaithful
<1>1. FetchInv /\ [FetchNext]_fetchVars => FetchInv'
  <2> SUFFICES ASSUME FetchInv, [FetchNext]_fetchVars PROVE FetchInv'
    OBVIOUS
  <2>1. CASE UNCHANGED fetchVars
    BY <2>1 DEF fetchVars, FetchInv, FetchTypes, NothingMissing, FaultsShow,
         FetchIsFaithful, ReturnsThePrefix, RefusalsAreJustified
  <2> QED
    BY <2>1, FetchKeeps, FailKeeps, ValidateKeeps DEF FetchNext
<1>2. FetchInv => FetchIsFaithful
  BY DEF FetchInv
<1> QED
  BY <1>1, <1>2, InitFetchInv, PTL DEF FetchSpec

(***************************************************************************)
(* Bounds of a sum.                                                        *)
(***************************************************************************)

LEMMA OneMore ==
  ASSUME NEW m \in Int, NEW a \in Int
  PROVE  (m + 1) * a = m * a + a /\ m * a \in Int
OBVIOUS

(* A sum lies between as many times its least and its greatest term.       *)
LEMMA SumBetween ==
  ASSUME NEW S, IsFiniteSet(S), NEW g \in [S -> Int], NEW a \in Int, NEW b \in Int,
         \A k \in S : a <= g[k] /\ g[k] <= b
  PROVE  /\ Cardinality(S) * a <= SumFunction(g)
         /\ SumFunction(g) <= Cardinality(S) * b
<1> DEFINE Good == {T \in SUBSET S : /\ TheSums(g, S)[T] \in Int
                                   /\ Cardinality(T) * a <= TheSums(g, S)[T]
                                   /\ TheSums(g, S)[T] <= Cardinality(T) * b}
<1>1. {} \in Good
  BY SumOfNone, FS_EmptySet
<1>2. ASSUME NEW T \in SUBSET S, T # {}, Pick(T) \in S, T \ {Pick(T)} \in Good
      PROVE  T \in Good
  <2> DEFINE p == Pick(T)
             rest == T \ {p}
             s == TheSums(g, S)[rest]
             n == Cardinality(rest)
  <2>1. TheSums(g, S)[T] = g[p] + s
    BY <1>2, SumOfMore
  <2>2. IsFiniteSet(T) /\ p \in T
    BY <1>2, FS_Subset, Picked
  <2>3. n = Cardinality(T) - 1 /\ Cardinality(T) \in Nat /\ n \in Nat
    BY <2>2, FS_RemoveElement, FS_CardinalityType
  <2>4. g[p] \in Int /\ a <= g[p] /\ g[p] <= b
    BY <1>2
  <2>5. s \in Int /\ n * a <= s /\ s <= n * b
    BY <1>2
  <2> HIDE DEF p, rest, s, n
  <2>6. Cardinality(T) = n + 1
    BY <2>3
  <2>7. /\ (n + 1) * a = n * a + a /\ n * a \in Int
        /\ (n + 1) * b = n * b + b /\ n * b \in Int
    BY <2>3, OneMore
  <2>8. g[p] + s \in Int /\ (n + 1) * a <= g[p] + s /\ g[p] + s <= (n + 1) * b
    BY <2>4, <2>5, <2>7
  <2> QED
    BY <2>1, <2>6, <2>8
<1>3. S \in Good
  <2> HIDE DEF Good
  <2> QED
    BY <1>1, <1>2, PickInduction
<1> QED
  BY <1>3, SumIsFold

(***************************************************************************)
(* The signals of the strategies.                                          *)
(***************************************************************************)

LEMMA WindowTypes ==
  /\ FastWindow \in Nat /\ SlowWindow \in Nat
  /\ 1 <= FastWindow /\ FastWindow < SlowWindow
BY StrategiesAssumption

LEMMA BarTypes ==
  ASSUME NEW b \in MarketBars
  PROVE  /\ b.low \in Nat /\ b.close \in Nat /\ b.high \in Nat
         /\ 0 < b.low /\ b.low <= b.close /\ b.close <= b.high /\ 0 < b.close
<1>1. b \in [low : Nat \ {0}, close : Nat, high : Nat] /\ b.low <= b.close /\ b.close <= b.high
  BY StrategiesAssumption
<1> QED
  BY <1>1

LEMMA HistoryFacts ==
  ASSUME NEW h \in Seq(MarketBars)
  PROVE  /\ Len(h) \in Nat
         /\ \A i \in 1 .. Len(h) : /\ h[i] \in MarketBars /\ h[i].close \in Nat
                                   /\ 0 < h[i].close
BY LenProperties, ElementOfSeq, BarTypes

(* The last bars of a history.                                             *)
LEMMA LastOfFacts ==
  ASSUME NEW h \in Seq(MarketBars), NEW n \in Nat, n <= Len(h)
  PROVE  /\ LastOf(h, n) \in Seq(MarketBars) /\ Len(LastOf(h, n)) = n
         /\ \A i \in 1 .. n : LastOf(h, n)[i] = h[Len(h) - n + i]
<1> DEFINE m == Len(h) - n + 1
<1>1. m \in Int /\ Len(h) \in Int /\ m >= 1
  BY LenProperties
<1>2. \A i \in m .. Len(h) : h[i] \in MarketBars
  BY <1>1, ElementOfSeq
<1>3. /\ SubSeq(h, m, Len(h)) \in Seq(MarketBars)
      /\ Len(SubSeq(h, m, Len(h))) = IF m <= Len(h) THEN Len(h) - m + 1 ELSE 0
      /\ \A i \in 1 .. Len(h) - m + 1 : SubSeq(h, m, Len(h))[i] = h[m + i - 1]
  <2> HIDE DEF m
  <2> QED
    BY <1>1, <1>2, SubSeqProperties
<1> QED
  BY <1>1, <1>3 DEF LastOf

(* The window of breakout_signal.                                          *)
LEMMA PreviousFacts ==
  ASSUME NEW h \in Seq(MarketBars), Len(h) > SlowWindow
  PROVE  /\ Previous(h) \in Seq(MarketBars) /\ Len(Previous(h)) = SlowWindow
         /\ \A i \in 1 .. SlowWindow : Previous(h)[i] = h[Len(h) - 1 - SlowWindow + i]
<1> DEFINE f == SubSeq(h, 1, Len(h) - 1)
<1>1. Len(h) \in Nat /\ \A i \in 1 .. Len(h) - 1 : h[i] \in MarketBars
  BY HistoryFacts
<1>2. /\ f \in Seq(MarketBars) /\ Len(f) = Len(h) - 1
      /\ \A i \in 1 .. Len(h) - 1 : f[i] = h[i]
  <2>1. /\ f \in Seq(MarketBars)
        /\ Len(f) = IF 1 <= Len(h) - 1 THEN Len(h) - 1 - 1 + 1 ELSE 0
        /\ \A i \in 1 .. Len(h) - 1 - 1 + 1 : f[i] = h[1 + i - 1]
    BY <1>1, SubSeqProperties
  <2> HIDE DEF f
  <2> QED
    BY <1>1, <2>1, WindowTypes
<1>3. Previous(h) = LastOf(f, SlowWindow)
  BY DEF Previous, Front
<1> HIDE DEF f
<1>4. /\ LastOf(f, SlowWindow) \in Seq(MarketBars) /\ Len(LastOf(f, SlowWindow)) = SlowWindow
      /\ \A i \in 1 .. SlowWindow : LastOf(f, SlowWindow)[i] = f[Len(f) - SlowWindow + i]
  <2>1. SlowWindow \in Nat /\ SlowWindow <= Len(f)
    BY <1>1, <1>2, WindowTypes
  <2> QED
    BY <1>2, <2>1, LastOfFacts
<1>5. \A i \in 1 .. SlowWindow :
         f[Len(f) - SlowWindow + i] = h[Len(h) - 1 - SlowWindow + i]
  <2> TAKE i \in 1 .. SlowWindow
  <2> DEFINE j == Len(h) - 1 - SlowWindow + i
  <2>1. j \in 1 .. Len(h) - 1 /\ Len(f) - SlowWindow + i = j
    BY <1>1, <1>2, WindowTypes
  <2> HIDE DEF j
  <2>2. f[j] = h[j]
    BY <1>2, <2>1
  <2> QED
    BY <2>1, <2>2 DEF j
<1> QED
  BY <1>3, <1>4, <1>5

(* What a strategy sees of a history is in its last SlowWindow + 1 bars.   *)
LEMMA SameSignals ==
  ASSUME NEW h \in Seq(MarketBars), Len(h) > SlowWindow, NEW s \in Names
  PROVE  Signal(s, h) = Signal(s, LastOf(h, SlowWindow + 1))
<1> DEFINE l == LastOf(h, SlowWindow + 1)
<1>0. Len(h) \in Nat /\ SlowWindow + 1 \in Nat /\ SlowWindow + 1 <= Len(h)
  BY HistoryFacts, WindowTypes
<1>1. /\ l \in Seq(MarketBars) /\ Len(l) = SlowWindow + 1
      /\ \A i \in 1 .. SlowWindow + 1 : l[i] = h[Len(h) - (SlowWindow + 1) + i]
  BY <1>0, LastOfFacts
<1> HIDE DEF l
<1>2. ASSUME NEW n \in Nat, n <= SlowWindow
      PROVE  CloseSum(l, n) = CloseSum(h, n)
  <2>1. \A k \in 1 .. n : l[Len(l) - n + k] = h[Len(h) - n + k]
    <3> TAKE k \in 1 .. n
    <3>1. /\ Len(l) - n + k \in 1 .. SlowWindow + 1
          /\ Len(h) - (SlowWindow + 1) + (Len(l) - n + k) = Len(h) - n + k
      BY <1>0, <1>1, <1>2, WindowTypes
    <3> QED
      BY <1>1, <3>1
  <2>2. [k \in 1 .. n |-> l[Len(l) - n + k].close] = [k \in 1 .. n |-> h[Len(h) - n + k].close]
    BY <2>1
  <2> QED
    BY <2>2 DEF CloseSum
<1>3. /\ CloseSum(l, FastWindow) = CloseSum(h, FastWindow)
      /\ CloseSum(l, SlowWindow) = CloseSum(h, SlowWindow)
  BY <1>2, WindowTypes
<1>4. Last(l) = Last(h) /\ l[Len(l) - 1] = h[Len(h) - 1]
  BY <1>0, <1>1, WindowTypes DEF Last
<1>5. Previous(l) = Previous(h)
  <2>1. /\ Previous(l) \in Seq(MarketBars) /\ Len(Previous(l)) = SlowWindow
        /\ \A i \in 1 .. SlowWindow : Previous(l)[i] = l[Len(l) - 1 - SlowWindow + i]
    <3>1. Len(l) > SlowWindow
      BY <1>1, WindowTypes
    <3> QED
      BY <1>1, <3>1, PreviousFacts
  <2>2. /\ Previous(h) \in Seq(MarketBars) /\ Len(Previous(h)) = SlowWindow
        /\ \A i \in 1 .. SlowWindow : Previous(h)[i] = h[Len(h) - 1 - SlowWindow + i]
    BY PreviousFacts
  <2>3. \A i \in 1 .. SlowWindow : Previous(l)[i] = Previous(h)[i]
    <3> TAKE i \in 1 .. SlowWindow
    <3>1. /\ Len(l) - 1 - SlowWindow + i = i /\ i \in 1 .. SlowWindow + 1
          /\ Len(h) - (SlowWindow + 1) + i = Len(h) - 1 - SlowWindow + i
      BY <1>0, <1>1, WindowTypes
    <3> QED
      BY <1>1, <2>1, <2>2, <3>1
  <2> QED
    BY <2>1, <2>2, <2>3, SeqEqual
<1>6. Warm(l) /\ Warm(h) /\ Len(l) > SlowWindow
  BY <1>0, <1>1, WindowTypes DEF Warm
<1>7. /\ Above(l) = Above(h) /\ Below(l) = Below(h)
      /\ Distance(l) = Distance(h) /\ Momentum(l) = Momentum(h)
  BY <1>3, <1>4 DEF Spread, Distance, Momentum, Above, Below
<1>8. /\ SmaCrossover(l) = SmaCrossover(h) /\ TrendFollowing(l) = TrendFollowing(h)
      /\ MeanReversion(l) = MeanReversion(h)
  BY <1>3, <1>6, <1>7 DEF SmaCrossover, TrendFollowing, MeanReversion
<1>9. Breakout(l) = Breakout(h)
  BY <1>4, <1>5, <1>6 DEF Breakout
<1>10. Signal(s, l) = Signal(s, h)
  BY <1>8, <1>9 DEF Signal
<1> QED
  BY <1>10 DEF l

LEMMA ColdSignals ==
  ASSUME NEW h \in Seq(MarketBars), Len(h) < SlowWindow, NEW s \in Names
  PROVE  Signal(s, h) = "hold"
<1>1. ~Warm(h) /\ ~(Len(h) > SlowWindow)
  BY HistoryFacts, WindowTypes DEF Warm
<1> QED
  BY <1>1 DEF Signal, Names, SmaCrossover, TrendFollowing, MeanReversion, Breakout, Side

(* The slow average lies between the closes it is taken from.              *)
LEMMA AverageBetween ==
  ASSUME NEW h \in Seq(MarketBars), NEW n \in Nat, n <= Len(h), NEW c \in Nat
  PROVE  /\ CloseSum(h, n) \in Nat
         /\ (\A k \in 1 .. n : h[Len(h) - n + k].close <= c) => CloseSum(h, n) <= n * c
         /\ (\A k \in 1 .. n : c <= h[Len(h) - n + k].close) => n * c <= CloseSum(h, n)
<1> DEFINE g == [k \in 1 .. n |-> h[Len(h) - n + k].close]
<1>1. IsFiniteSet(1 .. n) /\ Cardinality(1 .. n) = n
  BY FS_Interval
<1>2. g \in [1 .. n -> Nat] /\ g \in [1 .. n -> Int]
  BY HistoryFacts
<1>3. \A k \in 1 .. n : g[k] = h[Len(h) - n + k].close
  OBVIOUS
<1>4. CloseSum(h, n) = SumFunction(g)
  BY DEF CloseSum
<1> HIDE DEF g
<1>5. SumFunction(g) \in Nat /\ \A k \in 1 .. n : g[k] <= SumFunction(g)
  BY <1>1, <1>2, SumOfNaturals
<1>6. ASSUME \A k \in 1 .. n : g[k] <= c
      PROVE  SumFunction(g) <= n * c
  <2>1. \A k \in 1 .. n : 0 <= g[k] /\ g[k] <= c
    BY <1>2, <1>6
  <2> QED
    BY <1>1, <1>2, <2>1, SumBetween, SMTT(30)
<1>7. ASSUME \A k \in 1 .. n : c <= g[k]
      PROVE  n * c <= SumFunction(g)
  <2>1. \A k \in 1 .. n : c <= g[k] /\ g[k] <= SumFunction(g)
    BY <1>5, <1>7
  <2>2. SumFunction(g) \in Int /\ c \in Int
    BY <1>5
  <2>3. Cardinality(1 .. n) * c <= SumFunction(g)
    BY <1>1, <1>2, <2>1, <2>2, SumBetween
  <2> QED
    BY <1>1, <2>3
<1> QED
  BY <1>3, <1>4, <1>5, <1>6, <1>7

(* A tie is tipped by less than what keeps two averages apart.             *)
LEMMA RoundingFacts ==
  ASSUME NEW h \in Seq(MarketBars), rounding \in Roundings(h)
  PROVE  /\ rounding.spread \in {-1, 0, 1} /\ rounding.distance \in {-1, 0, 1}
         /\ rounding.distance # 0 => \/ Distance(h) = CloseSum(h, SlowWindow)
                                    \/ Distance(h) = 0 - CloseSum(h, SlowWindow)
BY DEF Roundings, Tips

LEMMA TrendsAgree ==
  ASSUME NEW h \in Seq(MarketBars), rounding \in Roundings(h),
         NEW side \in {"buy", "sell"}, TrendFollowing(h) = side
  PROVE  SmaCrossover(h) = side
<1>1. Warm(h)
  BY DEF TrendFollowing, Side
<1>2. CloseSum(h, FastWindow) \in Nat /\ CloseSum(h, SlowWindow) \in Nat
  <2>1. FastWindow <= Len(h) /\ SlowWindow <= Len(h) /\ 0 \in Nat
    BY <1>1, HistoryFacts, WindowTypes DEF Warm
  <2> QED
    BY <2>1, WindowTypes, AverageBetween
<1>3. Spread(h) \in Int
  BY <1>2, WindowTypes DEF Spread
<1>4. Below(h) => ~Above(h)
  BY <1>3, RoundingFacts DEF Above, Below
<1> QED
  BY <1>4 DEF TrendFollowing, SmaCrossover, Side

(* A close above every bar of the window is above their average.           *)
LEMMA NoReversionAtBreakout ==
  ASSUME NEW h \in Seq(MarketBars), rounding \in Roundings(h),
         NEW side \in {"buy", "sell"}, Breakout(h) = side
  PROVE  MeanReversion(h) # side
<1> DEFINE e == rounding.distance
           c == Last(h).close
           sum == CloseSum(h, SlowWindow)
           x == SlowWindow * c
<1>0. Len(h) > SlowWindow /\ Len(h) \in Nat
  BY HistoryFacts DEF Breakout, Side
<1>1. c \in Nat /\ 0 < c
  BY <1>0, HistoryFacts, WindowTypes DEF Last
<1>2. /\ Len(Previous(h)) = SlowWindow /\ Previous(h) \in Seq(MarketBars)
      /\ \A i \in 1 .. SlowWindow : /\ Previous(h)[i] = h[Len(h) - 1 - SlowWindow + i]
                                    /\ Previous(h)[i] \in ToSet(Previous(h))
  <2>1. DOMAIN Previous(h) = 1 .. SlowWindow
    BY <1>0, PreviousFacts, LenProperties
  <2> QED
    BY <1>0, <2>1, PreviousFacts DEF ToSet
<1>3. \A k \in 1 .. SlowWindow :
        /\ h[Len(h) - SlowWindow + k] \in MarketBars
        /\ \/ h[Len(h) - SlowWindow + k] = Last(h)
           \/ h[Len(h) - SlowWindow + k] \in ToSet(Previous(h))
  <2> TAKE k \in 1 .. SlowWindow
  <2>1. h[Len(h) - SlowWindow + k] \in MarketBars
    BY <1>0, HistoryFacts, WindowTypes
  <2>2. CASE k = SlowWindow
    BY <1>0, <2>1, <2>2, WindowTypes DEF Last
  <2>3. CASE k # SlowWindow
    <3>1. /\ k + 1 \in 1 .. SlowWindow
          /\ Len(h) - 1 - SlowWindow + (k + 1) = Len(h) - SlowWindow + k
      BY <1>0, <2>3, WindowTypes
    <3>2. h[Len(h) - SlowWindow + k] \in ToSet(Previous(h))
      BY <1>2, <3>1
    <3> QED
      BY <2>1, <3>2
  <2> QED
    BY <2>2, <2>3
<1>4. /\ sum \in Nat
      /\ (\A k \in 1 .. SlowWindow : h[Len(h) - SlowWindow + k].close <= c) => sum <= x
      /\ (\A k \in 1 .. SlowWindow : c <= h[Len(h) - SlowWindow + k].close) => x <= sum
  <2>1. SlowWindow \in Nat /\ SlowWindow <= Len(h)
    BY <1>0, WindowTypes
  <2> HIDE DEF c
  <2> QED
    BY <1>1, <2>1, AverageBetween
<1>5. x \in Nat /\ 0 < x
  <2> HIDE DEF c
  <2> QED
    BY <1>1, WindowTypes
<1>6. CASE side = "buy"
  <2>1. \A b \in ToSet(Previous(h)) : c > b.high
    BY <1>6 DEF Breakout, Side
  <2>2. \A k \in 1 .. SlowWindow : h[Len(h) - SlowWindow + k].close <= c
    <3> HIDE DEF c
    <3> TAKE k \in 1 .. SlowWindow
    <3> DEFINE b == h[Len(h) - SlowWindow + k]
    <3>1. b \in MarketBars /\ (b = Last(h) \/ b \in ToSet(Previous(h)))
      BY <1>3
    <3> HIDE DEF b
    <3>2. b.close <= c
      BY <1>1, <2>1, <3>1, BarTypes DEF c
    <3> QED
      BY <3>2 DEF b
  <2>3. sum <= x
    BY <1>4, <2>2
  <2>4. Distance(h) = 50 * (x - sum)
    BY DEF Distance
  <2>5. ~(50 * (x - sum) + e <= 0 - sum)
    <3>1. /\ e \in {-1, 0, 1}
          /\ e # 0 => 50 * (x - sum) = sum \/ 50 * (x - sum) = 0 - sum
      BY <2>4, RoundingFacts
    <3> HIDE DEF x, sum, e
    <3> QED
      BY <1>4, <1>5, <2>3, <3>1
  <2> QED
    BY <1>6, <2>4, <2>5 DEF MeanReversion, Side
<1>7. CASE side = "sell"
  <2>1. \A b \in ToSet(Previous(h)) : c < b.low
    BY <1>7 DEF Breakout, Side
  <2>2. \A k \in 1 .. SlowWindow : c <= h[Len(h) - SlowWindow + k].close
    <3> HIDE DEF c
    <3> TAKE k \in 1 .. SlowWindow
    <3> DEFINE b == h[Len(h) - SlowWindow + k]
    <3>1. b \in MarketBars /\ (b = Last(h) \/ b \in ToSet(Previous(h)))
      BY <1>3
    <3> HIDE DEF b
    <3>2. c <= b.close
      BY <1>1, <2>1, <3>1, BarTypes DEF c
    <3> QED
      BY <3>2 DEF b
  <2>3. x <= sum
    BY <1>4, <2>2
  <2>4. Distance(h) = 50 * (x - sum)
    BY DEF Distance
  <2>5. ~(50 * (x - sum) + e >= sum)
    <3>1. /\ e \in {-1, 0, 1}
          /\ e # 0 => 50 * (x - sum) = sum \/ 50 * (x - sum) = 0 - sum
      BY <2>4, RoundingFacts
    <3> HIDE DEF x, sum, e
    <3> QED
      BY <1>4, <1>5, <2>3, <3>1
  <2> QED
    BY <1>7, <2>4, <2>5 DEF MeanReversion, Side
<1> QED
  BY <1>6, <1>7

(* While nothing moves, the averages are the price but for their rounding. *)
LEMMA StillSignals ==
  ASSUME NEW h \in Seq(MarketBars), rounding \in Roundings(h),
         NEW s \in Names \ {"sma_crossover"},
         \A k \in DOMAIN h : h[k].high = h[k].low /\ h[k] = h[1]
  PROVE  Signal(s, h) = "hold"
<1>0. Len(h) \in Nat /\ DOMAIN h = 1 .. Len(h)
  BY LenProperties
<1>1. CASE Len(h) < SlowWindow
  BY <1>1, ColdSignals
<1>2. CASE Len(h) >= SlowWindow
  <2> DEFINE c == h[1].close
  <2>1. /\ \A k \in 1 .. Len(h) : h[k] = h[1] /\ h[k].close = c
        /\ h[1].low = c /\ h[1].high = c /\ c \in Nat /\ 0 < c
    <3>1. 1 \in 1 .. Len(h) /\ 1 \in DOMAIN h
      BY <1>0, <1>2, WindowTypes
    <3>2. h[1] \in MarketBars /\ h[1].high = h[1].low
      BY <3>1, HistoryFacts
    <3>3. /\ h[1].low \in Nat /\ h[1].high \in Nat /\ c \in Nat /\ 0 < c
          /\ h[1].low <= c /\ c <= h[1].high
      BY <3>2, BarTypes
    <3> HIDE DEF c
    <3>4. h[1].low = c /\ h[1].high = c
      BY <3>2, <3>3
    <3> QED
      BY <1>0, <3>3, <3>4 DEF c
  <2>2. CloseSum(h, SlowWindow) = SlowWindow * c
    <3> DEFINE n == SlowWindow
    <3>1. n \in Nat /\ n <= Len(h)
      BY <1>0, <1>2, WindowTypes
    <3>2. \A k \in 1 .. n : h[Len(h) - n + k].close = c
      BY <1>0, <2>1, <3>1
    <3> HIDE DEF c
    <3>3. \A k \in 1 .. n : /\ h[Len(h) - n + k].close <= c
                            /\ c <= h[Len(h) - n + k].close
      BY <2>1, <3>2
    <3>4. CloseSum(h, n) \in Nat /\ CloseSum(h, n) <= n * c /\ n * c <= CloseSum(h, n)
      BY <2>1, <3>1, <3>3, AverageBetween
    <3>5. n * c \in Int
      BY <2>1, <3>1
    <3> QED
      BY <3>4, <3>5
  <2>3. Last(h) = h[1] /\ Last(h).close = c /\ h[Len(h) - 1].close = c
    BY <1>0, <1>2, <2>1, WindowTypes DEF Last
  <2> HIDE DEF c
  <2>4. CloseSum(h, SlowWindow) = SlowWindow * c
    BY <2>2 DEF c
  <2>5. Momentum(h) = 0
    BY <2>1, <2>3 DEF Momentum
  <2>6. Distance(h) = 0 /\ CloseSum(h, SlowWindow) > 0 /\ CloseSum(h, SlowWindow) \in Nat
    <3> DEFINE x == SlowWindow * c
    <3>1. x \in Nat /\ 0 < x
      BY <2>1, WindowTypes
    <3>2. Distance(h) = 50 * (x - x) /\ CloseSum(h, SlowWindow) = x
      BY <2>3, <2>4 DEF Distance
    <3> HIDE DEF x
    <3> QED
      BY <3>1, <3>2
  <2>7. TrendFollowing(h) = "hold"
    BY <2>5 DEF TrendFollowing, Side
  <2>8. MeanReversion(h) = "hold"
    <3>1. rounding.distance = 0
      BY <2>6, RoundingFacts
    <3> QED
      BY <2>6, <3>1 DEF MeanReversion, Side
  <2>9. Breakout(h) = "hold"
    <3>1. CASE Len(h) > SlowWindow
      <4>1. /\ Previous(h) \in Seq(MarketBars) /\ Len(Previous(h)) = SlowWindow
            /\ Previous(h)[1] = h[Len(h) - 1 - SlowWindow + 1]
        BY <3>1, PreviousFacts, WindowTypes
      <4>2. 1 \in DOMAIN Previous(h)
        BY <4>1, LenProperties, WindowTypes
      <4>3. Len(h) - 1 - SlowWindow + 1 \in 1 .. Len(h)
        BY <1>0, <3>1, WindowTypes
      <4>4. h[1] \in ToSet(Previous(h))
        BY <2>1, <4>1, <4>2, <4>3 DEF ToSet
      <4>5. ~(c < c) /\ ~(c > c)
        BY <2>1
      <4> QED
        BY <2>1, <2>3, <4>4, <4>5 DEF Breakout, Side
    <3>2. CASE ~(Len(h) > SlowWindow)
      BY <3>2 DEF Breakout, Side
    <3> QED
      BY <3>1, <3>2
  <2> QED
    BY <2>7, <2>8, <2>9 DEF Signal, Names
<1> QED
  BY <1>0, <1>1, <1>2, WindowTypes

(* For all windows and whatever bars close, the signals depend on the last *)
(* SlowWindow + 1 bars and on none when there are fewer, do not contradict *)
(* one another and, but for the crossover, are silent while nothing moves, *)
(* whichever way the averages are rounded (app/strategies.py).             *)
THEOREM SpecSignalsAreSound == MarketSpec => []SignalsAreSound
<1> DEFINE Bars == history \in Seq(MarketBars) /\ rounding \in Roundings(history)
<1>1. MarketInit => Bars
  <2> SUFFICES ASSUME MarketInit PROVE Bars
    OBVIOUS
  <2>1. history = << >> /\ history \in Seq(MarketBars) /\ Len(history) = 0
    BY DEF MarketInit
  <2>2. ~Warm(history)
    BY <2>1, WindowTypes DEF Warm
  <2>3. Roundings(history) = [spread : {0}, distance : {0}]
    BY <2>2 DEF Roundings, Tips
  <2> QED
    BY <2>1, <2>3 DEF MarketInit
<1>2. Bars /\ [MarketNext]_marketVars => Bars'
  <2> SUFFICES ASSUME Bars, [MarketNext]_marketVars PROVE Bars'
    OBVIOUS
  <2>1. CASE UNCHANGED marketVars
    BY <2>1 DEF marketVars, Roundings, Tips, Warm, Spread, Distance, CloseSum
  <2>2. ASSUME NEW bar \in MarketBars, Close(bar)
        PROVE  Bars'
    <3>1. history' \in Seq(MarketBars)
      BY <2>2, AppendProperties DEF Close
    <3>2. rounding' \in Roundings(history')
      BY <2>2 DEF Close
    <3>3. Roundings(history') = Roundings(history)'
      BY DEF Roundings, Tips, Warm, Spread, Distance, CloseSum
    <3> QED
      BY <3>1, <3>2, <3>3
  <2> QED
    BY <2>1, <2>2 DEF MarketNext
<1>3. Bars => SignalsAreSound
  <2> SUFFICES ASSUME Bars PROVE SignalsAreSound
    OBVIOUS
  <2>1. LookbackSuffices
    BY SameSignals, ColdSignals DEF LookbackSuffices
  <2>2. SignalsDoNotContradict
    BY TrendsAgree, NoReversionAtBreakout DEF SignalsDoNotContradict
  <2>3. FlatMarketHolds
    BY StillSignals DEF FlatMarketHolds
  <2> QED
    BY <2>1, <2>2, <2>3 DEF SignalsAreSound
<1> QED
  BY <1>1, <1>2, <1>3, PTL DEF MarketSpec

(***************************************************************************)
(* The overfitting gate.                                                   *)
(***************************************************************************)

(* Every candidate has the same number of returns.                         *)
AreSeries == \E k \in Nat \ {0}, n \in Nat : series \in [1 .. k -> [1 .. n -> Int]]

GateInv ==
  /\ AreSeries
  /\ result.status = "asked" =>
       result = [status |-> "asked", passed |-> FALSE, negative |-> 0]
  /\ Completed =>
       /\ Enough
       /\ result.passed = Within(KeptSplits)
       /\ result.negative = Cardinality(Negative(KeptSplits))

(* The slices follow one another.                                          *)
Start(k) ==
  (k - 1) * (Observations \div Slices)
    + (IF k - 1 < Observations % Slices THEN k - 1 ELSE Observations % Slices)

LEMMA GateTypes ==
  /\ Slices \in Nat /\ Slices >= 2 /\ Slices % 2 = 0
  /\ Slices \div 2 \in Nat /\ Slices \div 2 >= 1
  /\ Slices - Slices \div 2 = Slices \div 2
BY OverfitAssumption

LEMMA Quotient ==
  ASSUME NEW n \in Nat, NEW d \in Nat \ {0}
  PROVE  /\ n \div d \in Nat /\ n % d \in Nat /\ n % d < d
         /\ n = d * (n \div d) + (n % d)
OBVIOUS

LEMMA SliceBounds ==
  ASSUME Observations \in Nat
  PROVE  /\ Start(1) = 0 /\ Start(Slices + 1) = Observations
         /\ \A k \in 1 .. Slices : Slice(k) = Start(k) + 1 .. Start(k + 1)
         /\ \A j, k \in 1 .. Slices + 1 : /\ Start(j) \in Nat
                                          /\ j <= k => Start(j) <= Start(k)
<1> DEFINE base == Observations \div Slices
           extra == Observations % Slices
           Most(k) == IF k - 1 < extra THEN k - 1 ELSE extra
<1>1. /\ base \in Nat /\ extra \in Nat /\ extra < Slices
      /\ Observations = Slices * base + extra
  BY Quotient, GateTypes
<1>2. \A k : Start(k) = (k - 1) * base + Most(k)
  BY DEF Start
<1>3. \A k \in 1 .. Slices :
         Slice(k) = (k - 1) * base + Most(k) + 1
                      .. (k - 1) * base + Most(k) + base + (IF k <= extra THEN 1 ELSE 0)
  BY DEF Slice
<1> HIDE DEF base, extra
<1>4. /\ \A k \in Int : Most(k) \in Int /\ (k >= 1 => Most(k) \in Nat)
      /\ \A k \in 1 .. Slices : Most(k + 1) = Most(k) + (IF k <= extra THEN 1 ELSE 0)
      /\ Most(1) = 0 /\ Most(Slices + 1) = extra
      /\ \A j, k \in 1 .. Slices + 1 : j <= k => Most(j) <= Most(k)
  BY <1>1, GateTypes
<1> HIDE DEF Most
<1>5. \A k \in 1 .. Slices + 1 : (k - 1) * base \in Nat
  BY <1>1, GateTypes, ProductType
<1>6. Start(1) = 0 /\ Start(Slices + 1) = Observations
  <2>1. (1 - 1) * base = 0 /\ ((Slices + 1) - 1) * base = Slices * base
    BY <1>1, GateTypes
  <2> QED
    BY <1>1, <1>2, <1>4, <2>1
<1>7. ASSUME NEW k \in 1 .. Slices
      PROVE  Slice(k) = Start(k) + 1 .. Start(k + 1)
  <2>1. ((k + 1) - 1) * base = (k - 1) * base + base
    <3>1. k - 1 \in Int /\ base \in Int /\ (k + 1) - 1 = (k - 1) + 1
      BY <1>1, GateTypes
    <3>2. ((k - 1) + 1) * base = (k - 1) * base + base
      <4> DEFINE m == k - 1
      <4>1. m \in Int
        BY <3>1
      <4> HIDE DEF m
      <4>2. (m + 1) * base = m * base + base
        BY <3>1, <4>1
      <4> QED
        BY <4>2 DEF m
    <3> QED
      BY <3>1, <3>2
  <2>2. Start(k + 1) = (k - 1) * base + Most(k) + base + (IF k <= extra THEN 1 ELSE 0)
    <3>1. /\ (k - 1) * base \in Int /\ Most(k) \in Int /\ base \in Int
          /\ Most(k + 1) = Most(k) + (IF k <= extra THEN 1 ELSE 0)
      BY <1>1, <1>4, <1>5, GateTypes
    <3> QED
      BY <1>2, <2>1, <3>1
  <2> QED
    BY <1>2, <1>3, <2>2
<1>8. ASSUME NEW j \in 1 .. Slices + 1, NEW k \in 1 .. Slices + 1
      PROVE  Start(j) \in Nat /\ (j <= k => Start(j) <= Start(k))
  <2>1. /\ (j - 1) * base \in Nat /\ (k - 1) * base \in Nat
        /\ Most(j) \in Nat /\ Most(k) \in Nat
        /\ j <= k => Most(j) <= Most(k)
    BY <1>4, <1>5, GateTypes
  <2>2. j <= k => (j - 1) * base <= (k - 1) * base
    <3>1. j - 1 \in Int /\ k - 1 \in Int /\ (j <= k => j - 1 <= k - 1)
      BY GateTypes
    <3> QED
      BY <1>1, <3>1, TimesMonotone
  <2> QED
    BY <1>2, <2>1, <2>2
<1> QED
  BY <1>6, <1>7, <1>8

(* The bars of some of the slices.                                         *)
BarsOf(slices) == UNION {Slice(k) : k \in slices}

LEMMA SliceFacts ==
  ASSUME Observations \in Nat
  PROVE  /\ \A slices \in SUBSET Whole : BarsOf(slices) \in SUBSET (1 .. Observations)
         /\ \A j, k \in Whole : j # k => Slice(j) \cap Slice(k) = {}
<1>1. ASSUME NEW k \in Whole
      PROVE  Slice(k) \subseteq 1 .. Observations
  <2>1. Slice(k) = Start(k) + 1 .. Start(k + 1)
    BY SliceBounds DEF Whole
  <2>2. /\ k \in 1 .. Slices + 1 /\ k + 1 \in 1 .. Slices + 1
        /\ Slices + 1 \in 1 .. Slices + 1 /\ k + 1 <= Slices + 1
    BY GateTypes DEF Whole
  <2>3. /\ Start(k) \in Nat /\ Start(k + 1) \in Nat /\ Start(k + 1) <= Start(Slices + 1)
        /\ Start(Slices + 1) = Observations
    BY <2>2, SliceBounds
  <2> QED
    BY <2>1, <2>3
<1>2. ASSUME NEW j \in Whole, NEW k \in Whole, j < k
      PROVE  Slice(j) \cap Slice(k) = {}
  <2>1. /\ Slice(j) = Start(j) + 1 .. Start(j + 1)
        /\ Slice(k) = Start(k) + 1 .. Start(k + 1)
    BY SliceBounds DEF Whole
  <2>2. /\ k \in 1 .. Slices + 1 /\ j + 1 \in 1 .. Slices + 1 /\ j + 1 <= k
        /\ j \in 1 .. Slices + 1 /\ k + 1 \in 1 .. Slices + 1
    BY <1>2, GateTypes DEF Whole
  <2>3. /\ Start(j) \in Nat /\ Start(j + 1) \in Nat /\ Start(k) \in Nat
        /\ Start(k + 1) \in Nat /\ Start(j + 1) <= Start(k)
    BY <2>2, SliceBounds
  <2> QED
    BY <2>1, <2>3
<1>3. ASSUME NEW slices \in SUBSET Whole
      PROVE  BarsOf(slices) \in SUBSET (1 .. Observations)
  BY <1>1 DEF BarsOf
<1>4. ASSUME NEW j \in Whole, NEW k \in Whole, j # k
      PROVE  Slice(j) \cap Slice(k) = {}
  <2>1. j < k \/ k < j
    BY <1>4, GateTypes DEF Whole
  <2> QED
    BY <1>2, <2>1
<1> QED
  BY <1>3, <1>4

(* What a behaviour of the gate is about.                                  *)
LEMMA SeriesFacts ==
  ASSUME AreSeries
  PROVE  /\ Observations \in Nat
         /\ Candidates = 1 .. Cardinality(Candidates) /\ IsFiniteSet(Candidates)
         /\ Cardinality(Candidates) \in Nat \ {0}
         /\ \A c \in Candidates : series[c] \in [1 .. Observations -> Int]
<1>1. PICK k \in Nat \ {0}, n \in Nat : series \in [1 .. k -> [1 .. n -> Int]]
  BY DEF AreSeries
<1>2. Candidates = 1 .. k /\ IsFiniteSet(1 .. k) /\ Cardinality(1 .. k) = k
  BY <1>1, FS_Interval DEF Candidates
<1>3. series[1] \in [1 .. n -> Int]
  BY <1>1
<1>4. series[1] \in Seq(Int) /\ Len(series[1]) = n
  BY <1>3
<1> QED
  BY <1>1, <1>2, <1>4 DEF Observations

(* A score is a sum over a part of the bars, and adds up over the slices.  *)
LEMMA ScoreFacts ==
  ASSUME AreSeries, NEW c \in Candidates
  PROVE  /\ \A slices \in SUBSET Whole : Score(c, slices) \in Int
         /\ \A slices \in SUBSET Whole : \A k \in slices :
              Score(c, slices) = Score(c, {k}) + Score(c, slices \ {k})
<1> DEFINE all == 1 .. Observations
           s == TheSums(series[c], all)
<1>1. IsFiniteSet(all) /\ series[c] \in [all -> Int] /\ Observations \in Nat
  <2>1. Observations \in Nat /\ series[c] \in [all -> Int]
    BY SeriesFacts
  <2>2. 1 \in Int /\ Observations \in Int
    BY <2>1
  <2> QED
    BY <2>1, <2>2, FS_Interval
<1>2. ASSUME NEW slices \in SUBSET Whole
      PROVE  BarsOf(slices) \in SUBSET all /\ Score(c, slices) = s[BarsOf(slices)]
  <2>1. BarsOf(slices) \in SUBSET all
    BY <1>1, SliceFacts
  <2>2. Score(c, slices) = SumFunction([i \in BarsOf(slices) |-> series[c][i]])
    BY DEF Score, BarsOf
  <2> HIDE DEF all
  <2>3. SumFunction([i \in BarsOf(slices) |-> series[c][i]]) = s[BarsOf(slices)]
    BY <1>1, <2>1, SumOfPart
  <2> QED
    BY <2>1, <2>2, <2>3
<1>3. ASSUME NEW slices \in SUBSET Whole
      PROVE  Score(c, slices) \in Int
  <2>1. BarsOf(slices) \in SUBSET all /\ Score(c, slices) = s[BarsOf(slices)]
    BY <1>2
  <2> HIDE DEF all
  <2> QED
    BY <1>1, <2>1, SumsAreInts
<1>4. ASSUME NEW slices \in SUBSET Whole, NEW k \in slices
      PROVE  Score(c, slices) = Score(c, {k}) + Score(c, slices \ {k})
  <2> DEFINE A == BarsOf({k})
             B == BarsOf(slices \ {k})
  <2>1. A \cup B = BarsOf(slices)
    BY DEF BarsOf
  <2>2. A \cap B = {}
    BY <1>1, SliceFacts DEF BarsOf
  <2>3. {k} \in SUBSET Whole /\ slices \ {k} \in SUBSET Whole
    OBVIOUS
  <2>4. /\ A \in SUBSET all /\ Score(c, {k}) = s[A]
        /\ B \in SUBSET all /\ Score(c, slices \ {k}) = s[B]
        /\ Score(c, slices) = s[BarsOf(slices)]
    BY <1>2, <2>3
  <2> HIDE DEF A, B, all
  <2>5. s[A \cup B] = s[A] + s[B]
    <3> DEFINE g == series[c]
    <3>1. g \in [all -> Int]
      BY <1>1
    <3> HIDE DEF g
    <3>2. TheSums(g, all)[A \cup B] = TheSums(g, all)[A] + TheSums(g, all)[B]
      BY <1>1, <2>2, <2>4, <3>1, SumOfTwo
    <3> QED
      BY <3>2 DEF g
  <2> QED
    BY <2>1, <2>4, <2>5
<1> QED
  BY <1>3, <1>4

(* Who is worse in every slice is worse over any of them.                  *)
LEMMA Dominated ==
  ASSUME AreSeries, NEW c \in Candidates, NEW d \in Candidates,
         \A k \in Whole : Score(d, {k}) < Score(c, {k}),
         NEW slices \in SUBSET Whole, slices # {}
  PROVE  Score(d, slices) < Score(c, slices)
<1> DEFINE Bad == {T \in SUBSET Whole : T # {} /\ ~(Score(d, T) < Score(c, T))}
<1>0. IsFiniteSet(Whole)
  BY FS_Interval, GateTypes DEF Whole
<1>1. ASSUME Bad # {}
      PROVE  FALSE
  <2>1. \E T \in Bad : \A U \in SUBSET T : U # T => U \notin Bad
    <3>1. Bad \in SUBSET (SUBSET Whole)
      OBVIOUS
    <3> HIDE DEF Bad
    <3> QED
      BY <1>0, <1>1, <3>1, SmallestBad
  <2>2. PICK T \in Bad : \A U \in SUBSET T : U # T => U \notin Bad
    BY <2>1
  <2>3. PICK k : k \in T
    OBVIOUS
  <2>4. T \in SUBSET Whole /\ T \ {k} \in SUBSET Whole /\ {k} \in SUBSET Whole
    BY <2>3
  <2>5. /\ Score(c, T) = Score(c, {k}) + Score(c, T \ {k})
        /\ Score(d, T) = Score(d, {k}) + Score(d, T \ {k})
        /\ Score(c, {k}) \in Int /\ Score(c, T \ {k}) \in Int
        /\ Score(d, {k}) \in Int /\ Score(d, T \ {k}) \in Int
    BY <2>3, <2>4, ScoreFacts
  <2>6. Score(d, {k}) < Score(c, {k})
    BY <2>3, <2>4
  <2>7. CASE T = {k}
    BY <2>2, <2>6, <2>7
  <2>8. CASE T # {k}
    <3>1. T \ {k} # {} /\ T \ {k} \in SUBSET T /\ T \ {k} # T
      BY <2>3, <2>8
    <3>2. Score(d, T \ {k}) < Score(c, T \ {k})
      BY <2>2, <2>4, <3>1
    <3>3. Score(d, T) < Score(c, T)
      BY <2>5, <2>6, <3>2
    <3> QED
      BY <2>2, <3>3
  <2> QED
    BY <2>7, <2>8
<1> QED
  BY <1>1

LEMMA SplitFacts ==
  /\ IsFiniteSet(Whole) /\ IsFiniteSet(HalfSplits) /\ IsFiniteSet(KeptSplits)
  /\ KeptSplits \in SUBSET HalfSplits
  /\ \A half \in HalfSplits :
       /\ half \in SUBSET Whole /\ half # {}
       /\ Whole \ half \in HalfSplits /\ Whole \ (Whole \ half) = half
       /\ half \in KeptSplits <=> Whole \ half \notin KeptSplits
<1>1. IsFiniteSet(Whole) /\ Cardinality(Whole) = Slices
  BY FS_Interval, GateTypes DEF Whole
<1>2. HalfSplits = {half \in SUBSET Whole : Cardinality(half) = Slices \div 2}
  BY DEF HalfSplits, kSubset, Whole
<1>3. IsFiniteSet(HalfSplits) /\ IsFiniteSet(KeptSplits) /\ KeptSplits \in SUBSET HalfSplits
  <2>1. HalfSplits \in SUBSET (SUBSET Whole)
    BY <1>2
  <2>2. KeptSplits \in SUBSET HalfSplits
    BY DEF KeptSplits
  <2> QED
    BY <1>1, <2>1, <2>2, FS_SUBSET, FS_Subset
<1>4. ASSUME NEW half \in HalfSplits
      PROVE  /\ half \in SUBSET Whole /\ half # {}
             /\ Whole \ half \in HalfSplits /\ Whole \ (Whole \ half) = half
             /\ half \in KeptSplits <=> Whole \ half \notin KeptSplits
  <2>1. half \in SUBSET Whole /\ Cardinality(half) = Slices \div 2 /\ Whole \cap half = half
    BY <1>2
  <2>2. half # {}
    BY <2>1, FS_EmptySet, GateTypes
  <2>3. Cardinality(Whole \ half) = Slices \div 2
    <3>1. Cardinality(Whole \ half) = Cardinality(Whole) - Cardinality(Whole \cap half)
      BY <1>1, FS_Difference
    <3> QED
      BY <1>1, <2>1, <3>1, GateTypes
  <2>4. Whole \ half \in HalfSplits
    BY <1>2, <2>3
  <2>5. 1 \in Whole
    BY GateTypes DEF Whole
  <2> QED
    BY <2>1, <2>2, <2>4, <2>5 DEF KeptSplits
<1> QED
  BY <1>1, <1>3, <1>4

(* The one that is better than all others is the one selected.             *)
LEMMA SelectedIs ==
  ASSUME AreSeries, NEW half \in HalfSplits, NEW c \in Candidates,
         \A d \in Candidates : \/ Score(d, half) < Score(c, half)
                               \/ Score(d, half) = Score(c, half) /\ d <= c
  PROVE  Selected(half) = c
<1> DEFINE Best(x) == \A d \in Candidates : \/ Score(d, half) < Score(x, half)
                                            \/ Score(d, half) = Score(x, half) /\ d <= x
<1>1. Best(c)
  OBVIOUS
<1>2. ASSUME NEW x \in Candidates, Best(x)
      PROVE  x = c
  <2>1. Score(x, half) \in Int /\ Score(c, half) \in Int
    BY ScoreFacts, SplitFacts
  <2>2. x \in Int /\ c \in Int
    BY SeriesFacts
  <2>3. /\ \/ Score(x, half) < Score(c, half)
           \/ Score(x, half) = Score(c, half) /\ x <= c
        /\ \/ Score(c, half) < Score(x, half)
           \/ Score(c, half) = Score(x, half) /\ c <= x
    BY <1>1, <1>2
  <2> QED
    BY <2>1, <2>2, <2>3
<1>3. Selected(half) = CHOOSE x \in Candidates : Best(x)
  BY DEF Selected
<1> HIDE DEF Best
<1> QED
  BY <1>1, <1>2, <1>3

(* A candidate that is the best of every slice is chosen and generalises.  *)
LEMMA BestOfAllPasses ==
  ASSUME AreSeries, Cardinality(Candidates) >= 2, NEW c \in Candidates,
         \A d \in Candidates \ {c}, k \in Whole : Score(d, {k}) < Score(c, {k}),
         NEW half \in HalfSplits
  PROVE  ~Overfitted(half)
<1> DEFINE rest == (1 .. Slices) \ half
           less == {d \in Candidates : Score(d, rest) < Score(c, rest)}
           equal == {d \in Candidates : Score(d, rest) = Score(c, rest)}
           n == Cardinality(Candidates)
<1>1. /\ half \in SUBSET Whole /\ half # {}
      /\ rest \in SUBSET Whole /\ rest # {}
  <2>1. Whole \ half = rest
    BY DEF Whole
  <2> QED
    BY <2>1, SplitFacts
<1>2. \A d \in Candidates \ {c} : /\ Score(d, half) < Score(c, half)
                                  /\ Score(d, rest) < Score(c, rest)
  BY <1>1, Dominated
<1>3. Selected(half) = c
  <2>1. c \in Int
    BY SeriesFacts
  <2>2. \A d \in Candidates : \/ Score(d, half) < Score(c, half)
                              \/ Score(d, half) = Score(c, half) /\ d <= c
    BY <1>2, <2>1
  <2> QED
    BY <2>2, SelectedIs
<1>4. \A d \in Candidates : Score(d, rest) \in Int
  BY <1>1, ScoreFacts
<1>5. less = Candidates \ {c} /\ equal = {c}
  BY <1>2, <1>4
<1>6. Cardinality(less) = n - 1 /\ Cardinality(equal) = 1 /\ n \in Nat
  BY <1>5, SeriesFacts, FS_RemoveElement, FS_Singleton
<1>7. Overfitted(half) <=> 2 * Cardinality(less) + Cardinality(equal) <= n
  BY <1>3 DEF Overfitted
<1> HIDE DEF less, equal, n
<1>8. n >= 2
  BY DEF n
<1> QED
  BY <1>6, <1>7, <1>8

(* Copies of one another never do.                                         *)
LEMMA CopiesFail ==
  ASSUME AreSeries, \A c, d \in Candidates : series[c] = series[d],
         NEW half \in HalfSplits
  PROVE  Overfitted(half)
<1> DEFINE rest == (1 .. Slices) \ half
           n == Cardinality(Candidates)
           mine == Score(n, rest)
           less == {d \in Candidates : Score(d, rest) < mine}
           equal == {d \in Candidates : Score(d, rest) = mine}
<1>1. n \in Candidates /\ n \in Nat /\ Candidates = 1 .. n
  BY SeriesFacts
<1>2. \A c, d \in Candidates : \A slices : Score(c, slices) = Score(d, slices)
  BY DEF Score
<1>3. Selected(half) = n
  <2>1. \A d \in Candidates : Score(d, half) = Score(n, half) /\ d <= n
    BY <1>1, <1>2
  <2> QED
    BY <1>1, <2>1, SelectedIs
<1>4. mine \in Int
  <2>1. rest \in SUBSET Whole
    BY SplitFacts DEF Whole
  <2> QED
    BY <1>1, <2>1, ScoreFacts
<1>5. less = {} /\ equal = Candidates
  BY <1>1, <1>2, <1>4
<1>6. Cardinality(less) = 0 /\ Cardinality(equal) = n
  BY <1>5, FS_EmptySet
<1>7. Overfitted(half) <=> 2 * Cardinality(less) + Cardinality(equal) <= n
  BY <1>3 DEF Overfitted
<1> HIDE DEF less, equal, n
<1> QED
  BY <1>1, <1>6, <1>7

(* Of two candidates without ties the choice is overfitted when the two    *)
(* halves disagree.                                                        *)
LEMMA OverfittedByTwo ==
  ASSUME AreSeries, Cardinality(Candidates) = 2,
         \A half \in HalfSplits : Score(1, half) # Score(2, half),
         NEW half \in HalfSplits
  PROVE  Overfitted(half)
           <=> (Score(1, half) < Score(2, half))
                 # (Score(1, Whole \ half) < Score(2, Whole \ half))
<1> DEFINE rest == (1 .. Slices) \ half
<1>1. Candidates = {1, 2}
  BY SeriesFacts
<1>2. rest = Whole \ half /\ rest \in HalfSplits
  BY SplitFacts DEF Whole
<1>3. /\ Score(1, half) \in Int /\ Score(2, half) \in Int /\ Score(1, half) # Score(2, half)
      /\ Score(1, rest) \in Int /\ Score(2, rest) \in Int /\ Score(1, rest) # Score(2, rest)
  BY <1>1, <1>2, ScoreFacts, SplitFacts
<1> HIDE DEF rest
<1>4. ASSUME NEW c \in {1, 2}, NEW d \in {1, 2}, c # d, Score(d, half) < Score(c, half)
      PROVE  Overfitted(half) <=> Score(c, rest) < Score(d, rest)
  <2>1. \A e \in Candidates : \/ Score(e, half) < Score(c, half)
                              \/ Score(e, half) = Score(c, half) /\ e <= c
    BY <1>1, <1>4
  <2>2. Selected(half) = c
    BY <1>1, <2>1, SelectedIs
  <2> DEFINE less == {e \in Candidates : Score(e, rest) < Score(c, rest)}
             equal == {e \in Candidates : Score(e, rest) = Score(c, rest)}
  <2>3. Overfitted(half) <=> 2 * Cardinality(less) + Cardinality(equal) <= 2
    BY <2>2 DEF Overfitted, rest
  <2>4. equal = {c}
    BY <1>1, <1>3, <1>4
  <2>5. Cardinality(equal) = 1
    BY <2>4, FS_Singleton
  <2>6. CASE Score(c, rest) < Score(d, rest)
    <3>1. less = {}
      BY <1>1, <1>3, <1>4, <2>6
    <3>2. Cardinality(less) = 0
      BY <3>1, FS_EmptySet
    <3> HIDE DEF less, equal
    <3> QED
      BY <2>3, <2>5, <2>6, <3>2
  <2>7. CASE ~(Score(c, rest) < Score(d, rest))
    <3>1. less = {d}
      BY <1>1, <1>3, <1>4, <2>7
    <3>2. Cardinality(less) = 1
      BY <3>1, FS_Singleton
    <3> HIDE DEF less, equal
    <3> QED
      BY <2>3, <2>5, <2>7, <3>2
  <2> QED
    BY <2>6, <2>7
<1>5. Overfitted(half) <=> (Score(1, half) < Score(2, half)) # (Score(1, rest) < Score(2, rest))
  <2>1. CASE Score(1, half) < Score(2, half)
    BY <1>3, <1>4, <2>1
  <2>2. CASE Score(2, half) < Score(1, half)
    <3>1. /\ Overfitted(half) <=> Score(1, rest) < Score(2, rest)
          /\ ~(Score(1, half) < Score(2, half))
      BY <1>3, <1>4, <2>2
    <3> QED
      BY <3>1
  <2> QED
    BY <1>3, <2>1, <2>2
<1> QED
  BY <1>2, <1>5

(* A map that undoes itself takes one part of a set to the other.          *)
LEMMA HalfOfAll ==
  ASSUME NEW All, NEW Kept \in SUBSET All, IsFiniteSet(All),
         \A half \in All : /\ Whole \ half \in All /\ Whole \ (Whole \ half) = half
                           /\ half \in Kept <=> Whole \ half \notin Kept
  PROVE  Cardinality(All) = 2 * Cardinality(Kept)
<1> DEFINE f == [half \in Kept |-> Whole \ half]
           Other == All \ Kept
<1>1. f \in [Kept -> Other]
  OBVIOUS
<1>2. \A a, b \in Kept : f[a] = f[b] => a = b
  <2> TAKE a, b \in Kept
  <2>1. Whole \ (Whole \ a) = a /\ Whole \ (Whole \ b) = b
    OBVIOUS
  <2> QED
    BY <2>1
<1>3. \A b \in Other : \E a \in Kept : f[a] = b
  <2> TAKE b \in Other
  <2>1. Whole \ b \in Kept /\ f[Whole \ b] = b
    OBVIOUS
  <2> QED
    BY <2>1
<1>4. ExistsBijection(Kept, Other)
  <2>1. f \in Bijection(Kept, Other)
    BY <1>1, <1>2, <1>3 DEF Bijection, Injection, Surjection, IsInjective
  <2> QED
    BY <2>1 DEF ExistsBijection
<1>5. IsFiniteSet(Kept)
  BY FS_Subset
<1>6. Cardinality(Other) = Cardinality(Kept)
  BY <1>4, <1>5, FS_Bijection
<1>7. /\ Cardinality(Other) = Cardinality(All) - Cardinality(Kept)
      /\ Cardinality(All) \in Nat /\ Cardinality(Kept) \in Nat
  <2>1. All \cap Kept = Kept
    OBVIOUS
  <2>2. Cardinality(Other) = Cardinality(All) - Cardinality(All \cap Kept)
    BY FS_Difference
  <2>3. Cardinality(All) \in Nat /\ Cardinality(Kept) \in Nat
    BY <1>5, FS_CardinalityType
  <2> QED
    BY <2>1, <2>2, <2>3
<1> QED
  BY <1>6, <1>7

LEMMA GateDecides == GateInv => GeneralisationDecides
<1> SUFFICES ASSUME GateInv, Completed PROVE GeneralisationDecides
  BY DEF GeneralisationDecides
<1>1. /\ AreSeries /\ Cardinality(Candidates) >= 2
      /\ result.passed = Within(KeptSplits)
      /\ result.negative = Cardinality(Negative(KeptSplits))
  BY DEF GateInv, Enough
<1>2. ASSUME NEW c \in Candidates,
             \A d \in Candidates \ {c}, k \in Whole : Score(d, {k}) < Score(c, {k})
      PROVE  result.passed /\ result.negative = 0
  <2>1. \A half \in HalfSplits : ~Overfitted(half)
    BY <1>1, <1>2, BestOfAllPasses
  <2>2. Negative(KeptSplits) = {}
    BY <2>1, SplitFacts DEF Negative
  <2>3. Cardinality(Negative(KeptSplits)) = 0
    BY <2>2, FS_EmptySet
  <2>4. LimitPct \in Nat /\ Cardinality(KeptSplits) \in Nat
    BY OverfitAssumption, SplitFacts, FS_CardinalityType
  <2>5. 0 <= LimitPct * Cardinality(KeptSplits)
    BY <2>4
  <2>6. Within(KeptSplits)
    BY <2>3, <2>5 DEF Within
  <2> QED
    BY <1>1, <2>3, <2>6
<1>3. ASSUME \A c, d \in Candidates : series[c] = series[d]
      PROVE  result.negative = Cardinality(KeptSplits)
  <2>1. Negative(KeptSplits) = KeptSplits
    BY <1>1, <1>3, CopiesFail, SplitFacts DEF Negative
  <2> QED
    BY <1>1, <2>1
<1> QED
  BY <1>2, <1>3 DEF GeneralisationDecides

LEMMA GateIsSymmetric == GateInv => TwoCandidatesAreSymmetric
<1> SUFFICES ASSUME GateInv, Completed, Cardinality(Candidates) = 2,
                    \A half \in HalfSplits : Score(1, half) # Score(2, half)
             PROVE  /\ 2 * result.negative = Cardinality(Negative(HalfSplits))
                    /\ (\A half \in HalfSplits :
                          (Score(1, half) < Score(2, half))
                            # (Score(1, Whole \ half) < Score(2, Whole \ half)))
                         => result.negative = Cardinality(KeptSplits)
  BY DEF TwoCandidatesAreSymmetric
<1>1. AreSeries /\ result.negative = Cardinality(Negative(KeptSplits))
  BY DEF GateInv
<1>2. \A half \in HalfSplits :
        Overfitted(half) <=> (Score(1, half) < Score(2, half))
                               # (Score(1, Whole \ half) < Score(2, Whole \ half))
  BY <1>1, OverfittedByTwo
<1>3. 2 * result.negative = Cardinality(Negative(HalfSplits))
  <2> DEFINE All == Negative(HalfSplits)
             Kept == Negative(KeptSplits)
  <2>1. IsFiniteSet(All) /\ Kept \in SUBSET All
    <3>1. All \in SUBSET HalfSplits
      BY DEF Negative
    <3> QED
      BY <3>1, SplitFacts, FS_Subset DEF Negative
  <2>2. ASSUME NEW half \in All
        PROVE  /\ Whole \ half \in All /\ Whole \ (Whole \ half) = half
               /\ half \in Kept <=> Whole \ half \notin Kept
    <3>1. half \in HalfSplits /\ Overfitted(half)
      BY DEF Negative
    <3>2. /\ Whole \ half \in HalfSplits /\ Whole \ (Whole \ half) = half
          /\ half \in KeptSplits <=> Whole \ half \notin KeptSplits
      BY <3>1, SplitFacts
    <3>3. Overfitted(Whole \ half)
      BY <1>2, <3>1, <3>2
    <3> QED
      BY <3>1, <3>2, <3>3 DEF Negative
  <2> HIDE DEF All, Kept
  <2>3. Cardinality(All) = 2 * Cardinality(Kept)
    BY <2>1, <2>2, HalfOfAll
  <2> QED
    BY <1>1, <2>3 DEF All, Kept
<1>4. ASSUME \A half \in HalfSplits :
               (Score(1, half) < Score(2, half))
                 # (Score(1, Whole \ half) < Score(2, Whole \ half))
      PROVE  result.negative = Cardinality(KeptSplits)
  <2>1. Negative(KeptSplits) = KeptSplits
    BY <1>2, <1>4, SplitFacts DEF Negative
  <2> QED
    BY <1>1, <2>1
<1> QED
  BY <1>3, <1>4

(* What a verdict rests on is in the series.                               *)
LEMMA SameSeries ==
  ASSUME series' = series
  PROVE  /\ AreSeries' <=> AreSeries
         /\ Enough' <=> Enough
         /\ Within(KeptSplits)' = Within(KeptSplits)
         /\ Negative(KeptSplits)' = Negative(KeptSplits)
<1>1. Candidates' = Candidates /\ Observations' = Observations
  BY DEF Candidates, Observations
<1>2. \A k : Slice(k)' = Slice(k)
  BY <1>1 DEF Slice
<1>3. \A c, slices : Score(c, slices)' = Score(c, slices)
  BY <1>2 DEF Score
<1>4. \A half : Selected(half)' = Selected(half)
  BY <1>1, <1>3 DEF Selected
<1>5. \A half : Overfitted(half)' <=> Overfitted(half)
  BY <1>1, <1>3, <1>4 DEF Overfitted
<1>6. KeptSplits' = KeptSplits
  BY DEF KeptSplits, HalfSplits
<1>7. Negative(KeptSplits)' = Negative(KeptSplits)
  BY <1>5, <1>6 DEF Negative
<1> QED
  BY <1>1, <1>6, <1>7 DEF AreSeries, Enough, Within

(* For any number of candidates, slices and returns: what the gate decides *)
(* depends on what generalises, and with two candidates not on which of a  *)
(* split and its complement is kept (run_cscv_pbo).                        *)
THEOREM SpecGateIsFair == GateSpec => []GateIsFair
<1>1. GateInit => GateInv
  <2> SUFFICES ASSUME GateInit PROVE GateInv
    OBVIOUS
  <2>1. PICK k \in 1 .. MaxCandidates, n \in Lengths : series \in [1 .. k -> [1 .. n -> Returns]]
    BY DEF GateInit
  <2>2. k \in Nat \ {0} /\ n \in Nat /\ series \in [1 .. k -> [1 .. n -> Int]]
    <3>1. k \in Nat \ {0} /\ n \in Nat /\ Returns \subseteq Int
      BY OverfitAssumption
    <3> QED
      BY <2>1, <3>1
  <2>3. AreSeries
    BY <2>2 DEF AreSeries
  <2> QED
    BY <2>3 DEF GateInit, GateInv, Completed
<1>2. GateInv /\ [GateNext]_gateVars => GateInv'
  <2> SUFFICES ASSUME GateInv, [GateNext]_gateVars PROVE GateInv'
    OBVIOUS
  <2>0. series' = series
    BY DEF GateNext, Refuse, Judge, gateVars
  <2>1. CASE UNCHANGED gateVars
    BY <2>0, <2>1, SameSeries DEF gateVars, GateInv, Completed
  <2>2. CASE Refuse
    <3>1. result'.status = "insufficient_data"
      BY <2>2 DEF Refuse, GateInv
    <3> QED
      BY <2>0, <3>1, SameSeries DEF GateInv, Completed
  <2>3. CASE Judge
    <3>1. /\ result'.status = "completed" /\ Enough
          /\ result'.passed = Within(KeptSplits)
          /\ result'.negative = Cardinality(Negative(KeptSplits))
      BY <2>3 DEF Judge
    <3> QED
      BY <2>0, <3>1, SameSeries DEF GateInv, Completed
  <2> QED
    BY <2>1, <2>2, <2>3 DEF GateNext
<1>3. GateInv => GateIsFair
  BY GateDecides, GateIsSymmetric DEF GateIsFair
<1> QED
  BY <1>1, <1>2, <1>3, PTL DEF GateSpec
==============================================================================
