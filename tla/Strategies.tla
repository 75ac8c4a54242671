----------------------------- MODULE Strategies -----------------------------
(***************************************************************************)
(* The four signals of app/strategies.py over the history that the engine  *)
(* grows by one bar at each close (engine.py:822-836).                     *)
(*                                                                         *)
(* The averages of the code are float quotients.  Where two of them differ *)
(* the comparison is that of the fractions, by cross-multiplication; where *)
(* they are equal, or a distance is two percent exactly, their rounding    *)
(* decides: three closes of 0.1 average above five of them.  It is an      *)
(* outcome of the close that fills the windows, on either side.            *)
(***************************************************************************)
EXTENDS Integers, Sequences, SequencesExt

CONSTANTS
    FastWindow,
    SlowWindow,
    MarketBars,   \* the bars of the market: records of high, low and close
    MaxHistory    \* bound of the model: length of a history

\* What the constants must satisfy.
ASSUME StrategiesAssumption ==
    /\ FastWindow \in Nat \ {0} /\ SlowWindow \in Nat /\ FastWindow < SlowWindow
    /\ MarketBars \subseteq [low : Nat \ {0}, close : Nat, high : Nat]
    /\ \A b \in MarketBars : b.low <= b.close /\ b.close <= b.high
    /\ MaxHistory \in Nat

VARIABLES
    history,
    rounding      \* of the averages over the last bars: which way it tips a tie

marketVars == <<history, rounding>>

LastOf(bars, n) == SubSeq(bars, Len(bars) - n + 1, Len(bars))

Fault_CloseSum(bars, n) ==
    SumFunction([k \in 1 .. n |-> bars[k].close])

\* moving_average, as the sum of the window.
CloseSum(bars, n) == SumFunction([k \in 1 .. n |-> bars[Len(bars) - n + k].close])

Warm(bars) == Len(bars) >= SlowWindow

\* How far the fast average is above the slow one, times both windows.
Spread(bars) ==
    CloseSum(bars, FastWindow) * SlowWindow - CloseSum(bars, SlowWindow) * FastWindow

Side(buy, sell) == IF buy THEN "buy" ELSE IF sell THEN "sell" ELSE "hold"

\* fast > slow, and fast < slow.
Above(bars) == Spread(bars) + rounding.spread > 0
Below(bars) == Spread(bars) + rounding.spread < 0

SmaCrossover(bars) ==
    Side(Warm(bars) /\ Above(bars), Warm(bars) /\ Below(bars))

Momentum(bars) == Last(bars).close - bars[Len(bars) - 1].close

Fault_TrendFollowing(bars) ==
    Side(Warm(bars) /\ Above(bars) /\ Momentum(bars) >= 0,
         Warm(bars) /\ Below(bars) /\ Momentum(bars) <= 0)

TrendFollowing(bars) ==
    Side(Warm(bars) /\ Above(bars) /\ Momentum(bars) > 0,
         Warm(bars) /\ Below(bars) /\ Momentum(bars) < 0)

\* The distance of the close from the average, in fiftieths of the average.
Distance(bars) == 50 * (SlowWindow * Last(bars).close - CloseSum(bars, SlowWindow))

MeanReversion(bars) ==
    LET distance == Distance(bars) + rounding.distance IN
      Side(Warm(bars) /\ distance <= 0 - CloseSum(bars, SlowWindow),
           Warm(bars) /\ distance >= CloseSum(bars, SlowWindow))

\* The slow_window bars before the last one.
Previous(bars) == LastOf(Front(bars), SlowWindow)

Fault_Breakout(bars) ==
    LET close == Last(bars).close IN
      Side(Len(bars) > SlowWindow /\ \A b \in ToSet(Previous(bars)) : close < b.low,
           Len(bars) > SlowWindow /\ \A b \in ToSet(Previous(bars)) : close > b.high)

Breakout(bars) ==
    LET close == Last(bars).close IN
      Side(Len(bars) > SlowWindow /\ \A b \in ToSet(Previous(bars)) : close > b.high,
           Len(bars) > SlowWindow /\ \A b \in ToSet(Previous(bars)) : close < b.low)

Signal(strategy, bars) ==
    CASE strategy = "sma_crossover"   -> SmaCrossover(bars)
      [] strategy = "trend_following" -> TrendFollowing(bars)
      [] strategy = "mean_reversion"  -> MeanReversion(bars)
      [] strategy = "breakout"        -> Breakout(bars)

Names == {"sma_crossover", "trend_following", "mean_reversion", "breakout"}

\* Only a tie can be tipped.
Tips(tie) == IF tie THEN {-1, 0, 1} ELSE {0}

Roundings(bars) ==
    [spread : Tips(Warm(bars) /\ Spread(bars) = 0),
     distance : Tips(/\ Warm(bars)
                     /\ \/ Distance(bars) = CloseSum(bars, SlowWindow)
                        \/ Distance(bars) = 0 - CloseSum(bars, SlowWindow))]

MarketInit == history = << >> /\ rounding = [spread |-> 0, distance |-> 0]

Close(bar) ==
    /\ Len(history) < MaxHistory
    /\ history' = Append(history, bar)
    /\ rounding' \in Roundings(history')

MarketNext == \E bar \in MarketBars : Close(bar)

MarketSpec == MarketInit /\ [][MarketNext]_marketVars
-----------------------------------------------------------------------------
\* A signal reads no further back than slow_window + 1 bars, so that windows
\* of the walk-forward that share their last bars share their signals (the
\* averages are sums of the same closes in the same order, rounded alike); with
\* fewer than slow_window bars there is none (strategies.py:11-14, :54-56).
LookbackSuffices ==
    \A s \in Names :
      /\ Len(history) > SlowWindow =>
           Signal(s, history) = Signal(s, LastOf(history, SlowWindow + 1))
      /\ Len(history) < SlowWindow => Signal(s, history) = "hold"

\* The trend signals agree and the other two never do: what trend_following
\* trades the crossover trades too, and no close is both a breakout and a
\* reversion to the same side (strategies.py:29-66).
SignalsDoNotContradict ==
    \A side \in {"buy", "sell"} :
      /\ TrendFollowing(history) = side => SmaCrossover(history) = side
      /\ Breakout(history) = side => MeanReversion(history) # side

\* A market that stands still gives no signal, however the averages round: the
\* momentum, the two percent and the strict extremes keep three strategies out.
\* Nothing does so for the crossover, which compares two averages of equal
\* closes (strategies.py:22-26, and :34-40, :48-51, :62-66 of the others).
FlatMarketHolds ==
    (\A k \in DOMAIN history : /\ history[k].high = history[k].low
                               /\ history[k] = history[1]) =>
        \A s \in Names \ {"sma_crossover"} : Signal(s, history) = "hold"

\* What the four signals have in common.
SignalsAreSound == LookbackSuffices /\ SignalsDoNotContradict /\ FlatMarketHolds
=============================================================================
