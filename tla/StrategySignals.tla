-------------------------- MODULE StrategySignals --------------------------
(***************************************************************************)
(* The strategies of backtest_mvp: signals.py and the presets of           *)
(* strategy_core.  x is the sequence of a symbol's bars up to the day, so  *)
(* row k of a data frame is computed from x[1..k] alone.  A float is a     *)
(* ratio <<n, d>> with d > 0, and NaN, with which no comparison holds.     *)
(***************************************************************************)
EXTENDS Integers, Sequences, SequencesExt, FiniteSetsExt

CONSTANT Scale  \* the scores are counted in units of 1/Scale

ASSUME ScaleIsPositive == Scale \in Nat \ {0}

NaN == <<0, 0>>
IsNumber(q) == q # NaN
Ratio(n, d) == IF d = 0 THEN NaN ELSE <<n, d>>
Above(p, q)   == IsNumber(p) /\ IsNumber(q) /\ p[1] * q[2] > q[1] * p[2]
AtLeast(p, q) == IsNumber(p) /\ IsNumber(q) /\ p[1] * q[2] >= q[1] * p[2]
\* p / q - 1
Excess(p, q) == IF IsNumber(p) /\ IsNumber(q)
                THEN Ratio(p[1] * q[2] - q[1] * p[2], q[1] * p[2]) ELSE NaN

\* (...).clip(lower=0).fillna(0), the score of nearly every strategy.
Score(q) == IF IsNumber(q) /\ q[1] > 0 THEN (q[1] * Scale) \div q[2] ELSE 0

Column(x, field) == [i \in DOMAIN x |-> x[i][field]]
Whole(n) == <<n, 1>>
Total(s) == FoldLeft(LAMBDA a, b: a + b, 0, s)

\* rolling(window, min_periods=window): NaN before the window is full.
Window(s, k, n) == SubSeq(s, k - n + 1, k)
Sma(s, k, n) == IF k >= n THEN <<Total(Window(s, k, n)), n>> ELSE NaN
RollingHigh(s, k, n) ==
  IF k >= n THEN Whole(Max({s[i] : i \in k - n + 1 .. k})) ELSE NaN
Roc(s, k, n) == IF k > n THEN Ratio(s[k] - s[k - n], s[k - n]) ELSE NaN

\* zscore by its signed square, which is in the same order and is a ratio.
ZScore(s, k, n) ==
  LET w == Window(s, k, n)
      dev == n * s[k] - Total(w)
      var == n * Total([i \in DOMAIN w |-> w[i] * w[i]]) - Total(w) * Total(w)
  IN  IF k >= n THEN Ratio(IF dev < 0 THEN -dev * dev ELSE dev * dev, var) ELSE NaN
\* A threshold for it, z in tenths.
SignedSquare(z) == <<IF z < 0 THEN -z * z ELSE z * z, 100>>

\* close_position_in_range; a bar without range is at 0.
ClosePosition(b) == IF b.high = b.low THEN Whole(0)
                    ELSE <<b.close - b.low, b.high - b.low>>

\* The variance of the last n returns, in thousandths, at row k.
ReturnVariance(c, k, n) ==
  LET r == [i \in 1 .. n |-> ((c[k - n + i] - c[k - n + i - 1]) * 1000) \div c[k - n + i - 1]]
  IN  n * Total([i \in 1 .. n |-> r[i] * r[i]]) - Total(r) * Total(r)

-----------------------------------------------------------------------------
\* compute_strategy_indicators, the strategy of the engine itself.
MaVolume(st, x, k) ==
  LET c == Column(x, "close")  close == Whole(c[k])
      fast == Sma(c, k, st.fast)  slow == Sma(c, k, st.slow)
      volume == Whole(x[k].volume)  mean == Sma(Column(x, "volume"), k, st.vol)
      high == RollingHigh(Column(x, "high"), k, st.fast)
  IN  [entry |-> Above(close, fast) /\ Above(fast, slow) /\ Above(volume, mean),
       exit  |-> Above(fast, close),
       score |-> 4 * Score(Excess(close, slow)) + 3 * Score(Excess(volume, mean))
                 + 3 * (IF IsNumber(high) THEN Score(<<c[k], high[1]>>) ELSE 0)]

TrendFilter(st, x, k) ==
  LET c == Column(x, "close")  ma == Sma(c, k, st.ma)
  IN  [entry |-> Above(Whole(c[k]), ma), exit |-> Above(ma, Whole(c[k])),
       score |-> Score(Excess(Whole(c[k]), ma))]

\* cross_above and cross_below look at the row before as well.
GoldenCross(st, x, k) ==
  LET c == Column(x, "close")
      Fast(i) == Sma(c, i, st.fast)  Slow(i) == Sma(c, i, st.slow)
  IN  [entry |-> Above(Fast(k), Slow(k)) /\ AtLeast(Slow(k - 1), Fast(k - 1)),
       exit  |-> Above(Slow(k), Fast(k)) /\ AtLeast(Fast(k - 1), Slow(k - 1)),
       score |-> Score(Excess(Fast(k), Slow(k)))]

Momentum(st, x, k) ==
  LET roc == Roc(Column(x, "close"), k, st.lookback)
  IN  [entry |-> Above(roc, Whole(0)), exit |-> Above(Whole(0), roc), score |-> Score(roc)]

Week52High(st, x, k) ==
  LET c == Column(x, "close")  close == Whole(c[k])
      top == RollingHigh(Column(x, "high"), k - 1, st.window)
  IN  [entry |-> Above(close, top), exit |-> Above(Sma(c, k, st.exit_ma), close),
       score |-> Score(Excess(close, top))]

\* The first row has no change: it is neither up nor down, but it is a row.
Consecutive(st, x, k) ==
  LET c == Column(x, "close")
      Ups(n) == Cardinality({i \in k - n + 1 .. k : i > 1 /\ c[i] > c[i - 1]})
      Downs(n) == Cardinality({i \in k - n + 1 .. k : i > 1 /\ c[i] < c[i - 1]})
  IN  [entry |-> k >= st.buy_days /\ Ups(st.buy_days) >= st.buy_days,
       exit  |-> k >= st.sell_days /\ Downs(st.sell_days) >= st.sell_days,
       score |-> IF k >= st.buy_days THEN Score(<<Ups(st.buy_days), st.buy_days>>) ELSE 0]

Disparity(st, x, k) ==
  LET c == Column(x, "close")  disp == Excess(Whole(c[k]), Sma(c, k, st.ma))
  IN  [entry |-> AtLeast(<<st.buy_below, 100>>, disp),
       exit  |-> AtLeast(disp, <<st.sell_above, 100>>),
       score |-> Score(<<-disp[1], disp[2]>>)]

\* Entry near the high of the days before, exit when the high was touched and
\* the close fell back: one row may be both.
BreakoutFail(st, x, k) ==
  LET c == Column(x, "close")  close == Whole(c[k])  ma == Sma(c, k, st.entry_ma)
      top == RollingHigh(Column(x, "high"), k - 1, st.lookback)
  IN  [entry |-> Above(close, ma) /\ Above(<<100 * c[k], 98>>, top),
       exit  |-> AtLeast(Whole(x[k].high), top) /\ Above(top, close),
       score |-> Score(Excess(close, ma))]

StrongClose(st, x, k) ==
  LET c == Column(x, "close")  pos == ClosePosition(x[k])
  IN  [entry |-> AtLeast(pos, <<st.threshold, 10>>),
       exit  |-> Above(Sma(c, k, st.exit_ma), Whole(c[k])),
       score |-> Score(<<10 * pos[1] - st.threshold * pos[2], 10 * pos[2]>>)]

\* The volatility by its square: within 1.1 of its low, and rising again.
VolatilityExpansion(st, x, k) ==
  LET c == Column(x, "close")  full == k > st.vol_window + st.low_window - 1
      Vol(i) == ReturnVariance(c, i, st.vol_window)
      low == Min({Vol(i) : i \in k - st.low_window + 1 .. k})
  IN  [entry |-> /\ full /\ k - 2 > st.vol_window
                 /\ 100 * Vol(k) <= 121 * low
                 /\ Vol(k - 1) <= Vol(k - 2) /\ Vol(k) > Vol(k - 1),
       exit  |-> Above(Sma(c, k, st.exit_ma), Whole(c[k])),
       score |-> IF full THEN Score(Ratio(Vol(k), low)) ELSE 0]

MeanReversion(st, x, k) ==
  LET z == ZScore(Column(x, "close"), k, st.window)
  IN  [entry |-> AtLeast(SignedSquare(st.z_buy), z),
       exit  |-> AtLeast(z, SignedSquare(st.z_sell)),
       score |-> Score(<<-z[1], z[2]>>)]

Presets == {"ma_volume", "trend_filter", "golden_cross", "momentum", "week52_high",
            "consecutive", "disparity", "breakout_fail", "strong_close",
            "volatility", "mean_reversion"}

\* StrategyRegistry.create and BaseBacktestStrategy.build.
Signal(st, x, k) ==
  CASE st.id = "ma_volume"     -> MaVolume(st, x, k)
    [] st.id = "trend_filter"  -> TrendFilter(st, x, k)
    [] st.id = "golden_cross"  -> GoldenCross(st, x, k)
    [] st.id = "momentum"      -> Momentum(st, x, k)
    [] st.id = "week52_high"   -> Week52High(st, x, k)
    [] st.id = "consecutive"   -> Consecutive(st, x, k)
    [] st.id = "disparity"     -> Disparity(st, x, k)
    [] st.id = "breakout_fail" -> BreakoutFail(st, x, k)
    [] st.id = "strong_close"  -> StrongClose(st, x, k)
    [] st.id = "volatility"    -> VolatilityExpansion(st, x, k)
    [] st.id = "mean_reversion" -> MeanReversion(st, x, k)
=============================================================================
