--------------------------- MODULE MCStrategyLab ---------------------------
(***************************************************************************)
(* Two symbols over thirteen days: nine to warm the averages up, then days *)
(* on which the second symbol may miss a bar.                              *)
(***************************************************************************)
EXTENDS StrategyLab

Up(v)    == [open |-> 20, high |-> 24, low |-> 20, close |-> 23, volume |-> v]
Down(v)  == [open |-> 20, high |-> 20, low |-> 15, close |-> 17, volume |-> v]
Fade(v)  == [open |-> 22, high |-> 26, low |-> 19, close |-> 20, volume |-> v]
Gap(v)   == [open |-> 16, high |-> 19, low |-> 16, close |-> 19, volume |-> v]
Quiet    == [open |-> 20, high |-> 21, low |-> 19, close |-> 20, volume |-> 5]
NoBar    == <<>>

Warmup == <<Quiet, Down(5), Quiet, Quiet, Up(5), Quiet, Gap(5), Quiet, Quiet>>
Dated(bars) == SelectSeq([i \in DOMAIN bars |->
                 IF bars[i] = NoBar THEN [day |-> 0] ELSE [day |-> i] @@ bars[i]],
                 LAMBDA b: b.day # 0)

Free1 == {<<f[1], f[2], f[3], Fade(8)>> : f \in [1 .. 3 -> {Up(8), Down(5), Fade(8)}]}
Free2 == {<<Up(9), Gap(5), Quiet, Quiet>>, <<Up(9), Quiet, NoBar, Gap(9)>>,
          <<NoBar, Up(9), Up(9), Down(9)>>, <<NoBar, Up(9), NoBar, Down(9)>>}
\* A symbol with nothing in the range, one with a damaged row, or both well.
Early == <<[day |-> 0] @@ Quiet, [day |-> 5, close |-> 20]>>
\* A day without trade: the row has zeros but the close of the day before.
Halted == [open |-> 0, high |-> 0, low |-> 0, close |-> 20, volume |-> 0]
MCMarkets == {<<Dated(Warmup \o f), Dated(Warmup \o g)>> : f \in Free1, g \in Free2}
             \cup {<<Dated(<<Quiet>>)>>, <<Dated(Warmup \o <<Up(8), Halted, Quiet>>)>>}
             \cup {<<Early>>, <<Early, Dated(Warmup \o <<Up(8), Fade(8), Down(5)>>)>>}

P(k, v) == [key |-> k, values |-> v]
MCGrids ==
  [id \in Presets \cup {"typo"} |->
     CASE id = "ma_volume" -> <<P("fast", <<2>>), P("slow", <<3>>), P("vol", <<2>>)>>
       [] id = "trend_filter" -> <<P("ma", <<2, 3>>)>>
       [] id = "golden_cross" -> <<P("fast", <<1, 2>>), P("slow", <<3>>)>>
       [] id = "momentum" -> <<P("lookback", <<1, 3>>)>>
       [] id = "week52_high" -> <<P("window", <<3>>), P("exit_ma", <<2>>)>>
       [] id = "consecutive" -> <<P("buy_days", <<1>>), P("sell_days", <<1>>)>>
       [] id = "disparity" -> <<P("ma", <<2>>), P("buy_below", <<-6>>), P("sell_above", <<-1>>)>>
       [] id = "breakout_fail" -> <<P("lookback", <<3>>), P("entry_ma", <<2>>)>>
       [] id = "strong_close" -> <<P("threshold", <<7>>), P("exit_ma", <<2>>)>>
       [] id = "volatility" -> <<P("vol_window", <<2>>), P("low_window", <<3>>), P("exit_ma", <<2>>)>>
       [] id = "mean_reversion" -> <<P("window", <<3>>), P("z_buy", <<-10>>), P("z_sell", <<-2>>)>>
       [] id = "typo" -> <<>>]

MCTargets == {<<"breakout_fail", "trend_filter">>, <<"golden_cross", "typo">>, <<"typo">>,
              <<"momentum">>, <<"ma_volume", "strong_close">>,
              <<"consecutive", "mean_reversion">>, <<"disparity", "week52_high">>,
              <<"volatility">>}
=============================================================================
