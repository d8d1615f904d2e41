-------------------------- MODULE MCSectorScanner --------------------------
(***************************************************************************)
(* Five stocks in two sectors and two clusters, on six markets: two        *)
(* in which stocks of both sectors lead, one in which those of one do, one *)
(* in which nothing is traded enough, one with a short price history and   *)
(* one without any index or quote.                                         *)
(***************************************************************************)
EXTENDS SectorScanner

Row(s, c, v) == [symbol |-> s, sector |-> c, value |-> v]
Rank(s, c, v) == [symbol |-> s, sector |-> c, metric |-> v]
Quote(p, h, v) == [price |-> p, high |-> h, volume |-> v, value |-> p * v]
Bar(h, l, c, v) == [high |-> h, low |-> l, close |-> c, volume |-> v]
Index(c, r, cur) == [sector |-> c, return_pct |-> r, trend |-> r, current |-> cur, high |-> 110, low |-> 90,
                     acceleration |-> 0, program |-> 0, flow |-> r]
Strong ==
  [universe |-> <<Row(1, "a", 90), Row(2, "a", 80), Row(3, "b", 70), Row(4, "b", 60), Row(5, None, 50), Row(1, "b", 10)>>,
   fails |-> {},
   close |-> [s \in 1 .. 5 |-> [d \in 1 .. 11 |-> IF s \in {1, 2, 3} THEN 10 * s + d ELSE 20 * s - d]],
   corr |-> [p \in {q \in SUBSET (1 .. 5) : Cardinality(q) = 2} |->
               IF p \in {{1, 2}, {3, 1}, {2, 3}} THEN 80 ELSE IF p = {4, 5} THEN 60 ELSE -40],
   clusters |-> <<<<1, 2, 3>>, <<4, 5>>>>,
   rank |-> [volume |-> <<Rank(1, "a", 0), Rank(3, "b", 0), Rank(5, None, 0)>>,
             return |-> <<Rank(2, "a", 9), Rank(4, "b", 7), Rank(1, "a", 4)>>,
             strength |-> <<Rank(3, "b", 60)>>, high |-> <<Rank(4, "b", 90)>>, block |-> <<>>],
   index |-> <<Index("a", 3, 105), Index("b", 1, 95)>>,
   quote |-> [s \in 1 .. 5 |-> Quote(20 + s, 22 + s, 30)],
   bars |-> [s \in 1 .. 5 |-> <<Bar(20, 18, 19, 10), Bar(22 + s, 19, 20 + s, 15)>>],
   flow |-> (1 :> 50 @@ 4 :> -20)]
\* Only the stocks of sector b trade.
Turned == [Strong EXCEPT !.quote = [s \in 1 .. 5 |-> IF s \in {3, 4} THEN Quote(30, 30, 30) ELSE Quote(20, 20, 1)],
                         !.index = <<Index("a", -2, 92), Index("b", 2, 108), Index("a", -3, 91)>>]
Weak == [Strong EXCEPT !.quote = [s \in 1 .. 5 |-> Quote(20, 21, 1)]]
\* Stock 3 moves with its sector, not with its cluster.
Crossed == [Strong EXCEPT !.corr = [p \in DOMAIN Strong.corr |-> IF p \in {{3, 4}, {4, 5}} THEN 90 ELSE 10]]
MCMarketOf ==
  [strong |-> Strong, turned |-> Turned, weak |-> Weak, crossed |-> Crossed,
   short |-> [Turned EXCEPT !.close = [s \in 1 .. 3 |-> <<9, 10, 11>>]],
   blind |-> [Strong EXCEPT !.fails = {"index", "price"}, !.close = <<>>]]
MCMarkets == DOMAIN MCMarketOf

Tick(s, p, v, late) == [symbol |-> s, price |-> p, volume |-> v, late |-> late]
MCDeliveries == {<<>>, <<Tick(1, 30, 9, 0)>>, <<Tick(3, 10, 99, 0), Tick(3, 31, 1, 1), Tick(4, 28, 9999, 0)>>}
=============================================================================
