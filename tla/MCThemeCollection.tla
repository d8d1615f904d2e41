------------------------- MODULE MCThemeCollection -------------------------
(***************************************************************************)
(* Five stocks in two major and three middle groups, and three markets: a  *)
(* rising one, a divided one and one in which a stock does not trade.      *)
(***************************************************************************)
EXTENDS ThemeCollection

MCSymbols == 1 .. 5
MCCap == <<50, 30, 20, 10, 40>>

MCRenames == (<<1, 2>> :> <<1, 4>>)
MCAdditional == (4 :> <<<<2, 1>>>>)
MCOverrides == (2 :> <<1, 1>>)
MCOther == {3}

Stock(c, paths) == [code |-> c, sectors |-> paths]
MCStocks == <<Stock(1, <<<<1, 1>>>>), Stock(2, <<<<1, 2>>, <<1, 1>>>>), Stock(3, <<<<1, 1>>, <<2, 1>>>>),
              Stock(4, <<<<1, 2>>>>), Stock(5, <<<<2, 1>>>>)>>
Sub(n, stocks) == [name |-> n, count |-> Len(stocks), stocks |-> stocks]
MCFile ==
  [canonical |-> MCStocks, unique_stock_count |-> 5, major_category_count |-> 2,
   majors |-> <<[name |-> 1, subs |-> <<Sub(1, <<MCStocks[1], MCStocks[2], MCStocks[3]>>),
                                       Sub(2, <<MCStocks[2], MCStocks[4]>>)>>],
                [name |-> 2, count |-> 2, subs |-> <<Sub(1, <<MCStocks[3], MCStocks[5]>>)>>]>>]

Quote(r, v) == [ret |-> r, value |-> v]
Known(s) == [x \in s |-> Both]
Rising ==
  [rankings |-> [return |-> <<1, 2>>, volume |-> <<2, 1>>, trade_strength |-> <<1>>, near_high |-> <<1, 3>>],
   quotes |-> <<Quote(5, 90), Quote(4, 80), Quote(3, 70), Quote(0, 10), Quote(-1, 20)>>,
   flow |-> Known({1, 2}), investor |-> Known(1 .. 5), noTrade |-> {},
   lake |-> [s \in 1 .. 3 |-> <<6, 4, 2>>]]
Divided ==
  [rankings |-> [return |-> <<5, 4, 5>>, volume |-> <<>>, trade_strength |-> <<5>>, near_high |-> <<>>],
   quotes |-> <<Quote(-5, 20), Quote(-4, 10), Quote(1, 30), Quote(2, 40), Quote(3, 30)>>,
   flow |-> (1 :> {"foreign"}), investor |-> [s \in 1 .. 5 |-> IF s = 1 THEN {"institution"} ELSE Both],
   noTrade |-> {}, lake |-> <<>>]
Quiet ==
  [rankings |-> [return |-> <<>>, volume |-> <<>>, trade_strength |-> <<>>, near_high |-> <<>>],
   quotes |-> <<Quote(0, 5), Quote(0, 0), Quote(0, 5), Quote(0, 5), Quote(0, 5)>>,
   flow |-> <<>>, investor |-> [s \in 1 .. 5 |-> IF s = 2 THEN {} ELSE Both],
   noTrade |-> {2}, lake |-> <<>>]
MCMarkets == {"rising", "divided", "quiet"}
MCMarketOf == [rising |-> Rising, divided |-> Divided, quiet |-> Quiet]
MCLosses == {{}, {3}}
\* The first round of requests fails for a stock, or both.
MCRounds == {<<{2}, {}>>, <<{2}, {2}>>}
MCReleases == [ci |-> 2, local |-> 3]
MCCell == <<2, 1>>
MCParts == <<2, 2>>

\* The operator's machine has released two days, the second without a leader.
Seed(one, two) ==
  LET day1 == DaySnapshot(one, 1)
      day2 == DaySnapshot(two, 2)
  IN  [by |-> "local", hosts |-> {"local"},
       snapshot |-> [metrics |-> day1.metrics \cup day2.metrics, leaders |-> PublishedLeaders(day1.leaders \cup day2.leaders)],
       overview |-> [date |-> 2, rows |-> {Scored(r, day1.metrics, 2) : r \in two}, unknown |-> {},
                     report |-> Report(day1.metrics, CollectedLeaders(day1.leaders), two, 2)]]
ArchiveOf(first, second) ==
  CHOOSE archive \in {[form |-> 1, day |-> 2] :> Seed(one, two) :
                        one \in {Evaluation[<<FALSE, first, "top", {}>>].rows},
                        two \in {Evaluation[<<FALSE, second, "top", {}>>].rows}} : TRUE
MCArchive == ArchiveOf("quiet", "divided")
=============================================================================
