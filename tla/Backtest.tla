------------------------------ MODULE Backtest ------------------------------
(***************************************************************************)
(* The portfolio backtest of backtest_mvp: one run of BacktestEngine over  *)
(* the bars of a few symbols.  A trading day is one step: the stops, the   *)
(* exits at the open, the entries at the open, the new highs, the equity.  *)
(* Money is counted in whole parts of 1/(Rate*Rate), rounded down, and a   *)
(* percentage in parts of 1/Rate.                                          *)
(***************************************************************************)
EXTENDS StrategySignals

CONSTANTS
  Markets,         \* the data sets: for each symbol, its bars by day
  InitialCapital, MaxPositions, Allocation,
  Rate, Commission, Tax, Slippage, StopLoss, Trailing,
  MinBars          \* min_bars_for_signals

\* BacktestConfig.validate, with the windows of the moving averages left to the
\* strategies.
ConfigOK ==
  /\ Rate \in Nat \ {0} /\ MinBars \in Nat
  /\ InitialCapital \in Nat \ {0} /\ Allocation \in Nat \ {0} /\ MaxPositions \in Nat \ {0}
  /\ MaxPositions * Allocation <= InitialCapital
  /\ Commission \in Nat /\ 20 * Commission < Rate
  /\ Slippage \in Nat /\ 20 * Slippage < Rate
  /\ Tax \in Nat /\ 2 * Tax < Rate
  /\ StopLoss \in 1 .. Rate - 1 /\ Trailing \in 1 .. Rate - 1
ASSUME ConfigIsValid == ConfigOK

VARIABLES
  ohlcv,     \* the bars of each symbol, in order; symbols are 1, 2, ... as loaded
  strategy,  \* the strategy of this run
  day,       \* the last day processed
  cash,
  positions, \* one for each symbol held
  trades,    \* of each symbol, in the order of their ids
  equity     \* at the close of each day

portfolio == <<cash, positions, trades, equity>>
vars == <<ohlcv, strategy, day, portfolio>>

Symbols == DOMAIN ohlcv
Money(price) == price * Rate * Rate
Plus(x, pct)  == (x * (Rate + pct)) \div Rate
Minus(x, pct) == (x * (Rate - pct)) \div Rate

\* _calendar: the union of the days of all symbols; _prev_date.
Calendar == UNION {{ohlcv[s][i].day : i \in DOMAIN ohlcv[s]} : s \in Symbols}
\* run() starts at index min(min_bars, max(0, n - 1)) and skips index 0: there
\* is nothing to run over a single day.
FirstIndex == Max({1, Min({MinBars, Cardinality(Calendar) - 1})})
DaysToRun == {d \in Calendar : Cardinality({c \in Calendar : c < d}) >= FirstIndex}
Before(d) == Max({c \in Calendar : c < d})

\* The row of a day, 0 when the symbol has no bar then.
RowOf(s, d) == SelectInSeq(ohlcv[s], LAMBDA b: b.day = d)
HasBar(s, d) == RowOf(s, d) # 0
Bar(s, d) == ohlcv[s][RowOf(s, d)]
SignalAt(s, d) == Signal(strategy, SubSeq(ohlcv[s], 1, RowOf(s, d)), RowOf(s, d))

-----------------------------------------------------------------------------
Fees(gross, rate) == (gross * rate) \div Rate

\* buy_at_open; quantity 0 stands for no fill.
BuyAtOpen(d, open, alloc) ==
  LET price == Plus(Money(open), Slippage)
      quantity == IF open = 0 THEN 0 ELSE alloc \div price
  IN  [day |-> d, side |-> "buy", price |-> price, quantity |-> quantity,
       fees |-> Fees(price * quantity, Commission)]

Sell(d, price, quantity) ==
  LET p == Minus(price, Slippage)
  IN  [day |-> d, side |-> "sell", price |-> p, quantity |-> quantity,
       fees |-> Fees(p * quantity, Commission) + Fees(p * quantity, Tax)]

Gross(t) == t.price * t.quantity

\* Slip: the trail follows the highs of the days before only.
EffectiveStopLagging(p, b) == Max({p.stop, Minus(p.highest, Trailing)})

\* The stop in force: the hard stop or the trail below the highest high, which
\* takes in the high of the day itself.
EffectiveStop(p, b) ==
  Max({p.stop, Minus(Max({p.highest, Money(b.high)}), Trailing)})

\* sell_stop_loss: when the open or the low is not above the stop; at the open
\* when the day opens there.
Lowest(b) == Min({b.open, b.low})
StopPrice(p, b) ==
  LET stop == EffectiveStop(p, b)
  IN  IF Money(b.open) <= stop THEN Money(b.open) ELSE stop
Stopped(s, d) ==
  /\ HasBar(s, d)
  /\ Money(Lowest(Bar(s, d))) <= EffectiveStop(positions[s], Bar(s, d))

\* _process_stop_exits, then _process_ma20_open_exits for those still held: the
\* signal is of the calendar day before, the open of today.  A log holds the
\* trade of a symbol, if there is one.
ExitSignalled(s, d) ==
  /\ HasBar(s, Before(d)) /\ SignalAt(s, Before(d)).exit
  /\ HasBar(s, d) /\ Bar(s, d).open > 0
ExitTrade(s, d) ==
  IF s \notin DOMAIN positions THEN <<>>
  ELSE IF Stopped(s, d)
       THEN <<Sell(d, StopPrice(positions[s], Bar(s, d)), positions[s].quantity)>>
  ELSE IF ExitSignalled(s, d)
       THEN <<Sell(d, Money(Bar(s, d).open), positions[s].quantity)>>
  ELSE <<>>
Received(log) == IF log = <<>> THEN 0 ELSE Gross(log[1]) - log[1].fees

\* _process_entries: the symbols with a signal the day before, by score, the
\* sort being stable over the order they were loaded in.
Candidates(held, d) ==
  {s \in Symbols \ held : HasBar(s, Before(d)) /\ SignalAt(s, Before(d)).entry}
Precedes(s, t, d) ==
  LET p == SignalAt(s, Before(d)).score
      q == SignalAt(t, Before(d)).score
  IN  ~(p < q) /\ (p > q \/ s < t)
Sortings(S, d) ==
  {order \in SetToSeqs(S) :
     \A i, j \in DOMAIN order : i < j => Precedes(order[i], order[j], d)}

\* What one candidate may cost: 99.9% of the cash at most.
Offer(book, s, d) ==
  BuyAtOpen(d, Bar(s, d).open, Min({Money(Allocation), book.cash - book.cash \div 1000}))
Bought(book, s, t) ==
  [cash |-> book.cash - Gross(t) - t.fees, held |-> book.held \cup {s},
   bought |-> [book.bought EXCEPT ![s] = <<t>>]]

\* Slip: the cost is not compared with the cash.
EnterUnchecked(book, s, d) ==
  IF /\ Cardinality(book.held) < MaxPositions /\ s \notin book.held
     /\ HasBar(s, d) /\ Offer(book, s, d).quantity > 0
  THEN Bought(book, s, Offer(book, s, d)) ELSE book

\* One candidate, on the book [cash, held, bought].
Enter(book, s, d) ==
  LET t == Offer(book, s, d)
  IN  IF /\ Cardinality(book.held) < MaxPositions /\ s \notin book.held
         /\ HasBar(s, d) /\ t.quantity > 0 /\ Gross(t) + t.fees <= book.cash
      THEN Bought(book, s, t) ELSE book

Entries(start, order, d) ==
  FoldLeft(LAMBDA book, s: Enter(book, s, d), start, order)

\* _update_highs, for the positions of the morning and for those just entered.
Opened(t, b) ==
  [quantity |-> t.quantity, stop |-> Minus(t.price, StopLoss),
   highest |-> Money(Max({b.high, b.open}))]
Raised(p, s, d) ==
  IF HasBar(s, d) THEN [p EXCEPT !.highest = Max({@, Money(Bar(s, d).high)})] ELSE p

\* _last_close_on_or_before and _market_value.
LastClose(s, d) ==
  LET rows == {i \in DOMAIN ohlcv[s] : ohlcv[s][i].day <= d}
  IN  ohlcv[s][Max(rows)].close
MarketValue(held, d) ==
  SumFunction([s \in DOMAIN held |-> held[s].quantity * Money(LastClose(s, d))])

\* One pass of the loop of run().
TradingDay(d) ==
  LET sold  == [s \in Symbols |-> ExitTrade(s, d)]
      start == [cash |-> cash + SumFunction([s \in Symbols |-> Received(sold[s])]),
                held |-> {s \in DOMAIN positions : sold[s] = <<>>},
                bought |-> [s \in Symbols |-> <<>>]]
  IN  \E order \in Sortings(Candidates(start.held, d), d) :
        LET book == Entries(start, order, d)
        IN  /\ day' = d
            /\ cash' = book.cash
            /\ positions' = [s \in book.held |->
                               IF book.bought[s] # <<>>
                               THEN Opened(book.bought[s][1], Bar(s, d))
                               ELSE Raised(positions[s], s, d)]
            /\ trades' = [s \in Symbols |-> trades[s] \o sold[s] \o book.bought[s]]
            /\ equity' = Append(equity, book.cash + MarketValue(positions', d))
            /\ UNCHANGED <<ohlcv, strategy>>

\* run() up to its loop.
StartRun(st) ==
  /\ strategy' = st /\ day' = 0 /\ cash' = Money(InitialCapital)
  /\ positions' = <<>> /\ trades' = [s \in Symbols |-> <<>>] /\ equity' = <<>>
  /\ UNCHANGED ohlcv

RunEnded == \A d \in DaysToRun : d <= day
NextDay == ~RunEnded /\ TradingDay(Min({d \in DaysToRun : d > day}))

-----------------------------------------------------------------------------
\* Slip: the fees of the purchase are not part of its cost.
PairNoFees(acc, t) ==
  IF t.side = "buy"
  THEN [acc EXCEPT !.quantity = @ + t.quantity, !.cost = @ + Gross(t),
                   !.since = IF @ = 0 THEN t.day ELSE @]
  ELSE LET basis == acc.cost
       IN  [quantity |-> 0, cost |-> 0, since |-> 0,
            rounds |-> Append(acc.rounds, [pnl |-> Gross(t) - t.fees - basis,
                                           held |-> t.day - acc.since])]

\* _pair_trades_to_rounds over the trades of one symbol, in the order of
\* symbol, date and id.
Pair(acc, t) ==
  IF t.side = "buy"
  THEN [acc EXCEPT !.quantity = @ + t.quantity, !.cost = @ + Gross(t) + t.fees,
                   !.since = IF @ = 0 THEN t.day ELSE @]
  ELSE IF acc.quantity = 0 THEN acc
  ELSE LET take == Min({t.quantity, acc.quantity})
           basis == (take * acc.cost) \div acc.quantity
       IN  [quantity |-> acc.quantity - take, cost |-> acc.cost - basis,
            since |-> IF take = acc.quantity THEN 0 ELSE acc.since,
            rounds |-> Append(acc.rounds, [pnl |-> take * t.price - t.fees - basis,
                                           held |-> t.day - acc.since])]
Paired(s) ==
  FoldLeft(Pair, [quantity |-> 0, cost |-> 0, since |-> 0, rounds |-> <<>>], trades[s])

\* compute_metrics.  Ratios are in parts of 1/10000; the CAGR, a power of the
\* ratio over the same days for every run, is kept as that ratio.
PartOf(e, base) == (e * 10000) \div base
Growth == IF Len(equity) < 2 \/ equity[1] <= 0 THEN 10000
          ELSE PartOf(equity[Len(equity)], equity[1])
Drawdown ==
  Max({0} \cup UNION {{10000 - PartOf(equity[j], equity[i]) : i \in 1 .. j} :
                        j \in DOMAIN equity})
Summary ==
  LET rounds == FlattenSeq([s \in Symbols |-> Paired(s).rounds])
      Sums(Test(_)) == Total([i \in DOMAIN rounds |-> IF Test(rounds[i].pnl) THEN rounds[i].pnl ELSE 0])
  IN  [cagr |-> Growth, mdd |-> Drawdown, rounds |-> Len(rounds),
       wins |-> Len(SelectSeq(rounds, LAMBDA r: r.pnl > 0)),
       grossWin |-> Sums(LAMBDA p: p > 0), grossLoss |-> -Sums(LAMBDA p: p < 0),
       holdDays |-> Total([i \in DOMAIN rounds |-> rounds[i].held])]

-----------------------------------------------------------------------------
\* The portfolio has its types, its size, and never borrows (buy_at_open spends
\* what there is, less the costs).
PortfolioOK ==
  /\ cash \in Nat
  /\ DOMAIN positions \subseteq Symbols /\ Cardinality(DOMAIN positions) <= MaxPositions
  /\ \A s \in DOMAIN positions : positions[s].quantity > 0
  /\ \A s \in DOMAIN trades : \A i \in DOMAIN trades[s] :
       trades[s][i].side = (IF i % 2 = 1 THEN "buy" ELSE "sell")

\* metrics.py rebuilds the history from the trade log alone, which the engine
\* wrote beside its own books: the rounds it pairs and the cost of what is still
\* open explain every unit of cash that was gained or spent, and the symbols with
\* an open lot are those the portfolio holds.
RoundsExplainCash ==
  LET acc == [s \in DOMAIN trades |-> Paired(s)]
      Realized(s) == Total([i \in DOMAIN acc[s].rounds |-> acc[s].rounds[i].pnl])
  IN  /\ cash = Money(InitialCapital)
                + SumFunction([s \in DOMAIN trades |-> Realized(s) - acc[s].cost])
      /\ {s \in DOMAIN trades : acc[s].quantity > 0} = DOMAIN positions

\* A position that was there in the morning and traded today has not been below
\* its hard stop, nor below the trail under the highest high it has seen.
SurvivorsAboveStop ==
  \A s \in DOMAIN positions :
    (/\ HasBar(s, day) /\ trades[s][Len(trades[s])].day < day)
      => /\ Money(Lowest(Bar(s, day))) > positions[s].stop
         /\ Money(Lowest(Bar(s, day))) > Minus(positions[s].highest, Trailing)
=============================================================================
