------------------------- MODULE StrategyLab_proofs -------------------------
(***************************************************************************)
(* Proofs about the engine and the strategy lab, for every market, grid    *)
(* and configuration.  Three properties of every run: the types, the trade *)
(* log that explains the cash, and no position kept below its stop; and    *)
(* one of the lab: the report and the final ranking agree with the rows.   *)
(*                                                                         *)
(* The inductive invariant keeps, beside the properties, the ledger of     *)
(* each symbol: its trades alternate from a purchase on, and what the      *)
(* pairing leaves open is what the position holds.  The day is a sum over  *)
(* the symbols (what the sales bring) followed by a fold over the          *)
(* candidates (what each purchase costs), so the proof goes through the    *)
(* facts about sums and folds of FoldTheorems, one candidate at a time.    *)
(***************************************************************************)
EXTENDS StrategyLab, FoldTheorems

-----------------------------------------------------------------------------
(***************************************************************************)
(* Arithmetic of the money: prices, fees and shares are natural numbers,   *)
(* and the fees of a sale are at most what it brings.                      *)
(***************************************************************************)
LEMMA Quotient ==
  ASSUME NEW a \in Nat, NEW b \in Nat \ {0}
  PROVE  a \div b \in Nat /\ b * (a \div b) <= a /\ a < b * (a \div b) + b
OBVIOUS

LEMMA Product ==
  ASSUME NEW a \in Nat, NEW b \in Nat, NEW c \in Nat
  PROVE  a * b \in Nat /\ (a <= b => a * c <= b * c)
OBVIOUS

LEMMA QuotientLeast ==
  ASSUME NEW a \in Nat, NEW b \in Nat \ {0}, NEW c \in Nat, c * b <= a
  PROVE  c <= a \div b
<1>1. a \div b \in Nat /\ a < b * (a \div b) + b
  BY Quotient
<1>2. ASSUME NEW q \in Nat, q < c, a < b * q + b PROVE FALSE
  <2>1. (q + 1) * b <= c * b
    BY <1>2, Product
  <2>2. (q + 1) * b = b * q + b
    BY <1>2
  <2>. QED  BY <1>2, <2>1, <2>2
<1>. QED  BY <1>1, <1>2

LEMMA QuotientOfProduct ==
  ASSUME NEW q \in Nat \ {0}, NEW c \in Int
  PROVE  (q * c) \div q = c
OBVIOUS

LEMMA Config ==
  /\ Rate \in Nat \ {0} /\ InitialCapital \in Nat /\ Allocation \in Nat /\ MaxPositions \in Nat
  /\ Commission \in Nat /\ Slippage \in Nat /\ Tax \in Nat
  /\ Commission + Tax < Rate /\ Slippage < Rate
  /\ Rate - Slippage \in Nat /\ Rate - StopLoss \in Nat /\ Rate - Trailing \in Nat
BY ConfigIsValid DEF ConfigOK

LEMMA MoneyIs ==
  ASSUME NEW price \in Nat
  PROVE  Money(price) \in Nat /\ (price > 0 => Money(price) > 0)
<1>1. price * Rate \in Nat /\ (price > 0 => price * Rate > 0)
  BY Config
<1>. DEFINE x == price * Rate
<1>2. x * Rate \in Nat /\ (x > 0 => x * Rate > 0)
  <2>1. x \in Nat
    BY <1>1
  <2>. HIDE DEF x
  <2>. QED  BY <2>1, Config
<1>. QED  BY <1>1, <1>2 DEF Money

LEMMA PlusIs ==
  ASSUME NEW x \in Nat
  PROVE  Plus(x, Slippage) \in Nat /\ Plus(x, Slippage) >= x
<1>. DEFINE a == x * (Rate + Slippage)
<1>1. a \in Nat /\ x * Rate <= a
  BY Config
<1>. HIDE DEF a
<1>2. a \div Rate \in Nat /\ x <= a \div Rate
  BY <1>1, Config, Quotient, QuotientLeast
<1>. QED  BY <1>2 DEF Plus, a

LEMMA MinusIs ==
  ASSUME NEW x \in Nat, NEW p, Rate - p \in Nat
  PROVE  Minus(x, p) \in Nat
<1>. DEFINE a == x * (Rate - p)
<1>1. a \in Nat
  BY Product
<1>. HIDE DEF a
<1>2. a \div Rate \in Nat
  BY <1>1, Config, Quotient
<1>. QED  BY <1>2 DEF a, Minus

LEMMA FeesAre ==
  ASSUME NEW g \in Nat
  PROVE  /\ Fees(g, Commission) \in Nat /\ Fees(g, Tax) \in Nat
         /\ Fees(g, Commission) + Fees(g, Tax) <= g
<1>. DEFINE x == (g * Commission) \div Rate
            y == (g * Tax) \div Rate
<1>1. /\ g * Commission \in Nat /\ g * Tax \in Nat
      /\ g * (Commission + Tax) = g * Commission + g * Tax
      /\ g * (Commission + Tax) <= g * Rate
  BY Config
<1>2. x \in Nat /\ y \in Nat /\ Rate * x <= g * Commission /\ Rate * y <= g * Tax
  BY <1>1, Config, Quotient
<1>. HIDE DEF x, y
<1>3. Rate * (x + y) <= g * Rate
  <2>1. Rate * (x + y) = Rate * x + Rate * y
    BY <1>2, Config
  <2>. QED  BY <1>1, <1>2, <2>1, Config
<1>4. ~(g < x + y)
  <2>. SUFFICES ASSUME g + 1 <= x + y PROVE FALSE
    BY <1>2
  <2>1. (g + 1) * Rate <= (x + y) * Rate
    BY <1>2, Config, Product
  <2>2. (g + 1) * Rate = g * Rate + Rate /\ (x + y) * Rate = Rate * (x + y)
    BY <1>2, Config
  <2>. QED  BY <1>2, <1>3, <2>1, <2>2, Config
<1>. QED  BY <1>2, <1>4 DEF Fees, x, y

LEMMA MaxOfTwo ==
  ASSUME NEW a \in Nat, NEW b \in Nat
  PROVE  Max({a, b}) \in Nat /\ Max({a, b}) >= a /\ Max({a, b}) >= b
<1>1. {a, b} \in SUBSET Nat /\ {a, b} # {}
  OBVIOUS
<1>2. IsFiniteSet({a} \cup {b})
  BY FS_Singleton, FS_Union
<1>3. {a} \cup {b} = {a, b}
  OBVIOUS
<1>. QED  BY <1>1, <1>2, <1>3, LargestIn

LEMMA MinOfTwo ==
  ASSUME NEW a \in Nat, NEW b \in Nat
  PROVE  Min({a, b}) \in {a, b} /\ Min({a, b}) <= a /\ Min({a, b}) <= b
<1>1. {a, b} \in SUBSET Nat /\ {a, b} # {}
  OBVIOUS
<1>. QED  BY <1>1, SmallestIn

-----------------------------------------------------------------------------
Trades == [day : Nat, side : {"buy", "sell"}, price : Nat, quantity : Nat, fees : Nat]

LEMMA BuyIs ==
  ASSUME NEW d \in Nat, NEW open \in Nat, NEW alloc \in Nat
  PROVE  BuyAtOpen(d, open, alloc) \in Trades /\ BuyAtOpen(d, open, alloc).side = "buy"
<1>. DEFINE price == Plus(Money(open), Slippage)
            quantity == IF open = 0 THEN 0 ELSE alloc \div price
<1>1. price \in Nat /\ (open > 0 => price > 0)
  BY MoneyIs, PlusIs
<1>2. quantity \in Nat
  <2>1. CASE open = 0
    BY <2>1
  <2>2. CASE open # 0
    <3>. HIDE DEF price
    <3>1. price \in Nat \ {0}
      BY <1>1, <2>2
    <3>. QED  BY <2>2, <3>1, Quotient
  <2>. QED  BY <2>1, <2>2
<1>. HIDE DEF price, quantity
<1>3. price * quantity \in Nat
  BY <1>1, <1>2, Product
<1>4. Fees(price * quantity, Commission) \in Nat
  BY <1>3, FeesAre
<1>5. BuyAtOpen(d, open, alloc)
        = [day |-> d, side |-> "buy", price |-> price, quantity |-> quantity,
           fees |-> Fees(price * quantity, Commission)]
  BY DEF BuyAtOpen, price, quantity
<1>. QED  BY <1>1, <1>2, <1>4, <1>5 DEF Trades

LEMMA SellIs ==
  ASSUME NEW d \in Nat, NEW price \in Nat, NEW quantity \in Nat
  PROVE  LET t == Sell(d, price, quantity)
         IN  t \in Trades /\ t.side = "sell" /\ t.quantity = quantity /\ t.fees <= Gross(t)
<1>. DEFINE p == Minus(price, Slippage)
            fees == Fees(p * quantity, Commission) + Fees(p * quantity, Tax)
<1>1. p \in Nat
  BY MinusIs, Config
<1>. HIDE DEF p
<1>2. p * quantity \in Nat
  BY <1>1, Product
<1>3. fees \in Nat /\ fees <= p * quantity
  BY <1>2, FeesAre
<1>4. Sell(d, price, quantity)
        = [day |-> d, side |-> "sell", price |-> p, quantity |-> quantity, fees |-> fees]
  BY DEF Sell, p
<1>. HIDE DEF fees
<1>. QED  BY <1>1, <1>3, <1>4 DEF Trades, Gross

-----------------------------------------------------------------------------
(***************************************************************************)
(* The folds of the model.  Each is a fold by a step that stays in its     *)
(* set, so that FoldSteps says where it ends.                              *)
(***************************************************************************)
LEMMA KeptIn ==
  ASSUME NEW A, NEW B, NEW q \in Seq(A), NEW S, \A x \in A : x \in S => x \in B
  PROVE  Kept(q, S) \in Seq(B)
<1>1. Kept(q, S) \in Seq(A \cap S)
  BY KeptIs
<1>. QED  BY <1>1, SeqMonotonic

TotalStep == [p \in Int \X Int |-> p[1] + p[2]]

LEMMA TotalFold ==
  ASSUME NEW q \in Seq(Int)
  PROVE  IsFold(TotalStep, 0, q, Int, Int) /\ Total(q) = FoldBy(TotalStep, 0, q, Int)
<1>. DEFINE After(v, x) == v + x
            Iter(it) == it = [s \in SUBSET DOMAIN q |->
                               IF s = {} THEN 0 ELSE After(it[s \ {Max(s)}], q[Max(s)])]
            g == CHOOSE it : Iter(it)
<1>1. \A v \in Int, x \in Int : TotalStep[<<v, x>>] = After(v, x)
  BY DEF TotalStep
<1>2. IsFold(TotalStep, 0, q, Int, Int)
  BY DEF IsFold, IsStep, TotalStep
<1>3. Total(q) = g[DOMAIN q]
  BY DEF Total, FoldLeft, MapThenFoldSet
<1>4. \A s \in SUBSET DOMAIN q : s # {} => Max(s) \in s /\ q[Max(s)] \in Int
  BY Places
<1>. HIDE DEF After
<1>5. PICK h : SeqFolds(h, TotalStep, 0, q, Int) /\ FoldBy(TotalStep, 0, q, Int) = h[DOMAIN q]
  BY <1>2, FoldByIs
<1>6. Iter(h)
  BY <1>1, <1>4, <1>5 DEF SeqFolds
<1>7. Iter(g)
  BY <1>6
<1>. HIDE DEF g
<1>8. SameSteps(g, h, TotalStep, 0, q)
  <2>1. g[{}] = 0
    BY <1>7
  <2>2. ASSUME NEW s \in SUBSET DOMAIN q, s # {}
        PROVE  /\ g[s] = After(g[s \ {Max(s)}], q[Max(s)])
               /\ TotalStep[<<h[s \ {Max(s)}], q[Max(s)]>>]
                    = After(h[s \ {Max(s)}], q[Max(s)])
    <3>1. h[s \ {Max(s)}] \in Int /\ q[Max(s)] \in Int
      BY <1>4, <1>5, <2>2 DEF SeqFolds
    <3>. QED  BY <1>1, <1>7, <2>2, <3>1
  <2>. QED  BY <2>1, <2>2 DEF SameSteps
<1>9. \A s \in SUBSET DOMAIN q : g[s] = h[s]
  BY <1>2, <1>5, <1>8, SeqFoldsSame
<1>. QED  BY <1>2, <1>3, <1>5, <1>9

LEMMA TotalIs ==
  ASSUME NEW q \in Seq(Int), NEW x \in Int
  PROVE  /\ Total(q) \in Int /\ Total(<<>>) = 0
         /\ Total(Append(q, x)) = Total(q) + x
<1>1. /\ IsFold(TotalStep, 0, q, Int, Int) /\ Total(q) = FoldBy(TotalStep, 0, q, Int)
      /\ Total(Append(q, x)) = FoldBy(TotalStep, 0, Append(q, x), Int)
  BY TotalFold, AppendProperties
<1>2. IsFold(TotalStep, 0, <<>>, Int, Int) /\ Total(<<>>) = FoldBy(TotalStep, 0, <<>>, Int)
  BY TotalFold, EmptySeq
<1>3. Total(<<>>) = 0
  BY <1>2, FoldSteps
<1>4. Total(q) \in Int /\ Total(Append(q, x)) = TotalStep[<<Total(q), x>>]
  BY <1>1, FoldSteps
<1>. QED  BY <1>3, <1>4 DEF TotalStep

-----------------------------------------------------------------------------
(***************************************************************************)
(* The rounds that metrics.py pairs.  A purchase adds its cost; a sale of  *)
(* the whole lot leaves nothing open and a round that gains what the sale  *)
(* brought less the cost: the value of the history, its gains less what is *)
(* still open, moves by the money that was received or spent.              *)
(***************************************************************************)
Rounds == [pnl : Int, held : Int]
Accounts == [quantity : Nat, cost : Int, since : Int, rounds : Seq(Rounds)]
NoTrades == [quantity |-> 0, cost |-> 0, since |-> 0, rounds |-> <<>>]
Gains(rounds) == [i \in DOMAIN rounds |-> rounds[i].pnl]
Value(acc) == Total(Gains(acc.rounds)) - acc.cost

LEMMA GainsAppend ==
  ASSUME NEW rounds \in Seq(Rounds), NEW r \in Rounds
  PROVE  /\ Gains(rounds) \in Seq(Int)
         /\ Gains(Append(rounds, r)) = Append(Gains(rounds), r.pnl)
<1>1. rounds \in [1 .. Len(rounds) -> Rounds] /\ Len(rounds) \in Nat
  BY LenProperties
<1>2. Gains(rounds) \in [1 .. Len(rounds) -> Int]
  BY <1>1 DEF Gains, Rounds
<1>3. Gains(rounds) \in Seq(Int) /\ Len(Gains(rounds)) = Len(rounds)
  BY <1>1, <1>2, SeqDef, LenProperties
<1>4. r.pnl \in Int
  BY DEF Rounds
<1>5. /\ DOMAIN Append(rounds, r) = 1 .. Len(rounds) + 1
      /\ \A i \in 1 .. Len(rounds) : Append(rounds, r)[i] = rounds[i]
      /\ Append(rounds, r)[Len(rounds) + 1] = r
  BY <1>1, AppendProperties, LenProperties
<1>6. Gains(Append(rounds, r)) = Append(Gains(rounds), r.pnl)
  <2>. DEFINE a == Gains(Append(rounds, r))
              b == Append(Gains(rounds), r.pnl)
  <2>1. /\ DOMAIN b = 1 .. Len(rounds) + 1
        /\ \A i \in 1 .. Len(rounds) : b[i] = Gains(rounds)[i]
        /\ b[Len(rounds) + 1] = r.pnl
        /\ b = [i \in DOMAIN b |-> b[i]]
    BY <1>1, <1>3, <1>4, AppendProperties, LenProperties
  <2>2. a = [i \in 1 .. Len(rounds) + 1 |-> Append(rounds, r)[i].pnl]
    BY <1>5 DEF Gains
  <2>3. \A i \in 1 .. Len(rounds) : Gains(rounds)[i] = rounds[i].pnl
    BY <1>1 DEF Gains
  <2>4. \A i \in 1 .. Len(rounds) + 1 : Append(rounds, r)[i].pnl = b[i]
    BY <1>1, <1>5, <2>1, <2>3
  <2>. HIDE DEF a, b
  <2>5. a = b
    BY <2>1, <2>2, <2>4
  <2>. QED  BY <2>5 DEF a, b
<1>. QED  BY <1>3, <1>6

LEMMA ValueAppend ==
  ASSUME NEW acc \in Accounts, NEW new \in Accounts, NEW r \in Rounds,
         new.rounds = Append(acc.rounds, r)
  PROVE  Value(acc) \in Int /\ Value(new) = Value(acc) + acc.cost - new.cost + r.pnl
<1>1. acc.rounds \in Seq(Rounds) /\ acc.cost \in Int /\ new.cost \in Int /\ r.pnl \in Int
  BY DEF Accounts, Rounds
<1>2. /\ Gains(acc.rounds) \in Seq(Int)
      /\ Gains(new.rounds) = Append(Gains(acc.rounds), r.pnl)
  BY <1>1, GainsAppend
<1>3. /\ Total(Gains(acc.rounds)) \in Int
      /\ Total(Gains(new.rounds)) = Total(Gains(acc.rounds)) + r.pnl
  BY <1>1, <1>2, TotalIs
<1>. QED  BY <1>1, <1>3 DEF Value

LEMMA PairIs ==
  ASSUME NEW acc \in Accounts, NEW t \in Trades
  PROVE  Pair(acc, t) \in Accounts
<1>0. /\ acc.quantity \in Nat /\ acc.cost \in Int /\ acc.since \in Int
      /\ acc.rounds \in Seq(Rounds)
      /\ t.day \in Nat /\ t.price \in Nat /\ t.quantity \in Nat /\ t.fees \in Nat
  BY DEF Accounts, Trades
<1>1. CASE t.side = "buy"
  <2>1. Gross(t) \in Nat
    BY <1>0, Product DEF Gross
  <2>. DEFINE since == IF acc.since = 0 THEN t.day ELSE acc.since
              quantity == acc.quantity + t.quantity
              cost == acc.cost + Gross(t) + t.fees
  <2>2. since \in Int /\ quantity \in Nat /\ cost \in Int
    BY <1>0, <2>1
  <2>3. Pair(acc, t) = [acc EXCEPT !.quantity = quantity, !.cost = cost, !.since = since]
    BY <1>1 DEF Pair
  <2>. HIDE DEF since, quantity, cost
  <2>. QED  BY <2>2, <2>3 DEF Accounts
<1>2. CASE t.side # "buy" /\ acc.quantity = 0
  BY <1>2 DEF Pair
<1>3. CASE t.side # "buy" /\ acc.quantity # 0
  <2>. DEFINE take == Min({t.quantity, acc.quantity})
              basis == (take * acc.cost) \div acc.quantity
              r == [pnl |-> take * t.price - t.fees - basis, held |-> t.day - acc.since]
              since == IF take = acc.quantity THEN 0 ELSE acc.since
  <2>1. take \in Nat /\ take <= acc.quantity
    BY <1>0, MinOfTwo
  <2>2. Pair(acc, t) = [quantity |-> acc.quantity - take, cost |-> acc.cost - basis,
                        since |-> since, rounds |-> Append(acc.rounds, r)]
    BY <1>3 DEF Pair
  <2>. HIDE DEF take
  <2>3. take * t.price \in Nat /\ basis \in Int /\ since \in Int
    BY <1>0, <1>3, <2>1
  <2>. HIDE DEF basis, since
  <2>4. r \in Rounds
    BY <1>0, <2>3 DEF Rounds
  <2>. HIDE DEF r
  <2>5. Append(acc.rounds, r) \in Seq(Rounds)
    BY <1>0, <2>4, AppendProperties
  <2>. QED  BY <1>0, <2>1, <2>2, <2>3, <2>5 DEF Accounts
<1>. QED  BY <1>1, <1>2, <1>3

LEMMA PairOfPurchase ==
  ASSUME NEW acc \in Accounts, NEW t \in Trades, t.side = "buy"
  PROVE  /\ Gross(t) \in Nat /\ Value(acc) \in Int
         /\ Pair(acc, t).quantity = acc.quantity + t.quantity
         /\ Value(Pair(acc, t)) = Value(acc) - Gross(t) - t.fees
<1>1. /\ acc.cost \in Int /\ acc.rounds \in Seq(Rounds)
      /\ t.price \in Nat /\ t.quantity \in Nat /\ t.fees \in Nat
  BY DEF Accounts, Trades
<1>2. Gross(t) \in Nat
  BY <1>1, Product DEF Gross
<1>3. Pair(acc, t) = [acc EXCEPT !.quantity = @ + t.quantity, !.cost = @ + Gross(t) + t.fees,
                                 !.since = IF @ = 0 THEN t.day ELSE @]
  BY DEF Pair
<1>4. /\ Pair(acc, t).quantity = acc.quantity + t.quantity
      /\ Pair(acc, t).cost = acc.cost + Gross(t) + t.fees
      /\ Pair(acc, t).rounds = acc.rounds
  BY <1>3 DEF Accounts
<1>5. Total(Gains(acc.rounds)) \in Int
  <2>1. Gains(acc.rounds) \in Seq(Int)
    <3>1. [pnl |-> 0, held |-> 0] \in Rounds
      BY DEF Rounds
    <3>. QED  BY <1>1, <3>1, GainsAppend
  <2>. QED  BY <2>1, TotalIs
<1>. QED  BY <1>1, <1>2, <1>4, <1>5 DEF Value

LEMMA PairOfSale ==
  ASSUME NEW acc \in Accounts, NEW t \in Trades,
         t.side = "sell", t.quantity = acc.quantity, acc.quantity > 0
  PROVE  /\ Gross(t) \in Nat /\ Value(acc) \in Int
         /\ Pair(acc, t).quantity = 0
         /\ Value(Pair(acc, t)) = Value(acc) + Gross(t) - t.fees
<1>1. /\ acc.quantity \in Nat \ {0} /\ acc.cost \in Int /\ acc.since \in Int
      /\ acc.rounds \in Seq(Rounds)
      /\ t.day \in Nat /\ t.price \in Nat /\ t.fees \in Nat
  BY DEF Accounts, Trades
<1>2. Gross(t) \in Nat
  BY <1>1, Product DEF Gross
<1>3. Min({t.quantity, acc.quantity}) = acc.quantity
  BY <1>1, MinOfTwo
<1>4. (acc.quantity * acc.cost) \div acc.quantity = acc.cost
  BY <1>1, QuotientOfProduct
<1>. DEFINE r == [pnl |-> Gross(t) - t.fees - acc.cost, held |-> t.day - acc.since]
<1>5. acc.quantity * t.price = Gross(t)
  BY <1>1 DEF Gross
<1>6. Pair(acc, t) = [quantity |-> acc.quantity - acc.quantity, cost |-> acc.cost - acc.cost,
                      since |-> 0, rounds |-> Append(acc.rounds, r)]
  BY <1>1, <1>3, <1>4, <1>5 DEF Pair
<1>7. /\ Pair(acc, t).quantity = 0 /\ Pair(acc, t).cost = 0
      /\ Pair(acc, t).rounds = Append(acc.rounds, r)
  BY <1>1, <1>6
<1>8. r \in Rounds /\ r.pnl = Gross(t) - t.fees - acc.cost
  BY <1>1, <1>2 DEF Rounds
<1>. HIDE DEF r
<1>9. /\ Value(acc) \in Int
      /\ Value(Pair(acc, t)) = Value(acc) + acc.cost - Pair(acc, t).cost + r.pnl
  BY <1>7, <1>8, PairIs, ValueAppend
<1>. QED  BY <1>1, <1>2, <1>7, <1>8, <1>9

-----------------------------------------------------------------------------
PairStep == [p \in Accounts \X Trades |-> Pair(p[1], p[2])]
PairUp(log) == FoldLeft(Pair, NoTrades, log)

LEMMA PairFold ==
  ASSUME NEW q \in Seq(Trades)
  PROVE  /\ IsFold(PairStep, NoTrades, q, Trades, Accounts)
         /\ PairUp(q) = FoldBy(PairStep, NoTrades, q, Accounts)
<1>. DEFINE Iter(it) == it = [s \in SUBSET DOMAIN q |->
                               IF s = {} THEN NoTrades ELSE Pair(it[s \ {Max(s)}], q[Max(s)])]
            g == CHOOSE it : Iter(it)
<1>1. \A v \in Accounts, x \in Trades : PairStep[<<v, x>>] = Pair(v, x)
  BY DEF PairStep
<1>2. IsFold(PairStep, NoTrades, q, Trades, Accounts)
  <2>1. NoTrades \in Accounts
    BY EmptySeq DEF NoTrades, Accounts
  <2>. QED  BY <2>1, PairIs DEF IsFold, IsStep, PairStep
<1>3. PairUp(q) = g[DOMAIN q]
  BY DEF PairUp, FoldLeft, MapThenFoldSet
<1>4. \A s \in SUBSET DOMAIN q : s # {} => Max(s) \in s /\ q[Max(s)] \in Trades
  BY Places
<1>5. PICK h : /\ SeqFolds(h, PairStep, NoTrades, q, Accounts)
               /\ FoldBy(PairStep, NoTrades, q, Accounts) = h[DOMAIN q]
  BY <1>2, FoldByIs
<1>6. Iter(h)
  BY <1>1, <1>4, <1>5 DEF SeqFolds
<1>7. Iter(g)
  BY <1>6
<1>. HIDE DEF g
<1>8. SameSteps(g, h, PairStep, NoTrades, q)
  <2>1. g[{}] = NoTrades
    BY <1>7
  <2>2. ASSUME NEW s \in SUBSET DOMAIN q, s # {}
        PROVE  /\ g[s] = Pair(g[s \ {Max(s)}], q[Max(s)])
               /\ h[s \ {Max(s)}] \in Accounts /\ q[Max(s)] \in Trades
    BY <1>4, <1>5, <1>7, <2>2 DEF SeqFolds
  <2>. QED  BY <1>1, <2>1, <2>2 DEF SameSteps
<1>9. \A s \in SUBSET DOMAIN q : g[s] = h[s]
  BY <1>2, <1>5, <1>8, SeqFoldsSame
<1>. QED  BY <1>2, <1>3, <1>5, <1>9

LEMMA PairUpIs ==
  ASSUME NEW q \in Seq(Trades)
  PROVE  /\ PairUp(q) \in Accounts /\ PairUp(<<>>) = NoTrades
         /\ \A t \in Trades : PairUp(Append(q, t)) = Pair(PairUp(q), t)
<1>1. /\ IsFold(PairStep, NoTrades, q, Trades, Accounts)
      /\ PairUp(q) = FoldBy(PairStep, NoTrades, q, Accounts)
  BY PairFold
<1>2. /\ IsFold(PairStep, NoTrades, <<>>, Trades, Accounts)
      /\ PairUp(<<>>) = FoldBy(PairStep, NoTrades, <<>>, Accounts)
  BY PairFold, EmptySeq
<1>3. PairUp(<<>>) = NoTrades
  BY <1>2, FoldSteps
<1>4. PairUp(q) \in Accounts
  BY <1>1, FoldSteps
<1>5. ASSUME NEW t \in Trades PROVE PairUp(Append(q, t)) = Pair(PairUp(q), t)
  <2>1. PairUp(Append(q, t)) = FoldBy(PairStep, NoTrades, Append(q, t), Accounts)
    BY PairFold, AppendProperties
  <2>2. PairUp(Append(q, t)) = PairStep[<<PairUp(q), t>>]
    BY <1>1, <2>1, FoldSteps
  <2>. QED  BY <1>4, <2>2 DEF PairStep
<1>. QED  BY <1>3, <1>4, <1>5

-----------------------------------------------------------------------------
(***************************************************************************)
(* What is loaded and what is planned.                                     *)
(***************************************************************************)
Bars == [Columns -> Nat]
Words == STRING \cup {"id", "none"}
Tasks == UNION {[K -> Words \cup Int] : K \in SUBSET Words}

LEMMA MapIs ==
  ASSUME NEW A, NEW B, NEW q \in Seq(A), NEW f \in [DOMAIN q -> B]
  PROVE  f \in Seq(B)
<1>1. DOMAIN q = 1 .. Len(q) /\ Len(q) \in Nat
  BY LenProperties
<1>. QED  BY <1>1, SeqDef

LEMMA UsableIs ==
  ASSUME NEW bars, IsSequence(bars), \A j \in DOMAIN bars : LakeRow(bars[j])
  PROVE  Usable(bars) \in Seq(Bars)
<1>. DEFINE A == {bars[j] : j \in DOMAIN bars}
            S == {b \in Range(bars) : Columns \subseteq DOMAIN b /\ b.day \in Start .. End}
<1>1. bars \in Seq(A)
  BY DEF IsSequence
<1>2. \A x \in A : x \in S => x \in Bars
  BY DEF LakeRow, Bars
<1>. HIDE DEF A, S
<1>3. Kept(bars, S) \in Seq(Bars)
  BY <1>1, <1>2, KeptIn
<1>. QED  BY <1>3 DEF Usable, S

LEMMA LoadedIs ==
  ASSUME NEW lake \in Markets
  PROVE  LET loaded == [i \in DOMAIN lake |-> Usable(lake[i])]
         IN  loaded \in Seq(Seq(Bars)) /\ NotEmpty(loaded) \in Seq(Seq(Bars))
<1>. DEFINE loaded == [i \in DOMAIN lake |-> Usable(lake[i])]
            S == Range(loaded) \ {<<>>}
            V == Seq(Bars)
            A == {lake[i] : i \in DOMAIN lake}
<1>1. /\ IsSequence(lake)
      /\ \A i \in DOMAIN lake :
           IsSequence(lake[i]) /\ \A j \in DOMAIN lake[i] : LakeRow(lake[i][j])
  BY LabAssumption
<1>2. \A i \in DOMAIN lake : Usable(lake[i]) \in V
  BY <1>1, UsableIs
<1>3. loaded \in [DOMAIN lake -> V]
  BY <1>2
<1>4. lake \in Seq(A)
  BY <1>1 DEF IsSequence
<1>. HIDE DEF S, loaded, V, A
<1>5. loaded \in Seq(V)
  BY <1>3, <1>4, MapIs
<1>6. Kept(loaded, S) \in Seq(V)
  BY <1>5, KeptIn
<1>. QED  BY <1>5, <1>6 DEF NotEmpty, S, V, loaded

LEMMA ExtendIs ==
  ASSUME NEW combos \in Seq(Tasks), NEW param \in Params
  PROVE  Extend(combos, param) \in Seq(Tasks)
<1>. DEFINE With(c, v) == [k \in DOMAIN c \cup {param.key} |->
                             IF k = param.key THEN v ELSE c[k]]
            Row(c) == [j \in DOMAIN param.values |-> With(c, param.values[j])]
            all == [i \in DOMAIN combos |-> Row(combos[i])]
            V == Seq(Tasks)
<1>1. /\ param.key \in STRING /\ param.values \in Seq(Int)
      /\ \A j \in DOMAIN param.values : param.values[j] \in Int
      /\ \A i \in DOMAIN combos : combos[i] \in Tasks
  BY LenProperties DEF Params
<1>2. ASSUME NEW c \in Tasks, NEW v \in Int PROVE With(c, v) \in Tasks
  <2>1. PICK K \in SUBSET Words : c \in [K -> Words \cup Int]
    BY DEF Tasks
  <2>2. K \cup {param.key} \in SUBSET Words
    BY <1>1 DEF Words
  <2>3. With(c, v) \in [K \cup {param.key} -> Words \cup Int]
    BY <2>1
  <2>. HIDE DEF With
  <2>. QED  BY <2>2, <2>3 DEF Tasks
<1>. HIDE DEF With
<1>3. \A c \in Tasks : Row(c) \in [DOMAIN param.values -> Tasks]
  BY <1>1, <1>2
<1>. HIDE DEF Row
<1>4. \A c \in Tasks : Row(c) \in V
  BY <1>1, <1>3, MapIs
<1>5. all \in [DOMAIN combos -> V]
  BY <1>1, <1>4
<1>. HIDE DEF all
<1>6. all \in Seq(V)
  <2>. HIDE DEF V
  <2>. QED  BY <1>5, MapIs
<1>7. FlattenSeq(all) \in V
  BY <1>6, FlattenIs
<1>. QED  BY <1>7 DEF Extend, all, Row, With

LEMMA GridIs ==
  ASSUME NEW id \in DOMAIN Grids
  PROVE  GridProduct(id) \in Seq(Tasks)
<1>. DEFINE V == Seq(Tasks)
            A == Params
            q == Grids[id]
            base == <<[id |-> id]>>
            step == [p \in V \X A |-> Extend(p[1], p[2])]
            Iter(it) == it = [s \in SUBSET DOMAIN q |->
                               IF s = {} THEN base ELSE Extend(it[s \ {Max(s)}], q[Max(s)])]
            g == CHOOSE it : Iter(it)
<1>0. q \in Seq(A) /\ id \in STRING
  BY LabAssumption
<1>1. \A v \in V, x \in A : Extend(v, x) \in V /\ step[<<v, x>>] = Extend(v, x)
  BY ExtendIs
<1>2. base \in V
  <2>1. [id |-> id] \in [{"id"} -> Words \cup Int]
    BY <1>0 DEF Words
  <2>2. {"id"} \in SUBSET Words
    BY DEF Words
  <2>3. [id |-> id] \in Tasks
    BY <2>1, <2>2 DEF Tasks
  <2>. QED  BY <2>3
<1>. HIDE DEF base
<1>3. IsFold(step, base, q, A, V)
  BY <1>0, <1>1, <1>2 DEF IsFold, IsStep
<1>4. FoldLeft(Extend, base, q) = g[DOMAIN q]
  BY DEF FoldLeft, MapThenFoldSet
<1>. HIDE DEF step, V, A, q
<1>5. \A s \in SUBSET DOMAIN q : s # {} => Max(s) \in s /\ q[Max(s)] \in A
  BY <1>0, Places
<1>6. PICK h : SeqFolds(h, step, base, q, V) /\ FoldBy(step, base, q, V) = h[DOMAIN q]
  BY <1>3, FoldByIs
<1>7. Iter(h)
  BY <1>1, <1>5, <1>6 DEF SeqFolds
<1>8. Iter(g)
  BY <1>7
<1>. HIDE DEF g
<1>9. SameSteps(g, h, step, base, q)
  <2>1. g[{}] = base
    BY <1>8
  <2>2. ASSUME NEW s \in SUBSET DOMAIN q, s # {}
        PROVE  /\ g[s] = Extend(g[s \ {Max(s)}], q[Max(s)])
               /\ h[s \ {Max(s)}] \in V /\ q[Max(s)] \in A
    BY <1>5, <1>6, <1>8, <2>2 DEF SeqFolds
  <2>. QED  BY <1>1, <2>1, <2>2 DEF SameSteps
<1>10. \A s \in SUBSET DOMAIN q : g[s] = h[s]
  BY <1>3, <1>6, <1>9, SeqFoldsSame
<1>11. FoldLeft(Extend, base, q) \in Seq(Tasks)
  BY <1>4, <1>6, <1>10 DEF SeqFolds, V
<1>. DEFINE all == FoldLeft(Extend, <<[id |-> id]>>, Grids[id])
<1>12. all \in Seq(Tasks)
  BY <1>11 DEF base, q
<1>. HIDE DEF all
<1>13. SubSeq(all, 1, Min({MaxCombos, Len(all)})) \in Seq(Tasks)
  <2>1. Len(all) \in Nat /\ MaxCombos \in Nat
    BY <1>12, LenProperties, LabAssumption
  <2>. DEFINE m == Min({MaxCombos, Len(all)})
  <2>2. m \in Nat /\ m <= Len(all)
    BY <2>1, MinOfTwo
  <2>. HIDE DEF m
  <2>3. SubSeq(all, 1, m) \in Seq(Tasks)
    BY <1>12, <2>1, <2>2, SubSeqProperties
  <2>. QED  BY <2>3 DEF m
<1>. QED  BY <1>12, <1>13 DEF GridProduct, all

LEMMA PlannedIs ==
  ASSUME NEW ids \in Targets
  PROVE  Planned(ids) \in Seq(Tasks)
<1>. DEFINE V == Seq(Tasks)
            all == [i \in DOMAIN ids |-> GridProduct(ids[i])]
<1>1. ids \in Seq(DOMAIN Grids) /\ \A i \in DOMAIN ids : ids[i] \in DOMAIN Grids
  BY LabAssumption, LenProperties
<1>2. all \in [DOMAIN ids -> V]
  BY <1>1, GridIs
<1>. HIDE DEF all
<1>3. all \in Seq(V)
  <2>. HIDE DEF V
  <2>. QED  BY <1>1, <1>2, MapIs
<1>. QED  BY <1>3, FlattenIs DEF Planned, all

-----------------------------------------------------------------------------
(***************************************************************************)
(* A trading day: the bars, the exits and the entries.                     *)
(***************************************************************************)
MarketTyped == ohlcv \in Seq(Seq(Bars))

LEMMA SymbolsAre ==
  ASSUME MarketTyped
  PROVE  /\ IsFiniteSet(Symbols)
         /\ \A s \in Symbols : ohlcv[s] \in Seq(Bars)
         /\ \A s \in Symbols : \A i \in DOMAIN ohlcv[s] : ohlcv[s][i] \in Bars
<1>1. /\ DOMAIN ohlcv = 1 .. Len(ohlcv) /\ Len(ohlcv) \in Nat
      /\ \A s \in DOMAIN ohlcv : ohlcv[s] \in Seq(Bars)
  BY LenProperties DEF MarketTyped
<1>2. \A s \in DOMAIN ohlcv : \A i \in DOMAIN ohlcv[s] : ohlcv[s][i] \in Bars
  BY <1>1, LenProperties
<1>. QED  BY <1>1, <1>2, FS_Interval DEF Symbols

LEMMA FieldsOfBar ==
  ASSUME NEW b \in Bars
  PROVE  b.day \in Nat /\ b.open \in Nat /\ b.high \in Nat /\ b.low \in Nat /\ b.close \in Nat
BY DEF Bars, Columns

LEMMA BarIs ==
  ASSUME MarketTyped, NEW s \in Symbols, NEW d, HasBar(s, d)
  PROVE  RowOf(s, d) \in DOMAIN ohlcv[s] /\ Bar(s, d) \in Bars /\ Bar(s, d).day = d
<1>. DEFINE I == {i \in 1 .. Len(ohlcv[s]) : ohlcv[s][i].day = d}
<1>1. DOMAIN ohlcv[s] = 1 .. Len(ohlcv[s]) /\ Len(ohlcv[s]) \in Nat
  BY SymbolsAre, LenProperties
<1>2. RowOf(s, d) = IF I # {} THEN Min(I) ELSE 0
  BY DEF RowOf, SelectInSeq
<1>3. I \in SUBSET Nat
  OBVIOUS
<1>. HIDE DEF I
<1>4. RowOf(s, d) \in I
  BY <1>2, <1>3, SmallestIn DEF HasBar
<1>5. RowOf(s, d) \in DOMAIN ohlcv[s] /\ ohlcv[s][RowOf(s, d)].day = d
  BY <1>1, <1>4 DEF I
<1>. QED  BY <1>5, SymbolsAre DEF Bar

Logs == {<<>>} \cup {<<t>> : t \in Trades}
Spent(log) == IF log = <<>> THEN 0 ELSE Gross(log[1]) + log[1].fees

LEMMA GrossIs ==
  ASSUME NEW t \in Trades
  PROVE  Gross(t) \in Nat /\ t.fees \in Nat /\ t.quantity \in Nat /\ t.day \in Nat
BY Product DEF Trades, Gross

LEMMA SpentIs ==
  ASSUME NEW log \in Logs
  PROVE  /\ Spent(log) \in Nat
         /\ log # <<>> => log = <<log[1]>> /\ log[1] \in Trades
BY GrossIs DEF Logs, Spent

\* What the entries of day d may come to, from the book after the exits.
Books(start, d) ==
  {b \in [cash : Nat, held : SUBSET Symbols, bought : [Symbols -> Logs]] :
     /\ Cardinality(b.held) <= MaxPositions
     /\ b.cash = start.cash - SumFunction([s \in Symbols |-> Spent(b.bought[s])])
     /\ \A s \in Symbols : b.bought[s] = <<>> => (s \in b.held <=> s \in start.held)
     /\ \A s \in Symbols : b.bought[s] # <<>> =>
          /\ s \in b.held /\ s \notin start.held /\ HasBar(s, d)
          /\ b.bought[s][1].day = d /\ b.bought[s][1].side = "buy"
          /\ b.bought[s][1].quantity > 0}

LEMMA OfferIs ==
  ASSUME MarketTyped, NEW d \in Nat, NEW s \in Symbols, HasBar(s, d),
         NEW book, book.cash \in Nat
  PROVE  LET t == Offer(book, s, d) IN t \in Trades /\ t.side = "buy" /\ t.day = d
<1>. DEFINE spare == book.cash - book.cash \div 1000
            alloc == Min({Money(Allocation), spare})
            open == Bar(s, d).open
<1>1. open \in Nat
  BY BarIs, FieldsOfBar
<1>2. spare \in Nat
  BY Quotient
<1>3. Money(Allocation) \in Nat
  BY Config, MoneyIs
<1>. HIDE DEF spare, open
<1>4. alloc \in Nat
  BY <1>2, <1>3, MinOfTwo
<1>. HIDE DEF alloc
<1>5. BuyAtOpen(d, open, alloc) \in Trades /\ BuyAtOpen(d, open, alloc).side = "buy"
  BY <1>1, <1>4, BuyIs
<1>6. BuyAtOpen(d, open, alloc).day = d
  BY DEF BuyAtOpen
<1>. QED  BY <1>5, <1>6 DEF Offer, alloc, spare, open

LEMMA EnterIs ==
  ASSUME MarketTyped, NEW d \in Nat, NEW start, start.cash \in Nat,
         NEW book \in Books(start, d), NEW s \in Symbols
  PROVE  Enter(book, s, d) \in Books(start, d)
<1>. DEFINE t == Offer(book, s, d)
            new == Bought(book, s, t)
<1>1. CASE Enter(book, s, d) = book
  BY <1>1
<1>2. CASE /\ Cardinality(book.held) < MaxPositions /\ s \notin book.held
           /\ HasBar(s, d) /\ t.quantity > 0 /\ Gross(t) + t.fees <= book.cash
  <2>0. /\ book.cash \in Nat /\ book.held \in SUBSET Symbols
        /\ book.bought \in [Symbols -> Logs]
        /\ book.cash = start.cash - SumFunction([x \in Symbols |-> Spent(book.bought[x])])
        /\ IsFiniteSet(Symbols) /\ IsFiniteSet(book.held)
    BY SymbolsAre, FS_Subset DEF Books
  <2>1. t \in Trades /\ t.side = "buy" /\ t.day = d
    BY <1>2, <2>0, OfferIs
  <2>. HIDE DEF t
  <2>2. Gross(t) \in Nat /\ t.fees \in Nat
    BY <2>1, GrossIs
  <2>3. /\ new.cash = book.cash - Gross(t) - t.fees /\ new.held = book.held \cup {s}
        /\ new.bought = [book.bought EXCEPT ![s] = <<t>>]
        /\ new = [cash |-> new.cash, held |-> new.held, bought |-> new.bought]
    BY DEF Bought
  <2>. HIDE DEF new
  <2>4. new \in [cash : Nat, held : SUBSET Symbols, bought : [Symbols -> Logs]]
    <3>1. new.cash \in Nat
      BY <1>2, <2>0, <2>2, <2>3
    <3>2. new.bought \in [Symbols -> Logs]
      BY <2>0, <2>1, <2>3 DEF Logs
    <3>. QED  BY <2>0, <2>3, <3>1, <3>2
  <2>5. Cardinality(new.held) <= MaxPositions
    <3>1. Cardinality(new.held) = Cardinality(book.held) + 1 /\ Cardinality(book.held) \in Nat
      BY <1>2, <2>0, <2>3, FS_AddElement, FS_CardinalityType
    <3>. QED  BY <1>2, <3>1, Config
  <2>6. book.bought[s] = <<>>
    BY <1>2 DEF Books
  <2>7. /\ new.bought[s] = <<t>> /\ <<t>> # <<>> /\ <<t>>[1] = t
        /\ \A x \in Symbols \ {s} : new.bought[x] = book.bought[x]
    BY <2>0, <2>3
  <2>8. new.cash = start.cash - SumFunction([x \in Symbols |-> Spent(new.bought[x])])
    <3>. DEFINE f == [x \in Symbols |-> Spent(book.bought[x])]
                h == [x \in Symbols |-> Spent(new.bought[x])]
    <3>1. f \in [Symbols -> Int] /\ h \in [Symbols -> Int]
      BY <2>0, <2>4, SpentIs
    <3>2. f[s] = 0 /\ h[s] = Gross(t) + t.fees
      BY <2>6, <2>7 DEF Spent
    <3>3. \A x \in Symbols \ {s} : h[x] = f[x]
      BY <2>7
    <3>. HIDE DEF f, h
    <3>4. SumFunction(h) = SumFunction(f) - f[s] + h[s] /\ SumFunction(f) \in Int
      BY <2>0, <3>1, <3>3, SumMoves, SumOfIntegers
    <3>5. book.cash = start.cash - SumFunction(f)
      BY <2>0 DEF f
    <3>6. new.cash = start.cash - SumFunction(h)
      BY <2>0, <2>2, <2>3, <3>2, <3>4, <3>5
    <3>. QED  BY <3>6 DEF h
  <2>9. ASSUME NEW x \in Symbols, new.bought[x] = <<>>
        PROVE  x \in new.held <=> x \in start.held
    BY <2>3, <2>7, <2>9 DEF Books
  <2>10. ASSUME NEW x \in Symbols, new.bought[x] # <<>>
         PROVE  /\ x \in new.held /\ x \notin start.held /\ HasBar(x, d)
                /\ new.bought[x][1].day = d /\ new.bought[x][1].side = "buy"
                /\ new.bought[x][1].quantity > 0
    <3>1. CASE x = s
      <4>1. s \notin start.held
        BY <1>2, <2>6 DEF Books
      <4>. QED  BY <1>2, <2>1, <2>3, <2>7, <3>1, <4>1
    <3>2. CASE x # s
      BY <2>3, <2>7, <2>10, <3>2 DEF Books
    <3>. QED  BY <3>1, <3>2
  <2>11. Enter(book, s, d) = new
    BY <1>2 DEF Enter, new, t
  <2>. QED  BY <2>4, <2>5, <2>8, <2>9, <2>10, <2>11 DEF Books
<1>. QED  BY <1>1, <1>2 DEF Enter

LEMMA EntriesAre ==
  ASSUME MarketTyped, NEW d \in Nat, NEW start, start.cash \in Nat, start \in Books(start, d),
         NEW order \in Seq(Symbols)
  PROVE  Entries(start, order, d) \in Books(start, d)
<1>. DEFINE V == Books(start, d)
            A == Symbols
            After(b, s) == Enter(b, s, d)
            step == [p \in V \X A |-> After(p[1], p[2])]
            Iter(it) == it = [s \in SUBSET DOMAIN order |->
                               IF s = {} THEN start
                               ELSE After(it[s \ {Max(s)}], order[Max(s)])]
            g == CHOOSE it : Iter(it)
<1>1. \A v \in V, x \in A : After(v, x) \in V /\ step[<<v, x>>] = After(v, x)
  BY EnterIs
<1>2. IsFold(step, start, order, A, V)
  BY <1>1 DEF IsFold, IsStep
<1>3. Entries(start, order, d) = g[DOMAIN order]
  BY DEF Entries, FoldLeft, MapThenFoldSet
<1>. HIDE DEF step, After, V, A
<1>4. \A s \in SUBSET DOMAIN order : s # {} => Max(s) \in s /\ order[Max(s)] \in A
  BY Places DEF A
<1>5. PICK h : /\ SeqFolds(h, step, start, order, V)
               /\ FoldBy(step, start, order, V) = h[DOMAIN order]
  BY <1>2, FoldByIs
<1>6. Iter(h)
  BY <1>1, <1>4, <1>5 DEF SeqFolds
<1>7. Iter(g)
  BY <1>6
<1>. HIDE DEF g
<1>8. SameSteps(g, h, step, start, order)
  <2>1. g[{}] = start
    BY <1>7
  <2>2. ASSUME NEW s \in SUBSET DOMAIN order, s # {}
        PROVE  /\ g[s] = After(g[s \ {Max(s)}], order[Max(s)])
               /\ h[s \ {Max(s)}] \in V /\ order[Max(s)] \in A
    BY <1>4, <1>5, <1>7, <2>2 DEF SeqFolds
  <2>. QED  BY <1>1, <2>1, <2>2 DEF SameSteps
<1>9. \A s \in SUBSET DOMAIN order : g[s] = h[s]
  BY <1>2, <1>5, <1>8, SeqFoldsSame
<1>. QED  BY <1>3, <1>5, <1>9 DEF SeqFolds, V

-----------------------------------------------------------------------------
(***************************************************************************)
(* The trades of one symbol take turns, and what they leave open is the    *)
(* lot that is held, 0 when none is.                                       *)
(***************************************************************************)
Alternates(q) == \A i \in DOMAIN q : q[i].side = (IF i % 2 = 1 THEN "buy" ELSE "sell")
Ledger(q, lot) ==
  /\ q \in Seq(Trades) /\ Alternates(q)
  /\ lot \in Nat /\ PairUp(q).quantity = lot
  /\ Len(q) % 2 = (IF lot > 0 THEN 1 ELSE 0)

LEMMA Grown ==
  ASSUME NEW q \in Seq(Trades), Alternates(q), NEW t \in Trades,
         t.side = IF Len(q) % 2 = 0 THEN "buy" ELSE "sell"
  PROVE  /\ Append(q, t) \in Seq(Trades) /\ Alternates(Append(q, t))
         /\ Len(Append(q, t)) % 2 = (IF Len(q) % 2 = 0 THEN 1 ELSE 0)
<1>1. /\ Append(q, t) \in Seq(Trades) /\ Len(Append(q, t)) = Len(q) + 1 /\ Len(q) \in Nat
      /\ DOMAIN Append(q, t) = 1 .. Len(q) + 1 /\ DOMAIN q = 1 .. Len(q)
      /\ \A i \in 1 .. Len(q) : Append(q, t)[i] = q[i]
      /\ Append(q, t)[Len(q) + 1] = t
  BY AppendProperties, LenProperties
<1>2. (Len(q) + 1) % 2 = (IF Len(q) % 2 = 0 THEN 1 ELSE 0)
  BY <1>1
<1>3. ASSUME NEW i \in 1 .. Len(q) + 1
      PROVE  Append(q, t)[i].side = (IF i % 2 = 1 THEN "buy" ELSE "sell")
  <2>1. CASE i = Len(q) + 1
    BY <1>1, <1>2, <2>1
  <2>2. CASE i # Len(q) + 1
    BY <1>1, <2>2 DEF Alternates
  <2>. QED  BY <2>1, <2>2
<1>. QED  BY <1>1, <1>2, <1>3 DEF Alternates

LEMMA SaleOnLedger ==
  ASSUME NEW q, NEW lot, Ledger(q, lot), lot > 0,
         NEW t \in Trades, t.side = "sell", t.quantity = lot
  PROVE  /\ Ledger(Append(q, t), 0) /\ Value(PairUp(q)) \in Int
         /\ Value(PairUp(Append(q, t))) = Value(PairUp(q)) + Gross(t) - t.fees
<1>1. /\ q \in Seq(Trades) /\ Alternates(q) /\ lot \in Nat
      /\ PairUp(q).quantity = lot /\ Len(q) % 2 = 1
  BY DEF Ledger
<1>2. PairUp(q) \in Accounts /\ PairUp(Append(q, t)) = Pair(PairUp(q), t)
  BY <1>1, PairUpIs
<1>3. /\ Value(PairUp(q)) \in Int /\ PairUp(Append(q, t)).quantity = 0
      /\ Value(PairUp(Append(q, t))) = Value(PairUp(q)) + Gross(t) - t.fees
  BY <1>1, <1>2, PairOfSale
<1>4. /\ Append(q, t) \in Seq(Trades) /\ Alternates(Append(q, t))
      /\ Len(Append(q, t)) % 2 = 0
  BY <1>1, Grown
<1>. QED  BY <1>3, <1>4 DEF Ledger

LEMMA PurchaseOnLedger ==
  ASSUME NEW q, Ledger(q, 0), NEW t \in Trades, t.side = "buy", t.quantity > 0
  PROVE  /\ Ledger(Append(q, t), t.quantity) /\ Value(PairUp(q)) \in Int
         /\ Value(PairUp(Append(q, t))) = Value(PairUp(q)) - Gross(t) - t.fees
<1>1. /\ q \in Seq(Trades) /\ Alternates(q)
      /\ PairUp(q).quantity = 0 /\ Len(q) % 2 = 0
  BY DEF Ledger
<1>2. PairUp(q) \in Accounts /\ PairUp(Append(q, t)) = Pair(PairUp(q), t)
  BY <1>1, PairUpIs
<1>3. t.quantity \in Nat
  BY GrossIs
<1>4. /\ Value(PairUp(q)) \in Int /\ PairUp(Append(q, t)).quantity = t.quantity
      /\ Value(PairUp(Append(q, t))) = Value(PairUp(q)) - Gross(t) - t.fees
  BY <1>1, <1>2, <1>3, PairOfPurchase
<1>5. /\ Append(q, t) \in Seq(Trades) /\ Alternates(Append(q, t))
      /\ Len(Append(q, t)) % 2 = 1
  BY <1>1, Grown
<1>. QED  BY <1>3, <1>4, <1>5 DEF Ledger

LEMMA LedgerValue ==
  ASSUME NEW q, NEW lot, Ledger(q, lot)
  PROVE  Value(PairUp(q)) \in Int
<1>1. PairUp(q) \in Accounts
  BY PairUpIs DEF Ledger
<1>2. [pnl |-> 0, held |-> 0] \in Rounds
  BY DEF Rounds
<1>3. Gains(PairUp(q).rounds) \in Seq(Int) /\ PairUp(q).cost \in Int
  BY <1>1, <1>2, GainsAppend DEF Accounts
<1>. QED  BY <1>3, TotalIs DEF Value

LEMMA WithLog ==
  ASSUME NEW q \in Seq(Trades), NEW log \in Logs
  PROVE  /\ log = <<>> => q \o log = q
         /\ log # <<>> => q \o log = Append(q, log[1])
<1>1. CASE log = <<>>
  BY <1>1, ConcatEmptySeq
<1>2. CASE log # <<>>
  <2>1. PICK t \in Trades : log = <<t>>
    BY <1>2 DEF Logs
  <2>2. q \o <<t>> = Append(q, t)
    BY AppendIsConcat
  <2>. QED  BY <1>2, <2>1, <2>2
<1>. QED  BY <1>1, <1>2

\* A day of one symbol: at most a sale of the whole lot, then at most a purchase
\* while nothing is held.
DayOf(lot, sold, bought) ==
  /\ sold \in Logs /\ bought \in Logs
  /\ sold # <<>> => lot > 0 /\ sold[1].side = "sell" /\ sold[1].quantity = lot
  /\ bought # <<>> => /\ lot = 0 \/ sold # <<>>
                      /\ bought[1].side = "buy" /\ bought[1].quantity > 0
LotAfter(lot, sold, bought) ==
  IF bought # <<>> THEN bought[1].quantity ELSE IF sold # <<>> THEN 0 ELSE lot

LEMMA LedgerAfterDay ==
  ASSUME NEW q, NEW lot, Ledger(q, lot), NEW sold, NEW bought, DayOf(lot, sold, bought)
  PROVE  /\ Ledger(q \o sold \o bought, LotAfter(lot, sold, bought))
         /\ Value(PairUp(q \o sold \o bought))
              = Value(PairUp(q)) + Received(sold) - Spent(bought)
<1>. DEFINE r == q \o sold
            mid == IF sold # <<>> THEN 0 ELSE lot
<1>0. /\ q \in Seq(Trades) /\ sold \in Logs /\ bought \in Logs
      /\ sold # <<>> => sold[1] \in Trades
      /\ bought # <<>> => bought[1] \in Trades
      /\ Value(PairUp(q)) \in Int
  BY SpentIs, LedgerValue DEF Ledger, DayOf
<1>1. /\ Ledger(r, mid)
      /\ Value(PairUp(r)) = Value(PairUp(q)) + Received(sold)
  <2>1. CASE sold = <<>>
    BY <1>0, <2>1, WithLog DEF Received
  <2>2. CASE sold # <<>>
    <3>1. /\ lot > 0 /\ sold[1] \in Trades /\ sold[1].side = "sell" /\ sold[1].quantity = lot
          /\ r = Append(q, sold[1])
      BY <1>0, <2>2, WithLog DEF DayOf
    <3>2. /\ Ledger(Append(q, sold[1]), 0)
          /\ Value(PairUp(Append(q, sold[1])))
               = Value(PairUp(q)) + Gross(sold[1]) - sold[1].fees
      BY <3>1, SaleOnLedger
    <3>3. Gross(sold[1]) \in Nat /\ sold[1].fees \in Nat
      BY <3>1, GrossIs
    <3>. QED  BY <1>0, <2>2, <3>1, <3>2, <3>3 DEF Received
  <2>. QED  BY <2>1, <2>2
<1>. HIDE DEF r
<1>2. r \in Seq(Trades) /\ Value(PairUp(r)) \in Int
  BY <1>1, LedgerValue DEF Ledger
<1>3. Received(sold) \in Int
  <2>1. sold # <<>> => Gross(sold[1]) \in Nat /\ sold[1].fees \in Nat
    BY <1>0, GrossIs
  <2>. QED  BY <2>1 DEF Received
<1>4. CASE bought = <<>>
  <2>1. r \o bought = r /\ Spent(bought) = 0 /\ LotAfter(lot, sold, bought) = mid
    BY <1>0, <1>2, <1>4, WithLog DEF Spent, LotAfter
  <2>2. /\ Ledger(r \o bought, LotAfter(lot, sold, bought))
        /\ Value(PairUp(r \o bought)) = Value(PairUp(q)) + Received(sold) - Spent(bought)
    <3>. HIDE DEF mid
    <3>. QED  BY <1>0, <1>1, <1>3, <2>1
  <2>. QED  BY <2>2 DEF r
<1>5. CASE bought # <<>>
  <2>1. /\ mid = 0 /\ bought[1] \in Trades /\ bought[1].side = "buy"
        /\ bought[1].quantity > 0 /\ r \o bought = Append(r, bought[1])
        /\ LotAfter(lot, sold, bought) = bought[1].quantity
    BY <1>0, <1>2, <1>5, WithLog DEF DayOf, LotAfter
  <2>2. /\ Ledger(Append(r, bought[1]), bought[1].quantity)
        /\ Value(PairUp(Append(r, bought[1])))
             = Value(PairUp(r)) - Gross(bought[1]) - bought[1].fees
    BY <1>1, <2>1, PurchaseOnLedger
  <2>3. Gross(bought[1]) \in Nat /\ bought[1].fees \in Nat
    BY <2>1, GrossIs
  <2>4. Value(PairUp(r \o bought)) = Value(PairUp(r)) - Spent(bought)
    BY <1>2, <1>5, <2>1, <2>2, <2>3 DEF Spent
  <2>5. Spent(bought) \in Int
    BY <1>0, SpentIs
  <2>6. /\ Ledger(r \o bought, LotAfter(lot, sold, bought))
        /\ Value(PairUp(r \o bought)) = Value(PairUp(q)) + Received(sold) - Spent(bought)
    BY <1>0, <1>1, <1>3, <2>1, <2>2, <2>4, <2>5
  <2>. QED  BY <2>6 DEF r
<1>. QED  BY <1>4, <1>5

-----------------------------------------------------------------------------
(***************************************************************************)
(* The inductive invariant of the engine, as conjuncts: the types, what is *)
(* held, the ledger of each symbol and the account of the cash.            *)
(***************************************************************************)
Holdings == [quantity : Nat \ {0}, stop : Nat, highest : Nat]
Lot(s) == IF s \in DOMAIN positions THEN positions[s].quantity ELSE 0

TypesOK ==
  /\ MarketTyped
  /\ day \in Nat /\ cash \in Nat /\ equity \in Seq(Nat)
  /\ DOMAIN positions \subseteq Symbols
  /\ positions \in [DOMAIN positions -> Holdings]
  /\ Cardinality(DOMAIN positions) <= MaxPositions
  /\ \A s \in DOMAIN positions : \E i \in DOMAIN ohlcv[s] : ohlcv[s][i].day <= day

\* Before the first run there is neither a position nor a log.
TradesOK ==
  /\ trades = [s \in DOMAIN trades |-> trades[s]]
  /\ DOMAIN trades = Symbols \/ (DOMAIN trades = {} /\ DOMAIN positions = {})
  /\ \A s \in DOMAIN trades : Ledger(trades[s], Lot(s))

CashOK ==
  cash = Money(InitialCapital) + SumFunction([s \in DOMAIN trades |-> Value(PairUp(trades[s]))])

EngineInv == TypesOK /\ TradesOK /\ CashOK /\ SurvivorsAboveStop

-----------------------------------------------------------------------------
\* What is typed, alternates, matches and adds up is what the runs check.
LEMMA EngineIsSound ==
  ASSUME EngineInv
  PROVE  PortfolioOK /\ RoundsExplainCash /\ SurvivorsAboveStop
<1>1. \A s \in DOMAIN positions : positions[s].quantity \in Nat \ {0}
  BY DEF EngineInv, TypesOK, Holdings
<1>2. \A s \in DOMAIN trades : Ledger(trades[s], Lot(s))
  BY DEF EngineInv, TradesOK
<1>3. DOMAIN positions \subseteq DOMAIN trades
  BY DEF EngineInv, TypesOK, TradesOK
<1>4. PortfolioOK
  BY <1>1, <1>2 DEF EngineInv, TypesOK, PortfolioOK, Ledger, Alternates
<1>5. \A s \in DOMAIN trades : Paired(s) = PairUp(trades[s])
  BY DEF Paired, PairUp, NoTrades
<1>. DEFINE acc == [s \in DOMAIN trades |-> Paired(s)]
            Realized(s) == Total([i \in DOMAIN acc[s].rounds |-> acc[s].rounds[i].pnl])
<1>6. \A s \in DOMAIN trades : Realized(s) - acc[s].cost = Value(PairUp(trades[s]))
  BY <1>5 DEF Value, Gains
<1>7. [s \in DOMAIN trades |-> Realized(s) - acc[s].cost]
        = [s \in DOMAIN trades |-> Value(PairUp(trades[s]))]
  <2>. HIDE DEF acc, Realized
  <2>. QED  BY <1>6
<1>8. cash = Money(InitialCapital)
               + SumFunction([s \in DOMAIN trades |-> Realized(s) - acc[s].cost])
  <2>. HIDE DEF acc, Realized
  <2>. QED  BY <1>7 DEF EngineInv, CashOK
<1>9. {s \in DOMAIN trades : acc[s].quantity > 0} = DOMAIN positions
  <2>1. \A s \in DOMAIN trades : acc[s].quantity = Lot(s)
    BY <1>2, <1>5 DEF Ledger
  <2>2. \A s : Lot(s) > 0 <=> s \in DOMAIN positions
    BY <1>1 DEF Lot
  <2>. HIDE DEF acc
  <2>. QED  BY <1>3, <2>1, <2>2
<1>. QED  BY <1>4, <1>8, <1>9 DEF RoundsExplainCash, EngineInv

LEMMA Exits ==
  ASSUME EngineInv, NEW d \in Nat, NEW s \in Symbols
  PROVE  LET sold == ExitTrade(s, d)
         IN  /\ sold \in Logs /\ Received(sold) \in Nat
             /\ sold # <<>> => /\ s \in DOMAIN positions
                               /\ sold[1].side = "sell" /\ sold[1].quantity = Lot(s)
             /\ s \in DOMAIN positions /\ sold = <<>> => ~Stopped(s, d)
<1>. DEFINE sold == ExitTrade(s, d)
<1>1. CASE sold = <<>>
  BY <1>1 DEF ExitTrade, Received, Logs
<1>2. CASE sold # <<>>
  <2>1. s \in DOMAIN positions
    BY <1>2 DEF ExitTrade
  <2>2. /\ positions[s].quantity \in Nat /\ positions[s].stop \in Nat
        /\ positions[s].highest \in Nat
    BY <2>1 DEF EngineInv, TypesOK, Holdings
  <2>3. HasBar(s, d)
    BY <1>2, <2>1 DEF ExitTrade, Stopped, ExitSignalled
  <2>. DEFINE b == Bar(s, d)
              price == IF Stopped(s, d) THEN StopPrice(positions[s], b) ELSE Money(b.open)
  <2>4. b.open \in Nat /\ b.high \in Nat
    BY <2>3, BarIs, FieldsOfBar DEF EngineInv, TypesOK
  <2>. HIDE DEF b
  <2>5. EffectiveStop(positions[s], b) \in Nat
    <3>1. Max({positions[s].highest, Money(b.high)}) \in Nat
      BY <2>2, <2>4, MoneyIs, MaxOfTwo
    <3>2. Minus(Max({positions[s].highest, Money(b.high)}), Trailing) \in Nat
      BY <3>1, MinusIs, Config
    <3>. QED  BY <2>2, <3>2, MaxOfTwo DEF EffectiveStop
  <2>6. price \in Nat
    BY <2>4, <2>5, MoneyIs DEF StopPrice
  <2>7. sold = <<Sell(d, price, positions[s].quantity)>>
    BY <1>2, <2>1 DEF ExitTrade, b
  <2>. HIDE DEF sold, price
  <2>8. sold[1] = Sell(d, price, positions[s].quantity)
    BY <2>7
  <2>9. /\ sold[1] \in Trades /\ sold[1].side = "sell"
        /\ sold[1].quantity = positions[s].quantity /\ sold[1].fees <= Gross(sold[1])
    <3>. DEFINE t == Sell(d, price, positions[s].quantity)
    <3>1. /\ t \in Trades /\ t.side = "sell"
          /\ t.quantity = positions[s].quantity /\ t.fees <= Gross(t)
      BY <2>2, <2>6, SellIs
    <3>. HIDE DEF t
    <3>2. sold[1] = t
      BY <2>8 DEF t
    <3>. QED  BY <3>1, <3>2
  <2>10. sold \in Logs
    BY <2>7, <2>8, <2>9 DEF Logs
  <2>11. Received(sold) \in Nat
    <3>1. Gross(sold[1]) \in Nat /\ sold[1].fees \in Nat
      BY <2>9, GrossIs
    <3>. QED  BY <1>2, <2>9, <3>1 DEF Received
  <2>. QED  BY <1>2, <2>1, <2>9, <2>10, <2>11 DEF Lot, sold
<1>. QED  BY <1>1, <1>2

LEMMA OpenedIs ==
  ASSUME NEW t \in Trades, t.quantity > 0, NEW b \in Bars
  PROVE  Opened(t, b) \in Holdings /\ Opened(t, b).quantity = t.quantity
<1>1. t.quantity \in Nat \ {0} /\ t.price \in Nat
  BY DEF Trades
<1>2. Minus(t.price, StopLoss) \in Nat
  BY <1>1, MinusIs, Config
<1>3. Money(Max({b.high, b.open})) \in Nat
  BY FieldsOfBar, MaxOfTwo, MoneyIs
<1>. QED  BY <1>1, <1>2, <1>3 DEF Opened, Holdings

LEMMA RaisedIs ==
  ASSUME MarketTyped, NEW p \in Holdings, NEW s \in Symbols, NEW d
  PROVE  /\ Raised(p, s, d) \in Holdings
         /\ Raised(p, s, d).quantity = p.quantity /\ Raised(p, s, d).stop = p.stop
         /\ HasBar(s, d) => Raised(p, s, d).highest = Max({p.highest, Money(Bar(s, d).high)})
<1>1. CASE ~HasBar(s, d)
  BY <1>1 DEF Raised
<1>2. CASE HasBar(s, d)
  <2>. DEFINE top == Max({p.highest, Money(Bar(s, d).high)})
  <2>1. p.highest \in Nat
    BY DEF Holdings
  <2>2. top \in Nat
    BY <1>2, <2>1, BarIs, FieldsOfBar, MoneyIs, MaxOfTwo
  <2>3. Raised(p, s, d) = [p EXCEPT !.highest = top]
    BY <1>2 DEF Raised
  <2>. HIDE DEF top
  <2>4. /\ Raised(p, s, d) \in Holdings /\ Raised(p, s, d).highest = top
        /\ Raised(p, s, d).quantity = p.quantity /\ Raised(p, s, d).stop = p.stop
    BY <2>2, <2>3 DEF Holdings
  <2>. QED  BY <2>4 DEF top
<1>. QED  BY <1>1, <1>2

LEMMA MarketValueIs ==
  ASSUME MarketTyped, NEW d \in Nat, NEW held, DOMAIN held \subseteq Symbols,
         \A s \in DOMAIN held : held[s] \in Holdings,
         \A s \in DOMAIN held : \E i \in DOMAIN ohlcv[s] : ohlcv[s][i].day <= d
  PROVE  MarketValue(held, d) \in Nat
<1>1. ASSUME NEW s \in DOMAIN held PROVE held[s].quantity * Money(LastClose(s, d)) \in Nat
  <2>. DEFINE past == {i \in DOMAIN ohlcv[s] : ohlcv[s][i].day <= d}
  <2>1. s \in Symbols /\ ohlcv[s] \in Seq(Bars)
    BY SymbolsAre
  <2>2. /\ past \in SUBSET DOMAIN ohlcv[s] /\ past # {}
    OBVIOUS
  <2>3. Max(past) \in DOMAIN ohlcv[s]
    <3>. HIDE DEF past
    <3>. QED  BY <2>1, <2>2, Places
  <2>4. LastClose(s, d) = ohlcv[s][Max(past)].close
    BY DEF LastClose
  <2>. HIDE DEF past
  <2>5. LastClose(s, d) \in Nat
    BY <2>1, <2>3, <2>4, SymbolsAre, FieldsOfBar
  <2>6. held[s].quantity \in Nat
    BY DEF Holdings
  <2>. QED  BY <2>5, <2>6, MoneyIs, Product
<1>2. IsFiniteSet(DOMAIN held)
  BY SymbolsAre, FS_Subset
<1>. DEFINE f == [s \in DOMAIN held |-> held[s].quantity * Money(LastClose(s, d))]
<1>3. f \in [DOMAIN held -> Nat]
  BY <1>1
<1>. HIDE DEF f
<1>4. SumFunction(f) \in Nat
  BY <1>2, <1>3, SumOfNaturals
<1>. QED  BY <1>4 DEF MarketValue, f

\* The book after the exits of the day, before any entry.
BookAt(d) ==
  [cash |-> cash + SumFunction([s \in Symbols |-> Received(ExitTrade(s, d))]),
   held |-> {s \in DOMAIN positions : ExitTrade(s, d) = <<>>},
   bought |-> [s \in Symbols |-> <<>>]]

LEMMA BookAtIs ==
  ASSUME EngineInv, NEW d \in Nat
  PROVE  /\ BookAt(d).cash \in Nat /\ BookAt(d) \in Books(BookAt(d), d)
         /\ SumFunction([s \in Symbols |-> Received(ExitTrade(s, d))]) \in Nat
<1>. DEFINE got == [s \in Symbols |-> Received(ExitTrade(s, d))]
            start == BookAt(d)
<1>0. IsFiniteSet(Symbols) /\ DOMAIN positions \in SUBSET Symbols /\ cash \in Nat
  BY SymbolsAre DEF EngineInv, TypesOK
<1>1. got \in [Symbols -> Nat]
  BY Exits
<1>2. SumFunction(got) \in Nat
  <2>. HIDE DEF got
  <2>. QED  BY <1>0, <1>1, SumOfNaturals
<1>3. /\ start.cash = cash + SumFunction(got) /\ start.held \in SUBSET DOMAIN positions
      /\ start.bought = [s \in Symbols |-> <<>>]
      /\ start = [cash |-> start.cash, held |-> start.held, bought |-> start.bought]
  BY DEF BookAt
<1>. HIDE DEF start, got
<1>4. start.cash \in Nat
  BY <1>0, <1>2, <1>3
<1>5. Cardinality(start.held) <= MaxPositions
  <2>1. IsFiniteSet(DOMAIN positions)
    BY <1>0, FS_Subset
  <2>2. /\ Cardinality(start.held) \in Nat /\ Cardinality(DOMAIN positions) \in Nat
        /\ Cardinality(start.held) <= Cardinality(DOMAIN positions)
    BY <1>3, <2>1, FS_Subset, FS_CardinalityType
  <2>. QED  BY <2>2, Config DEF EngineInv, TypesOK
<1>6. SumFunction([s \in Symbols |-> Spent(start.bought[s])]) = 0
  <2>1. [s \in Symbols |-> Spent(start.bought[s])] = [s \in Symbols |-> 0]
    BY <1>3 DEF Spent
  <2>. QED  BY <1>0, <2>1, SumOfZeros
<1>7. start \in [cash : Nat, held : SUBSET Symbols, bought : [Symbols -> Logs]]
  <2>1. start.bought \in [Symbols -> Logs]
    BY <1>3 DEF Logs
  <2>. QED  BY <1>0, <1>3, <1>4, <2>1
<1>8. \A s \in Symbols : start.bought[s] = <<>>
  BY <1>3
<1>9. start \in Books(start, d)
  BY <1>4, <1>5, <1>6, <1>7, <1>8 DEF Books
<1>. QED  BY <1>2, <1>4, <1>9 DEF start, got

-----------------------------------------------------------------------------
\* What a trading day does, in terms of a book that its entries may come to.
DayDone(d, book) ==
  /\ book \in Books(BookAt(d), d)
  /\ day' = d /\ cash' = book.cash
  /\ positions' = [s \in book.held |->
                     IF book.bought[s] # <<>> THEN Opened(book.bought[s][1], Bar(s, d))
                     ELSE Raised(positions[s], s, d)]
  /\ trades' = [s \in Symbols |-> trades[s] \o ExitTrade(s, d) \o book.bought[s]]
  /\ equity' = Append(equity, book.cash + MarketValue(positions', d))
  /\ UNCHANGED <<ohlcv, strategy>>

LEMMA DayIs ==
  ASSUME EngineInv, NEW d \in Nat, TradingDay(d)
  PROVE  \E book : DayDone(d, book)
<1>. DEFINE start == BookAt(d)
            S == Candidates(start.held, d)
<1>1. PICK order \in Sortings(S, d) :
        LET book == Entries(start, order, d)
        IN  /\ day' = d /\ cash' = book.cash
            /\ positions' = [s \in book.held |->
                               IF book.bought[s] # <<>>
                               THEN Opened(book.bought[s][1], Bar(s, d))
                               ELSE Raised(positions[s], s, d)]
            /\ trades' = [s \in Symbols |-> trades[s] \o ExitTrade(s, d) \o book.bought[s]]
            /\ equity' = Append(equity, book.cash + MarketValue(positions', d))
            /\ UNCHANGED <<ohlcv, strategy>>
  <2>. DEFINE sold == [s \in Symbols |-> ExitTrade(s, d)]
  <2>1. [s \in Symbols |-> Received(sold[s])] = [s \in Symbols |-> Received(ExitTrade(s, d))]
    OBVIOUS
  <2>2. {s \in DOMAIN positions : sold[s] = <<>>} = {s \in DOMAIN positions : ExitTrade(s, d) = <<>>}
    BY DEF EngineInv, TypesOK
  <2>3. start = [cash |-> cash + SumFunction([s \in Symbols |-> Received(sold[s])]),
                 held |-> {s \in DOMAIN positions : sold[s] = <<>>},
                 bought |-> [s \in Symbols |-> <<>>]]
    BY <2>1, <2>2 DEF BookAt
  <2>. HIDE DEF start
  <2>. QED  BY <2>3 DEF TradingDay
<1>. HIDE DEF start
<1>2. order \in Seq(Symbols)
  <2>1. order \in [1 .. Cardinality(S) -> S] /\ S \in SUBSET Symbols
    BY DEF Sortings, SetToSeqs, Candidates
  <2>2. Cardinality(S) \in Nat
    BY <2>1, SymbolsAre, FS_Subset, FS_CardinalityType DEF EngineInv, TypesOK
  <2>. HIDE DEF S
  <2>. QED  BY <2>1, <2>2, SeqDef
<1>3. start.cash \in Nat /\ start \in Books(start, d)
  BY BookAtIs DEF start
<1>4. Entries(start, order, d) \in Books(start, d)
  BY <1>2, <1>3, EntriesAre DEF EngineInv, TypesOK
<1>. QED  BY <1>1, <1>4 DEF DayDone, start

LEMMA BookIs ==
  ASSUME EngineInv, NEW d \in Nat, NEW book, book \in Books(BookAt(d), d)
  PROVE  /\ book.cash \in Nat /\ book.held \in SUBSET Symbols
         /\ Cardinality(book.held) <= MaxPositions
         /\ \A s \in Symbols : book.bought[s] \in Logs
         /\ \A s \in Symbols : book.bought[s] = <<>> =>
              (s \in book.held <=> s \in DOMAIN positions /\ ExitTrade(s, d) = <<>>)
         /\ \A s \in Symbols : book.bought[s] # <<>> =>
              /\ s \in book.held /\ HasBar(s, d)
              /\ s \in DOMAIN positions => ExitTrade(s, d) # <<>>
              /\ book.bought[s][1].day = d /\ book.bought[s][1].side = "buy"
              /\ book.bought[s][1].quantity > 0
<1>1. /\ book.cash \in Nat /\ book.held \in SUBSET Symbols /\ book.bought \in [Symbols -> Logs]
      /\ Cardinality(book.held) <= MaxPositions
  BY DEF Books
<1>2. BookAt(d).held = {s \in DOMAIN positions : ExitTrade(s, d) = <<>>}
  BY DEF BookAt
<1>3. \A s \in Symbols : book.bought[s] = <<>> => (s \in book.held <=> s \in BookAt(d).held)
  BY DEF Books
<1>4. \A s \in Symbols : book.bought[s] # <<>> =>
        /\ s \in book.held /\ s \notin BookAt(d).held /\ HasBar(s, d)
        /\ book.bought[s][1].day = d /\ book.bought[s][1].side = "buy"
        /\ book.bought[s][1].quantity > 0
  BY DEF Books
<1>. QED  BY <1>1, <1>2, <1>3, <1>4

\* The positions in the evening.
LEMMA Evening ==
  ASSUME EngineInv, NEW d \in Nat, d > day, NEW book, DayDone(d, book)
  PROVE  /\ DOMAIN positions' = book.held
         /\ \A s \in book.held : positions'[s] \in Holdings
         /\ \A s \in book.held : \E i \in DOMAIN ohlcv[s] : ohlcv[s][i].day <= d
         /\ \A s \in book.held : book.bought[s] # <<>>
              => positions'[s].quantity = book.bought[s][1].quantity
         /\ \A s \in book.held : book.bought[s] = <<>>
              => /\ s \in DOMAIN positions /\ positions[s] \in Holdings
                 /\ positions'[s] = Raised(positions[s], s, d)
<1>1. /\ MarketTyped /\ day \in Nat
      /\ \A s \in DOMAIN positions : s \in Symbols /\ positions[s] \in Holdings
      /\ \A s \in DOMAIN positions : \E i \in DOMAIN ohlcv[s] : ohlcv[s][i].day <= day
  BY DEF EngineInv, TypesOK
<1>2. /\ DOMAIN positions' = book.held
      /\ \A s \in book.held : positions'[s] =
           IF book.bought[s] # <<>> THEN Opened(book.bought[s][1], Bar(s, d))
           ELSE Raised(positions[s], s, d)
  BY DEF DayDone
<1>3. book \in Books(BookAt(d), d)
  BY DEF DayDone
<1>4. ASSUME NEW s \in book.held, book.bought[s] # <<>>
      PROVE  /\ positions'[s] \in Holdings
             /\ positions'[s].quantity = book.bought[s][1].quantity
             /\ \E i \in DOMAIN ohlcv[s] : ohlcv[s][i].day <= d
  <2>1. /\ s \in Symbols /\ HasBar(s, d) /\ book.bought[s] \in Logs
        /\ book.bought[s][1].quantity > 0
    BY <1>3, <1>4, BookIs
  <2>2. book.bought[s][1] \in Trades
    BY <1>4, <2>1, SpentIs
  <2>3. /\ RowOf(s, d) \in DOMAIN ohlcv[s] /\ Bar(s, d) \in Bars /\ Bar(s, d).day = d
    BY <1>1, <2>1, BarIs
  <2>4. ohlcv[s][RowOf(s, d)].day <= d
    BY <2>3 DEF Bar
  <2>. QED  BY <1>2, <1>4, <2>1, <2>2, <2>3, <2>4, OpenedIs
<1>5. ASSUME NEW s \in book.held, book.bought[s] = <<>>
      PROVE  /\ s \in DOMAIN positions /\ positions[s] \in Holdings
             /\ positions'[s] = Raised(positions[s], s, d) /\ positions'[s] \in Holdings
             /\ \E i \in DOMAIN ohlcv[s] : ohlcv[s][i].day <= d
  <2>1. s \in DOMAIN positions /\ s \in Symbols
    BY <1>3, <1>5, BookIs
  <2>2. PICK i \in DOMAIN ohlcv[s] : ohlcv[s][i].day <= day
    BY <1>1, <2>1
  <2>3. ohlcv[s][i].day \in Nat
    BY <1>1, <2>1, SymbolsAre, FieldsOfBar
  <2>4. ohlcv[s][i].day <= d
    BY <1>1, <2>2, <2>3
  <2>5. positions[s] \in Holdings /\ positions'[s] = Raised(positions[s], s, d)
    BY <1>1, <1>2, <1>5, <2>1
  <2>6. Raised(positions[s], s, d) \in Holdings
    BY <1>1, <2>1, <2>5, RaisedIs
  <2>. QED  BY <2>1, <2>4, <2>5, <2>6
<1>. QED  BY <1>2, <1>4, <1>5

LEMMA DayKeepsTypes ==
  ASSUME EngineInv, NEW d \in Nat, d > day, NEW book, DayDone(d, book)
  PROVE  TypesOK'
<1>1. /\ book.cash \in Nat /\ book.held \in SUBSET Symbols
      /\ Cardinality(book.held) <= MaxPositions
  BY BookIs DEF DayDone
<1>2. /\ DOMAIN positions' = book.held
      /\ \A s \in book.held : positions'[s] \in Holdings
      /\ \A s \in book.held : \E i \in DOMAIN ohlcv[s] : ohlcv[s][i].day <= d
  BY Evening
<1>3. MarketValue(positions', d) \in Nat
  BY <1>1, <1>2, MarketValueIs DEF EngineInv, TypesOK
<1>4. equity' \in Seq(Nat)
  <2>1. equity' = Append(equity, book.cash + MarketValue(positions', d))
    BY DEF DayDone
  <2>2. book.cash + MarketValue(positions', d) \in Nat
    BY <1>1, <1>3
  <2>. QED  BY <2>1, <2>2, AppendProperties DEF EngineInv, TypesOK
<1>5. positions' \in [book.held -> Holdings]
  BY <1>2 DEF DayDone
<1>6. ohlcv' = ohlcv /\ day' = d /\ cash' = book.cash /\ MarketTyped
  BY DEF DayDone, EngineInv, TypesOK
<1>. QED  BY <1>1, <1>2, <1>4, <1>5, <1>6 DEF TypesOK, MarketTyped, Symbols

\* The day of each symbol, and its lot in the evening.
LEMMA SymbolDay ==
  ASSUME EngineInv, DOMAIN trades = Symbols, NEW d \in Nat, d > day,
         NEW book, DayDone(d, book), NEW s \in Symbols
  PROVE  /\ DayOf(Lot(s), ExitTrade(s, d), book.bought[s])
         /\ Lot(s)' = LotAfter(Lot(s), ExitTrade(s, d), book.bought[s])
         /\ Received(ExitTrade(s, d)) \in Nat /\ Spent(book.bought[s]) \in Nat
<1>. DEFINE sold == ExitTrade(s, d)
            bought == book.bought[s]
<1>0. book \in Books(BookAt(d), d)
  BY DEF DayDone
<1>1. /\ sold \in Logs /\ Received(sold) \in Nat
      /\ sold # <<>> => /\ s \in DOMAIN positions
                        /\ sold[1].side = "sell" /\ sold[1].quantity = Lot(s)
  BY Exits
<1>2. /\ bought \in Logs
      /\ bought = <<>> => (s \in book.held <=> s \in DOMAIN positions /\ sold = <<>>)
      /\ bought # <<>> => /\ s \in book.held
                          /\ s \in DOMAIN positions => sold # <<>>
                          /\ bought[1].side = "buy" /\ bought[1].quantity > 0
  <2>1. bought \in Logs
    BY <1>0, BookIs
  <2>2. bought = <<>> => (s \in book.held <=> s \in DOMAIN positions /\ sold = <<>>)
    BY <1>0, BookIs
  <2>3. bought # <<>> => /\ s \in book.held
                         /\ s \in DOMAIN positions => sold # <<>>
                         /\ bought[1].side = "buy" /\ bought[1].quantity > 0
    BY <1>0, BookIs
  <2>. QED  BY <2>1, <2>2, <2>3
<1>3. /\ s \in DOMAIN positions => positions[s] \in Holdings
      /\ s \in DOMAIN positions => positions[s].quantity \in Nat \ {0}
  BY DEF EngineInv, TypesOK, Holdings
<1>4. /\ s \in DOMAIN positions => Lot(s) = positions[s].quantity /\ Lot(s) > 0
      /\ s \notin DOMAIN positions => Lot(s) = 0
  BY <1>3 DEF Lot
<1>5. DayOf(Lot(s), sold, bought)
  BY <1>1, <1>2, <1>4 DEF DayOf
<1>6. DOMAIN positions' = book.held
  BY Evening
<1>7. Lot(s)' = IF s \in book.held THEN positions'[s].quantity ELSE 0
  BY <1>6 DEF Lot
<1>8. CASE bought # <<>>
  <2>1. s \in book.held /\ positions'[s].quantity = bought[1].quantity
    BY <1>2, <1>8, Evening
  <2>. QED  BY <1>1, <1>2, <1>5, <1>7, <1>8, <2>1, SpentIs DEF LotAfter
<1>9. CASE bought = <<>> /\ s \in book.held
  <2>1. positions'[s] = Raised(positions[s], s, d) /\ positions[s] \in Holdings
        /\ s \in DOMAIN positions
    BY <1>9, Evening
  <2>2. positions'[s].quantity = positions[s].quantity
    <3>1. MarketTyped
      BY DEF EngineInv, TypesOK
    <3>2. positions[s] \in Holdings
      BY <2>1
    <3>3. Raised(positions[s], s, d).quantity = positions[s].quantity
      BY <3>1, <3>2, RaisedIs
    <3>. QED  BY <2>1, <3>3
  <2>3. sold = <<>>
    BY <1>2, <1>9
  <2>. QED  BY <1>1, <1>2, <1>4, <1>5, <1>7, <1>9, <2>1, <2>2, <2>3, SpentIs DEF LotAfter
<1>10. CASE bought = <<>> /\ s \notin book.held
  BY <1>1, <1>2, <1>4, <1>5, <1>7, <1>10, SpentIs DEF LotAfter
<1>. QED  BY <1>8, <1>9, <1>10

LEMMA DayKeepsTrades ==
  ASSUME EngineInv, DOMAIN trades = Symbols, NEW d \in Nat, d > day,
         NEW book, DayDone(d, book)
  PROVE  TradesOK' /\ CashOK' /\ DOMAIN trades' = Symbols'
<1>. DEFINE Log(s) == trades[s] \o ExitTrade(s, d) \o book.bought[s]
            was == [s \in Symbols |-> Value(PairUp(trades[s]))]
            got == [s \in Symbols |-> Received(ExitTrade(s, d))]
            spent == [s \in Symbols |-> Spent(book.bought[s])]
            moved == [s \in Symbols |-> got[s] - spent[s]]
            now == [s \in Symbols |-> Value(PairUp(Log(s)))]
<1>0. trades' = [s \in Symbols |-> Log(s)] /\ Symbols' = Symbols /\ IsFiniteSet(Symbols)
  BY SymbolsAre DEF DayDone, Symbols, EngineInv, TypesOK
<1>1. \A s \in Symbols : Ledger(trades[s], Lot(s))
  BY DEF EngineInv, TradesOK
<1>2. ASSUME NEW s \in Symbols
      PROVE  /\ Ledger(Log(s), Lot(s)')
             /\ was[s] \in Int /\ got[s] \in Nat /\ spent[s] \in Nat
             /\ now[s] = was[s] + moved[s]
  <2>1. /\ DayOf(Lot(s), ExitTrade(s, d), book.bought[s])
        /\ Lot(s)' = LotAfter(Lot(s), ExitTrade(s, d), book.bought[s])
        /\ Received(ExitTrade(s, d)) \in Nat /\ Spent(book.bought[s]) \in Nat
    BY SymbolDay
  <2>2. Ledger(trades[s], Lot(s))
    BY <1>1
  <2>3. /\ Ledger(Log(s), LotAfter(Lot(s), ExitTrade(s, d), book.bought[s]))
        /\ Value(PairUp(Log(s))) = Value(PairUp(trades[s])) + Received(ExitTrade(s, d))
                                     - Spent(book.bought[s])
    BY <2>1, <2>2, LedgerAfterDay
  <2>4. Value(PairUp(trades[s])) \in Int
    BY <2>2, LedgerValue
  <2>. HIDE DEF Log
  <2>. QED  BY <2>1, <2>3, <2>4
<1>3. TradesOK'
  <2>. HIDE DEF Log
  <2>1. \A s \in Symbols : trades'[s] = Log(s)
    BY <1>0
  <2>2. DOMAIN trades' = Symbols' /\ trades' = [s \in DOMAIN trades' |-> trades'[s]]
    BY <1>0
  <2>3. \A s \in Symbols : Ledger(trades'[s], Lot(s)')
    BY <1>2, <2>1
  <2>. QED  BY <1>0, <2>2, <2>3 DEF TradesOK
<1>4. cash' = cash + SumFunction(got) - SumFunction(spent)
  <2>1. cash' = book.cash /\ book \in Books(BookAt(d), d)
    BY DEF DayDone
  <2>2. book.cash = BookAt(d).cash - SumFunction(spent)
    BY <2>1 DEF Books
  <2>3. BookAt(d).cash = cash + SumFunction(got)
    BY DEF BookAt
  <2>4. SumFunction(got) \in Nat /\ cash \in Nat
    BY BookAtIs DEF EngineInv, TypesOK
  <2>5. SumFunction(spent) \in Nat
    <3>1. spent \in [Symbols -> Nat]
      BY <1>2
    <3>. HIDE DEF spent
    <3>. QED  BY <1>0, <3>1, SumOfNaturals
  <2>. HIDE DEF got, spent
  <2>. QED  BY <2>1, <2>2, <2>3, <2>4, <2>5
<1>5. cash = Money(InitialCapital) + SumFunction(was)
  BY DEF EngineInv, CashOK
<1>6. /\ AddsUp(got, moved, spent, Symbols)
      /\ AddsUp(now, was, moved, Symbols)
      /\ got \in [Symbols -> Int] /\ spent \in [Symbols -> Int] /\ was \in [Symbols -> Int]
  <2>1. moved \in [Symbols -> Int] /\ got \in [Symbols -> Int]
        /\ spent \in [Symbols -> Int] /\ was \in [Symbols -> Int]
    <3>1. \A s \in Symbols : moved[s] = got[s] - spent[s]
      OBVIOUS
    <3>. HIDE DEF Log
    <3>. QED  BY <1>2, <3>1
  <2>2. \A s \in Symbols : got[s] = moved[s] + spent[s] /\ now[s] = was[s] + moved[s]
    <3>1. \A s \in Symbols : moved[s] = got[s] - spent[s]
      OBVIOUS
    <3>. HIDE DEF moved, got, spent, was, now
    <3>. QED  BY <1>2, <3>1
  <2>3. DOMAIN got = Symbols /\ DOMAIN now = Symbols
    OBVIOUS
  <2>4. got = [s \in Symbols |-> got[s]] /\ now = [s \in Symbols |-> now[s]]
    OBVIOUS
  <2>. HIDE DEF moved, got, spent, was, now
  <2>. QED  BY <2>1, <2>2, <2>4 DEF AddsUp
<1>7. CashOK'
  <2>1. [s \in DOMAIN trades' |-> Value(PairUp(trades'[s]))] = now
    <3>. HIDE DEF Log
    <3>. QED  BY <1>0
  <2>. HIDE DEF moved, got, spent, was, now
  <2>2. /\ SumFunction(got) = SumFunction(moved) + SumFunction(spent)
        /\ SumFunction(now) = SumFunction(was) + SumFunction(moved)
    BY <1>0, <1>6, SumAdds
  <2>3. /\ SumFunction(moved) \in Int /\ SumFunction(spent) \in Int /\ SumFunction(was) \in Int
    BY <1>0, <1>6, SumOfIntegers DEF AddsUp
  <2>4. Money(InitialCapital) \in Nat
    BY Config, MoneyIs
  <2>5. cash' = Money(InitialCapital) + SumFunction(now)
    BY <1>4, <1>5, <2>2, <2>3, <2>4
  <2>. QED  BY <2>1, <2>5 DEF CashOK
<1>. QED  BY <1>0, <1>3, <1>7

LEMMA DayKeepsSurvivors ==
  ASSUME EngineInv, DOMAIN trades = Symbols, NEW d \in Nat, d > day,
         NEW book, DayDone(d, book)
  PROVE  SurvivorsAboveStop'
<1>. SUFFICES ASSUME NEW s \in DOMAIN positions', HasBar(s, day)',
                     (trades[s][Len(trades[s])].day < day)'
              PROVE  /\ (Money(Lowest(Bar(s, day))) > positions[s].stop)'
                     /\ (Money(Lowest(Bar(s, day))) > Minus(positions[s].highest, Trailing))'
  BY DEF SurvivorsAboveStop
<1>0. book \in Books(BookAt(d), d) /\ ohlcv' = ohlcv /\ day' = d /\ MarketTyped
  BY DEF DayDone, EngineInv, TypesOK
<1>1. s \in book.held /\ s \in Symbols
  BY <1>0, Evening, BookIs
<1>2. HasBar(s, d) /\ Bar(s, day)' = Bar(s, d)
  BY <1>0 DEF HasBar, Bar, RowOf, SelectInSeq
<1>3. book.bought[s] = <<>>
  <2>. SUFFICES ASSUME book.bought[s] # <<>> PROVE FALSE
    OBVIOUS
  <2>. DEFINE t == book.bought[s][1]
              r == trades[s] \o ExitTrade(s, d)
  <2>1. t \in Trades /\ book.bought[s] \in Logs /\ t.day = d
    BY <1>0, <1>1, BookIs, SpentIs
  <2>2. r \in Seq(Trades)
    <3>1. trades[s] \in Seq(Trades)
      BY <1>1 DEF EngineInv, TradesOK, Ledger
    <3>2. ExitTrade(s, d) \in Seq(Trades)
      <4>1. ExitTrade(s, d) \in Logs
        BY <1>1, Exits
      <4>2. \A x \in Trades : <<x>> \in Seq(Trades)
        OBVIOUS
      <4>. QED  BY <4>1, <4>2, EmptySeq DEF Logs
    <3>. QED  BY <3>1, <3>2, ConcatProperties
  <2>3. trades'[s] = r \o book.bought[s]
    BY <1>1 DEF DayDone
  <2>. HIDE DEF r, t
  <2>4. trades'[s] = Append(r, t)
    BY <2>1, <2>2, <2>3, WithLog DEF t
  <2>5. Len(trades'[s]) = Len(r) + 1 /\ trades'[s][Len(r) + 1] = t
    BY <2>1, <2>2, <2>4, AppendProperties
  <2>. QED  BY <1>0, <2>1, <2>5
<1>. DEFINE p == positions[s]
            b == Bar(s, d)
            low == Money(Lowest(b))
<1>4. p \in Holdings /\ positions'[s] = Raised(p, s, d) /\ s \in DOMAIN positions
  BY <1>1, <1>3, Evening
<1>5. ~Stopped(s, d)
  <2>1. ExitTrade(s, d) = <<>>
    BY <1>0, <1>1, <1>3, BookIs
  <2>. QED  BY <1>1, <1>4, <2>1, Exits
<1>. HIDE DEF p
<1>6. p.stop \in Nat /\ p.highest \in Nat
  BY <1>4 DEF Holdings
<1>7. b.open \in Nat /\ b.low \in Nat /\ b.high \in Nat
  BY <1>0, <1>1, <1>2, BarIs, FieldsOfBar
<1>8. ~(low <= EffectiveStop(p, b))
  BY <1>2, <1>5 DEF Stopped, p
<1>. HIDE DEF b
<1>9. low \in Nat
  <2>1. Lowest(b) \in Nat
    BY <1>7, MinOfTwo DEF Lowest
  <2>. QED  BY <2>1, MoneyIs
<1>. DEFINE top == Max({p.highest, Money(b.high)})
<1>10. top \in Nat /\ Minus(top, Trailing) \in Nat
  <2>1. top \in Nat
    BY <1>6, <1>7, MoneyIs, MaxOfTwo
  <2>. HIDE DEF top
  <2>. QED  BY <2>1, MinusIs, Config
<1>11. /\ EffectiveStop(p, b) \in Nat
       /\ EffectiveStop(p, b) >= p.stop /\ EffectiveStop(p, b) >= Minus(top, Trailing)
  BY <1>6, <1>10, MaxOfTwo DEF EffectiveStop
<1>12. Raised(p, s, d).stop = p.stop /\ Raised(p, s, d).highest = top
  BY <1>0, <1>1, <1>2, <1>4, RaisedIs DEF b
<1>. HIDE DEF top, low
<1>13. low > p.stop /\ low > Minus(top, Trailing)
  BY <1>6, <1>8, <1>9, <1>10, <1>11
<1>. QED  BY <1>2, <1>4, <1>12, <1>13 DEF low, b

\* A trading day keeps the invariant of the engine.
LEMMA DayKeeps ==
  ASSUME EngineInv, DOMAIN trades = Symbols, NextDay
  PROVE  EngineInv' /\ DOMAIN trades' = Symbols'
<1>. DEFINE left == {d \in DaysToRun : d > day}
            d == Min(left)
<1>1. DaysToRun \in SUBSET Nat
  BY SymbolsAre, FieldsOfBar DEF DaysToRun, Calendar, EngineInv, TypesOK
<1>2. left \in SUBSET Nat /\ left # {}
  BY <1>1 DEF NextDay, RunEnded, EngineInv, TypesOK
<1>. HIDE DEF left
<1>3. d \in left
  BY <1>2, SmallestIn
<1>4. d \in Nat /\ d > day
  BY <1>2, <1>3 DEF left
<1>5. TradingDay(d)
  BY DEF NextDay, left
<1>. HIDE DEF d
<1>6. PICK book : DayDone(d, book)
  BY <1>4, <1>5, DayIs
<1>. QED  BY <1>4, <1>6, DayKeepsTypes, DayKeepsTrades, DayKeepsSurvivors DEF EngineInv

\* So does the start of a run.
LEMMA StartKeeps ==
  ASSUME EngineInv, NEW st, StartRun(st)
  PROVE  EngineInv' /\ DOMAIN trades' = Symbols'
<1>1. /\ ohlcv' = ohlcv /\ Symbols' = Symbols /\ MarketTyped' /\ IsFiniteSet(Symbols)
      /\ day' = 0 /\ cash' = Money(InitialCapital) /\ Money(InitialCapital) \in Nat
      /\ positions' = <<>> /\ DOMAIN positions' = {}
      /\ trades' = [s \in Symbols |-> <<>>] /\ equity' = <<>>
  BY SymbolsAre, MoneyIs, Config DEF StartRun, EngineInv, TypesOK, MarketTyped, Symbols
<1>2. TypesOK'
  <2>1. positions' \in [DOMAIN positions' -> Holdings]
    BY <1>1
  <2>2. Cardinality(DOMAIN positions') = 0
    BY <1>1, FS_EmptySet
  <2>. QED  BY <1>1, <2>1, <2>2, Config, EmptySeq DEF TypesOK
<1>3. Ledger(<<>>, 0) /\ Value(PairUp(<<>>)) = 0
  <2>1. <<>> \in Seq(Trades) /\ Len(<<>>) = 0
    BY EmptySeq
  <2>2. PairUp(<<>>) = NoTrades
    BY <2>1, PairUpIs
  <2>3. Alternates(<<>>)
    BY DEF Alternates
  <2>4. Gains(<<>>) = <<>>
    BY DEF Gains
  <2>5. Total(<<>>) = 0
    <3>1. <<>> \in Seq(Int) /\ 0 \in Int
      BY EmptySeq
    <3>. QED  BY <3>1, TotalIs
  <2>. QED  BY <2>1, <2>2, <2>3, <2>4, <2>5 DEF Ledger, NoTrades, Value
<1>4. \A s : Lot(s)' = 0
  BY <1>1 DEF Lot
<1>5. TradesOK'
  BY <1>1, <1>3, <1>4 DEF TradesOK
<1>6. CashOK'
  <2>1. [s \in DOMAIN trades' |-> Value(PairUp(trades'[s]))] = [s \in Symbols |-> 0]
    BY <1>1, <1>3
  <2>2. SumFunction([s \in Symbols |-> 0]) = 0
    BY <1>1, SumOfZeros
  <2>. QED  BY <1>1, <2>1, <2>2 DEF CashOK
<1>7. SurvivorsAboveStop'
  BY <1>1 DEF SurvivorsAboveStop
<1>. QED  BY <1>1, <1>2, <1>5, <1>6, <1>7 DEF EngineInv

-----------------------------------------------------------------------------
(***************************************************************************)
(* The lab around the engine: its runs start on the loaded data, and its   *)
(* rows hold the growth of a run.                                          *)
(***************************************************************************)
Rows == [strategy : Tasks, error : BOOLEAN, cagr : Nat]
LabOK ==
  /\ phase \in {"load", "plan", "evaluate", "report", "done", "failed"}
  /\ tasks \in Seq(Tasks) /\ rows \in Seq(Rows)
  /\ phase = "load" => DOMAIN trades = {} /\ DOMAIN positions = {}
  /\ phase \in {"load", "plan"} => running = Nothing
  /\ phase = "evaluate" => running \in Tasks
  /\ running # Nothing => DOMAIN trades = Symbols

LabInv == EngineInv /\ LabOK

LEMMA NothingIs == Nothing \in Tasks
<1>1. Nothing \in [{"id"} -> Words \cup Int] /\ {"id"} \in SUBSET Words
  BY DEF Nothing, Words
<1>. QED  BY <1>1 DEF Tasks

LEMMA GrowthIs ==
  ASSUME EngineInv
  PROVE  Summary.cagr \in Nat
<1>1. equity \in Seq(Nat)
  BY DEF EngineInv, TypesOK
<1>2. Len(equity) \in Nat /\ \A i \in 1 .. Len(equity) : equity[i] \in Nat
  BY <1>1, LenProperties
<1>3. CASE Len(equity) < 2 \/ equity[1] <= 0
  BY <1>3 DEF Summary, Growth
<1>4. CASE ~(Len(equity) < 2 \/ equity[1] <= 0)
  <2>. DEFINE a == equity[Len(equity)]
              b == equity[1]
  <2>1. a \in Nat /\ b \in Nat \ {0}
    BY <1>2, <1>4
  <2>2. Summary.cagr = (a * 10000) \div b
    BY <1>4 DEF Summary, Growth, PartOf
  <2>. HIDE DEF a, b
  <2>3. a * 10000 \in Nat
    BY <2>1
  <2>. QED  BY <2>1, <2>2, <2>3, Quotient
<1>. QED  BY <1>3, <1>4

LEMMA LabStarts == LabInit => LabInv
<1>. SUFFICES ASSUME LabInit PROVE LabInv
  OBVIOUS
<1>1. /\ ohlcv = <<>> /\ Symbols = {} /\ DOMAIN positions = {} /\ positions = <<>>
      /\ DOMAIN trades = {} /\ trades = [s \in {} |-> <<>>]
      /\ day = 0 /\ equity = <<>> /\ cash = Money(InitialCapital)
  BY DEF LabInit, Symbols
<1>2. Money(InitialCapital) \in Nat
  BY Config, MoneyIs
<1>3. TypesOK
  <2>1. positions \in [DOMAIN positions -> Holdings]
    BY <1>1
  <2>2. Cardinality(DOMAIN positions) = 0
    BY <1>1, FS_EmptySet
  <2>3. MarketTyped
    BY <1>1, EmptySeq DEF MarketTyped
  <2>. QED  BY <1>1, <1>2, <2>1, <2>2, <2>3, Config, EmptySeq DEF TypesOK
<1>4. TradesOK
  BY <1>1 DEF TradesOK
<1>5. CashOK
  <2>1. IsFiniteSet({}) /\ [s \in DOMAIN trades |-> Value(PairUp(trades[s]))] = [s \in {} |-> 0]
    BY <1>1, FS_EmptySet
  <2>2. SumFunction([s \in {} |-> 0]) = 0
    BY <2>1, SumOfZeros
  <2>. QED  BY <1>1, <1>2, <2>1, <2>2 DEF CashOK
<1>6. SurvivorsAboveStop
  BY <1>1 DEF SurvivorsAboveStop
<1>7. LabOK
  BY <1>1, EmptySeq DEF LabInit, LabOK
<1>. QED  BY <1>3, <1>4, <1>5, <1>6, <1>7 DEF LabInv, EngineInv

LEMMA EngineUnchanged ==
  ASSUME EngineInv, UNCHANGED vars
  PROVE  EngineInv'
<1>1. /\ ohlcv' = ohlcv /\ day' = day /\ cash' = cash /\ positions' = positions
      /\ trades' = trades /\ equity' = equity
  BY DEF vars, portfolio
<1>2. TypesOK'
  BY <1>1 DEF EngineInv, TypesOK, MarketTyped, Symbols
<1>3. TradesOK'
  BY <1>1 DEF EngineInv, TradesOK, Symbols, Lot
<1>4. CashOK'
  BY <1>1 DEF EngineInv, CashOK
<1>5. SurvivorsAboveStop'
  BY <1>1 DEF EngineInv, SurvivorsAboveStop, HasBar, Bar, RowOf, SelectInSeq
<1>. QED  BY <1>2, <1>3, <1>4, <1>5 DEF EngineInv

LEMMA Removed ==
  ASSUME NEW A, NEW q \in Seq(A), NEW i \in DOMAIN q
  PROVE  RemoveAt(q, i) \in Seq(A) /\ q[i] \in A
<1>1. DOMAIN q = 1 .. Len(q) /\ Len(q) \in Nat /\ i \in 1 .. Len(q)
      /\ \A j \in 1 .. Len(q) : q[j] \in A
  BY LenProperties
<1>2. SubSeq(q, 1, i - 1) \in Seq(A)
  <2>1. \A j \in 1 .. i - 1 : q[j] \in A
    BY <1>1
  <2>2. i - 1 \in Int
    BY <1>1
  <2>. QED  BY <2>1, <2>2, SubSeqProperties
<1>3. SubSeq(q, i + 1, Len(q)) \in Seq(A)
  <2>1. \A j \in i + 1 .. Len(q) : q[j] \in A
    BY <1>1
  <2>2. i + 1 \in Int /\ Len(q) \in Int
    BY <1>1
  <2>. QED  BY <2>1, <2>2, SubSeqProperties
<1>. QED  BY <1>1, <1>2, <1>3, ConcatProperties DEF RemoveAt

LEMMA LoadKeeps ==
  ASSUME LabInv, Load
  PROVE  LabInv'
<1>1. PICK lake \in Markets, strict \in BOOLEAN :
        LET loaded == [i \in DOMAIN lake |-> Usable(lake[i])]
            kept   == NotEmpty(loaded)
            enough == kept # <<>> /\ (strict => kept = loaded)
        IN  /\ ohlcv' = IF enough THEN kept ELSE <<>>
            /\ phase' = IF enough THEN "plan" ELSE "failed"
  BY DEF Load
<1>2. /\ day' = day /\ cash' = cash /\ positions' = positions /\ trades' = trades
      /\ equity' = equity /\ tasks' = tasks /\ rows' = rows /\ running' = running
      /\ phase = "load"
  BY DEF Load, portfolio
<1>3. DOMAIN positions = {} /\ DOMAIN trades = {} /\ running = Nothing
  BY <1>2 DEF LabInv, LabOK
<1>4. ohlcv' \in Seq(Seq(Bars)) /\ phase' \in {"plan", "failed"}
  BY <1>1, LoadedIs, EmptySeq
<1>5. TypesOK'
  BY <1>2, <1>3, <1>4 DEF LabInv, EngineInv, TypesOK, MarketTyped
<1>6. TradesOK' /\ SurvivorsAboveStop'
  BY <1>2, <1>3 DEF LabInv, EngineInv, TradesOK, SurvivorsAboveStop
<1>7. CashOK'
  BY <1>2 DEF LabInv, EngineInv, CashOK
<1>8. LabOK'
  BY <1>2, <1>3, <1>4 DEF LabInv, LabOK
<1>. QED  BY <1>5, <1>6, <1>7, <1>8 DEF LabInv, EngineInv

LEMMA PlanKeeps ==
  ASSUME LabInv, Plan
  PROVE  LabInv'
<1>1. PICK ids \in Targets :
        \E n \in IF Budget THEN 0 .. Len(Planned(ids)) ELSE {Len(Planned(ids))} :
          tasks' = SubSeq(Planned(ids), 1, n)
  BY DEF Plan
<1>. DEFINE all == Planned(ids)
<1>2. all \in Seq(Tasks) /\ Len(all) \in Nat /\ \A i \in 1 .. Len(all) : all[i] \in Tasks
  BY PlannedIs, LenProperties
<1>. HIDE DEF all
<1>3. PICK n \in 0 .. Len(all) : tasks' = SubSeq(all, 1, n)
  BY <1>1, <1>2 DEF all
<1>4. SubSeq(all, 1, n) \in Seq(Tasks)
  <2>1. \A i \in 1 .. n : all[i] \in Tasks
    BY <1>2
  <2>2. n \in Int
    BY <1>2
  <2>. QED  BY <2>1, <2>2, SubSeqProperties
<1>5. EngineInv'
  BY EngineUnchanged DEF Plan, LabInv
<1>6. LabOK'
  BY <1>3, <1>4, NothingIs DEF Plan, LabInv, LabOK, vars, portfolio
<1>. QED  BY <1>5, <1>6 DEF LabInv

LEMMA TaskKeeps ==
  ASSUME LabInv, NEW i \in DOMAIN tasks, StartTask(i) \/ RejectTask(i)
  PROVE  LabInv'
<1>1. tasks \in Seq(Tasks) /\ rows \in Seq(Rows) /\ EngineInv
  BY DEF LabInv, LabOK
<1>2. RemoveAt(tasks, i) \in Seq(Tasks) /\ tasks[i] \in Tasks
  BY <1>1, Removed
<1>3. CASE StartTask(i)
  <2>1. EngineInv' /\ DOMAIN trades' = Symbols'
    BY <1>1, <1>3, StartKeeps DEF StartTask
  <2>2. LabOK'
    BY <1>1, <1>2, <1>3, <2>1 DEF StartTask, Idle, LabOK
  <2>. QED  BY <2>1, <2>2 DEF LabInv
<1>4. CASE RejectTask(i)
  <2>1. EngineInv'
    BY <1>1, <1>4, EngineUnchanged DEF RejectTask
  <2>. DEFINE row == [strategy |-> tasks[i], error |-> TRUE, cagr |-> 0]
  <2>2. row \in Rows
    BY <1>2 DEF Rows
  <2>3. Append(rows, row) \in Seq(Rows)
    <3>. HIDE DEF row
    <3>. QED  BY <1>1, <2>2, AppendProperties
  <2>4. LabOK'
    BY <1>2, <1>4, <2>3 DEF RejectTask, Idle, LabInv, LabOK, vars, portfolio, Symbols
  <2>. QED  BY <2>1, <2>4 DEF LabInv
<1>. QED  BY <1>3, <1>4

LEMMA FinishKeeps ==
  ASSUME LabInv, FinishTask
  PROVE  LabInv'
<1>1. rows \in Seq(Rows) /\ EngineInv /\ running \in Tasks
  BY DEF LabInv, LabOK, FinishTask
<1>2. EngineInv'
  BY <1>1, EngineUnchanged DEF FinishTask
<1>. DEFINE row == [strategy |-> running, error |-> FALSE, cagr |-> Summary.cagr]
<1>3. row \in Rows
  <2>1. Summary.cagr \in Nat
    BY <1>1, GrowthIs
  <2>. QED  BY <1>1, <2>1 DEF Rows
<1>4. rows' = Append(rows, row) /\ rows' \in Seq(Rows)
  <2>1. rows' = Append(rows, row)
    BY DEF FinishTask
  <2>. HIDE DEF row
  <2>. QED  BY <1>1, <1>3, <2>1, AppendProperties
<1>. HIDE DEF row
<1>5. LabOK'
  BY <1>4, NothingIs DEF FinishTask, LabInv, LabOK, vars, portfolio, Symbols
<1>. QED  BY <1>2, <1>5 DEF LabInv

LEMMA PoolKeeps ==
  ASSUME LabInv, PoolBreaks
  PROVE  LabInv'
<1>1. rows \in Seq(Rows) /\ EngineInv /\ tasks \in Seq(Tasks)
  BY DEF LabInv, LabOK
<1>2. EngineInv'
  BY <1>1, EngineUnchanged DEF PoolBreaks
<1>. DEFINE row == [strategy |-> Nothing, error |-> TRUE, cagr |-> 0]
            lost == [j \in 1 .. Len(tasks) + 1 |-> row]
<1>3. row \in Rows
  BY NothingIs DEF Rows
<1>4. lost \in Seq(Rows)
  <2>1. Len(tasks) + 1 \in Nat
    BY <1>1, LenProperties
  <2>. HIDE DEF row
  <2>2. lost \in [1 .. Len(tasks) + 1 -> Rows]
    BY <1>3
  <2>. HIDE DEF lost
  <2>. QED  BY <2>1, <2>2, SeqDef
<1>5. rows' = rows \o lost
  BY DEF PoolBreaks
<1>. HIDE DEF lost
<1>6. rows' \in Seq(Rows)
  BY <1>1, <1>4, <1>5, ConcatProperties
<1>7. LabOK'
  BY <1>6, NothingIs, EmptySeq DEF PoolBreaks, LabInv, LabOK, vars, portfolio, Symbols
<1>. QED  BY <1>2, <1>7 DEF LabInv

LEMMA LabSteps == LabInv /\ [LabNext]_allVars => LabInv'
<1>. SUFFICES ASSUME LabInv, [LabNext]_allVars PROVE LabInv'
  OBVIOUS
<1>0. EngineInv /\ LabOK
  BY DEF LabInv
<1>1. CASE Load
  BY <1>1, LoadKeeps
<1>2. CASE Plan
  BY <1>2, PlanKeeps
<1>3. CASE RunDay
  <2>1. EngineInv' /\ DOMAIN trades' = Symbols'
    BY <1>0, <1>3, DayKeeps DEF RunDay, LabOK
  <2>2. LabOK'
    BY <1>0, <1>3, <2>1 DEF RunDay, LabOK, labVars
  <2>. QED  BY <2>1, <2>2 DEF LabInv
<1>4. CASE FinishTask
  BY <1>4, FinishKeeps
<1>5. CASE PoolBreaks
  BY <1>5, PoolKeeps
<1>6. CASE BudgetSpent
  <2>1. EngineInv'
    BY <1>0, <1>6, EngineUnchanged DEF BudgetSpent
  <2>2. LabOK'
    BY <1>0, <1>6, EmptySeq DEF BudgetSpent, LabOK, vars, portfolio, Symbols
  <2>. QED  BY <2>1, <2>2 DEF LabInv
<1>7. CASE PickBest
  <2>1. EngineInv' /\ DOMAIN trades' = Symbols'
    BY <1>0, <1>7, StartKeeps DEF PickBest
  <2>2. LabOK'
    BY <1>0, <1>7, <2>1 DEF PickBest, LabOK
  <2>. QED  BY <2>1, <2>2 DEF LabInv
<1>8. CASE WriteReport
  <2>1. EngineInv'
    BY <1>0, <1>8, EngineUnchanged DEF WriteReport
  <2>2. LabOK'
    BY <1>0, <1>8 DEF WriteReport, LabOK, vars, portfolio, Symbols
  <2>. QED  BY <2>1, <2>2 DEF LabInv
<1>9. CASE UNCHANGED allVars
  <2>1. EngineInv'
    BY <1>0, <1>9, EngineUnchanged DEF allVars
  <2>2. LabOK'
    BY <1>0, <1>9 DEF allVars, vars, labVars, portfolio, LabOK, Symbols
  <2>. QED  BY <2>1, <2>2 DEF LabInv
<1>10. CASE \E i \in DOMAIN tasks : StartTask(i) \/ RejectTask(i)
  BY <1>10, TaskKeeps
<1>. QED  BY <1>1, <1>2, <1>3, <1>4, <1>5, <1>6, <1>7, <1>8, <1>9, <1>10 DEF LabNext, Ended

LEMMA LabInvariant == LabSpec => []LabInv
BY LabStarts, LabSteps, PTL DEF LabSpec

LEMMA RowsTyped ==
  ASSUME LabOK
  PROVE  \A i \in DOMAIN rows : rows[i].error \in BOOLEAN /\ rows[i].cagr \in Nat
<1>1. \A i \in DOMAIN rows : rows[i] \in Rows
  BY LenProperties DEF LabOK
<1>. QED  BY <1>1 DEF Rows

\* The types of the engine and of the lab: the book of a run never borrows, is
\* never larger than its limit and holds no empty position, the trades of every
\* symbol take turns (backtest_engine.py), and the rows of the ranking are numbers.
THEOREM LabTypesHold == LabSpec => []LabTypeOK
<1>1. LabInv => LabTypeOK
  <2>1. LabInv => PortfolioOK
    BY EngineIsSound DEF LabInv
  <2>2. LabInv => \A i \in DOMAIN rows : rows[i].error \in BOOLEAN /\ rows[i].cagr \in Nat
    BY RowsTyped DEF LabInv
  <2>. QED  BY <2>1, <2>2 DEF LabInv, LabOK, LabTypeOK
<1>. QED  BY <1>1, LabInvariant, PTL

\* The history that metrics.py rebuilds from the trade log alone explains every
\* unit of the cash that the engine keeps, and holds what the portfolio holds.
THEOREM HistoryExplainsCash == LabSpec => []RoundsExplainCash
<1>1. LabInv => RoundsExplainCash
  BY EngineIsSound DEF LabInv
<1>. QED  BY <1>1, LabInvariant, PTL

\* Whoever is held over a day of trading never was at or below the stop in force
\* on that day (_process_stop_exits, _update_highs).
THEOREM NoStopMissed == LabSpec => []SurvivorsAboveStop
<1>1. LabInv => SurvivorsAboveStop
  BY EngineIsSound DEF LabInv
<1>. QED  BY <1>1, LabInvariant, PTL

-----------------------------------------------------------------------------
(***************************************************************************)
(* A run of the engine, for any data o and strategy st, on books           *)
(* [day, cash, positions, equity]: the day of the model with what it reads *)
(* named, so that runs at different times can be compared.                 *)
(***************************************************************************)
RowIn(o, s, d) == SelectInSeq(o[s], LAMBDA b: b.day = d)
HasIn(o, s, d) == RowIn(o, s, d) # 0
BarIn(o, s, d) == o[s][RowIn(o, s, d)]
DaysOf(o) == UNION {{o[s][i].day : i \in DOMAIN o[s]} : s \in DOMAIN o}
EveIn(o, d) == Max({c \in DaysOf(o) : c < d})
RunDays(o) ==
  {d \in DaysOf(o) : Cardinality({c \in DaysOf(o) : c < d})
                       >= Max({1, Min({MinBars, Cardinality(DaysOf(o)) - 1})})}
SignalIn(o, st, s, d) == Signal(st, SubSeq(o[s], 1, RowIn(o, s, d)), RowIn(o, s, d))

ExitIn(o, st, held, s, d) ==
  IF s \notin DOMAIN held THEN <<>>
  ELSE IF HasIn(o, s, d) /\ Money(Lowest(BarIn(o, s, d))) <= EffectiveStop(held[s], BarIn(o, s, d))
       THEN <<Sell(d, StopPrice(held[s], BarIn(o, s, d)), held[s].quantity)>>
  ELSE IF /\ HasIn(o, s, EveIn(o, d)) /\ SignalIn(o, st, s, EveIn(o, d)).exit
          /\ HasIn(o, s, d) /\ BarIn(o, s, d).open > 0
       THEN <<Sell(d, Money(BarIn(o, s, d).open), held[s].quantity)>>
  ELSE <<>>
MorningIn(o, st, x, d) ==
  [cash |-> x.cash + SumFunction([s \in DOMAIN o |-> Received(ExitIn(o, st, x.positions, s, d))]),
   held |-> {s \in DOMAIN x.positions : s \in DOMAIN o /\ ExitIn(o, st, x.positions, s, d) = <<>>},
   bought |-> [s \in DOMAIN o |-> <<>>]]

CandidatesIn(o, st, held, d) ==
  {s \in DOMAIN o \ held : HasIn(o, s, EveIn(o, d)) /\ SignalIn(o, st, s, EveIn(o, d)).entry}
PrecedesIn(o, st, s, t, d) ==
  LET p == SignalIn(o, st, s, EveIn(o, d)).score
      q == SignalIn(o, st, t, EveIn(o, d)).score
  IN  ~(p < q) /\ (p > q \/ s < t)
SortingsIn(o, st, S, d) ==
  {order \in SetToSeqs(S) :
     \A i, j \in DOMAIN order : i < j => PrecedesIn(o, st, order[i], order[j], d)}

OfferIn(o, book, s, d) ==
  BuyAtOpen(d, BarIn(o, s, d).open, Min({Money(Allocation), book.cash - book.cash \div 1000}))
EnterIn(o, book, s, d) ==
  LET t == OfferIn(o, book, s, d)
  IN  IF /\ Cardinality(book.held) < MaxPositions /\ s \notin book.held
         /\ HasIn(o, s, d) /\ t.quantity > 0 /\ Gross(t) + t.fees <= book.cash
      THEN Bought(book, s, t) ELSE book
EntriesIn(o, start, order, d) == FoldLeft(LAMBDA book, s: EnterIn(o, book, s, d), start, order)

EveningIn(o, x, book, d) ==
  [s \in book.held |->
     IF book.bought[s] # <<>> THEN Opened(book.bought[s][1], BarIn(o, s, d))
     ELSE IF HasIn(o, s, d)
          THEN [x.positions[s] EXCEPT !.highest = Max({@, Money(BarIn(o, s, d).high)})]
          ELSE x.positions[s]]
WorthIn(o, held, d) ==
  SumFunction([s \in DOMAIN held |->
    held[s].quantity * Money(o[s][Max({i \in DOMAIN o[s] : o[s][i].day <= d})].close)])

\* The books after a day on which the candidates were taken in some order.
AfterDay(o, x, d, book) ==
  LET held == EveningIn(o, x, book, d)
  IN  [day |-> d, cash |-> book.cash, positions |-> held,
       equity |-> Append(x.equity, book.cash + WorthIn(o, held, d))]
DayIn(o, st, x, d, y) ==
  LET start == MorningIn(o, st, x, d)
  IN  \E order \in SortingsIn(o, st, CandidatesIn(o, st, start.held, d), d) :
        y = AfterDay(o, x, d, EntriesIn(o, start, order, d))

Account == [day |-> day, cash |-> cash, positions |-> positions, equity |-> equity]

LEMMA SameRows ==
  \A s, d : /\ RowIn(ohlcv, s, d) = RowOf(s, d) /\ HasIn(ohlcv, s, d) = HasBar(s, d)
            /\ BarIn(ohlcv, s, d) = Bar(s, d)
BY DEF RowIn, HasIn, BarIn, RowOf, HasBar, Bar

LEMMA SameDays ==
  /\ DaysOf(ohlcv) = Calendar /\ RunDays(ohlcv) = DaysToRun
  /\ \A d : EveIn(ohlcv, d) = Before(d)
BY DEF DaysOf, RunDays, EveIn, Calendar, Symbols, DaysToRun, FirstIndex, Before

LEMMA SameSignals ==
  \A s, d : SignalIn(ohlcv, strategy, s, d) = SignalAt(s, d)
BY DEF SignalIn, SignalAt, RowIn, RowOf

LEMMA SameExits ==
  \A s, d : ExitIn(ohlcv, strategy, positions, s, d) = ExitTrade(s, d)
BY SameRows, SameDays, SameSignals DEF ExitIn, ExitTrade, Stopped, ExitSignalled

LEMMA SameOrders ==
  ASSUME NEW held, NEW d
  PROVE  /\ CandidatesIn(ohlcv, strategy, held, d) = Candidates(held, d)
         /\ \A S : SortingsIn(ohlcv, strategy, S, d) = Sortings(S, d)
<1>1. \A s : HasIn(ohlcv, s, EveIn(ohlcv, d)) = HasBar(s, Before(d))
             /\ SignalIn(ohlcv, strategy, s, EveIn(ohlcv, d)) = SignalAt(s, Before(d))
  BY SameRows, SameDays, SameSignals
<1>2. CandidatesIn(ohlcv, strategy, held, d) = Candidates(held, d)
  BY <1>1 DEF CandidatesIn, Candidates, Symbols
<1>3. \A s, t : PrecedesIn(ohlcv, strategy, s, t, d) = Precedes(s, t, d)
  BY <1>1 DEF PrecedesIn, Precedes
<1>4. \A S : SortingsIn(ohlcv, strategy, S, d) = Sortings(S, d)
  BY <1>3 DEF SortingsIn, Sortings
<1>. QED  BY <1>2, <1>4

LEMMA SameEntries ==
  \A start, order, d : EntriesIn(ohlcv, start, order, d) = Entries(start, order, d)
BY DEF EntriesIn, EnterIn, OfferIn, HasIn, BarIn, RowIn, Entries, Enter, Offer, HasBar, Bar, RowOf

LEMMA SameWorth ==
  \A held, d : WorthIn(ohlcv, held, d) = MarketValue(held, d)
BY DEF WorthIn, MarketValue, LastClose

\* A trading day of the model is a day of the engine on its books.
LEMMA DayOfEngine ==
  ASSUME TypesOK, NEW d, TradingDay(d)
  PROVE  DayIn(ohlcv, strategy, Account, d, Account')
<1>. DEFINE start == MorningIn(ohlcv, strategy, Account, d)
            sold  == [s \in Symbols |-> ExitTrade(s, d)]
<1>1. start = [cash |-> cash + SumFunction([s \in Symbols |-> Received(sold[s])]),
               held |-> {s \in DOMAIN positions : sold[s] = <<>>},
               bought |-> [s \in Symbols |-> <<>>]]
  <2>1. [s \in Symbols |-> Received(sold[s])]
          = [s \in DOMAIN ohlcv |-> Received(ExitIn(ohlcv, strategy, positions, s, d))]
    BY SameExits DEF Symbols
  <2>2. {s \in DOMAIN positions : sold[s] = <<>>}
          = {s \in DOMAIN positions : s \in DOMAIN ohlcv /\ ExitIn(ohlcv, strategy, positions, s, d) = <<>>}
    BY SameExits DEF Symbols, TypesOK
  <2>3. Account.cash = cash /\ Account.positions = positions
    BY DEF Account
  <2>. HIDE DEF sold
  <2>. QED  BY <2>1, <2>2, <2>3 DEF MorningIn, Symbols
<1>. HIDE DEF start
<1>2. PICK order \in Sortings(Candidates(start.held, d), d) :
        LET book == Entries(start, order, d)
        IN  /\ day' = d /\ cash' = book.cash
            /\ positions' = [s \in book.held |->
                               IF book.bought[s] # <<>>
                               THEN Opened(book.bought[s][1], Bar(s, d))
                               ELSE Raised(positions[s], s, d)]
            /\ equity' = Append(equity, book.cash + MarketValue(positions', d))
  BY <1>1 DEF TradingDay
<1>. DEFINE book == Entries(start, order, d)
<1>3. /\ order \in SortingsIn(ohlcv, strategy, CandidatesIn(ohlcv, strategy, start.held, d), d)
      /\ EntriesIn(ohlcv, start, order, d) = book
  BY <1>2, SameOrders, SameEntries
<1>4. /\ day' = d /\ cash' = book.cash
      /\ positions' = [s \in book.held |->
                               IF book.bought[s] # <<>>
                               THEN Opened(book.bought[s][1], Bar(s, d))
                               ELSE Raised(positions[s], s, d)]
      /\ equity' = Append(equity, book.cash + MarketValue(positions', d))
  BY <1>2
<1>. HIDE DEF book
<1>5. positions' = EveningIn(ohlcv, Account, book, d)
  BY <1>4, SameRows DEF EveningIn, Raised, Account
<1>6. equity' = Append(equity, book.cash + WorthIn(ohlcv, positions', d))
  BY <1>4, SameWorth
<1>7. Account' = AfterDay(ohlcv, Account, d, book)
  BY <1>4, <1>5, <1>6 DEF AfterDay, Account
<1>. QED  BY <1>3, <1>7 DEF DayIn, start

\* The candidates of a day have one order: the scores, then the order of loading.
LEMMA OneOrder ==
  ASSUME NEW o, DOMAIN o \subseteq Nat, NEW st, NEW d, NEW S \in SUBSET DOMAIN o, IsFiniteSet(S),
         NEW a \in SortingsIn(o, st, S, d), NEW b \in SortingsIn(o, st, S, d)
  PROVE  a = b
<1>. DEFINE n == Cardinality(S)
            D == 1 .. n
            T == {i \in D : a[i] # b[i]}
<1>1. n \in Nat /\ IsFiniteSet(D) /\ Cardinality(D) = n
  BY FS_CardinalityType, FS_Interval
<1>2. /\ a \in [D -> S] /\ \A i, j \in D : i # j => a[i] # a[j]
      /\ b \in [D -> S] /\ \A i, j \in D : i # j => b[i] # b[j]
      /\ \A i, j \in D : i < j => PrecedesIn(o, st, a[i], a[j], d)
      /\ \A i, j \in D : i < j => PrecedesIn(o, st, b[i], b[j], d)
  BY DEF SortingsIn, SetToSeqs
<1>3. \A s, t \in S : ~(PrecedesIn(o, st, s, t, d) /\ PrecedesIn(o, st, t, s, d))
  <2>. SUFFICES ASSUME NEW s \in S, NEW t \in S,
                       PrecedesIn(o, st, s, t, d), PrecedesIn(o, st, t, s, d)
                PROVE  FALSE
    OBVIOUS
  <2>. DEFINE p == SignalIn(o, st, s, EveIn(o, d)).score
              q == SignalIn(o, st, t, EveIn(o, d)).score
  <2>1. ~(p < q) /\ ~(q < p) /\ (p > q \/ s < t) /\ (q > p \/ t < s)
    BY DEF PrecedesIn
  <2>2. s \in Nat /\ t \in Nat
    OBVIOUS
  <2>. HIDE DEF p, q
  <2>. QED  BY <2>1, <2>2
<1>4. /\ \A t \in S : \E i \in D : a[i] = t
      /\ \A t \in S : \E i \in D : b[i] = t
  <2>1. a \in Injection(D, S) /\ b \in Injection(D, S)
    BY <1>2 DEF Injection, IsInjective
  <2>. HIDE DEF n, D
  <2>2. a \in Surjection(D, S)
    BY <1>1, <2>1, FS_Injection DEF n
  <2>3. b \in Surjection(D, S)
    BY <1>1, <2>1, FS_Injection DEF n
  <2>. QED  BY <2>2, <2>3 DEF Surjection
<1>. HIDE DEF n
<1>5. ASSUME T # {} PROVE FALSE
  <2>1. PICK i \in T : \A j \in T : i <= j
    <3>1. T \in SUBSET Nat
      BY <1>1
    <3>. HIDE DEF T
    <3>. QED  BY <1>5, <3>1, LeastNat
  <2>2. i \in D /\ i \in Nat /\ a[i] # b[i] /\ a[i] \in S /\ b[i] \in S
    BY <1>1, <1>2, <2>1
  <2>3. \A j \in D : j < i => a[j] = b[j]
    BY <1>1, <2>1, <2>2
  <2>4. PICK j \in D : a[j] = b[i]
    BY <1>4, <2>2
  <2>5. PICK k \in D : b[k] = a[i]
    BY <1>4, <2>2
  <2>6. j > i /\ k > i
    BY <1>1, <1>2, <2>2, <2>3, <2>4, <2>5
  <2>7. PrecedesIn(o, st, a[i], b[i], d)
    BY <1>2, <2>2, <2>4, <2>6
  <2>8. PrecedesIn(o, st, b[i], a[i], d)
    BY <1>2, <2>2, <2>5, <2>6
  <2>. QED  BY <1>3, <2>2, <2>7, <2>8
<1>6. \A i \in D : a[i] = b[i]
  BY <1>5
<1>7. a \in [D -> S] /\ b \in [D -> S]
  BY <1>2
<1>. HIDE DEF D
<1>. QED  BY <1>6, <1>7

\* So the engine has one evening for a morning.
Data(o) == DOMAIN o \subseteq Nat /\ IsFiniteSet(DOMAIN o)

LEMMA OneEvening ==
  ASSUME NEW o, Data(o), NEW st, NEW x, NEW d, NEW y, NEW z,
         DayIn(o, st, x, d, y), DayIn(o, st, x, d, z)
  PROVE  y = z
<1>. DEFINE start == MorningIn(o, st, x, d)
            S == CandidatesIn(o, st, start.held, d)
<1>1. S \in SUBSET DOMAIN o /\ IsFiniteSet(S)
  BY FS_Subset DEF CandidatesIn, Data
<1>2. PICK a \in SortingsIn(o, st, S, d) : y = AfterDay(o, x, d, EntriesIn(o, start, a, d))
  BY DEF DayIn
<1>3. PICK b \in SortingsIn(o, st, S, d) : z = AfterDay(o, x, d, EntriesIn(o, start, b, d))
  BY DEF DayIn
<1>. HIDE DEF S, start
<1>4. a = b
  BY <1>1, OneOrder DEF Data
<1>. QED  BY <1>2, <1>3, <1>4

-----------------------------------------------------------------------------
(***************************************************************************)
(* Two runs of a strategy over the same data are the same, day for day.    *)
(***************************************************************************)
Fresh == [day |-> 0, cash |-> Money(InitialCapital), positions |-> <<>>, equity |-> <<>>]
DaysLeft(o, x) == {d \in RunDays(o) : d > x.day}
Follows(o, st, x, y) == DaysLeft(o, x) # {} /\ DayIn(o, st, x, Min(DaysLeft(o, x)), y)
IsRun(o, st, run, n) ==
  run[0] = Fresh /\ \A i \in 0 .. n - 1 : Follows(o, st, run[i], run[i + 1])
Reaches(o, st, x) == \E n \in Nat : \E run : IsRun(o, st, run, n) /\ run[n] = x
EndsAt(o, st, x) == Reaches(o, st, x) /\ DaysLeft(o, x) = {}

LEMMA RunStarts ==
  ASSUME NEW o, NEW st
  PROVE  Reaches(o, st, Fresh)
<1>. DEFINE run == [i \in 0 .. 0 |-> Fresh]
<1>1. IsRun(o, st, run, 0) /\ run[0] = Fresh
  BY DEF IsRun
<1>. QED  BY <1>1 DEF Reaches

LEMMA RunGoesOn ==
  ASSUME NEW o, NEW st, NEW x, NEW y, Reaches(o, st, x), Follows(o, st, x, y)
  PROVE  Reaches(o, st, y)
<1>0. PICK n \in Nat : \E run : IsRun(o, st, run, n) /\ run[n] = x
  BY DEF Reaches
<1>1. PICK run : IsRun(o, st, run, n) /\ run[n] = x
  BY <1>0
<1>. DEFINE longer == [i \in 0 .. n + 1 |-> IF i = n + 1 THEN y ELSE run[i]]
<1>2. longer[0] = Fresh /\ longer[n + 1] = y /\ \A i \in 0 .. n : longer[i] = run[i]
  BY <1>1 DEF IsRun
<1>. HIDE DEF longer
<1>3. ASSUME NEW i \in 0 .. n PROVE Follows(o, st, longer[i], longer[i + 1])
  <2>1. CASE i = n
    BY <1>1, <1>2, <2>1
  <2>2. CASE i # n
    <3>1. i \in 0 .. n - 1 /\ i + 1 \in 0 .. n
      BY <2>2
    <3>. QED  BY <1>1, <1>2, <3>1 DEF IsRun
  <2>. QED  BY <2>1, <2>2
<1>4. n + 1 \in Nat /\ (n + 1) - 1 = n
  OBVIOUS
<1>5. IsRun(o, st, longer, n + 1)
  BY <1>2, <1>3, <1>4 DEF IsRun
<1>. QED  BY <1>2, <1>4, <1>5 DEF Reaches

LEMMA SameRun ==
  ASSUME NEW o, Data(o), NEW st, NEW x, NEW y, EndsAt(o, st, x), EndsAt(o, st, y)
  PROVE  x = y
<1>0. /\ \E n \in Nat : \E run : IsRun(o, st, run, n) /\ run[n] = x
      /\ \E n \in Nat : \E run : IsRun(o, st, run, n) /\ run[n] = y
  BY DEF EndsAt, Reaches
<1>a. PICK n \in Nat : \E run : IsRun(o, st, run, n) /\ run[n] = x
  BY <1>0
<1>1. PICK a : IsRun(o, st, a, n) /\ a[n] = x
  BY <1>a
<1>b. PICK m \in Nat : \E run : IsRun(o, st, run, m) /\ run[m] = y
  BY <1>0
<1>2. PICK b : IsRun(o, st, b, m) /\ b[m] = y
  BY <1>b
<1>. DEFINE U == {k \in Nat : k <= n /\ k <= m => a[k] = b[k]}
<1>3. 0 \in U
  BY <1>1, <1>2 DEF IsRun
<1>4. ASSUME NEW k \in Nat, k \in U PROVE k + 1 \in U
  <2>. SUFFICES ASSUME k + 1 <= n, k + 1 <= m PROVE a[k + 1] = b[k + 1]
    OBVIOUS
  <2>1. a[k] = b[k]
    BY <1>4
  <2>2. Follows(o, st, a[k], a[k + 1]) /\ Follows(o, st, b[k], b[k + 1])
    <3>1. k \in 0 .. n - 1 /\ k \in 0 .. m - 1
      OBVIOUS
    <3>. QED  BY <1>1, <1>2, <3>1 DEF IsRun
  <2>. QED  BY <2>1, <2>2, OneEvening DEF Follows
<1>5. Nat \subseteq U
  <2>. HIDE DEF U
  <2>. QED  BY <1>3, <1>4, AllNat
<1>6. ~(n < m)
  <2>. SUFFICES ASSUME n < m PROVE FALSE
    OBVIOUS
  <2>1. b[n] = x
    BY <1>1, <1>5
  <2>2. Follows(o, st, b[n], b[n + 1])
    BY <1>2 DEF IsRun
  <2>. QED  BY <2>1, <2>2 DEF Follows, EndsAt
<1>7. ~(m < n)
  <2>. SUFFICES ASSUME m < n PROVE FALSE
    OBVIOUS
  <2>1. a[m] = y
    BY <1>2, <1>5
  <2>2. Follows(o, st, a[m], a[m + 1])
    BY <1>1 DEF IsRun
  <2>. QED  BY <2>1, <2>2 DEF Follows, EndsAt
<1>8. n = m
  BY <1>6, <1>7
<1>. QED  BY <1>1, <1>2, <1>5, <1>8

\* The return of a strategy over the data.
GrowthOf(curve) == IF Len(curve) < 2 \/ curve[1] <= 0 THEN 10000
                   ELSE PartOf(curve[Len(curve)], curve[1])
Yields(o, st, c) == \E x : EndsAt(o, st, x) /\ c = GrowthOf(x.equity)

LEMMA OneReturn ==
  ASSUME NEW o, Data(o), NEW st, NEW b, NEW c, Yields(o, st, b), Yields(o, st, c)
  PROVE  b = c
<1>1. PICK x : EndsAt(o, st, x) /\ b = GrowthOf(x.equity)
  BY DEF Yields
<1>2. PICK y : EndsAt(o, st, y) /\ c = GrowthOf(y.equity)
  BY DEF Yields
<1>3. x = y
  BY <1>1, <1>2, SameRun
<1>. QED  BY <1>1, <1>2, <1>3

-----------------------------------------------------------------------------
(***************************************************************************)
(* The lab: its engine is somewhere on the run of its strategy, each row   *)
(* without an error holds the return of its strategy, and the report that  *)
(* of a best row's.                                                        *)
(***************************************************************************)
OnItsRun ==
  /\ running # Nothing => strategy = running
  /\ phase = "report" => strategy = best
  /\ running # Nothing \/ phase = "report" => Reaches(ohlcv, strategy, Account)
RowsYield ==
  /\ phase = "load" => rows = <<>>
  /\ \A i \in Ok : Yields(ohlcv, rows[i].strategy, rows[i].cagr)
WinnerReported ==
  /\ phase \in {"report", "done"} /\ Ok # {} => \E i \in BestOf(Ok) : best = rows[i].strategy
  /\ phase = "done" => Yields(ohlcv, best, report.cagr)
ReportInv == OnItsRun /\ RowsYield /\ WinnerReported

LEMMA AtStart ==
  ASSUME NEW st, StartRun(st)
  PROVE  strategy' = st /\ Reaches(ohlcv', strategy', Account')
<1>1. strategy' = st /\ Account' = Fresh
  BY DEF StartRun, Account, Fresh
<1>. QED  BY <1>1, RunStarts

LEMMA AtEnd ==
  ASSUME Reaches(ohlcv, strategy, Account), RunEnded, TypesOK
  PROVE  Yields(ohlcv, strategy, Summary.cagr)
<1>1. Account.day = day /\ Account.equity = equity
  BY DEF Account
<1>2. \A d \in RunDays(ohlcv) : d \in Nat /\ d <= day /\ day \in Nat
  <2>1. DaysToRun \in SUBSET Nat
    BY SymbolsAre, FieldsOfBar DEF DaysToRun, Calendar, TypesOK
  <2>. QED  BY <2>1, SameDays DEF RunEnded, TypesOK
<1>3. DaysLeft(ohlcv, Account) = {}
  BY <1>1, <1>2 DEF DaysLeft
<1>4. Summary.cagr = GrowthOf(equity)
  BY DEF Summary, Growth, GrowthOf
<1>. QED  BY <1>1, <1>3, <1>4 DEF Yields, EndsAt

LEMMA AtNextDay ==
  ASSUME Reaches(ohlcv, strategy, Account), NextDay, TypesOK
  PROVE  Reaches(ohlcv', strategy', Account') /\ UNCHANGED <<ohlcv, strategy>>
<1>1. Account.day = day
  BY DEF Account
<1>2. DaysLeft(ohlcv, Account) = {d \in DaysToRun : d > day}
  BY <1>1, SameDays DEF DaysLeft
<1>3. DaysToRun \in SUBSET Nat /\ day \in Nat
  BY SymbolsAre, FieldsOfBar DEF DaysToRun, Calendar, TypesOK
<1>4. DaysLeft(ohlcv, Account) # {}
  BY <1>2, <1>3 DEF NextDay, RunEnded
<1>5. TradingDay(Min(DaysLeft(ohlcv, Account)))
  BY <1>2 DEF NextDay
<1>. DEFINE d == Min(DaysLeft(ohlcv, Account))
<1>6. UNCHANGED <<ohlcv, strategy>>
  <2>. HIDE DEF d
  <2>1. TradingDay(d)
    BY <1>5 DEF d
  <2>. QED  BY <2>1 DEF TradingDay
<1>7. DayIn(ohlcv, strategy, Account, d, Account')
  BY <1>5, DayOfEngine
<1>8. Reaches(ohlcv, strategy, Account')
  BY <1>4, <1>7, RunGoesOn DEF Follows
<1>. QED  BY <1>6, <1>8

\* Rows that were there stay, and those that come with an error count for nothing.
LEMMA NoNewRow ==
  ASSUME NEW more, rows \in Seq(Rows), more \in Seq(Rows), rows' = rows \o more,
         \A i \in DOMAIN more : more[i].error, ohlcv' = ohlcv,
         \A i \in Ok : Yields(ohlcv, rows[i].strategy, rows[i].cagr)
  PROVE  (\A i \in Ok : Yields(ohlcv, rows[i].strategy, rows[i].cagr))'
<1>. SUFFICES ASSUME NEW i \in Ok' PROVE Yields(ohlcv, rows'[i].strategy, rows'[i].cagr)
  OBVIOUS
<1>1. /\ Len(rows) \in Nat /\ Len(more) \in Nat /\ DOMAIN rows = 1 .. Len(rows)
      /\ DOMAIN more = 1 .. Len(more)
      /\ DOMAIN rows' = 1 .. Len(rows) + Len(more)
      /\ \A j \in 1 .. Len(rows) : rows'[j] = rows[j]
      /\ \A j \in Len(rows) + 1 .. Len(rows) + Len(more) : rows'[j] = more[j - Len(rows)]
  BY LenProperties, ConcatProperties
<1>2. i \in 1 .. Len(rows) + Len(more) /\ ~rows'[i].error
  BY <1>1 DEF Ok
<1>3. i \in 1 .. Len(rows)
  <2>. SUFFICES ASSUME i \notin 1 .. Len(rows) PROVE FALSE
    OBVIOUS
  <2>1. i \in Len(rows) + 1 .. Len(rows) + Len(more) /\ i - Len(rows) \in 1 .. Len(more)
    BY <1>1, <1>2
  <2>. QED  BY <1>1, <1>2, <2>1
<1>4. i \in Ok /\ rows'[i] = rows[i]
  BY <1>1, <1>2, <1>3 DEF Ok
<1>. QED  BY <1>4

LEMMA ReportStarts == LabInit => ReportInv
<1>. SUFFICES ASSUME LabInit PROVE ReportInv
  OBVIOUS
<1>1. Ok = {}
  BY DEF LabInit, Ok
<1>. QED  BY <1>1 DEF LabInit, ReportInv, OnItsRun, RowsYield, WinnerReported

LEMMA SameBooks ==
  ASSUME UNCHANGED vars
  PROVE  ohlcv' = ohlcv /\ strategy' = strategy /\ Account' = Account
BY DEF vars, portfolio, Account

\* A ranking depends on the rows alone.
LEMMA SameRanking ==
  ASSUME rows' = rows
  PROVE  Ok' = Ok /\ BestOf(Ok)' = BestOf(Ok)
BY DEF Ok, BestOf

LEMMA ReportSteps == LabInv /\ ReportInv /\ [LabNext]_allVars => ReportInv'
<1>. SUFFICES ASSUME LabInv, ReportInv, [LabNext]_allVars PROVE ReportInv'
  OBVIOUS
<1>0. /\ EngineInv /\ LabOK /\ TypesOK /\ rows \in Seq(Rows)
      /\ OnItsRun /\ RowsYield /\ WinnerReported
  BY DEF LabInv, EngineInv, LabOK, ReportInv
<1>1. CASE Load
  <2>1. rows' = <<>> /\ running' = Nothing /\ phase' \in {"plan", "failed"}
    BY <1>0, <1>1 DEF Load, LabOK, RowsYield
  <2>2. Ok' = {}
    BY <2>1 DEF Ok
  <2>. QED  BY <2>1, <2>2 DEF ReportInv, OnItsRun, RowsYield, WinnerReported
<1>2. CASE Plan
  <2>1. /\ ohlcv' = ohlcv /\ rows' = rows /\ phase = "plan" /\ phase' = "evaluate"
        /\ running' = running /\ running = Nothing
    BY <1>0, <1>2, SameBooks DEF Plan, LabOK
  <2>2. Ok' = Ok
    BY <2>1, SameRanking
  <2>. QED  BY <1>0, <2>1, <2>2 DEF ReportInv, OnItsRun, RowsYield, WinnerReported
<1>3. CASE RunDay
  <2>1. /\ UNCHANGED labVars /\ NextDay /\ running # Nothing
        /\ phase' = phase /\ rows' = rows /\ running' = running /\ best' = best /\ report' = report
    BY <1>3 DEF RunDay, labVars
  <2>2. Reaches(ohlcv', strategy', Account') /\ ohlcv' = ohlcv /\ strategy' = strategy
    BY <1>0, <2>1, AtNextDay DEF OnItsRun
  <2>3. Ok' = Ok /\ BestOf(Ok)' = BestOf(Ok)
    BY <2>1, SameRanking
  <2>4. OnItsRun'
    BY <1>0, <2>1, <2>2 DEF OnItsRun
  <2>5. RowsYield'
    BY <1>0, <2>1, <2>2, <2>3 DEF RowsYield
  <2>6. WinnerReported'
    BY <1>0, <2>1, <2>2, <2>3 DEF WinnerReported
  <2>. QED  BY <2>4, <2>5, <2>6 DEF ReportInv
<1>4. CASE FinishTask
  <2>. DEFINE row == [strategy |-> running, error |-> FALSE, cagr |-> Summary.cagr]
  <2>1. /\ phase = "evaluate" /\ phase' = phase /\ running # Nothing /\ RunEnded
        /\ running' = Nothing /\ ohlcv' = ohlcv /\ rows' = Append(rows, row)
    BY <1>4, SameBooks DEF FinishTask
  <2>2. Yields(ohlcv, running, Summary.cagr)
    BY <1>0, <2>1, AtEnd DEF OnItsRun
  <2>3. row \in Rows /\ row.strategy = running /\ row.cagr = Summary.cagr
    <3>1. running \in Tasks /\ Summary.cagr \in Nat
      BY <1>0, <2>1, GrowthIs DEF LabOK
    <3>. QED  BY <3>1 DEF Rows
  <2>. HIDE DEF row
  <2>4. /\ Len(rows) \in Nat /\ DOMAIN rows = 1 .. Len(rows)
        /\ DOMAIN rows' = 1 .. Len(rows) + 1 /\ rows'[Len(rows) + 1] = row
        /\ \A i \in 1 .. Len(rows) : rows'[i] = rows[i]
    BY <1>0, <2>1, <2>3, AppendProperties, LenProperties
  <2>5. ASSUME NEW i \in Ok' PROVE Yields(ohlcv', rows'[i].strategy, rows'[i].cagr)
    <3>1. i \in 1 .. Len(rows) + 1 /\ ~rows'[i].error
      BY <2>4 DEF Ok
    <3>2. CASE i = Len(rows) + 1
      BY <2>1, <2>2, <2>3, <2>4, <3>2
    <3>3. CASE i # Len(rows) + 1
      <4>1. i \in 1 .. Len(rows)
        BY <2>4, <3>1, <3>3
      <4>2. i \in Ok /\ rows'[i] = rows[i]
        BY <2>4, <3>1, <4>1 DEF Ok
      <4>. QED  BY <1>0, <2>1, <4>2 DEF RowsYield
    <3>. QED  BY <3>2, <3>3
  <2>. QED  BY <2>1, <2>5 DEF ReportInv, OnItsRun, RowsYield, WinnerReported
<1>5. CASE PoolBreaks
  <2>. DEFINE row == [strategy |-> Nothing, error |-> TRUE, cagr |-> 0]
              lost == [j \in 1 .. Len(tasks) + 1 |-> row]
  <2>1. /\ phase = "evaluate" /\ phase' = phase /\ running' = Nothing /\ ohlcv' = ohlcv
        /\ rows' = rows \o lost
    BY <1>5, SameBooks DEF PoolBreaks
  <2>2. row \in Rows /\ row.error
    BY NothingIs DEF Rows
  <2>3. Len(tasks) + 1 \in Nat
    BY <1>0, LenProperties DEF LabOK
  <2>. HIDE DEF row
  <2>4. lost \in [1 .. Len(tasks) + 1 -> Rows] /\ \A i \in DOMAIN lost : lost[i].error
    BY <2>2
  <2>. HIDE DEF lost
  <2>5. lost \in Seq(Rows)
    BY <2>3, <2>4, SeqDef
  <2>6. (\A i \in Ok : Yields(ohlcv, rows[i].strategy, rows[i].cagr))'
    BY <1>0, <2>1, <2>4, <2>5, NoNewRow DEF RowsYield
  <2>. QED  BY <2>1, <2>6 DEF ReportInv, OnItsRun, RowsYield, WinnerReported
<1>6. CASE BudgetSpent
  <2>1. /\ ohlcv' = ohlcv /\ rows' = rows /\ phase = "evaluate" /\ phase' = phase
        /\ running' = running /\ running = Nothing
    BY <1>6, SameBooks DEF BudgetSpent, Idle
  <2>2. Ok' = Ok
    BY <2>1, SameRanking
  <2>. QED  BY <1>0, <2>1, <2>2 DEF ReportInv, OnItsRun, RowsYield, WinnerReported
<1>7. CASE PickBest
  <2>1. PICK st \in IF Ok = {} THEN {GridProduct("ma_volume")[1]} ELSE {Chosen(i) : i \in BestOf(Ok)} :
          best' = st /\ running' = st /\ StartRun(st)
    BY <1>7 DEF PickBest
  <2>2. strategy' = st /\ Reaches(ohlcv', strategy', Account')
    BY <2>1, AtStart
  <2>3. ohlcv' = ohlcv /\ rows' = rows /\ phase' = "report"
    BY <1>7, <2>1 DEF PickBest, StartRun
  <2>4. Ok' = Ok /\ BestOf(Ok)' = BestOf(Ok)
    BY <2>3, SameRanking
  <2>5. OnItsRun'
    BY <2>1, <2>2 DEF OnItsRun
  <2>6. RowsYield'
    BY <1>0, <2>3, <2>4 DEF RowsYield
  <2>7. ASSUME Ok # {} PROVE \E i \in BestOf(Ok) : best' = rows'[i].strategy
    BY <2>1, <2>3, <2>7 DEF Chosen
  <2>8. WinnerReported'
    BY <2>3, <2>4, <2>7 DEF WinnerReported
  <2>. QED  BY <2>5, <2>6, <2>8 DEF ReportInv
<1>8. CASE WriteReport
  <2>1. /\ phase = "report" /\ RunEnded /\ ohlcv' = ohlcv /\ rows' = rows /\ best' = best
        /\ report' = Summary /\ phase' = "done" /\ running' = Nothing
    BY <1>8, SameBooks DEF WriteReport
  <2>2. Yields(ohlcv, strategy, Summary.cagr) /\ strategy = best
    BY <1>0, <2>1, AtEnd DEF OnItsRun
  <2>3. Ok' = Ok /\ BestOf(Ok)' = BestOf(Ok)
    BY <2>1, SameRanking
  <2>4. RowsYield'
    BY <1>0, <2>1, <2>3 DEF RowsYield
  <2>5. Yields(ohlcv', best', report'.cagr)
    BY <2>1, <2>2
  <2>6. WinnerReported'
    BY <1>0, <2>1, <2>3, <2>5 DEF WinnerReported
  <2>. QED  BY <2>1, <2>4, <2>6 DEF ReportInv, OnItsRun
<1>9. CASE UNCHANGED allVars
  <2>1. /\ ohlcv' = ohlcv /\ strategy' = strategy /\ Account' = Account
        /\ phase' = phase /\ rows' = rows /\ running' = running /\ best' = best /\ report' = report
    BY <1>9, SameBooks DEF allVars, labVars
  <2>2. Ok' = Ok /\ BestOf(Ok)' = BestOf(Ok)
    BY <2>1, SameRanking
  <2>3. OnItsRun'
    BY <1>0, <2>1 DEF OnItsRun
  <2>4. RowsYield' /\ WinnerReported'
    BY <1>0, <2>1, <2>2 DEF RowsYield, WinnerReported
  <2>. QED  BY <2>3, <2>4 DEF ReportInv
<1>10. CASE \E i \in DOMAIN tasks : StartTask(i)
  <2>1. PICK i \in DOMAIN tasks : StartTask(i)
    BY <1>10
  <2>2. /\ StartRun(tasks[i]) /\ running' = tasks[i] /\ phase = "evaluate" /\ phase' = phase
        /\ rows' = rows /\ ohlcv' = ohlcv
    BY <2>1 DEF StartTask, Idle, StartRun
  <2>3. strategy' = tasks[i] /\ Reaches(ohlcv', strategy', Account')
    BY <2>2, AtStart
  <2>4. Ok' = Ok
    BY <2>2, SameRanking
  <2>5. OnItsRun'
    BY <2>2, <2>3 DEF OnItsRun
  <2>6. RowsYield' /\ WinnerReported'
    BY <1>0, <2>2, <2>4 DEF RowsYield, WinnerReported
  <2>. QED  BY <2>5, <2>6 DEF ReportInv
<1>11. CASE \E i \in DOMAIN tasks : RejectTask(i)
  <2>1. PICK i \in DOMAIN tasks : RejectTask(i)
    BY <1>11
  <2>. DEFINE row == [strategy |-> tasks[i], error |-> TRUE, cagr |-> 0]
  <2>2. /\ phase = "evaluate" /\ phase' = phase /\ running = Nothing /\ running' = running
        /\ ohlcv' = ohlcv /\ rows' = Append(rows, row)
    BY <2>1, SameBooks DEF RejectTask, Idle
  <2>3. row \in Rows /\ row.error
    <3>1. tasks[i] \in Tasks
      BY <1>0, LenProperties DEF LabOK
    <3>. QED  BY <3>1 DEF Rows
  <2>. HIDE DEF row
  <2>4. <<row>> \in Seq(Rows) /\ rows' = rows \o <<row>> /\ \A j \in DOMAIN <<row>> : <<row>>[j].error
    <3>1. Append(rows, row) = rows \o <<row>>
      BY <1>0, <2>3, AppendIsConcat
    <3>. QED  BY <2>2, <2>3, <3>1
  <2>5. (\A j \in Ok : Yields(ohlcv, rows[j].strategy, rows[j].cagr))'
    BY <1>0, <2>2, <2>4, NoNewRow DEF RowsYield
  <2>. QED  BY <2>2, <2>5 DEF ReportInv, OnItsRun, RowsYield, WinnerReported
<1>. QED
  BY <1>1, <1>2, <1>3, <1>4, <1>5, <1>6, <1>7, <1>8, <1>9, <1>10, <1>11 DEF LabNext, Ended

\* The first of the final ranking is a row that no other beats.
LEMMA FirstIsBest ==
  ASSUME rows \in Seq(Rows), NEW i \in BestOf(Ok)
  PROVE  rows[FinalRanking[1]].cagr = rows[i].cagr
<1>1. /\ Ok \in SUBSET Nat /\ IsFiniteSet(Ok) /\ i \in Ok
      /\ \A j \in Ok : rows[j].cagr \in Nat /\ rows[j].cagr <= rows[i].cagr
  <2>1. DOMAIN rows = 1 .. Len(rows) /\ Len(rows) \in Nat /\ IsFiniteSet(DOMAIN rows)
    BY LenProperties, FS_Interval
  <2>2. Ok \in SUBSET DOMAIN rows
    BY DEF Ok
  <2>3. \A j \in Ok : rows[j] \in Rows
    BY <2>1, <2>2, LenProperties
  <2>4. IsFiniteSet(Ok)
    BY <2>1, <2>2, FS_Subset
  <2>. QED  BY <2>1, <2>2, <2>3, <2>4 DEF BestOf, Rows
<1>2. BestOf(Ok) \in SUBSET Nat /\ BestOf(Ok) # {}
  BY <1>1 DEF BestOf
<1>3. PICK k \in BestOf(Ok) : \A j \in BestOf(Ok) : k <= j
  BY <1>2, LeastNat
<1>4. k \in Ok /\ k \in Nat /\ rows[k].cagr = rows[i].cagr
  BY <1>1, <1>3 DEF BestOf
<1>5. \A j \in Ok : ~Beats(j, k)
  <2>. SUFFICES ASSUME NEW j \in Ok, Beats(j, k) PROVE FALSE
    OBVIOUS
  <2>1. rows[j].cagr = rows[k].cagr /\ j < k
    BY <1>1, <1>4 DEF Beats
  <2>2. j \in BestOf(Ok)
    BY <1>1, <1>4, <2>1 DEF BestOf
  <2>. QED  BY <1>1, <1>3, <1>4, <2>1, <2>2
<1>6. Max({1, TopK}) > 0
  <2>1. TopK \in Int
    BY LabAssumption
  <2>2. \E x \in {1, TopK} : \A y \in {1, TopK} : x >= y
    BY <2>1
  <2>3. Max({1, TopK}) \in {1, TopK} /\ \A y \in {1, TopK} : Max({1, TopK}) >= y
    BY <2>2 DEF Max
  <2>. QED  BY <2>1, <2>3
<1>7. k \in TopPool
  <2>1. {j \in Ok : rows[j].strategy.id = rows[k].strategy.id /\ Beats(j, k)} = {}
    BY <1>5
  <2>2. Cardinality({j \in Ok : rows[j].strategy.id = rows[k].strategy.id /\ Beats(j, k)}) = 0
    BY <2>1, FS_EmptySet
  <2>. QED  BY <1>4, <1>6, <2>2 DEF TopPool
<1>8. TopPool \in SUBSET Ok /\ IsFiniteSet(TopPool)
  BY <1>1, FS_Subset DEF TopPool
<1>. DEFINE Ahead(n) == {j \in TopPool : Beats(j, n)}
<1>9. Cardinality(Ahead(k)) = 0
  BY <1>5, <1>8, FS_EmptySet
<1>10. 1 \in 1 .. Cardinality(TopPool)
  BY <1>7, <1>8, FS_EmptySet, FS_CardinalityType
<1>11. FinalRanking[1] \in TopPool /\ Cardinality(Ahead(FinalRanking[1])) = 0
  <2>1. FinalRanking[1] = CHOOSE n \in TopPool : Cardinality(Ahead(n)) = 1 - 1
    BY <1>10, Zenon DEF FinalRanking
  <2>2. 1 - 1 = 0
    OBVIOUS
  <2>. HIDE DEF Ahead
  <2>3. \E n \in TopPool : Cardinality(Ahead(n)) = 1 - 1
    BY <1>7, <1>9, <2>2
  <2>. QED  BY <2>1, <2>2, <2>3, Zenon
<1>. DEFINE first == FinalRanking[1]
<1>12. IsFiniteSet(Ahead(first)) /\ Ahead(first) = {}
  <2>1. IsFiniteSet(Ahead(first))
    BY <1>8, FS_Subset
  <2>. QED  BY <1>11, <2>1, FS_EmptySet
<1>13. ~Beats(k, first)
  BY <1>7, <1>12
<1>. HIDE DEF first
<1>14. first \in Ok
  BY <1>8, <1>11 DEF first
<1>15. rows[first].cagr = rows[i].cagr
  BY <1>1, <1>4, <1>13, <1>14 DEF Beats
<1>. QED  BY <1>15 DEF first

LEMMA ReportIsRight ==
  ASSUME LabInv, ReportInv
  PROVE  ReportMatchesRanking
<1>. SUFFICES ASSUME phase = "done", Ok # {}
              PROVE  /\ report.cagr = Max({rows[i].cagr : i \in Ok})
                     /\ rows[FinalRanking[1]].cagr = report.cagr
  BY DEF ReportMatchesRanking
<1>1. /\ rows \in Seq(Rows) /\ MarketTyped
      /\ Yields(ohlcv, best, report.cagr)
      /\ \A i \in Ok : Yields(ohlcv, rows[i].strategy, rows[i].cagr)
  BY DEF LabInv, LabOK, EngineInv, TypesOK, ReportInv, RowsYield, WinnerReported
<1>2. PICK i \in BestOf(Ok) : best = rows[i].strategy
  BY DEF ReportInv, WinnerReported
<1>3. Data(ohlcv)
  <2>1. DOMAIN ohlcv = 1 .. Len(ohlcv) /\ Len(ohlcv) \in Nat
    BY <1>1, LenProperties DEF MarketTyped
  <2>. QED  BY <2>1, FS_Interval DEF Data
<1>4. i \in Ok /\ \A j \in Ok : rows[j].cagr <= rows[i].cagr
  BY DEF BestOf
<1>5. report.cagr = rows[i].cagr
  BY <1>1, <1>2, <1>3, <1>4, OneReturn
<1>6. rows[FinalRanking[1]].cagr = report.cagr
  BY <1>1, <1>2, <1>5, FirstIsBest
<1>. DEFINE returns == {rows[j].cagr : j \in Ok}
<1>7. returns \in SUBSET Nat /\ IsFiniteSet(returns) /\ rows[i].cagr \in returns
  <2>1. DOMAIN rows = 1 .. Len(rows) /\ Len(rows) \in Nat
    BY <1>1, LenProperties
  <2>2. Ok \in SUBSET DOMAIN rows
    BY DEF Ok
  <2>3. IsFiniteSet(Ok)
    <3>1. IsFiniteSet(DOMAIN rows)
      BY <2>1, FS_Interval
    <3>. QED  BY <2>2, <3>1, FS_Subset
  <2>4. returns \in SUBSET Nat
    <3>1. \A j \in Ok : rows[j].cagr \in Nat
      BY <1>1, RowsTyped, <2>2 DEF LabInv
    <3>. QED  BY <3>1
  <2>5. IsFiniteSet(returns)
    <3>. DEFINE f == [j \in Ok |-> rows[j].cagr]
    <3>1. f \in Surjection(Ok, returns)
      BY Zenon DEF Surjection
    <3>. HIDE DEF f, returns
    <3>. QED  BY <2>3, <3>1, FS_Surjection
  <2>. QED  BY <1>4, <2>4, <2>5
<1>8. \A c \in returns : c <= rows[i].cagr
  BY <1>4
<1>. HIDE DEF returns
<1>9. Max(returns) \in returns /\ Max(returns) >= rows[i].cagr
  BY <1>7, LargestIn
<1>10. Max(returns) = rows[i].cagr
  <2>1. Max(returns) \in Nat /\ rows[i].cagr \in Nat /\ Max(returns) <= rows[i].cagr
    BY <1>7, <1>8, <1>9
  <2>. QED  BY <1>9, <2>1
<1>. QED  BY <1>5, <1>6, <1>10 DEF returns

\* The report, written from a second run of the winner, gives the return that
\* the ranking gave it, the best there is, and the final ranking starts with it
\* (run_strategy_lab.py): over the same data a strategy has one run, because the
\* sort of the candidates leaves no order open, whatever order the tasks end in.
THEOREM ReportAgrees == LabSpec => []ReportMatchesRanking
<1>1. LabSpec => [](LabInv /\ ReportInv)
  <2>1. LabInit => LabInv /\ ReportInv
    BY LabStarts, ReportStarts
  <2>2. LabInv /\ ReportInv /\ [LabNext]_allVars => (LabInv /\ ReportInv)'
    BY LabSteps, ReportSteps
  <2>. QED  BY <2>1, <2>2, PTL DEF LabSpec
<1>2. LabInv /\ ReportInv => ReportMatchesRanking
  BY ReportIsRight
<1>. QED  BY <1>1, <1>2, PTL

=============================================================================
