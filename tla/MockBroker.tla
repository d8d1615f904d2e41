----------------------------- MODULE MockBroker -----------------------------
(***************************************************************************)
(* live_trading/mock_broker.py: the simulated broker.  Its ledger is cash  *)
(* and held; an order it accepts is filled at once, or waits in the queue  *)
(* until it has been polled more than fill_delay_polls times.              *)
(* cancel_order and list_open_orders have no caller that changes state.    *)
(***************************************************************************)
EXTENDS TradingConfig

VARIABLES
  cash,      \* _cash
  held,      \* _positions
  queue,     \* _fill_queue with _poll_counts: orders in the state ACKED
  polling    \* the entries a running poll_fills still has to look at

brokerVars == <<cash, held, queue, polling>>

QueueEntries == [order: Orders, polls: Nat]

BrokerInit ==
  /\ cash = InitialCash
  /\ held = [s \in Symbols |-> 0]
  /\ queue = <<>> /\ polling = <<>>

FillsAtOnce == ImmediateFill /\ FillDelayPolls = 0

\* Slips that the properties must notice: a BUY nobody checks, a queue
\* that is polled but not taken, an order that is not put back, and polls that
\* are not counted.
AcceptsAnyBuy(o) == o.side = "SELL" => o.qty <= held[o.sym]

PollStartTwice == polling' = queue /\ UNCHANGED <<cash, held, queue>>

PollKeepLost ==
  /\ polling # <<>> /\ Head(polling).polls + 1 <= FillDelayPolls
  /\ polling' = Tail(polling)
  /\ UNCHANGED <<cash, held, queue>>

PolledUncounted(e) == e

\* The validation of submit_order: a BUY must be covered by the cash at hand
\* with a margin of 0.1 percent, a SELL by the shares at hand.
Accepts(o) ==
  IF o.side = "BUY" THEN o.px * o.qty * 1001 <= cash * 1000
                    ELSE o.qty <= held[o.sym]

\* _apply_fill: the ledger moves by the whole order at its own price.
Settle(o) ==
  IF o.side = "BUY"
  THEN /\ cash' = cash - o.px * o.qty
       /\ held' = [held EXCEPT ![o.sym] = @ + o.qty]
  ELSE /\ cash' = cash + o.px * o.qty
       /\ held' = [held EXCEPT ![o.sym] = IF @ >= o.qty THEN @ - o.qty ELSE 0]

\* submit_order, by what it answers.
SubmitFilled(o) ==
  /\ Accepts(o) /\ FillsAtOnce
  /\ Settle(o)
  /\ UNCHANGED <<queue, polling>>

SubmitQueued(o) ==
  /\ Accepts(o) /\ ~FillsAtOnce
  /\ queue' = Append(queue, [order |-> o, polls |-> 0])
  /\ UNCHANGED <<cash, held, polling>>

SubmitRejected(o) == ~Accepts(o) /\ UNCHANGED brokerVars

\* poll_fills takes the queue and looks at its entries one by one.
PollStart == polling' = queue /\ queue' = <<>> /\ UNCHANGED <<cash, held>>

Polled(e)  == [e EXCEPT !.polls = @ + 1]
PollDue(e) == Polled(e).polls > FillDelayPolls

PollFill ==
  /\ polling # <<>> /\ PollDue(Head(polling))
  /\ Settle(Head(polling).order)
  /\ polling' = Tail(polling)
  /\ UNCHANGED queue

PollKeep ==
  /\ polling # <<>> /\ ~PollDue(Head(polling))
  /\ queue' = Append(queue, Polled(Head(polling)))
  /\ polling' = Tail(polling)
  /\ UNCHANGED <<cash, held>>

\* hydrate_ledger of a broker that was just built.
Hydrate(c, shares) ==
  /\ cash' = c
  /\ held' = [s \in Symbols |-> IF s \in DOMAIN shares THEN shares[s] ELSE 0]
  /\ queue' = <<>> /\ polling' = <<>>

\* A new process builds a new broker; nothing of the old one survives.
NewBroker ==
  /\ cash' = InitialCash /\ held' = [s \in Symbols |-> 0]
  /\ queue' = <<>> /\ polling' = <<>>
=============================================================================
