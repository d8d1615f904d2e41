--------------------------- MODULE PositionManager ---------------------------
(***************************************************************************)
(* live_trading/position_manager.py and order_manager.py: what the trader  *)
(* believes it holds and which orders it believes to be open.  A symbol    *)
(* that is not in the dictionary is a flat position here: every reader     *)
(* treats the two alike.  Partial fills, which MockBroker never reports,   *)
(* are not modelled.                                                       *)
(***************************************************************************)
EXTENDS TradingConfig

VARIABLES
  pos,     \* PositionManager._positions
  active   \* OrderManager.active_orders

OrderRecords == [order: Orders, status: {"ACKED", "FILLED", "REJECTED"}]

Record(o, st) == [order |-> o, status |-> st]

NoPositions == [s \in Symbols |-> FlatPosition]

\* Slips that the properties must notice: an order that is not marked, a
\* result with the wrong sign, a fill without a stop.
MarkPendingNothing(o) == pos

SellPnlSwapped(p, o) ==
  IF p.qty = 0 THEN <<>> ELSE <<(p.avg - o.px) * p.qty>>

\* mark_pending_buy and mark_pending_sell.
MarkPending(o) ==
  [pos EXCEPT ![o.sym].status = IF o.side = "BUY" THEN "PENDING_BUY"
                                                  ELSE "PENDING_SELL"]

\* The average price after a BUY fill.
AvgAfter(p, o) == (p.avg * p.qty + o.px * o.qty) \div (p.qty + o.qty)

\* The shares a SELL fill takes from a position.
SoldBy(p, o) == IF o.qty <= p.qty THEN o.qty ELSE p.qty

\* The realized result of a SELL fill: <<>> when nothing was sold (None).
SellPnl(p, o) ==
  IF SoldBy(p, o) = 0 THEN <<>> ELSE <<(o.px - p.avg) * SoldBy(p, o)>>

\* apply_fill of a FILLED order.
ApplyFill(p, o) ==
  IF o.side = "BUY"
  THEN [p EXCEPT !.avg = AvgAfter(p, o), !.qty = @ + o.qty, !.status = "LONG"]
  ELSE IF SoldBy(p, o) = 0
  THEN p
  ELSE [FlatPosition EXCEPT !.realized = p.realized + SellPnl(p, o)[1]]

FilledWithoutStop(p, o, stop) == ApplyFill(p, o)

\* apply_fill and, for a BUY, set_stop_after_entry at the given level.
Filled(p, o, stop) ==
  IF o.side = "BUY" THEN [ApplyFill(p, o) EXCEPT !.stop = <<stop>>]
                    ELSE ApplyFill(p, o)

\* can_submit, and _has_active_order_for_symbol of the risk manager.
CanSubmit(s) ==
  \A r \in active : r.order.sym = s => r.status \in {"FILLED", "REJECTED"}

\* mark_order_closed.
Closed(records, o) == {r \in records : r.order # o}

LongSymbols == {s \in Symbols : pos[s].status = "LONG" /\ pos[s].qty > 0}
=============================================================================
