--------------------------- MODULE TradingConfig ---------------------------
(***************************************************************************)
(* The parameters of one trading session (live_config.LiveTradingConfig    *)
(* and the MockBroker constructor) and the data every trading component    *)
(* shares: orders, positions and the time of a market event.               *)
(*                                                                         *)
(* Time is a number of slots; SlotsPerDay slots make a trading day.  The   *)
(* configured times of day are slot numbers, so one slot stands for every  *)
(* instant between two configured times.  Prices, quantities and cash are  *)
(* integers on the rounding grid of price_rounding_digits.                 *)
(***************************************************************************)
EXTENDS Integers, Sequences, FiniteSets

CONSTANTS
  Symbols,            \* config.symbols
  Prices,             \* the prices a market event can carry
  Allocation,         \* allocation_per_trade
  InitialCash,        \* MockBroker(initial_cash)
  ImmediateFill,      \* MockBroker(immediate_fill)
  FillDelayPolls,     \* MockBroker(fill_delay_polls)
  MaxPositions,       \* max_positions
  SectorOf,           \* symbol_sector
  SectorCap,          \* max_positions_per_sector: a function on some sectors
  MaxDailyNewEntries, \* max_daily_new_entries
  MaxLosing,          \* max_consecutive_losing_entries, 0 switches it off
  DailyLossLimit,     \* daily_loss_limit, 0 switches it off
  StopLossPct,        \* stop_loss_pct, in percent
  Cooldown,           \* reentry_cooldown_minutes, in slots
  SlotsPerDay,        \* slots of a day; the next five are slots of the day
  OpenSlot,           \* market_open_time
  NoEntrySlots,       \* no_entry_first_minutes_after_open
  CutoffSlot,         \* no_new_entry_after
  ForceExitSlot,      \* force_exit_time
  CloseSlot,          \* market_close_time
  ForceExitBeforeClose \* force_exit_before_close

ASSUME ConfigAssumption ==
  /\ Symbols # {} /\ IsFiniteSet(Symbols)
  /\ Prices # {} /\ Prices \subseteq Nat \ {0}
  /\ Allocation \in Nat /\ InitialCash \in Nat
  /\ ImmediateFill \in BOOLEAN /\ FillDelayPolls \in Nat
  /\ MaxPositions \in Nat \ {0}
  /\ \A x \in DOMAIN SectorCap : SectorCap[x] \in Nat \ {0}
  /\ MaxDailyNewEntries \in Nat /\ MaxLosing \in Nat /\ DailyLossLimit \in Nat
  /\ StopLossPct \in 0 .. 100
  /\ Cooldown \in Nat /\ SlotsPerDay \in Nat \ {0}
  /\ {OpenSlot, NoEntrySlots, CutoffSlot, ForceExitSlot, CloseSlot} \subseteq Nat
  /\ ForceExitBeforeClose \in BOOLEAN

Day(t)  == t \div SlotsPerDay
Slot(t) == t % SlotsPerDay

\* An order.  order_id is left out: an order is known by what it asks for.
Orders == [sym: Symbols, side: {"BUY", "SELL"}, qty: Nat \ {0}, px: Prices]

\* The levels of a position; EXITING and ERROR are never assigned.
Statuses == {"FLAT", "PENDING_BUY", "LONG", "PENDING_SELL"}

\* A position.  stop is <<>> for None.  highest_price, entry_time,
\* unrealized_pnl, last_order_id and the texts do not influence control.
LivePositions ==
  [status: Statuses, qty: Nat, avg: Nat, stop: Seq(Nat), realized: Int]

FlatPosition ==
  [status |-> "FLAT", qty |-> 0, avg |-> 0, stop |-> <<>>, realized |-> 0]

StopLevel(px) == (px * (100 - StopLossPct)) \div 100
=============================================================================
