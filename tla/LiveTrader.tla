------------------------------ MODULE LiveTrader ------------------------------
(***************************************************************************)
(* live_trading/live_trader.py with the broker, the position, order and    *)
(* risk managers it drives and the JSON files of state_store.py.           *)
(*                                                                         *)
(* One process handles one market event after the other.  phase says where *)
(* handle_market_event, persist_state or run stands; each loop iteration   *)
(* and each file write is a step, so a crash can fall between any two.     *)
(* The strategy is outside: an entry or exit signal may or may not come,   *)
(* except that a price at or below the stop always signals an exit.        *)
(***************************************************************************)
EXTENDS MockBroker, RiskManager, Functions, FiniteSetsExt

CONSTANTS
  PersistEvery,  \* events between two periodic saves (25 in the code)
  MaxTime,       \* bound on the time of an event
  MaxStarts,     \* bound on the number of process starts after the first
  MaxCrashes     \* bound on the number of crashes

ASSUME BoundsAssumption ==
  /\ PersistEvery \in Nat \ {0} /\ MaxTime \in Nat
  /\ MaxStarts \in Nat /\ MaxCrashes \in Nat

VARIABLES
  stats,    \* _daily_stats
  md,       \* the latest price of each symbol (MarketDataHandler)
  now,      \* the time of the latest event
  phase,
  cur,      \* the symbol of the event being handled
  fills,    \* what process_fills returned and is still to be applied
  toExit,   \* the symbols the force-exit loop has still to look at
  events,   \* _event_count modulo PersistEvery
  closing,  \* saves left before the process ends; 0 while it runs
  disk,     \* the four state files
  starts, crashes

traderVars == <<pos, active, stats>>
loopVars   == <<md, now, cur, fills, toExit, events, closing>>
boundVars  == <<starts, crashes>>
vars == <<brokerVars, traderVars, loopVars, phase, disk, boundVars>>

WritePhases   == {"positions", "orders", "stats", "snapshot"}
HandlerPhases == {"poll", "fills", "force", "exit", "enter", "guard"}

\* A file that was never written, or whose writing was cut short.
Absent  == [is |-> "absent", val |-> <<>>]
Torn    == [is |-> "torn", val |-> <<>>]
File(v) == [is |-> "file", val |-> v]
Exists(f) == f.is = "file"

EmptyDisk ==
  [positions |-> Absent, orders |-> Absent, stats |-> Absent, snapshot |-> Absent]

(***************************************************************************)
(* Start and end of a process                                              *)
(***************************************************************************)

\* The memory of a process that has just built its components.
FreshMemory ==
  /\ NewBroker
  /\ pos' = NoPositions /\ active' = {} /\ stats' = FreshStats
  /\ fills' = <<>> /\ toExit' = {} /\ events' = 0 /\ closing' = 0

Init ==
  /\ BrokerInit
  /\ pos = NoPositions /\ active = {} /\ stats = FreshStats
  /\ fills = <<>> /\ toExit = {} /\ events = 0 /\ closing = 0
  /\ md \in [Symbols -> Prices] /\ now = 0
  /\ cur \in Symbols
  /\ phase = "ready" /\ disk = EmptyDisk
  /\ starts = 0 /\ crashes = 0

\* Slips that the properties must notice: shares restored for LONG positions
\* only; statistics that are not restored or count the wrong way.
LongOnly(p) == p.status = "LONG"

ForgottenStats == FreshStats

WithPnlBelowZero(st, pnl) ==
  IF pnl = <<>> \/ MaxLosing = 0
  THEN st
  ELSE [st EXCEPT !.losing = IF pnl[1] < 0 THEN @ + 1 ELSE @ - 1]

WithExitForgotten(st, s) == st

Readable == \A f \in {"positions", "stats", "snapshot"} : disk[f].is # "torn"

HoldsShares(p) == p.qty > 0 /\ p.status \in {"LONG", "PENDING_SELL"}

RestoredPositions ==
  IF Exists(disk.positions) THEN disk.positions.val ELSE NoPositions

RestoredStats == IF Exists(disk.stats) THEN disk.stats.val ELSE FreshStats

\* The shares restore_state hands to hydrate_ledger.
RestoredLedger(positions) ==
  [s \in {x \in Symbols : HoldsShares(positions[x])} |-> positions[s].qty]

\* initialize and restore_state.  orders.json is never read back.  The
\* history that feeds the prices is seeded anew.
Start ==
  /\ phase = "down" /\ starts < MaxStarts /\ Readable
  /\ pos' = RestoredPositions
  /\ IF Exists(disk.snapshot)
     THEN Hydrate(disk.snapshot.val.cash, RestoredLedger(RestoredPositions))
     ELSE UNCHANGED brokerVars
  /\ stats' = RestoredStats
  /\ md' \in [Symbols -> Prices]
  /\ phase' = "ready" /\ starts' = starts + 1
  /\ UNCHANGED <<active, now, cur, fills, toExit, events, closing, disk, crashes>>

\* json.loads raises on a file that was cut short, before run reaches its
\* try block: nothing is saved and every later start fails alike.
StartFails ==
  /\ phase = "down" /\ ~Readable
  /\ phase' = "failed"
  /\ UNCHANGED <<brokerVars, traderVars, loopVars, disk, boundVars>>

\* The loop over the stream ends: run saves in its finally block and
\* shutdown saves a second time.
Stop ==
  /\ phase = "ready" /\ starts < MaxStarts
  /\ phase' = "positions" /\ closing' = 2
  /\ UNCHANGED <<brokerVars, traderVars, md, now, cur, fills, toExit, events,
                 disk, boundVars>>

\* The process is killed.  The file being written is left as it was, or torn.
Crash ==
  /\ phase \in {"ready"} \cup HandlerPhases \cup WritePhases
  /\ crashes < MaxCrashes
  /\ crashes' = crashes + 1
  /\ FreshMemory
  /\ \/ UNCHANGED disk
     \/ phase \in WritePhases /\ disk' = [disk EXCEPT ![phase] = Torn]
  /\ phase' = "down"
  /\ UNCHANGED <<md, now, cur, starts>>

(***************************************************************************)
(* handle_market_event                                                     *)
(***************************************************************************)

\* _update_daily_roll.
Rolled(t) ==
  IF stats.day = Day(t)
  THEN stats
  ELSE [stats EXCEPT !.day = Day(t), !.entries = 0, !.blocked = FALSE,
                     !.startEquity = <<>>, !.losing = 0]

MarketEvent(s, px, t) ==
  /\ phase = "ready"
  /\ t >= now
  /\ now' = t /\ cur' = s
  /\ stats' = Rolled(t)
  /\ md' = [md EXCEPT ![s] = px]
  /\ PollStart
  /\ phase' = "poll"
  /\ UNCHANGED <<pos, active, fills, toExit, events, closing, disk, boundVars>>

\* poll_fills and process_fills: an order that is due is filled at the broker
\* and recorded as FILLED; the others stay in the queue.
PollOrder ==
  /\ phase = "poll"
  /\ LET o == Head(polling).order
     IN \/ /\ PollFill
           /\ active' = Closed(active, o) \cup {Record(o, "FILLED")}
           /\ fills' = Append(fills, o)
        \/ /\ PollKeep
           /\ UNCHANGED <<active, fills>>
  /\ UNCHANGED <<pos, stats, md, now, cur, toExit, events, closing, phase,
                 disk, boundVars>>

PollDone ==
  /\ phase = "poll" /\ polling = <<>>
  /\ phase' = "fills"
  /\ UNCHANGED <<brokerVars, traderVars, loopVars, disk, boundVars>>

\* _register_sell_pnl.
WithPnl(st, pnl) ==
  IF pnl = <<>> \/ MaxLosing = 0
  THEN st
  ELSE [st EXCEPT !.losing = IF pnl[1] < 0 THEN @ + 1 ELSE 0]

\* process_order_updates, one BUY fill.
ApplyBuyFill ==
  /\ phase = "fills" /\ fills # <<>> /\ Head(fills).side = "BUY"
  /\ LET o == Head(fills)
         p == ApplyFill(pos[o.sym], o)
     IN /\ pos' = [pos EXCEPT ![o.sym] = Filled(@, o, StopLevel(p.avg))]
        /\ active' = Closed(active, o)
  /\ stats' = [stats EXCEPT !.entries = @ + 1]
  /\ fills' = Tail(fills)
  /\ UNCHANGED <<brokerVars, md, now, cur, toExit, events, closing, phase, disk,
                 boundVars>>

\* process_order_updates, one SELL fill: tz_localize of an aware timestamp
\* raises, so the order is not closed, last_exit_ts is not set, the fills
\* behind it are dropped and run goes to its finally block.
ApplySellFill ==
  /\ phase = "fills" /\ fills # <<>> /\ Head(fills).side = "SELL"
  /\ LET o == Head(fills)
     IN /\ pos' = [pos EXCEPT ![o.sym] = ApplyFill(@, o)]
        /\ stats' = WithPnl(stats, SellPnl(pos[o.sym], o))
  /\ fills' = Tail(fills)
  /\ phase' = "positions" /\ closing' = 2
  /\ UNCHANGED <<brokerVars, active, md, now, cur, toExit, events, disk,
                 boundVars>>

FillsDone ==
  /\ phase = "fills" /\ fills = <<>>
  /\ toExit' = IF ShouldForceExit(now) THEN LongSymbols ELSE {}
  /\ phase' = "force"
  /\ UNCHANGED <<brokerVars, traderVars, md, now, cur, fills, events, closing,
                 disk, boundVars>>

(***************************************************************************)
(* try_exit and try_enter                                                  *)
(***************************************************************************)

\* A stop at or above the price makes evaluate_exit answer SELL.
StopHit(s) == pos[s].stop # <<>> /\ md[s] <= pos[s].stop[1]

\* last_exit_ts[s] = now.
WithExit(st, s) ==
  [st EXCEPT !.lastExit = [x \in DOMAIN @ \cup {s} |->
                             IF x = s THEN now ELSE @[x]]]

MayExit(s) == s \in LongSymbols /\ CanSubmit(s) /\ MarketOpen(now)

ExitOrder(s) == [sym |-> s, side |-> "SELL", qty |-> pos[s].qty, px |-> md[s]]

SkipExit(s) ==
  /\ MayExit(s) => ~StopHit(s)
  /\ UNCHANGED <<brokerVars, traderVars>>

ExitFilled(s) ==
  LET o == ExitOrder(s)
  IN /\ MayExit(s)
     /\ SubmitFilled(o)
     /\ pos' = [pos EXCEPT ![s] = ApplyFill(@, o)]
     /\ stats' = WithExit(WithPnl(stats, SellPnl(pos[s], o)), s)
     /\ UNCHANGED active

ExitAcked(s) ==
  LET o == ExitOrder(s)
  IN /\ MayExit(s)
     /\ SubmitQueued(o)
     /\ pos' = MarkPending(o)
     /\ active' = active \cup {Record(o, "ACKED")}
     /\ UNCHANGED stats

\* A rejected order leaves the position as mark_pending_sell set it.
ExitRejected(s) ==
  LET o == ExitOrder(s)
  IN /\ MayExit(s)
     /\ SubmitRejected(o)
     /\ pos' = MarkPending(o)
     /\ active' = active \cup {Record(o, "REJECTED")}
     /\ UNCHANGED stats

TryExit(s) == SkipExit(s) \/ ExitFilled(s) \/ ExitAcked(s) \/ ExitRejected(s)

MayEnter(s) ==
  /\ MarketOpen(now)
  /\ Allocation \div md[s] > 0
  /\ CanEnter(s, now, cash, stats)

EntryOrder(s) ==
  [sym |-> s, side |-> "BUY", qty |-> Allocation \div md[s], px |-> md[s]]

\* No entry signal, or an entry that is not allowed.
SkipEntry(s) == UNCHANGED <<brokerVars, traderVars>>

EntryFilled(s) ==
  LET o == EntryOrder(s)
  IN /\ MayEnter(s)
     /\ SubmitFilled(o)
     /\ pos' = [pos EXCEPT ![s] = Filled(@, o, StopLevel(md[s]))]
     /\ stats' = [stats EXCEPT !.entries = @ + 1]
     /\ UNCHANGED active

EntryAcked(s) ==
  LET o == EntryOrder(s)
  IN /\ MayEnter(s)
     /\ SubmitQueued(o)
     /\ pos' = MarkPending(o)
     /\ active' = active \cup {Record(o, "ACKED")}
     /\ UNCHANGED stats

EntryRejected(s) ==
  LET o == EntryOrder(s)
  IN /\ MayEnter(s)
     /\ SubmitRejected(o)
     /\ pos' = MarkPending(o)
     /\ active' = active \cup {Record(o, "REJECTED")}
     /\ UNCHANGED stats

TryEnter(s) ==
  SkipEntry(s) \/ EntryFilled(s) \/ EntryAcked(s) \/ EntryRejected(s)

\* _force_exit_all: try_exit for every long symbol; it sells only those with
\* an exit signal of their own.
ForceExit ==
  /\ phase = "force"
  /\ \E s \in toExit : TryExit(s) /\ toExit' = toExit \ {s}
  /\ UNCHANGED <<md, now, cur, fills, events, closing, phase, disk, boundVars>>

ForceDone ==
  /\ phase = "force" /\ toExit = {}
  /\ phase' = "exit"
  /\ UNCHANGED <<brokerVars, traderVars, loopVars, disk, boundVars>>

\* evaluate_symbol: the exit first, then the entry.
EvaluateExit ==
  /\ phase = "exit" /\ TryExit(cur)
  /\ phase' = "enter"
  /\ UNCHANGED <<loopVars, disk, boundVars>>

EvaluateEntry ==
  /\ phase = "enter" /\ TryEnter(cur)
  /\ phase' = "guard"
  /\ UNCHANGED <<loopVars, disk, boundVars>>

\* _current_equity counts LONG positions only.
Equity == cash + MapThenSumSet(LAMBDA s : md[s] * pos[s].qty, LongSymbols)

GuardedNow(start) ==
  [stats EXCEPT !.startEquity = <<start>>,
                !.blocked = Equity - start <= -DailyLossLimit]

\* _update_loss_guard against the equity at the start of the day: entries,
\* once blocked, stay blocked.
Guarded(start) ==
  LET hit == DailyLossLimit > 0 /\ Equity - start <= -DailyLossLimit
  IN [stats EXCEPT !.startEquity = <<start>>, !.blocked = @ \/ hit]

\* The loss guard, the event counter and the periodic save.
LossGuard ==
  /\ phase = "guard"
  /\ stats' = Guarded(IF stats.startEquity = <<>> THEN Equity
                                                 ELSE stats.startEquity[1])
  /\ events' = (events + 1) % PersistEvery
  /\ phase' = IF events' = 0 THEN "positions" ELSE "ready"
  /\ UNCHANGED <<brokerVars, pos, active, md, now, cur, fills, toExit, closing,
                 disk, boundVars>>

(***************************************************************************)
(* persist_state: four files, one after the other                          *)
(***************************************************************************)
Write(file, value, next) ==
  /\ phase = file
  /\ disk' = [disk EXCEPT ![file] = File(value)]
  /\ phase' = next
  /\ UNCHANGED <<brokerVars, traderVars, loopVars, boundVars>>

SavePositions == Write("positions", pos, "orders")
SaveOrders    == Write("orders", active, "stats")
SaveStats     == Write("stats", stats, "snapshot")

Snapshot == [cash |-> cash, positions |-> pos]

SaveSnapshot == closing = 0 /\ Write("snapshot", Snapshot, "ready")

\* The saves of a process that ends: a second round, then the end.
SaveSnapshotClosing ==
  /\ phase = "snapshot" /\ closing > 0
  /\ disk' = [disk EXCEPT !.snapshot = File(Snapshot)]
  /\ IF closing = 2
     THEN /\ phase' = "positions" /\ closing' = 1
          /\ UNCHANGED <<brokerVars, traderVars, fills, toExit, events>>
     ELSE phase' = "down" /\ FreshMemory
  /\ UNCHANGED <<md, now, cur, boundVars>>

Persist ==
  SavePositions \/ SaveOrders \/ SaveStats \/ SaveSnapshot \/ SaveSnapshotClosing

HandleEvent ==
  \/ \E s \in Symbols, px \in Prices, t \in 0 .. MaxTime : MarketEvent(s, px, t)
  \/ PollOrder \/ PollDone \/ ApplyBuyFill \/ ApplySellFill \/ FillsDone
  \/ ForceExit \/ ForceDone \/ EvaluateExit \/ EvaluateEntry \/ LossGuard

Next == HandleEvent \/ Persist \/ Start \/ StartFails \/ Stop \/ Crash

Spec == Init /\ [][Next]_vars

\* The stream never ends, and a running process works through it.
FairSpec == Spec /\ WF_vars(HandleEvent \/ Persist)

(***************************************************************************)
(* Properties                                                              *)
(***************************************************************************)
StatsFields ==
  {"day", "entries", "blocked", "lastExit", "startEquity", "losing"}

IsStats(st) ==
  /\ DOMAIN st = StatsFields
  /\ st.day \in Int /\ st.entries \in Nat /\ st.losing \in Nat
  /\ st.blocked \in BOOLEAN
  /\ DOMAIN st.lastExit \subseteq Symbols

PositionMaps == [Symbols -> LivePositions]

DiskOK ==
  /\ DOMAIN disk = WritePhases
  /\ \A f \in WritePhases : disk[f].is \in {"absent", "torn", "file"}
  /\ Exists(disk.positions) => disk.positions.val \in PositionMaps
  /\ Exists(disk.stats) => IsStats(disk.stats.val)
  /\ Exists(disk.snapshot) => disk.snapshot.val.cash \in Int

BrokerOK ==
  /\ cash \in Int /\ held \in [Symbols -> Nat]
  /\ queue \in Seq(QueueEntries) /\ polling \in Seq(QueueEntries)

TraderOK ==
  pos \in PositionMaps /\ active \subseteq OrderRecords /\ IsStats(stats)

LoopOK ==
  /\ md \in [Symbols -> Prices] /\ now \in Nat /\ cur \in Symbols
  /\ fills \in Seq(Orders) /\ toExit \subseteq Symbols
  /\ events \in Nat /\ closing \in 0 .. 2
  /\ phase \in {"ready", "down", "failed"} \cup HandlerPhases \cup WritePhases

\* The types of broker, managers, event loop and state files.
TypeOK == BrokerOK /\ TraderOK /\ LoopOK /\ DiskOK

\* The orders the broker still has to fill, and those it has filled but the
\* position manager has not seen.
QueuedOrders == {queue[i].order : i \in DOMAIN queue}
                  \cup {polling[i].order : i \in DOMAIN polling}

\* Every order the broker still has to fill is an ACKED order of the order
\* manager and the other way round, so can_submit sees exactly the orders
\* that are open (order_manager.submit and process_fills, mock_broker).
OrdersAgree == QueuedOrders = {r.order : r \in {x \in active : x.status = "ACKED"}}

\* No symbol has two orders on the way at once, whether it waits in the queue
\* or is being polled (can_submit, the duplicate-order prevention).
OneOpenOrder ==
  LET all == polling \o queue
  IN \A i, j \in DOMAIN all : all[i].order.sym = all[j].order.sym => i = j

\* An order that is open or filled but not yet applied belongs to a position
\* that is pending on the same side (try_exit, try_enter, process_fills).
OpenOrderIsPending ==
  \A o \in QueuedOrders \cup {fills[i] : i \in DOMAIN fills} :
    pos[o.sym].status = IF o.side = "BUY" THEN "PENDING_BUY" ELSE "PENDING_SELL"

\* Between two events the broker holds exactly the shares the positions
\* claim.  Only a process whose first save was cut short can leave positions
\* without a snapshot; the next one then starts with none of their shares.
LedgerAgreement ==
  phase = "ready" =>
    \A s \in Symbols : held[s] = pos[s].qty \/ (crashes > 0 /\ held[s] = 0)

\* A restart that finds a snapshot, of whatever age, gives the broker exactly
\* the shares of the positions it reads (restore_state, hydrate_ledger).
LedgerRestored ==
  [][Start /\ Exists(disk.snapshot) =>
       \A s \in Symbols : held'[s] = pos'[s].qty]_vars

\* A long position has a stop level derived from its own average price, also
\* after a delayed fill or a restart (set_stop_after_entry, restore_state).
LongHasStop ==
  \A s \in Symbols : pos[s].status = "LONG" =>
    pos[s].qty > 0 /\ pos[s].stop = <<StopLevel(pos[s].avg)>>

\* Between two events the money is accounted for: cash is the initial cash
\* plus the realized results minus the cost of what is held.
Worth(positions) ==
  [s \in Symbols |-> positions[s].realized - positions[s].avg * positions[s].qty]

BooksBalance == phase = "ready" => cash = InitialCash + SumFunction(Worth(pos))

\* No more positions are long than max_positions allows (can_enter).
PositionLimit == Cardinality(LongSymbols) <= MaxPositions

\* No sector has more long positions than max_positions_per_sector allows.
SectorLimit ==
  \A s \in Symbols : SectorOf[s] \in DOMAIN SectorCap =>
    Cardinality(SectorPeers(s)) <= SectorCap[SectorOf[s]]

\* When the trader saves its state, every fill the broker reported has been
\* applied to its position (process_order_updates).
PolledFillsApplied == phase = "positions" => fills = <<>>

\* An order the broker accepted does not wait forever (poll_fills).
OrderSettles ==
  \A s \in Symbols :
    (\E o \in QueuedOrders : o.sym = s) ~> ~(\E o \in QueuedOrders : o.sym = s)

\* Buying is never paid with money that is not there (the cash check of
\* submit_order).
CashNotNegative == cash >= 0
=============================================================================
