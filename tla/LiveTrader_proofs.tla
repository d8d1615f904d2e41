-------------------------- MODULE LiveTrader_proofs --------------------------
(***************************************************************************)
(* Proofs about LiveTrader, for every value of the constants: types and    *)
(* stops, then orders on their way, whether they are filled at once or     *)
(* after any number of polls, through crashes and restarts.                *)
(***************************************************************************)
EXTENDS LiveTrader, SequenceTheorems, TLAPS

(***************************************************************************)
(* Types                                                                   *)
(***************************************************************************)

\* A stop level is a natural number.
LEMMA StopLevelType == ASSUME NEW px \in Nat PROVE StopLevel(px) \in Nat
<1>1. 100 - StopLossPct \in 0 .. 100
  BY ConfigAssumption
<1>2. px * (100 - StopLossPct) \in Nat
  BY <1>1
<1>. QED  BY <1>2 DEF StopLevel

\* apply_fill turns a position into a position.
LEMMA FillType ==
  ASSUME NEW p \in LivePositions, NEW o \in Orders
  PROVE  /\ ApplyFill(p, o) \in LivePositions
         /\ SellPnl(p, o) \in Seq(Int)
         /\ \A level \in Nat : Filled(p, o, level) \in LivePositions
<1>1. o.qty \in Nat \ {0} /\ o.px \in Nat /\ p.qty \in Nat /\ p.avg \in Nat
        /\ p.realized \in Int /\ p.stop \in Seq(Nat)
  BY ConfigAssumption DEF Orders, LivePositions
<1>2. p.avg * p.qty \in Nat /\ o.px * o.qty \in Nat
  BY <1>1
<1>3. AvgAfter(p, o) \in Nat
  <2>1. p.avg * p.qty + o.px * o.qty \in Nat /\ p.qty + o.qty \in Nat \ {0}
    BY <1>1, <1>2
  <2>. QED  BY <2>1 DEF AvgAfter
<1>4. SoldBy(p, o) \in Nat
  BY <1>1 DEF SoldBy
<1>5. (o.px - p.avg) * SoldBy(p, o) \in Int
  BY <1>1, <1>4
<1>6. SellPnl(p, o) \in Seq(Int)
  BY <1>5 DEF SellPnl
<1>7. ApplyFill(p, o) \in LivePositions
  <2>1. CASE o.side = "BUY"
    <3>1. p.qty + o.qty \in Nat
      BY <1>1
    <3>. QED
      BY <2>1, <3>1, <1>3 DEF ApplyFill, LivePositions, Statuses
  <2>2. CASE o.side # "BUY" /\ SoldBy(p, o) = 0
    BY <2>2 DEF ApplyFill
  <2>3. CASE o.side # "BUY" /\ SoldBy(p, o) # 0
    <3>1. SellPnl(p, o)[1] \in Int
      BY <2>3, <1>5 DEF SellPnl
    <3>2. p.realized + SellPnl(p, o)[1] \in Int
      BY <1>1, <3>1
    <3>3. <<>> \in Seq(Nat)
      OBVIOUS
    <3>. QED
      BY <2>3, <3>2, <3>3 DEF ApplyFill, LivePositions, FlatPosition, Statuses
  <2>. QED  BY <2>1, <2>2, <2>3
<1>8. ASSUME NEW level \in Nat PROVE Filled(p, o, level) \in LivePositions
  <2>1. <<level>> \in Seq(Nat)
    OBVIOUS
  <2>. QED  BY <1>7, <2>1 DEF Filled, LivePositions
<1>. QED  BY <1>6, <1>7, <1>8

\* Settling an order keeps the types of the ledger.
LEMMA SettleType ==
  ASSUME BrokerOK, NEW o \in Orders, Settle(o)
  PROVE  cash' \in Int /\ held' \in [Symbols -> Nat]
<1>1. o.sym \in Symbols /\ o.qty \in Nat /\ o.px \in Nat
  BY ConfigAssumption DEF Orders
<1>2. o.px * o.qty \in Int
  BY <1>1
<1>3. cash' \in Int
  BY <1>2 DEF Settle, BrokerOK
<1>4. held' \in [Symbols -> Nat]
  BY <1>1 DEF Settle, BrokerOK
<1>. QED  BY <1>3, <1>4

\* The statistics keep their shape when a result or an exit is registered.
LEMMA StatsType ==
  ASSUME IsStats(stats), NEW pnl \in Seq(Int), NEW s \in Symbols
  PROVE  IsStats(WithPnl(stats, pnl)) /\ IsStats(WithExit(WithPnl(stats, pnl), s))
<1>1. IsStats(WithPnl(stats, pnl))
  BY DEF IsStats, WithPnl, StatsFields
<1>2. ASSUME NEW st, IsStats(st) PROVE IsStats(WithExit(st, s))
  BY <1>2 DEF IsStats, WithExit, StatsFields
<1>. QED  BY <1>1, <1>2

\* What try_exit and try_enter submit is an order.
LEMMA OrderType ==
  ASSUME TypeOK, NEW s \in Symbols
  PROVE  /\ MayExit(s)  => ExitOrder(s) \in Orders
         /\ MayEnter(s) => EntryOrder(s) \in Orders
<1>1. md[s] \in Prices /\ md[s] \in Nat \ {0} /\ pos[s].qty \in Nat
  BY ConfigAssumption DEF TypeOK, LoopOK, TraderOK, PositionMaps, LivePositions
<1>2. MayExit(s) => pos[s].qty > 0
  BY DEF MayExit, LongSymbols
<1>3. Allocation \div md[s] \in Nat
  BY <1>1, ConfigAssumption
<1>4. MayEnter(s) => Allocation \div md[s] > 0
  BY DEF MayEnter
<1>. QED
  BY <1>1, <1>2, <1>3, <1>4 DEF ExitOrder, EntryOrder, Orders

\* Marking an order's position as pending keeps the types.
LEMMA PendingType ==
  ASSUME TraderOK, NEW o \in Orders
  PROVE  MarkPending(o) \in PositionMaps
BY DEF MarkPending, TraderOK, PositionMaps, LivePositions, Statuses, Orders

\* Storing a position of an order's symbol keeps the types.
LEMMA StoreType ==
  ASSUME TraderOK, NEW p \in LivePositions, NEW s \in Symbols
  PROVE  [pos EXCEPT ![s] = p] \in PositionMaps
BY DEF TraderOK, PositionMaps

\* The memory of a new process is well typed.
LEMMA FreshType == NoPositions \in PositionMaps /\ IsStats(FreshStats)
<1>1. <<>> \in Seq(Nat)
  OBVIOUS
<1>. QED
  BY <1>1 DEF NoPositions, PositionMaps, LivePositions, FlatPosition,
              Statuses, FreshStats, IsStats, StatsFields

LEMMA FreshMemoryType ==
  ASSUME FreshMemory
  PROVE  /\ BrokerOK' /\ TraderOK'
         /\ fills' = <<>> /\ toExit' = {} /\ events' = 0 /\ closing' = 0
BY FreshType, ConfigAssumption
DEF FreshMemory, NewBroker, BrokerOK, TraderOK

\* The initial state is well typed.
LEMMA InitType == Init => TypeOK
  BY FreshType, ConfigAssumption
  DEF Init, TypeOK, BrokerOK, TraderOK, LoopOK, DiskOK, BrokerInit, EmptyDisk,
      Absent, Exists, WritePhases, HandlerPhases

\* submit_order keeps the types of the broker.
LEMMA SubmitType ==
  ASSUME BrokerOK, NEW o \in Orders,
         SubmitFilled(o) \/ SubmitQueued(o) \/ SubmitRejected(o)
  PROVE  BrokerOK'
<1>1. CASE SubmitFilled(o)
  BY <1>1, SettleType DEF SubmitFilled, BrokerOK
<1>2. CASE SubmitQueued(o)
  <2>1. [order |-> o, polls |-> 0] \in QueueEntries
    BY DEF QueueEntries
  <2>2. queue' \in Seq(QueueEntries)
    BY <1>2, <2>1 DEF SubmitQueued, BrokerOK
  <2>. QED  BY <1>2, <2>2 DEF SubmitQueued, BrokerOK
<1>3. CASE SubmitRejected(o)
  BY <1>3 DEF SubmitRejected, brokerVars, BrokerOK
<1>. QED  BY <1>1, <1>2, <1>3

\* So does one step of poll_fills.
LEMMA PollType ==
  ASSUME BrokerOK, PollFill \/ PollKeep
  PROVE  BrokerOK' /\ Head(polling).order \in Orders
<1>1. polling # <<>> /\ polling \in Seq(QueueEntries)
  BY DEF PollFill, PollKeep, BrokerOK
<1>2. Head(polling) \in QueueEntries /\ Tail(polling) \in Seq(QueueEntries)
  BY <1>1
<1>3. Head(polling).order \in Orders
  BY <1>2 DEF QueueEntries
<1>4. Polled(Head(polling)) \in QueueEntries
  <2>1. ASSUME NEW e \in QueueEntries PROVE Polled(e) \in QueueEntries
    BY DEF QueueEntries, Polled
  <2>. QED  BY <1>2, <2>1
<1>5. CASE PollFill
  BY <1>2, <1>3, <1>5, SettleType DEF PollFill, BrokerOK
<1>6. CASE PollKeep
  <2>1. queue' \in Seq(QueueEntries)
    BY <1>4, <1>6 DEF PollKeep, BrokerOK
  <2>. QED  BY <1>2, <1>3, <1>6, <2>1 DEF PollKeep, BrokerOK
<1>. QED  BY <1>3, <1>5, <1>6

\* try_exit keeps the types of the broker and the managers.
LEMMA ExitType ==
  ASSUME TypeOK, NEW s \in Symbols, TryExit(s)
  PROVE  BrokerOK' /\ TraderOK'
<1>. DEFINE o == ExitOrder(s)
<1>0. TraderOK /\ BrokerOK /\ pos[s] \in LivePositions
  BY DEF TypeOK, TraderOK, PositionMaps
<1>1. CASE SkipExit(s)
  BY <1>0, <1>1 DEF SkipExit, brokerVars, traderVars, BrokerOK, TraderOK
<1>2. CASE ExitFilled(s)
  <2>1. o \in Orders
    BY <1>2, OrderType DEF ExitFilled
  <2>2. ApplyFill(pos[s], o) \in LivePositions /\ SellPnl(pos[s], o) \in Seq(Int)
    BY <1>0, <2>1, FillType
  <2>3. pos' \in PositionMaps
    BY <1>0, <1>2, <2>2, StoreType DEF ExitFilled
  <2>4. IsStats(stats')
    BY <1>0, <1>2, <2>2, StatsType DEF ExitFilled, TraderOK
  <2>5. BrokerOK'
    BY <1>0, <1>2, <2>1, SubmitType DEF ExitFilled
  <2>. QED  BY <1>0, <1>2, <2>3, <2>4, <2>5 DEF ExitFilled, TraderOK
<1>3. CASE ExitAcked(s) \/ ExitRejected(s)
  <2>1. o \in Orders
    BY <1>3, OrderType DEF ExitAcked, ExitRejected
  <2>2. pos' \in PositionMaps
    BY <1>0, <1>3, <2>1, PendingType DEF ExitAcked, ExitRejected
  <2>3. active' \subseteq OrderRecords
    BY <1>0, <1>3, <2>1
    DEF ExitAcked, ExitRejected, TraderOK, Record, OrderRecords
  <2>4. BrokerOK'
    BY <1>0, <1>3, <2>1, SubmitType DEF ExitAcked, ExitRejected
  <2>. QED
    BY <1>0, <1>3, <2>2, <2>3, <2>4 DEF ExitAcked, ExitRejected, TraderOK
<1>. QED  BY <1>1, <1>2, <1>3 DEF TryExit

\* So does try_enter.
LEMMA EntryType ==
  ASSUME TypeOK, NEW s \in Symbols, TryEnter(s)
  PROVE  BrokerOK' /\ TraderOK'
<1>. DEFINE o == EntryOrder(s)
<1>0. TraderOK /\ BrokerOK /\ pos[s] \in LivePositions
  BY DEF TypeOK, TraderOK, PositionMaps
<1>1. CASE SkipEntry(s)
  BY <1>0, <1>1 DEF SkipEntry, brokerVars, traderVars, BrokerOK, TraderOK
<1>2. CASE EntryFilled(s)
  <2>1. o \in Orders
    BY <1>2, OrderType DEF EntryFilled
  <2>2. StopLevel(md[s]) \in Nat
    BY ConfigAssumption, StopLevelType DEF TypeOK, LoopOK
  <2>3. Filled(pos[s], o, StopLevel(md[s])) \in LivePositions
    BY <1>0, <2>1, <2>2, FillType
  <2>4. pos' \in PositionMaps
    BY <1>0, <1>2, <2>3, StoreType DEF EntryFilled
  <2>5. IsStats(stats')
    BY <1>0, <1>2 DEF EntryFilled, TraderOK, IsStats, StatsFields
  <2>6. BrokerOK'
    BY <1>0, <1>2, <2>1, SubmitType DEF EntryFilled
  <2>. QED  BY <1>0, <1>2, <2>4, <2>5, <2>6 DEF EntryFilled, TraderOK
<1>3. CASE EntryAcked(s) \/ EntryRejected(s)
  <2>1. o \in Orders
    BY <1>3, OrderType DEF EntryAcked, EntryRejected
  <2>2. pos' \in PositionMaps
    BY <1>0, <1>3, <2>1, PendingType DEF EntryAcked, EntryRejected
  <2>3. active' \subseteq OrderRecords
    BY <1>0, <1>3, <2>1
    DEF EntryAcked, EntryRejected, TraderOK, Record, OrderRecords
  <2>4. BrokerOK'
    BY <1>0, <1>3, <2>1, SubmitType DEF EntryAcked, EntryRejected
  <2>. QED
    BY <1>0, <1>3, <2>2, <2>3, <2>4 DEF EntryAcked, EntryRejected, TraderOK
<1>. QED  BY <1>1, <1>2, <1>3 DEF TryEnter

\* Every step keeps the types.
LEMMA NextType == TypeOK /\ [Next]_vars => TypeOK'
<1>. SUFFICES ASSUME TypeOK, [Next]_vars PROVE TypeOK'
  OBVIOUS
<1>. USE DEF TypeOK, boundVars
<1>1. ASSUME NEW s \in Symbols, NEW px \in Prices, NEW t \in 0 .. MaxTime,
             MarketEvent(s, px, t)
      PROVE  TypeOK'
  <2>1. IsStats(stats')
    <3>1. Day(t) \in Int
      BY ConfigAssumption, BoundsAssumption DEF Day
    <3>. QED
      BY <1>1, <3>1 DEF MarketEvent, Rolled, TraderOK, IsStats, StatsFields
  <2>2. BrokerOK'
    BY <1>1 DEF MarketEvent, PollStart, BrokerOK
  <2>3. LoopOK'
    BY <1>1, BoundsAssumption DEF MarketEvent, LoopOK, HandlerPhases
  <2>. QED  BY <1>1, <2>1, <2>2, <2>3 DEF MarketEvent, TraderOK, DiskOK
<1>2. CASE PollOrder
  <2>1. BrokerOK' /\ Head(polling).order \in Orders
    BY <1>2, PollType DEF PollOrder
  <2>2. active' \subseteq OrderRecords
    BY <1>2, <2>1 DEF PollOrder, Closed, Record, OrderRecords, TraderOK
  <2>3. fills' \in Seq(Orders)
    BY <1>2, <2>1 DEF PollOrder, LoopOK
  <2>. QED  BY <1>2, <2>1, <2>2, <2>3 DEF PollOrder, TraderOK, LoopOK, DiskOK
<1>3. CASE ApplyBuyFill
  <2>. DEFINE o == Head(fills)
  <2>1. fills # <<>> /\ fills \in Seq(Orders)
    BY <1>3 DEF ApplyBuyFill, LoopOK
  <2>2. o \in Orders /\ Tail(fills) \in Seq(Orders)
    BY <2>1
  <2>3. o.sym \in Symbols /\ pos[o.sym] \in LivePositions
    BY <2>2 DEF Orders, TraderOK, PositionMaps
  <2>4. ApplyFill(pos[o.sym], o) \in LivePositions
    BY <2>2, <2>3, FillType
  <2>5. StopLevel(ApplyFill(pos[o.sym], o).avg) \in Nat
    BY <2>4, StopLevelType DEF LivePositions
  <2>6. Filled(pos[o.sym], o, StopLevel(ApplyFill(pos[o.sym], o).avg))
          \in LivePositions
    BY <2>2, <2>3, <2>5, FillType
  <2>7. pos' \in PositionMaps
    BY <1>3, <2>3, <2>6, StoreType DEF ApplyBuyFill
  <2>8. active' \subseteq OrderRecords
    BY <1>3 DEF ApplyBuyFill, Closed, TraderOK
  <2>9. IsStats(stats')
    BY <1>3 DEF ApplyBuyFill, TraderOK, IsStats, StatsFields
  <2>. QED
    BY <1>3, <2>2, <2>7, <2>8, <2>9
    DEF ApplyBuyFill, TraderOK, LoopOK, DiskOK, BrokerOK, brokerVars
<1>4. CASE ApplySellFill
  <2>. DEFINE o == Head(fills)
  <2>1. fills # <<>> /\ fills \in Seq(Orders)
    BY <1>4 DEF ApplySellFill, LoopOK
  <2>2. o \in Orders /\ Tail(fills) \in Seq(Orders)
    BY <2>1
  <2>3. o.sym \in Symbols /\ pos[o.sym] \in LivePositions
    BY <2>2 DEF Orders, TraderOK, PositionMaps
  <2>4. ApplyFill(pos[o.sym], o) \in LivePositions
          /\ SellPnl(pos[o.sym], o) \in Seq(Int)
    BY <2>2, <2>3, FillType
  <2>5. pos' \in PositionMaps
    BY <1>4, <2>3, <2>4, StoreType DEF ApplySellFill
  <2>6. IsStats(stats')
    BY <1>4, <2>3, <2>4, StatsType DEF ApplySellFill, TraderOK
  <2>. QED
    BY <1>4, <2>2, <2>5, <2>6
    DEF ApplySellFill, TraderOK, LoopOK, DiskOK, BrokerOK, brokerVars,
        WritePhases
<1>5. CASE PollDone \/ FillsDone \/ ForceDone
  BY <1>5
  DEF PollDone, FillsDone, ForceDone, BrokerOK, TraderOK, LoopOK, DiskOK,
      brokerVars, traderVars, loopVars, HandlerPhases, LongSymbols
<1>6. CASE ForceExit
  <2>1. PICK s \in toExit : TryExit(s) /\ toExit' = toExit \ {s}
    BY <1>6 DEF ForceExit
  <2>2. BrokerOK' /\ TraderOK'
    BY <2>1, ExitType DEF LoopOK
  <2>. QED  BY <1>6, <2>1, <2>2 DEF ForceExit, LoopOK, DiskOK
<1>7. CASE EvaluateExit
  <2>1. BrokerOK' /\ TraderOK'
    BY <1>7, ExitType DEF EvaluateExit, LoopOK
  <2>. QED
    BY <1>7, <2>1 DEF EvaluateExit, LoopOK, DiskOK, loopVars, HandlerPhases
<1>8. CASE EvaluateEntry
  <2>1. BrokerOK' /\ TraderOK'
    BY <1>8, EntryType DEF EvaluateEntry, LoopOK
  <2>. QED
    BY <1>8, <2>1 DEF EvaluateEntry, LoopOK, DiskOK, loopVars, HandlerPhases
<1>9. CASE LossGuard
  <2>1. IsStats(stats')
    BY <1>9, ConfigAssumption
    DEF LossGuard, Guarded, TraderOK, IsStats, StatsFields
  <2>2. events' \in Nat
    BY <1>9, BoundsAssumption DEF LossGuard, LoopOK
  <2>. QED
    BY <1>9, <2>1, <2>2
    DEF LossGuard, BrokerOK, TraderOK, LoopOK, DiskOK, brokerVars, WritePhases
<1>10. CASE Persist
  <2>1. ASSUME SavePositions \/ SaveOrders \/ SaveStats \/ SaveSnapshot
        PROVE  DiskOK'
    <3>. USE DEF Write, File, Exists, DiskOK, WritePhases
    <3>1. CASE SavePositions
      BY <3>1 DEF SavePositions, TraderOK
    <3>2. CASE SaveOrders
      BY <3>2 DEF SaveOrders
    <3>3. CASE SaveStats
      BY <3>3 DEF SaveStats, TraderOK
    <3>4. CASE SaveSnapshot
      BY <3>4 DEF SaveSnapshot, Snapshot, BrokerOK
    <3>. QED  BY <2>1, <3>1, <3>2, <3>3, <3>4
  <2>2. CASE SaveSnapshotClosing
    <3>1. DiskOK'
      BY <2>2 DEF SaveSnapshotClosing, File, Exists, Snapshot, BrokerOK, DiskOK,
                  WritePhases
    <3>2. CASE closing = 2
      BY <2>2, <3>1, <3>2
      DEF SaveSnapshotClosing, BrokerOK, TraderOK, LoopOK, brokerVars,
          traderVars, WritePhases
    <3>3. CASE closing # 2
      BY <2>2, <3>1, <3>3, FreshMemoryType
      DEF SaveSnapshotClosing, LoopOK
    <3>. QED  BY <3>2, <3>3
  <2>3. ASSUME SavePositions \/ SaveOrders \/ SaveStats \/ SaveSnapshot
        PROVE  BrokerOK' /\ TraderOK' /\ LoopOK'
    BY <2>3
    DEF SavePositions, SaveOrders, SaveStats, SaveSnapshot, Write, BrokerOK,
        TraderOK, LoopOK, brokerVars, traderVars, loopVars, WritePhases
  <2>. QED  BY <1>10, <2>1, <2>2, <2>3 DEF Persist
<1>11. CASE Start
  <2>1. pos' \in PositionMaps
    BY <1>11, FreshType DEF Start, RestoredPositions, DiskOK
  <2>2. IsStats(stats')
    BY <1>11, FreshType DEF Start, RestoredStats, DiskOK
  <2>3. RestoredPositions \in PositionMaps
    BY <1>11, <2>1 DEF Start
  <2>4. BrokerOK'
    <3>1. CASE Exists(disk.snapshot)
      <4>1. Hydrate(disk.snapshot.val.cash, RestoredLedger(RestoredPositions))
        BY <1>11, <3>1 DEF Start
      <4>2. ASSUME NEW s \in DOMAIN RestoredLedger(RestoredPositions)
            PROVE  RestoredLedger(RestoredPositions)[s] \in Nat
        BY <2>3 DEF RestoredLedger, PositionMaps, LivePositions
      <4>3. held' \in [Symbols -> Nat]
        BY <4>1, <4>2 DEF Hydrate
      <4>. QED  BY <3>1, <4>1, <4>3 DEF Hydrate, BrokerOK, DiskOK
    <3>2. CASE ~Exists(disk.snapshot)
      BY <1>11, <3>2 DEF Start, BrokerOK, brokerVars
    <3>. QED  BY <3>1, <3>2
  <2>. QED
    BY <1>11, <2>1, <2>2, <2>4 DEF Start, TraderOK, LoopOK, DiskOK
<1>12. CASE StartFails \/ Stop
  BY <1>12
  DEF StartFails, Stop, BrokerOK, TraderOK, LoopOK, DiskOK, brokerVars,
      traderVars, loopVars, WritePhases
<1>13. CASE Crash
  <2>1. BrokerOK' /\ TraderOK' /\ fills' = <<>> /\ toExit' = {} /\ events' = 0
          /\ closing' = 0
    BY <1>13, FreshMemoryType DEF Crash
  <2>2. DiskOK'
    BY <1>13 DEF Crash, DiskOK, Torn, Exists, WritePhases
  <2>. QED  BY <1>13, <2>1, <2>2 DEF Crash, LoopOK
<1>14. CASE UNCHANGED vars
  BY <1>14
  DEF vars, BrokerOK, TraderOK, LoopOK, DiskOK, brokerVars, traderVars, loopVars
<1>. QED
  BY <1>1, <1>2, <1>3, <1>4, <1>5, <1>6, <1>7, <1>8, <1>9, <1>10, <1>11, <1>12,
     <1>13, <1>14
  DEF Next, HandleEvent

\* The types of the broker, the managers, the event loop and the state files
\* are kept by every step, every crash and every restart.
THEOREM TypeCorrect == Spec => []TypeOK
BY InitType, NextType, PTL DEF Spec

(***************************************************************************)
(* Stops                                                                   *)
(***************************************************************************)

\* LongHasStop alone is not inductive: an entry computes the stop from the
\* price and the average from what the position held before, and a restart
\* takes both from a file.
PositionOK(p) ==
  /\ p.status = "LONG" => p.qty > 0 /\ p.stop = <<StopLevel(p.avg)>>
  /\ p.status = "FLAT" => p.qty = 0

StopInv ==
  /\ TypeOK
  /\ \A s \in Symbols : PositionOK(pos[s])
  /\ Exists(disk.positions) =>
       \A s \in Symbols : PositionOK(disk.positions.val[s])

\* The average price of a first purchase is its own price.
LEMMA FirstAverage ==
  ASSUME NEW p \in LivePositions, NEW o \in Orders, p.qty = 0
  PROVE  AvgAfter(p, o) = o.px
<1>1. o.px \in Nat /\ o.qty \in Nat \ {0} /\ p.avg \in Nat
  BY ConfigAssumption DEF Orders, LivePositions
<1>2. p.avg * p.qty + o.px * o.qty = o.px * o.qty /\ p.qty + o.qty = o.qty
  BY <1>1
<1>3. \A a \in Nat, b \in Nat \ {0} : (a * b) \div b = a
  OBVIOUS
<1>. QED  BY <1>1, <1>2, <1>3 DEF AvgAfter

\* A fill leaves a long position with the stop of its average price.
LEMMA FillOK ==
  ASSUME NEW p \in LivePositions, PositionOK(p), NEW o \in Orders
  PROVE  /\ o.side = "SELL" => PositionOK(ApplyFill(p, o))
         /\ o.side = "BUY" =>
              PositionOK(Filled(p, o, StopLevel(ApplyFill(p, o).avg)))
         /\ o.side = "BUY" /\ p.status = "FLAT" =>
              PositionOK(Filled(p, o, StopLevel(o.px)))
<1>1. p.qty \in Nat /\ o.qty \in Nat \ {0}
  BY DEF LivePositions, Orders
<1>2. ASSUME o.side = "SELL" PROVE PositionOK(ApplyFill(p, o))
  BY <1>2 DEF ApplyFill, PositionOK, FlatPosition
<1>3. ASSUME o.side = "BUY", NEW level
      PROVE  LET q == Filled(p, o, level)
             IN /\ q.status = "LONG" /\ q.stop = <<level>>
                /\ q.qty = p.qty + o.qty /\ q.avg = AvgAfter(p, o)
                /\ ApplyFill(p, o).avg = AvgAfter(p, o)
  BY <1>3 DEF Filled, ApplyFill, LivePositions
<1>4. p.qty + o.qty > 0
  BY <1>1
<1>5. ASSUME o.side = "BUY"
      PROVE  PositionOK(Filled(p, o, StopLevel(ApplyFill(p, o).avg)))
  BY <1>3, <1>4, <1>5 DEF PositionOK
<1>6. ASSUME o.side = "BUY", p.status = "FLAT"
      PROVE  PositionOK(Filled(p, o, StopLevel(o.px)))
  <2>1. AvgAfter(p, o) = o.px
    BY <1>6, FirstAverage DEF PositionOK
  <2>. QED  BY <1>3, <1>4, <1>6, <2>1 DEF PositionOK
<1>. QED  BY <1>2, <1>5, <1>6

\* A flat and a pending position need no stop.
LEMMA NoStopNeeded ==
  /\ PositionOK(FlatPosition)
  /\ \A p \in LivePositions :
       p.status \in {"PENDING_BUY", "PENDING_SELL"} => PositionOK(p)
BY DEF PositionOK, FlatPosition

\* Replacing one position by one that is in order keeps them all in order.
LEMMA StoreOK ==
  ASSUME TraderOK, \A s \in Symbols : PositionOK(pos[s]),
         NEW x \in Symbols, NEW p, PositionOK(p), pos' = [pos EXCEPT ![x] = p]
  PROVE  \A s \in Symbols : PositionOK(pos'[s])
BY DEF TraderOK, PositionMaps

LEMMA PendingOK ==
  ASSUME TraderOK, \A s \in Symbols : PositionOK(pos[s]),
         NEW o \in Orders, pos' = MarkPending(o)
  PROVE  \A s \in Symbols : PositionOK(pos'[s])
<1>. SUFFICES ASSUME NEW s \in Symbols PROVE PositionOK(pos'[s])
  OBVIOUS
<1>1. CASE s = o.sym
  <2>1. pos'[s] \in LivePositions
    BY PendingType DEF PositionMaps
  <2>2. pos'[s].status \in {"PENDING_BUY", "PENDING_SELL"}
    BY <1>1 DEF MarkPending, TraderOK, PositionMaps, LivePositions
  <2>. QED  BY <2>1, <2>2, NoStopNeeded
<1>2. CASE s # o.sym
  BY <1>2 DEF MarkPending, TraderOK, PositionMaps
<1>. QED  BY <1>1, <1>2

\* try_exit and try_enter keep every position in order.
LEMMA TradeOK ==
  ASSUME StopInv, NEW s \in Symbols, TryExit(s) \/ TryEnter(s)
  PROVE  \A x \in Symbols : PositionOK(pos'[x])
<1>0. TypeOK /\ TraderOK /\ pos[s] \in LivePositions /\ PositionOK(pos[s])
        /\ \A x \in Symbols : PositionOK(pos[x])
  BY DEF StopInv, TypeOK, TraderOK, PositionMaps
<1>1. CASE SkipExit(s) \/ SkipEntry(s)
  BY <1>0, <1>1 DEF SkipExit, SkipEntry, traderVars
<1>2. CASE ExitFilled(s)
  <2>1. ExitOrder(s) \in Orders /\ ExitOrder(s).side = "SELL"
    BY <1>0, <1>2, OrderType DEF ExitFilled, ExitOrder
  <2>2. PositionOK(ApplyFill(pos[s], ExitOrder(s)))
    BY <1>0, <2>1, FillOK
  <2>. QED  BY <1>0, <1>2, <2>2, StoreOK DEF ExitFilled
<1>3. CASE EntryFilled(s)
  <2>1. /\ EntryOrder(s) \in Orders /\ EntryOrder(s).side = "BUY"
        /\ EntryOrder(s).px = md[s]
    BY <1>0, <1>3, OrderType DEF EntryFilled, EntryOrder
  <2>2. pos[s].status = "FLAT"
    BY <1>3 DEF EntryFilled, MayEnter, CanEnter
  <2>3. PositionOK(Filled(pos[s], EntryOrder(s), StopLevel(md[s])))
    BY <1>0, <2>1, <2>2, FillOK
  <2>. QED  BY <1>0, <1>3, <2>3, StoreOK DEF EntryFilled
<1>4. CASE ExitAcked(s) \/ ExitRejected(s)
  BY <1>0, <1>4, OrderType, PendingOK DEF ExitAcked, ExitRejected
<1>5. CASE EntryAcked(s) \/ EntryRejected(s)
  BY <1>0, <1>5, OrderType, PendingOK DEF EntryAcked, EntryRejected
<1>. QED
  BY <1>1, <1>2, <1>3, <1>4, <1>5 DEF TryExit, TryEnter

LEMMA InitStop == Init => StopInv
BY InitType, NoStopNeeded DEF Init, StopInv, NoPositions, EmptyDisk, Absent, Exists

LEMMA NextStop == StopInv /\ [Next]_vars => StopInv'
<1>. SUFFICES ASSUME StopInv, [Next]_vars PROVE StopInv'
  OBVIOUS
<1>0. TypeOK /\ TypeOK' /\ DiskOK /\ TraderOK
  BY NextType DEF StopInv, TypeOK
<1>1. ASSUME UNCHANGED <<pos, disk>> PROVE StopInv'
  BY <1>0, <1>1 DEF StopInv
<1>2. ASSUME NEW s \in Symbols, TryExit(s) \/ TryEnter(s), disk' = disk
      PROVE  StopInv'
  BY <1>0, <1>2, TradeOK DEF StopInv
<1>3. CASE HandleEvent
  <2>1. CASE \E s \in Symbols, px \in Prices, t \in 0 .. MaxTime :
               MarketEvent(s, px, t)
    BY <1>1, <2>1 DEF MarketEvent
  <2>2. CASE PollOrder \/ PollDone \/ FillsDone \/ ForceDone \/ LossGuard
    BY <1>1, <2>2
    DEF PollOrder, PollDone, FillsDone, ForceDone, LossGuard, traderVars
  <2>3. CASE ApplyBuyFill \/ ApplySellFill
    <3>. DEFINE o == Head(fills)
    <3>1. fills # <<>> /\ fills \in Seq(Orders)
      BY <1>0, <2>3 DEF ApplyBuyFill, ApplySellFill, TypeOK, LoopOK
    <3>2. o \in Orders /\ o.sym \in Symbols
      <4>1. o \in Orders
        BY <3>1
      <4>. QED  BY <4>1 DEF Orders
    <3>3. pos[o.sym] \in LivePositions /\ PositionOK(pos[o.sym])
      BY <1>0, <3>2 DEF TraderOK, PositionMaps, StopInv
    <3>4. \A x \in Symbols : PositionOK(pos'[x])
      BY <1>0, <2>3, <3>2, <3>3, FillOK, StoreOK
      DEF ApplyBuyFill, ApplySellFill, StopInv
    <3>. QED
      BY <1>0, <2>3, <3>4 DEF ApplyBuyFill, ApplySellFill, StopInv
  <2>4. CASE ForceExit \/ EvaluateExit \/ EvaluateEntry
    <3>1. cur \in Symbols /\ toExit \subseteq Symbols
      BY <1>0 DEF TypeOK, LoopOK
    <3>. QED
      BY <1>2, <2>4, <3>1 DEF ForceExit, EvaluateExit, EvaluateEntry
  <2>. QED  BY <1>3, <2>1, <2>2, <2>3, <2>4 DEF HandleEvent
<1>4. CASE Persist
  <2>. USE DEF Write, File, Exists, DiskOK, WritePhases, traderVars
  <2>1. CASE SavePositions
    BY <1>0, <2>1 DEF SavePositions, StopInv
  <2>2. CASE SaveOrders \/ SaveStats \/ SaveSnapshot
    BY <1>0, <2>2 DEF SaveOrders, SaveStats, SaveSnapshot, StopInv
  <2>3. CASE SaveSnapshotClosing
    BY <1>0, <2>3, NoStopNeeded
    DEF SaveSnapshotClosing, FreshMemory, NoPositions, StopInv
  <2>. QED  BY <1>4, <2>1, <2>2, <2>3 DEF Persist
<1>5. CASE Start
  <2>1. \A s \in Symbols : PositionOK(pos'[s])
    BY <1>5, NoStopNeeded DEF Start, RestoredPositions, NoPositions, StopInv
  <2>. QED  BY <1>0, <1>5, <2>1 DEF Start, StopInv
<1>6. CASE StartFails \/ Stop \/ UNCHANGED vars
  BY <1>1, <1>6 DEF StartFails, Stop, vars, traderVars
<1>7. CASE Crash
  BY <1>0, <1>7, NoStopNeeded
  DEF Crash, FreshMemory, NoPositions, StopInv, Torn, Exists, DiskOK, WritePhases
<1>. QED  BY <1>3, <1>4, <1>5, <1>6, <1>7 DEF Next

\* Every long position has the stop of its own average price, however it came
\* to be: filled at once or later, alone or on top of a pending position, in
\* this process or read back from positions.json (set_stop_after_entry).
THEOREM StopsAreSet == Spec => []LongHasStop
<1>1. StopInv => LongHasStop
  BY DEF StopInv, PositionOK, LongHasStop
<1>. QED  BY <1>1, InitStop, NextStop, PTL DEF Spec

(***************************************************************************)
(* Orders on their way.  Broker queue, order manager, position manager and *)
(* ledger each keep a record of an order; the invariant says how the four  *)
(* fit together while an order waits, after the broker has filled it and   *)
(* until the position manager has applied it.                              *)
(***************************************************************************)
OrdersIn(q) == {q[i].order : i \in DOMAIN q}

FillsIn(f) == {f[i] : i \in DOMAIN f}

\* No two entries of a queue are for the same symbol.
Distinct(q) == \A i, j \in DOMAIN q : q[i].order.sym = q[j].order.sym => i = j

QueueApart ==
  /\ Distinct(queue) /\ Distinct(polling)
  /\ \A o \in OrdersIn(queue), p \in OrdersIn(polling) : o.sym # p.sym

FillsApart ==
  /\ \A i, j \in DOMAIN fills : fills[i].sym = fills[j].sym => i = j
  /\ \A o \in QueuedOrders, f \in FillsIn(fills) : o.sym # f.sym

\* An open SELL order is for all shares of its position.
SellsWhole ==
  \A o \in QueuedOrders \cup FillsIn(fills) :
    o.side = "SELL" => o.qty = pos[o.sym].qty

\* A position claims shares exactly when it is long or being sold.
Claims(m) ==
  \A s \in Symbols : m[s].status \in {"FLAT", "PENDING_BUY"} <=> m[s].qty = 0

\* The ledger of a symbol is ahead of its position by the fill that has not
\* been applied yet, if there is one.
Booked ==
  \A s \in Symbols :
    /\ (\A f \in FillsIn(fills) : f.sym # s) =>
         held[s] = pos[s].qty \/ (crashes > 0 /\ held[s] = 0)
    /\ \A f \in FillsIn(fills) :
         f.sym = s => held[s] = IF f.side = "BUY" THEN f.qty ELSE 0

BooksAgree ==
  /\ QueueApart /\ FillsApart
  /\ OrdersAgree /\ OpenOrderIsPending
  /\ SellsWhole /\ Claims(pos) /\ Booked

\* Where the event loop stands when orders are polled or applied.
OrderPhases ==
  /\ phase # "poll" => polling = <<>>
  /\ phase \notin {"poll", "fills"} /\ closing = 0 => fills = <<>>
  /\ closing > 0 => phase \in WritePhases
  /\ phase \in {"down", "failed"} =>
       queue = <<>> /\ active = {} /\ held = [s \in Symbols |-> 0]

SavedClaims == Exists(disk.positions) => Claims(disk.positions.val)

\* Without a crash there are no saved positions without a snapshot, except
\* while the first save is under way.
SavedTogether ==
  crashes = 0 /\ Exists(disk.positions)
    /\ phase \notin {"orders", "stats", "snapshot"} => Exists(disk.snapshot)

CrashesOK == crashes \in Nat

OrdersInv ==
  /\ TypeOK /\ CrashesOK
  /\ BooksAgree /\ OrderPhases /\ SavedClaims /\ SavedTogether

(***************************************************************************)
(* Queues and lists of fills                                               *)
(***************************************************************************)

\* An entry put at the end of a queue adds its order, and keeps the symbols
\* apart when its symbol is new.
LEMMA AppendEntry ==
  ASSUME NEW q \in Seq(QueueEntries), NEW e \in QueueEntries
  PROVE  /\ OrdersIn(Append(q, e)) = OrdersIn(q) \cup {e.order}
         /\ Distinct(q) /\ (\A o \in OrdersIn(q) : o.sym # e.order.sym)
              => Distinct(Append(q, e))
<1>. DEFINE r == Append(q, e)
<1>1. /\ Len(q) \in Nat /\ DOMAIN q = 1 .. Len(q)
      /\ DOMAIN r = 1 .. Len(q) + 1
      /\ \A i \in 1 .. Len(q) : r[i] = q[i]
      /\ r[Len(q) + 1] = e
  BY AppendProperties, LenProperties
<1>. HIDE DEF r
<1>2. \A i \in DOMAIN r : i \in DOMAIN q \/ i = Len(q) + 1
  BY <1>1
<1>3. OrdersIn(r) = OrdersIn(q) \cup {e.order}
  <2>1. ASSUME NEW o \in OrdersIn(r) PROVE o \in OrdersIn(q) \cup {e.order}
    BY <1>1, <1>2 DEF OrdersIn
  <2>2. ASSUME NEW o \in OrdersIn(q) PROVE o \in OrdersIn(r)
    <3>1. PICK i \in DOMAIN q : o = q[i].order
      BY DEF OrdersIn
    <3>2. i \in DOMAIN r /\ r[i] = q[i]
      BY <1>1
    <3>. QED  BY <3>1, <3>2 DEF OrdersIn
  <2>3. e.order \in OrdersIn(r)
    <3>1. Len(q) + 1 \in DOMAIN r
      BY <1>1
    <3>. QED  BY <1>1, <3>1 DEF OrdersIn
  <2>. QED  BY <2>1, <2>2, <2>3
<1>4. ASSUME Distinct(q), \A o \in OrdersIn(q) : o.sym # e.order.sym
      PROVE  Distinct(r)
  <2>1. \A i \in DOMAIN q : q[i].order.sym # e.order.sym
    BY <1>4 DEF OrdersIn
  <2>. QED  BY <1>1, <1>2, <1>4, <2>1 DEF Distinct
<1>. QED  BY <1>3, <1>4 DEF r

\* Taking the first entry of a queue removes its order.
LEMMA TailEntry ==
  ASSUME NEW q \in Seq(QueueEntries), q # <<>>
  PROVE  /\ OrdersIn(q) = OrdersIn(Tail(q)) \cup {Head(q).order}
         /\ Distinct(q) =>
              /\ Distinct(Tail(q))
              /\ \A o \in OrdersIn(Tail(q)) : o.sym # Head(q).order.sym
<1>. DEFINE r == Tail(q)
<1>1. /\ Len(q) \in Nat \ {0} /\ DOMAIN q = 1 .. Len(q)
      /\ DOMAIN r = 1 .. Len(q) - 1
      /\ \A i \in 1 .. Len(q) - 1 : r[i] = q[i + 1]
      /\ Head(q) = q[1]
  BY HeadTailProperties, LenProperties, EmptySeq
<1>. HIDE DEF r
<1>2. \A i \in DOMAIN q : i = 1 \/ (i - 1 \in DOMAIN r /\ q[i] = r[i - 1])
  BY <1>1
<1>3. \A i \in DOMAIN r : i + 1 \in DOMAIN q /\ r[i] = q[i + 1] /\ i + 1 # 1
  BY <1>1
<1>4. OrdersIn(q) = OrdersIn(r) \cup {Head(q).order}
  <2>1. ASSUME NEW o \in OrdersIn(q) PROVE o \in OrdersIn(r) \cup {Head(q).order}
    BY <1>1, <1>2 DEF OrdersIn
  <2>2. ASSUME NEW o \in OrdersIn(r) PROVE o \in OrdersIn(q)
    BY <1>3 DEF OrdersIn
  <2>3. Head(q).order \in OrdersIn(q)
    BY <1>1 DEF OrdersIn
  <2>. QED  BY <2>1, <2>2, <2>3
<1>5. ASSUME Distinct(q)
      PROVE  Distinct(r) /\ \A o \in OrdersIn(r) : o.sym # Head(q).order.sym
  <2>1. Distinct(r)
    BY <1>1, <1>3, <1>5 DEF Distinct
  <2>2. ASSUME NEW o \in OrdersIn(r) PROVE o.sym # Head(q).order.sym
    <3>1. PICK i \in DOMAIN r : o = r[i].order
      BY DEF OrdersIn
    <3>2. i + 1 \in DOMAIN q /\ o = q[i + 1].order /\ i + 1 # 1 /\ 1 \in DOMAIN q
      BY <1>1, <1>3, <3>1
    <3>. QED  BY <1>1, <1>5, <3>2 DEF Distinct
  <2>. QED  BY <2>1, <2>2
<1>. QED  BY <1>4, <1>5 DEF r

\* The same for the fills that are still to be applied.
LEMMA AppendFill ==
  ASSUME NEW f \in Seq(Orders), NEW o \in Orders,
         \A i, j \in DOMAIN f : f[i].sym = f[j].sym => i = j,
         \A x \in FillsIn(f) : x.sym # o.sym
  PROVE  /\ FillsIn(Append(f, o)) = FillsIn(f) \cup {o}
         /\ \A i, j \in DOMAIN Append(f, o) :
              Append(f, o)[i].sym = Append(f, o)[j].sym => i = j
<1>. DEFINE g == Append(f, o)
<1>1. /\ Len(f) \in Nat /\ DOMAIN f = 1 .. Len(f)
      /\ DOMAIN g = 1 .. Len(f) + 1
      /\ \A i \in 1 .. Len(f) : g[i] = f[i]
      /\ g[Len(f) + 1] = o
  BY AppendProperties, LenProperties
<1>. HIDE DEF g
<1>2. \A i \in DOMAIN g : i \in DOMAIN f \/ i = Len(f) + 1
  BY <1>1
<1>3. FillsIn(g) = FillsIn(f) \cup {o}
  <2>1. ASSUME NEW x \in FillsIn(g) PROVE x \in FillsIn(f) \cup {o}
    BY <1>1, <1>2 DEF FillsIn
  <2>2. ASSUME NEW x \in FillsIn(f) PROVE x \in FillsIn(g)
    <3>1. PICK i \in DOMAIN f : x = f[i]
      BY DEF FillsIn
    <3>2. i \in DOMAIN g /\ g[i] = f[i]
      BY <1>1
    <3>. QED  BY <3>1, <3>2 DEF FillsIn
  <2>3. o \in FillsIn(g)
    <3>1. Len(f) + 1 \in DOMAIN g
      BY <1>1
    <3>. QED  BY <1>1, <3>1 DEF FillsIn
  <2>. QED  BY <2>1, <2>2, <2>3
<1>4. \A i, j \in DOMAIN g : g[i].sym = g[j].sym => i = j
  <2>1. \A i \in DOMAIN f : f[i].sym # o.sym
    BY DEF FillsIn
  <2>. QED  BY <1>1, <1>2, <2>1
<1>. QED  BY <1>3, <1>4 DEF g

LEMMA TailFill ==
  ASSUME NEW f \in Seq(Orders), f # <<>>,
         \A i, j \in DOMAIN f : f[i].sym = f[j].sym => i = j
  PROVE  /\ Head(f) \in Orders /\ Tail(f) \in Seq(Orders)
         /\ FillsIn(f) = FillsIn(Tail(f)) \cup {Head(f)}
         /\ \A i, j \in DOMAIN Tail(f) : Tail(f)[i].sym = Tail(f)[j].sym => i = j
         /\ \A x \in FillsIn(Tail(f)) : x.sym # Head(f).sym
<1>. DEFINE g == Tail(f)
<1>1. /\ Len(f) \in Nat \ {0} /\ DOMAIN f = 1 .. Len(f)
      /\ DOMAIN g = 1 .. Len(f) - 1
      /\ \A i \in 1 .. Len(f) - 1 : g[i] = f[i + 1]
      /\ Head(f) = f[1] /\ Head(f) \in Orders /\ g \in Seq(Orders)
  BY HeadTailProperties, LenProperties, EmptySeq
<1>. HIDE DEF g
<1>2. \A i \in DOMAIN f : i = 1 \/ (i - 1 \in DOMAIN g /\ f[i] = g[i - 1])
  BY <1>1
<1>3. \A i \in DOMAIN g : i + 1 \in DOMAIN f /\ g[i] = f[i + 1] /\ i + 1 # 1
  BY <1>1
<1>4. FillsIn(f) = FillsIn(g) \cup {Head(f)}
  <2>1. ASSUME NEW x \in FillsIn(f) PROVE x \in FillsIn(g) \cup {Head(f)}
    BY <1>1, <1>2 DEF FillsIn
  <2>2. ASSUME NEW x \in FillsIn(g) PROVE x \in FillsIn(f)
    BY <1>3 DEF FillsIn
  <2>3. Head(f) \in FillsIn(f)
    BY <1>1 DEF FillsIn
  <2>. QED  BY <2>1, <2>2, <2>3
<1>5. \A i, j \in DOMAIN g : g[i].sym = g[j].sym => i = j
  BY <1>1, <1>3
<1>6. ASSUME NEW x \in FillsIn(g) PROVE x.sym # Head(f).sym
  <2>1. PICK i \in DOMAIN g : x = g[i]
    BY DEF FillsIn
  <2>2. i + 1 \in DOMAIN f /\ x = f[i + 1] /\ i + 1 # 1 /\ 1 \in DOMAIN f
    BY <1>1, <1>3, <2>1
  <2>. QED  BY <1>1, <2>2
<1>. QED  BY <1>1, <1>4, <1>5, <1>6 DEF g

(***************************************************************************)
(* The steps that move orders                                              *)
(***************************************************************************)

\* The orders on their way are orders; QueuedOrders and the list of fills in
\* terms of the operators above, before and after a step.
LEMMA OpenOrders ==
  ASSUME TypeOK
  PROVE  /\ QueuedOrders = OrdersIn(queue) \cup OrdersIn(polling)
         /\ {fills[i] : i \in DOMAIN fills} = FillsIn(fills)
         /\ QueuedOrders \subseteq Orders /\ FillsIn(fills) \subseteq Orders
         /\ pos \in [Symbols -> LivePositions] /\ held \in [Symbols -> Nat]
<1>1. queue \in Seq(QueueEntries) /\ polling \in Seq(QueueEntries)
        /\ fills \in Seq(Orders)
  BY DEF TypeOK, BrokerOK, LoopOK
<1>2. \A q \in Seq(QueueEntries) : OrdersIn(q) \subseteq Orders
  <2>. SUFFICES ASSUME NEW q \in Seq(QueueEntries), NEW i \in DOMAIN q
                PROVE  q[i].order \in Orders
    BY DEF OrdersIn
  <2>1. q[i] \in QueueEntries
    OBVIOUS
  <2>. QED  BY <2>1 DEF QueueEntries
<1>3. FillsIn(fills) \subseteq Orders
  BY <1>1, LenProperties DEF FillsIn
<1>4. QueuedOrders = OrdersIn(queue) \cup OrdersIn(polling)
  BY DEF QueuedOrders, OrdersIn
<1>. QED
  BY <1>1, <1>2, <1>3, <1>4
  DEF FillsIn, TypeOK, BrokerOK, TraderOK, PositionMaps

LEMMA OpenOrdersAfter ==
  /\ QueuedOrders' = OrdersIn(queue') \cup OrdersIn(polling')
  /\ {fills'[i] : i \in DOMAIN fills'} = FillsIn(fills')
BY DEF QueuedOrders, OrdersIn, FillsIn

\* The position an open order belongs to, in terms of the operators above.
PendingFor(o) == IF o.side = "BUY" THEN "PENDING_BUY" ELSE "PENDING_SELL"

LEMMA PendingIs ==
  /\ OpenOrderIsPending <=>
       \A o \in QueuedOrders \cup FillsIn(fills) : pos[o.sym].status = PendingFor(o)
  /\ OpenOrderIsPending' <=>
       \A o \in QueuedOrders' \cup FillsIn(fills') : pos'[o.sym].status = PendingFor(o)
BY DEF OpenOrderIsPending, FillsIn, PendingFor

\* A step that moves no order, no share and no record changes nothing.
LEMMA BooksSame ==
  ASSUME BooksAgree, UNCHANGED <<queue, polling, fills, active, pos, held, crashes>>
  PROVE  BooksAgree'
<1>1. QueuedOrders' = QueuedOrders
  BY DEF QueuedOrders
<1>2. QueueApart'
  BY DEF BooksAgree, QueueApart
<1>. QED
  BY <1>1, <1>2
  DEF BooksAgree, FillsApart, OrdersAgree, OpenOrderIsPending, SellsWhole, Booked

\* poll_fills puts the whole queue under poll.
LEMMA PollStartBooks ==
  ASSUME TypeOK, BooksAgree, polling = <<>>, PollStart,
         UNCHANGED <<pos, active, fills, crashes>>
  PROVE  BooksAgree'
<1>1. OrdersIn(<<>>) = {} /\ Distinct(<<>>)
  BY DEF OrdersIn, Distinct
<1>2. polling' = queue /\ queue' = <<>> /\ UNCHANGED <<cash, held>>
  BY DEF PollStart
<1>3. QueuedOrders' = QueuedOrders
  BY <1>1, <1>2, OpenOrders, OpenOrdersAfter
<1>4. QueueApart'
  BY <1>1, <1>2 DEF BooksAgree, QueueApart
<1>. QED
  BY <1>2, <1>3, <1>4
  DEF BooksAgree, FillsApart, OrdersAgree, OpenOrderIsPending, SellsWhole, Booked

\* An order that is not due goes back to the queue, one that is due moves to
\* the fills and into the ledger.
LEMMA PollKeepBooks ==
  ASSUME TypeOK, BooksAgree, PollKeep, UNCHANGED <<pos, active, fills, crashes>>
  PROVE  BooksAgree'
<1>. DEFINE e == Head(polling)
            h == e.order
<1>1. polling \in Seq(QueueEntries) /\ queue \in Seq(QueueEntries) /\ polling # <<>>
  BY DEF TypeOK, BrokerOK, PollKeep
<1>2. /\ OrdersIn(polling) = OrdersIn(Tail(polling)) \cup {h}
      /\ Distinct(Tail(polling))
      /\ \A o \in OrdersIn(Tail(polling)) : o.sym # h.sym
  BY <1>1, TailEntry DEF BooksAgree, QueueApart
<1>3. Polled(e) \in QueueEntries /\ Polled(e).order = h
  <2>1. e \in QueueEntries
    BY <1>1
  <2>. QED  BY <2>1 DEF QueueEntries, Polled
<1>4. queue' = Append(queue, Polled(e)) /\ polling' = Tail(polling) /\ held' = held
  BY DEF PollKeep
<1>. HIDE DEF e
<1>5. \A o \in OrdersIn(queue) : o.sym # h.sym
  BY <1>2 DEF BooksAgree, QueueApart
<1>6. OrdersIn(queue') = OrdersIn(queue) \cup {h} /\ Distinct(queue')
  BY <1>1, <1>3, <1>4, <1>5, AppendEntry DEF BooksAgree, QueueApart
<1>7. QueuedOrders' = QueuedOrders
  BY <1>2, <1>4, <1>6, OpenOrders, OpenOrdersAfter
<1>8. QueueApart'
  BY <1>2, <1>4, <1>6 DEF BooksAgree, QueueApart
<1>. QED
  BY <1>4, <1>7, <1>8
  DEF BooksAgree, FillsApart, OrdersAgree, OpenOrderIsPending, SellsWhole, Booked

LEMMA PollFillBooks ==
  ASSUME TypeOK, BooksAgree, PollFill,
         active' = Closed(active, Head(polling).order)
                     \cup {Record(Head(polling).order, "FILLED")},
         fills' = Append(fills, Head(polling).order),
         UNCHANGED <<pos, crashes>>
  PROVE  BooksAgree'
<1>. DEFINE h == Head(polling).order
            Q == OrdersIn(queue) \cup OrdersIn(Tail(polling))
            F == FillsIn(fills)
<1>1. polling \in Seq(QueueEntries) /\ polling # <<>> /\ fills \in Seq(Orders)
  BY DEF TypeOK, BrokerOK, LoopOK, PollFill
<1>2. h \in Orders
  BY PollType DEF TypeOK
<1>3. /\ OrdersIn(polling) = OrdersIn(Tail(polling)) \cup {h}
      /\ Distinct(Tail(polling))
      /\ \A o \in OrdersIn(Tail(polling)) : o.sym # h.sym
  BY <1>1, TailEntry DEF BooksAgree, QueueApart
<1>4. queue' = queue /\ polling' = Tail(polling) /\ Settle(h)
  BY DEF PollFill
<1>5. /\ fills' = Append(fills, h) /\ pos' = pos /\ crashes' = crashes
      /\ active' = Closed(active, h) \cup {Record(h, "FILLED")}
  OBVIOUS
<1>. HIDE DEF h
<1>6. QueuedOrders = Q \cup {h} /\ QueuedOrders' = Q
        /\ \A o \in Q : o.sym # h.sym
  <2>1. \A o \in OrdersIn(queue) : o.sym # h.sym
    BY <1>3 DEF BooksAgree, QueueApart
  <2>. QED  BY <1>3, <1>4, <2>1, OpenOrders, OpenOrdersAfter
<1>7. \A f \in F : f.sym # h.sym
  BY <1>6 DEF BooksAgree, FillsApart
<1>8. /\ FillsIn(fills') = F \cup {h}
      /\ \A i, j \in DOMAIN fills' : fills'[i].sym = fills'[j].sym => i = j
  BY <1>1, <1>2, <1>5, <1>7, AppendFill DEF BooksAgree, FillsApart
<1>9. QueueApart'
  BY <1>3, <1>4 DEF BooksAgree, QueueApart
<1>10. FillsApart'
  <2>1. \A o \in Q, f \in F \cup {h} : o.sym # f.sym
    BY <1>6 DEF BooksAgree, FillsApart
  <2>. QED  BY <1>6, <1>8, <2>1 DEF FillsApart
<1>11. OrdersAgree'
  <2>1. \A r \in active : r.status = "ACKED" => r.order \in QueuedOrders
    BY DEF BooksAgree, OrdersAgree
  <2>2. \A o \in QueuedOrders : \E r \in active : r.status = "ACKED" /\ r.order = o
    BY DEF BooksAgree, OrdersAgree
  <2>3. \A r \in active' : r.status = "ACKED" => r \in active /\ r.order # h
    BY <1>5 DEF Closed, Record
  <2>4. \A r \in active : r.order # h => r \in active'
    BY <1>5 DEF Closed
  <2>5. h \notin Q
    BY <1>6
  <2>. QED  BY <1>6, <2>1, <2>2, <2>3, <2>4, <2>5 DEF OrdersAgree
<1>12. QueuedOrders' \cup FillsIn(fills') = QueuedOrders \cup F
  BY <1>6, <1>8
<1>13. OpenOrderIsPending' /\ SellsWhole' /\ Claims(pos)'
  BY <1>5, <1>12, PendingIs DEF BooksAgree, SellsWhole
<1>14. Booked'
  <2>. SUFFICES ASSUME NEW s \in Symbols
                PROVE  /\ (\A f \in FillsIn(fills') : f.sym # s) =>
                            held'[s] = pos'[s].qty \/ (crashes' > 0 /\ held'[s] = 0)
                       /\ \A f \in FillsIn(fills') :
                            f.sym = s => held'[s] = IF f.side = "BUY" THEN f.qty ELSE 0
    BY DEF Booked
  <2>0. held \in [Symbols -> Nat] /\ h.sym \in Symbols /\ h.qty \in Nat
          /\ h.side \in {"BUY", "SELL"} /\ pos[h.sym] \in LivePositions
    BY <1>2, OpenOrders DEF Orders
  <2>1. held[h.sym] = pos[h.sym].qty \/ held[h.sym] = 0
    BY <1>7, <2>0 DEF BooksAgree, Booked
  <2>2. pos[h.sym].status = PendingFor(h)
    BY <1>6, PendingIs DEF BooksAgree
  <2>3. CASE s # h.sym
    <3>1. held'[s] = held[s]
      BY <1>4, <2>0, <2>3 DEF Settle
    <3>2. \A f \in FillsIn(fills') : f.sym = s => f \in F
      BY <1>8, <2>3
    <3>3. F \subseteq FillsIn(fills')
      BY <1>8
    <3>. QED  BY <1>5, <3>1, <3>2, <3>3 DEF BooksAgree, Booked
  <2>4. CASE s = h.sym
    <3>1. h \in FillsIn(fills') /\ \A f \in FillsIn(fills') : f.sym = s => f = h
      BY <1>7, <1>8, <2>4
    <3>2. CASE h.side = "BUY"
      <4>1. pos[s].qty = 0
        BY <2>0, <2>2, <2>4, <3>2 DEF PendingFor, BooksAgree, Claims
      <4>2. held'[s] = h.qty
        BY <1>4, <2>0, <2>1, <2>4, <3>2, <4>1 DEF Settle
      <4>. QED  BY <2>4, <3>1, <3>2, <4>2
    <3>3. CASE h.side = "SELL"
      <4>1. h.qty = pos[s].qty
        BY <1>6, <2>4, <3>3 DEF BooksAgree, SellsWhole
      <4>2. held'[s] = 0
        BY <1>4, <2>0, <2>1, <2>4, <3>3, <4>1 DEF Settle
      <4>. QED  BY <2>4, <3>1, <3>3, <4>2
    <3>. QED  BY <2>0, <3>2, <3>3
  <2>. QED  BY <2>3, <2>4
<1>. QED  BY <1>9, <1>10, <1>11, <1>13, <1>14 DEF BooksAgree

\* A fill that is applied takes its position to where the ledger is.
LEMMA ApplyBooks ==
  ASSUME TypeOK, BooksAgree, fills # <<>>, fills' = Tail(fills),
         NEW p \in LivePositions,
         pos' = [pos EXCEPT ![Head(fills).sym] = p],
         p.status \in {"FLAT", "PENDING_BUY"} <=> p.qty = 0,
         p.qty = held[Head(fills).sym],
         active' = active \/ active' = Closed(active, Head(fills)),
         UNCHANGED <<queue, polling, held, crashes>>
  PROVE  BooksAgree'
<1>. DEFINE h == Head(fills)
            T == FillsIn(Tail(fills))
<1>1. /\ h \in Orders
      /\ FillsIn(fills) = T \cup {h}
      /\ \A i, j \in DOMAIN Tail(fills) : Tail(fills)[i].sym = Tail(fills)[j].sym => i = j
      /\ \A x \in T : x.sym # h.sym
  BY TailFill DEF TypeOK, LoopOK, BooksAgree, FillsApart
<1>2. fills' = Tail(fills) /\ pos' = [pos EXCEPT ![h.sym] = p]
        /\ (active' = active \/ active' = Closed(active, h))
        /\ p.qty = held[h.sym]
  OBVIOUS
<1>. HIDE DEF h
<1>3. QueuedOrders' = QueuedOrders /\ \A o \in QueuedOrders : o.sym # h.sym
  BY <1>1 DEF QueuedOrders, BooksAgree, FillsApart
<1>4. h.sym \in Symbols /\ pos'[h.sym] = p
        /\ \A s \in Symbols \ {h.sym} : pos'[s] = pos[s]
  BY <1>1, <1>2, OpenOrders DEF Orders
<1>5. QueueApart'
  BY DEF BooksAgree, QueueApart
<1>6. FillsApart'
  BY <1>1, <1>2, <1>3 DEF BooksAgree, FillsApart
<1>7. OrdersAgree'
  <2>1. \A r \in active' : r \in active
    BY <1>2 DEF Closed
  <2>2. \A r \in active : r.order # h => r \in active'
    BY <1>2 DEF Closed
  <2>3. {r.order : r \in {x \in active' : x.status = "ACKED"}}
          = {r.order : r \in {x \in active : x.status = "ACKED"}}
    BY <1>3, <2>1, <2>2 DEF BooksAgree, OrdersAgree
  <2>. QED  BY <1>3, <2>3 DEF BooksAgree, OrdersAgree
<1>8. \A o \in QueuedOrders' \cup FillsIn(fills') :
        /\ o \in QueuedOrders \cup FillsIn(fills)
        /\ o.sym \in Symbols /\ o.sym # h.sym
  BY <1>1, <1>2, <1>3, OpenOrders DEF Orders
<1>9. OpenOrderIsPending' /\ SellsWhole'
  BY <1>4, <1>8, PendingIs DEF BooksAgree, SellsWhole
<1>10. Claims(pos)'
  BY <1>4 DEF BooksAgree, Claims
<1>11. Booked'
  <2>1. held' = held /\ crashes' = crashes /\ FillsIn(fills') = T
    BY <1>2
  <2>2. ASSUME NEW f \in T PROVE f \in FillsIn(fills) /\ f.sym # h.sym
    BY <1>1, <2>2
  <2>3. ASSUME NEW s \in Symbols, \A f \in T : f.sym # s
        PROVE  held[s] = pos'[s].qty \/ (crashes > 0 /\ held[s] = 0)
    <3>1. CASE s = h.sym
      <4>1. held[h.sym] = pos'[h.sym].qty
        BY <1>2, <1>4
      <4>. QED  BY <3>1, <4>1
    <3>2. CASE s # h.sym
      <4>1. \A f \in FillsIn(fills) : f.sym # s
        BY <1>1, <2>3, <3>2
      <4>. QED  BY <1>4, <3>2, <4>1 DEF BooksAgree, Booked
    <3>. QED  BY <3>1, <3>2
  <2>4. ASSUME NEW s \in Symbols, NEW f \in T, f.sym = s
        PROVE  held[s] = IF f.side = "BUY" THEN f.qty ELSE 0
    BY <2>2, <2>4 DEF BooksAgree, Booked
  <2>. QED  BY <2>1, <2>3, <2>4 DEF Booked
<1>. QED  BY <1>5, <1>6, <1>7, <1>9, <1>10, <1>11 DEF BooksAgree

\* A trade that is settled or refused at once changes one symbol, for which
\* no order is on its way.
LEMMA SettledBooks ==
  ASSUME TypeOK, BooksAgree, fills = <<>>, NEW s \in Symbols,
         \A o \in QueuedOrders : o.sym # s,
         NEW p \in LivePositions, pos' = [pos EXCEPT ![s] = p],
         p.status \in {"FLAT", "PENDING_BUY"} <=> p.qty = 0,
         \A x \in Symbols \ {s} : held'[x] = held[x],
         held'[s] = p.qty \/ (crashes > 0 /\ held'[s] = 0),
         \A r : r.status = "ACKED" => (r \in active' <=> r \in active),
         UNCHANGED <<queue, polling, fills, crashes>>
  PROVE  BooksAgree'
<1>1. FillsIn(fills) = {} /\ FillsIn(fills') = {}
  BY DEF FillsIn
<1>2. QueuedOrders' = QueuedOrders
  BY DEF QueuedOrders
<1>3. pos'[s] = p /\ \A x \in Symbols \ {s} : pos'[x] = pos[x]
  BY OpenOrders
<1>4. \A o \in QueuedOrders : o.sym \in Symbols \ {s}
  BY OpenOrders DEF Orders
<1>5. QueueApart' /\ FillsApart'
  BY <1>1, <1>2 DEF BooksAgree, QueueApart, FillsApart
<1>6. OrdersAgree'
  <2>1. {x \in active' : x.status = "ACKED"} = {x \in active : x.status = "ACKED"}
    OBVIOUS
  <2>. QED  BY <1>2, <2>1 DEF BooksAgree, OrdersAgree
<1>7. OpenOrderIsPending' /\ SellsWhole'
  BY <1>1, <1>2, <1>3, <1>4, PendingIs DEF BooksAgree, SellsWhole
<1>8. Claims(pos)' /\ Booked'
  BY <1>1, <1>3 DEF BooksAgree, Claims, Booked
<1>. QED  BY <1>5, <1>6, <1>7, <1>8 DEF BooksAgree

\* A trade that the broker accepts for later enters every book at once.
LEMMA QueuedBooks ==
  ASSUME TypeOK, BooksAgree, fills = <<>>, polling = <<>>, NEW o \in Orders,
         \A x \in QueuedOrders : x.sym # o.sym,
         IF o.side = "BUY" THEN pos[o.sym].status = "FLAT"
                           ELSE pos[o.sym].qty = o.qty,
         SubmitQueued(o), pos' = MarkPending(o),
         active' = active \cup {Record(o, "ACKED")},
         UNCHANGED <<fills, crashes>>
  PROVE  BooksAgree'
<1>. DEFINE e == [order |-> o, polls |-> 0]
<1>1. FillsIn(fills) = {} /\ FillsIn(fills') = {} /\ OrdersIn(polling) = {}
        /\ Distinct(polling)
  BY DEF FillsIn, OrdersIn, Distinct
<1>2. queue \in Seq(QueueEntries) /\ e \in QueueEntries /\ e.order = o
  BY DEF TypeOK, BrokerOK, QueueEntries
<1>3. queue' = Append(queue, e) /\ polling' = polling /\ held' = held
  BY DEF SubmitQueued
<1>. HIDE DEF e
<1>4. /\ QueuedOrders = OrdersIn(queue)
      /\ QueuedOrders' = QueuedOrders \cup {o}
      /\ QueueApart'
  <2>1. QueuedOrders = OrdersIn(queue)
    BY <1>1, OpenOrders
  <2>2. OrdersIn(queue') = OrdersIn(queue) \cup {o} /\ Distinct(queue')
    BY <1>2, <1>3, <2>1, AppendEntry DEF BooksAgree, QueueApart
  <2>. QED  BY <1>1, <1>3, <2>1, <2>2, OpenOrdersAfter DEF QueueApart
<1>5. FillsApart'
  BY <1>1 DEF BooksAgree, FillsApart
<1>6. OrdersAgree'
  <2>1. {r.order : r \in {x \in active' : x.status = "ACKED"}}
          = {r.order : r \in {x \in active : x.status = "ACKED"}} \cup {o}
    <3>1. /\ active' = active \cup {Record(o, "ACKED")}
          /\ Record(o, "ACKED").status = "ACKED" /\ Record(o, "ACKED").order = o
      BY DEF Record
    <3>2. {x \in active' : x.status = "ACKED"}
            = {x \in active : x.status = "ACKED"} \cup {Record(o, "ACKED")}
      BY <3>1
    <3>. QED  BY <3>1, <3>2
  <2>. QED  BY <1>4, <2>1 DEF BooksAgree, OrdersAgree
<1>7. /\ o.sym \in Symbols /\ o.side \in {"BUY", "SELL"}
      /\ \A x \in QueuedOrders : x.sym \in Symbols
      /\ pos \in [Symbols -> LivePositions] /\ pos[o.sym] \in LivePositions
  BY OpenOrders DEF Orders
<1>8. /\ pos'[o.sym].status = PendingFor(o)
      /\ \A x \in Symbols : pos'[x].qty = pos[x].qty
      /\ \A x \in Symbols \ {o.sym} : pos'[x] = pos[x]
  <2>1. pos' = [pos EXCEPT ![o.sym] = [pos[o.sym] EXCEPT !.status = PendingFor(o)]]
    BY DEF MarkPending, PendingFor
  <2>2. /\ [pos[o.sym] EXCEPT !.status = PendingFor(o)].status = PendingFor(o)
        /\ [pos[o.sym] EXCEPT !.status = PendingFor(o)].qty = pos[o.sym].qty
    BY <1>7 DEF LivePositions
  <2>. QED  BY <1>7, <2>1, <2>2
<1>9. OpenOrderIsPending' /\ SellsWhole'
  BY <1>1, <1>4, <1>7, <1>8, PendingIs DEF BooksAgree, SellsWhole
<1>10. Claims(pos)'
  <2>1. o.side = "BUY" => pos[o.sym].qty = 0
    BY <1>7 DEF BooksAgree, Claims
  <2>2. o.side = "SELL" => pos[o.sym].qty # 0
    BY <1>7 DEF Orders
  <2>. QED  BY <1>7, <1>8, <2>1, <2>2 DEF BooksAgree, Claims, PendingFor
<1>11. Booked'
  BY <1>1, <1>3, <1>8 DEF BooksAgree, Booked
<1>. QED  BY <1>4, <1>5, <1>6, <1>9, <1>10, <1>11 DEF BooksAgree

\* can_submit sees every order that is on its way.
LEMMA FreeSymbol ==
  ASSUME BooksAgree, NEW s \in Symbols, CanSubmit(s)
  PROVE  \A o \in QueuedOrders : o.sym # s
BY DEF BooksAgree, OrdersAgree, CanSubmit

LEMMA ExitBooks ==
  ASSUME TypeOK, BooksAgree, fills = <<>>, polling = <<>>,
         NEW s \in Symbols, TryExit(s), UNCHANGED <<fills, crashes>>
  PROVE  BooksAgree'
<1>. DEFINE o == ExitOrder(s)
<1>0. /\ held \in [Symbols -> Nat] /\ pos \in [Symbols -> LivePositions]
      /\ pos[s] \in LivePositions /\ pos[s].qty \in Nat
      /\ held[s] = pos[s].qty \/ (crashes > 0 /\ held[s] = 0)
  <2>1. FillsIn(fills) = {}
    BY DEF FillsIn
  <2>. QED  BY <2>1, OpenOrders DEF BooksAgree, Booked, LivePositions
<1>1. CASE SkipExit(s)
  BY <1>1, BooksSame DEF SkipExit, brokerVars, traderVars
<1>2. ASSUME MayExit(s)
      PROVE  /\ o \in Orders /\ o.side = "SELL" /\ o.sym = s
             /\ o.qty = pos[s].qty /\ o.qty \in Nat \ {0}
             /\ \A x \in QueuedOrders : x.sym # s
  <2>1. o \in Orders
    BY <1>2, OrderType
  <2>2. o.side = "SELL" /\ o.sym = s /\ o.qty = pos[s].qty
    BY DEF ExitOrder
  <2>. QED  BY <1>2, <2>1, <2>2, FreeSymbol DEF Orders, MayExit
<1>3. CASE ExitFilled(s)
  <2>. DEFINE p == ApplyFill(pos[s], o)
  <2>1. /\ MayExit(s) /\ Accepts(o) /\ Settle(o)
        /\ pos' = [pos EXCEPT ![s] = p] /\ UNCHANGED <<active, queue, polling>>
    BY <1>3 DEF ExitFilled, SubmitFilled
  <2>2. p \in LivePositions /\ p.qty = 0 /\ p.status = "FLAT"
    BY <1>0, <1>2, <2>1, FillType DEF ApplyFill, SoldBy, FlatPosition
  <2>3. held'[s] = 0 /\ \A x \in Symbols \ {s} : held'[x] = held[x]
    BY <1>0, <1>2, <2>1 DEF Settle
  <2>. HIDE DEF p, o
  <2>. QED  BY <1>2, <2>1, <2>2, <2>3, SettledBooks
<1>4. CASE ExitAcked(s)
  BY <1>2, <1>4, QueuedBooks DEF ExitAcked
<1>5. CASE ExitRejected(s)
  <2>. DEFINE p == [pos[s] EXCEPT !.status = "PENDING_SELL"]
  <2>1. /\ MayExit(s) /\ UNCHANGED <<queue, polling, held>>
        /\ pos' = MarkPending(o) /\ active' = active \cup {Record(o, "REJECTED")}
    BY <1>5 DEF ExitRejected, SubmitRejected, brokerVars
  <2>2. pos' = [pos EXCEPT ![s] = p]
    BY <1>2, <2>1 DEF MarkPending
  <2>3. p \in LivePositions /\ p.status = "PENDING_SELL" /\ p.qty = pos[s].qty
    BY <1>0 DEF LivePositions, Statuses
  <2>4. \A r : r.status = "ACKED" => (r \in active' <=> r \in active)
    BY <2>1 DEF Record
  <2>. HIDE DEF p, o
  <2>. QED  BY <1>0, <1>2, <2>1, <2>2, <2>3, <2>4, SettledBooks
<1>. QED  BY <1>1, <1>3, <1>4, <1>5 DEF TryExit

LEMMA EntryBooks ==
  ASSUME TypeOK, BooksAgree, fills = <<>>, polling = <<>>,
         NEW s \in Symbols, TryEnter(s), UNCHANGED <<fills, crashes>>
  PROVE  BooksAgree'
<1>. DEFINE o == EntryOrder(s)
<1>0. /\ held \in [Symbols -> Nat] /\ pos \in [Symbols -> LivePositions]
      /\ pos[s] \in LivePositions /\ pos[s].qty \in Nat
      /\ held[s] = pos[s].qty \/ (crashes > 0 /\ held[s] = 0)
  <2>1. FillsIn(fills) = {}
    BY DEF FillsIn
  <2>. QED  BY <2>1, OpenOrders DEF BooksAgree, Booked, LivePositions
<1>1. CASE SkipEntry(s)
  BY <1>1, BooksSame DEF SkipEntry, brokerVars, traderVars
<1>2. ASSUME MayEnter(s)
      PROVE  /\ o \in Orders /\ o.side = "BUY" /\ o.sym = s /\ o.qty \in Nat \ {0}
             /\ pos[s].status = "FLAT" /\ pos[s].qty = 0 /\ held[s] = 0
             /\ \A x \in QueuedOrders : x.sym # s
  <2>1. o \in Orders
    BY <1>2, OrderType
  <2>2. o.side = "BUY" /\ o.sym = s
    BY DEF EntryOrder
  <2>3. pos[s].status = "FLAT" /\ CanSubmit(s)
    BY <1>2 DEF MayEnter, CanEnter
  <2>4. pos[s].qty = 0
    BY <2>3 DEF BooksAgree, Claims
  <2>. QED  BY <1>0, <2>1, <2>2, <2>3, <2>4, FreeSymbol DEF Orders
<1>3. CASE EntryFilled(s)
  <2>. DEFINE p == Filled(pos[s], o, StopLevel(md[s]))
  <2>1. /\ MayEnter(s) /\ Settle(o)
        /\ pos' = [pos EXCEPT ![s] = p] /\ UNCHANGED <<active, queue, polling>>
    BY <1>3 DEF EntryFilled, SubmitFilled
  <2>2. StopLevel(md[s]) \in Nat
    BY ConfigAssumption, StopLevelType DEF TypeOK, LoopOK
  <2>3. p \in LivePositions
    BY <1>0, <1>2, <2>1, <2>2, FillType
  <2>4. p.qty = o.qty /\ p.status = "LONG"
    BY <1>0, <1>2, <2>1 DEF Filled, ApplyFill, LivePositions
  <2>5. held'[s] = o.qty /\ \A x \in Symbols \ {s} : held'[x] = held[x]
    BY <1>0, <1>2, <2>1 DEF Settle
  <2>. HIDE DEF p, o
  <2>. QED  BY <1>2, <2>1, <2>3, <2>4, <2>5, SettledBooks
<1>4. CASE EntryAcked(s)
  BY <1>2, <1>4, QueuedBooks DEF EntryAcked
<1>5. CASE EntryRejected(s)
  <2>. DEFINE p == [pos[s] EXCEPT !.status = "PENDING_BUY"]
  <2>1. /\ MayEnter(s) /\ UNCHANGED <<queue, polling, held>>
        /\ pos' = MarkPending(o) /\ active' = active \cup {Record(o, "REJECTED")}
    BY <1>5 DEF EntryRejected, SubmitRejected, brokerVars
  <2>2. pos' = [pos EXCEPT ![s] = p]
    BY <1>2, <2>1 DEF MarkPending
  <2>3. p \in LivePositions /\ p.status = "PENDING_BUY" /\ p.qty = pos[s].qty
    BY <1>0 DEF LivePositions, Statuses
  <2>4. \A r : r.status = "ACKED" => (r \in active' <=> r \in active)
    BY <2>1 DEF Record
  <2>. HIDE DEF p, o
  <2>. QED  BY <1>0, <1>2, <2>1, <2>2, <2>3, <2>4, SettledBooks
<1>. QED  BY <1>1, <1>3, <1>4, <1>5 DEF TryEnter

(***************************************************************************)
(* Every step                                                              *)
(***************************************************************************)

\* A process that has just begun knows of no order.
LEMMA FreshBooks ==
  ASSUME Claims(pos'), active' = {}, queue' = <<>>, polling' = <<>>, fills' = <<>>,
         \A s \in Symbols : held'[s] = pos'[s].qty \/ (crashes' > 0 /\ held'[s] = 0)
  PROVE  BooksAgree'
<1>1. FillsIn(<<>>) = {} /\ OrdersIn(<<>>) = {} /\ Distinct(<<>>)
        /\ {<<>>[i] : i \in DOMAIN <<>>} = {}
  BY DEF FillsIn, OrdersIn, Distinct
<1>2. QueuedOrders' = {} /\ FillsIn(fills') = {}
  BY <1>1, OpenOrdersAfter
<1>. QED
  BY <1>1, <1>2, PendingIs
  DEF BooksAgree, QueueApart, FillsApart, OrdersAgree, SellsWhole, Booked

LEMMA EmptyClaims == Claims(NoPositions)
BY DEF Claims, NoPositions, FlatPosition

LEMMA FreshMemoryBooks ==
  ASSUME FreshMemory PROVE BooksAgree'
<1>1. \A s \in Symbols : held'[s] = pos'[s].qty
  BY DEF FreshMemory, NewBroker, NoPositions, FlatPosition
<1>. QED  BY <1>1, EmptyClaims, FreshBooks DEF FreshMemory, NewBroker

LEMMA InitOrders == Init => OrdersInv
<1>. SUFFICES ASSUME Init PROVE OrdersInv
  OBVIOUS
<1>1. FillsIn(fills) = {} /\ QueuedOrders = {}
  BY DEF Init, BrokerInit, FillsIn, QueuedOrders
<1>2. \A s \in Symbols : held[s] = pos[s].qty
  BY DEF Init, BrokerInit, NoPositions, FlatPosition
<1>3. BooksAgree
  <2>1. QueueApart
    BY DEF Init, BrokerInit, QueueApart, Distinct, OrdersIn
  <2>2. FillsApart
    BY <1>1 DEF Init, FillsApart
  <2>3. OrdersAgree
    BY <1>1 DEF Init, OrdersAgree
  <2>4. Claims(pos)
    BY EmptyClaims DEF Init
  <2>. QED
    BY <1>1, <1>2, <2>1, <2>2, <2>3, <2>4, PendingIs
    DEF BooksAgree, SellsWhole, Booked
<1>. QED
  BY <1>3, InitType
  DEF Init, BrokerInit, OrdersInv, CrashesOK, OrderPhases, SavedClaims, SavedTogether,
      EmptyDisk, Absent, Exists

LEMMA StartOrders ==
  ASSUME OrdersInv, Start PROVE OrdersInv'
<1>1. TypeOK'
  BY NextType DEF OrdersInv, Next
<1>2. Claims(RestoredPositions) /\ RestoredPositions \in PositionMaps
  BY EmptyClaims, FreshType
  DEF OrdersInv, SavedClaims, RestoredPositions, TypeOK, DiskOK
<1>3. queue = <<>> /\ polling = <<>> /\ fills = <<>> /\ active = {}
        /\ closing = 0 /\ held = [s \in Symbols |-> 0]
  BY DEF OrdersInv, OrderPhases, Start, TypeOK, LoopOK, WritePhases
<1>4. /\ queue' = <<>> /\ polling' = <<>> /\ fills' = <<>> /\ active' = {}
      /\ closing' = 0 /\ crashes' = crashes /\ disk' = disk /\ phase' = "ready"
      /\ pos' = RestoredPositions
  BY <1>3 DEF Start, Hydrate, brokerVars
<1>5. \A s \in Symbols : held'[s] = pos'[s].qty \/ (crashes' > 0 /\ held'[s] = 0)
  <2>1. CASE Exists(disk.snapshot)
    <3>. SUFFICES ASSUME NEW s \in Symbols PROVE held'[s] = RestoredPositions[s].qty
      BY <1>4
    <3>1. held'[s] = IF HoldsShares(RestoredPositions[s])
                     THEN RestoredPositions[s].qty ELSE 0
      BY <2>1 DEF Start, Hydrate, RestoredLedger
    <3>2. RestoredPositions[s] \in LivePositions
      BY <1>2 DEF PositionMaps
    <3>. QED
      BY <1>2, <3>1, <3>2 DEF HoldsShares, Claims, LivePositions, Statuses
  <2>2. CASE ~Exists(disk.snapshot)
    <3>1. held' = held
      BY <2>2 DEF Start, brokerVars
    <3>2. CASE crashes > 0
      BY <1>3, <1>4, <3>1, <3>2
    <3>3. CASE crashes = 0
      <4>1. ~Exists(disk.positions)
        BY <2>2, <3>3 DEF OrdersInv, SavedTogether, Start
      <4>2. RestoredPositions = NoPositions
        BY <4>1 DEF RestoredPositions
      <4>. QED  BY <1>3, <1>4, <3>1, <4>2 DEF NoPositions, FlatPosition
    <3>. QED  BY <3>2, <3>3 DEF OrdersInv, CrashesOK
  <2>. QED  BY <2>1, <2>2
<1>6. BooksAgree'
  BY <1>2, <1>4, <1>5, FreshBooks
<1>. QED
  BY <1>1, <1>4, <1>6
  DEF OrdersInv, CrashesOK, OrderPhases, SavedClaims, SavedTogether, WritePhases,
      Start

\* Polling and applying what was polled.
LEMMA PollOrders ==
  ASSUME OrdersInv, PollOrder PROVE OrdersInv'
<1>1. TypeOK'
  BY NextType DEF OrdersInv, Next, HandleEvent
<1>2. BooksAgree'
  <2>1. UNCHANGED <<pos, crashes>>
    BY DEF PollOrder, boundVars
  <2>2. CASE PollKeep /\ UNCHANGED <<active, fills>>
    BY <2>1, <2>2, PollKeepBooks DEF OrdersInv
  <2>3. CASE /\ PollFill
             /\ active' = Closed(active, Head(polling).order)
                            \cup {Record(Head(polling).order, "FILLED")}
             /\ fills' = Append(fills, Head(polling).order)
    BY <2>1, <2>3, PollFillBooks DEF OrdersInv
  <2>. QED  BY <2>2, <2>3 DEF PollOrder
<1>. QED
  BY <1>1, <1>2
  DEF PollOrder, OrdersInv, CrashesOK, OrderPhases, SavedClaims, SavedTogether,
      boundVars, WritePhases, HandlerPhases, PollFill, PollKeep

LEMMA ApplyOrders ==
  ASSUME OrdersInv, ApplyBuyFill \/ ApplySellFill PROVE OrdersInv'
<1>. DEFINE o == Head(fills)
<1>1. TypeOK'
  BY NextType DEF OrdersInv, Next, HandleEvent
<1>2. /\ o \in Orders /\ o \in FillsIn(fills) /\ o.sym \in Symbols
      /\ o.qty \in Nat \ {0} /\ fills # <<>> /\ fills' = Tail(fills)
      /\ UNCHANGED <<queue, polling, held, crashes>>
  <2>1. fills # <<>> /\ fills \in Seq(Orders)
    BY DEF ApplyBuyFill, ApplySellFill, OrdersInv, TypeOK, LoopOK
  <2>2. o \in Orders /\ o \in FillsIn(fills)
    BY <2>1, TailFill DEF OrdersInv, BooksAgree, FillsApart
  <2>. QED
    BY <2>1, <2>2 DEF Orders, ApplyBuyFill, ApplySellFill, brokerVars, boundVars
<1>3. /\ pos[o.sym] \in LivePositions /\ pos[o.sym].qty \in Nat
      /\ pos[o.sym].status = PendingFor(o)
      /\ held[o.sym] = IF o.side = "BUY" THEN o.qty ELSE 0
  BY <1>2, OpenOrders, PendingIs DEF OrdersInv, BooksAgree, Booked, LivePositions
<1>4. BooksAgree'
  <2>1. CASE ApplyBuyFill
    <3>. DEFINE p == Filled(pos[o.sym], o, StopLevel(ApplyFill(pos[o.sym], o).avg))
    <3>1. /\ o.side = "BUY" /\ pos' = [pos EXCEPT ![o.sym] = p]
          /\ active' = Closed(active, o)
      BY <2>1 DEF ApplyBuyFill
    <3>2. pos[o.sym].qty = 0
      BY <1>2, <1>3, <3>1 DEF PendingFor, OrdersInv, BooksAgree, Claims
    <3>3. p \in LivePositions
      <4>1. ApplyFill(pos[o.sym], o).avg \in Nat
        BY <1>2, <1>3, FillType DEF LivePositions
      <4>2. StopLevel(ApplyFill(pos[o.sym], o).avg) \in Nat
        BY <4>1, StopLevelType
      <4>. QED  BY <1>2, <1>3, <4>2, FillType
    <3>4. p.qty = o.qty /\ p.status = "LONG"
      BY <1>2, <1>3, <3>1, <3>2 DEF Filled, ApplyFill, LivePositions
    <3>. HIDE DEF p
    <3>. QED
      BY <1>2, <1>3, <3>1, <3>3, <3>4, ApplyBooks DEF OrdersInv
  <2>2. CASE ApplySellFill
    <3>. DEFINE p == ApplyFill(pos[o.sym], o)
    <3>1. o.side = "SELL" /\ pos' = [pos EXCEPT ![o.sym] = p] /\ active' = active
      BY <2>2 DEF ApplySellFill
    <3>2. o.qty = pos[o.sym].qty
      BY <1>2, <3>1 DEF OrdersInv, BooksAgree, SellsWhole
    <3>3. p \in LivePositions
      BY <1>2, <1>3, FillType
    <3>4. p.qty = 0 /\ p.status = "FLAT"
      BY <1>2, <1>3, <3>1, <3>2 DEF ApplyFill, SoldBy, FlatPosition
    <3>. HIDE DEF p
    <3>. QED
      BY <1>2, <1>3, <3>1, <3>3, <3>4, ApplyBooks DEF OrdersInv
  <2>. QED  BY <2>1, <2>2
<1>. QED
  BY <1>1, <1>4
  DEF ApplyBuyFill, ApplySellFill, OrdersInv, CrashesOK, OrderPhases, SavedClaims,
      SavedTogether, boundVars, brokerVars, WritePhases, HandlerPhases

\* Exits and entries, from wherever the event loop calls them.
LEMMA TradeOrders ==
  ASSUME OrdersInv, ForceExit \/ EvaluateExit \/ EvaluateEntry PROVE OrdersInv'
<1>1. TypeOK'
  BY NextType DEF OrdersInv, Next, HandleEvent
<1>2. /\ phase \in {"force", "exit", "enter"} /\ phase' \in {"force", "enter", "guard"}
      /\ UNCHANGED <<fills, closing, crashes, disk>>
      /\ \E s \in Symbols : TryExit(s) \/ TryEnter(s)
  <2>1. cur \in Symbols /\ toExit \subseteq Symbols
    BY DEF OrdersInv, TypeOK, LoopOK
  <2>. QED
    BY <2>1 DEF ForceExit, EvaluateExit, EvaluateEntry, loopVars, boundVars
<1>3. closing = 0 /\ fills = <<>> /\ polling = <<>>
  BY <1>2 DEF OrdersInv, OrderPhases, WritePhases, TypeOK, LoopOK
<1>4. BooksAgree'
  BY <1>2, <1>3, ExitBooks, EntryBooks DEF OrdersInv
<1>5. polling' = <<>>
  BY <1>2, <1>3
  DEF TryExit, SkipExit, ExitFilled, ExitAcked, ExitRejected, TryEnter, SkipEntry,
      EntryFilled, EntryAcked, EntryRejected, SubmitFilled, SubmitQueued,
      SubmitRejected, brokerVars
<1>. QED
  BY <1>1, <1>2, <1>3, <1>4, <1>5
  DEF OrdersInv, CrashesOK, OrderPhases, SavedClaims, SavedTogether, WritePhases

\* The steps that touch no book: they move the event loop or write a file.
LEMMA QuietOrders ==
  ASSUME OrdersInv,
         PollDone \/ FillsDone \/ ForceDone \/ LossGuard \/ Stop \/ StartFails
           \/ SavePositions \/ SaveOrders \/ SaveStats \/ SaveSnapshot
  PROVE  OrdersInv'
<1>1. TypeOK'
  BY NextType DEF OrdersInv, Next, HandleEvent, Persist
<1>2. UNCHANGED <<queue, polling, fills, active, pos, held, crashes, starts>>
  BY DEF PollDone, FillsDone, ForceDone, LossGuard, Stop, StartFails, SavePositions,
         SaveOrders, SaveStats, SaveSnapshot, Write, brokerVars, traderVars, loopVars,
         boundVars
<1>3. BooksAgree'
  BY <1>2, BooksSame DEF OrdersInv
<1>4. CASE PollDone \/ FillsDone \/ ForceDone \/ LossGuard \/ Stop \/ StartFails
  BY <1>1, <1>2, <1>3, <1>4
  DEF PollDone, FillsDone, ForceDone, LossGuard, Stop, StartFails, loopVars,
      OrdersInv, CrashesOK, OrderPhases, SavedClaims, SavedTogether, WritePhases
<1>5. CASE SavePositions \/ SaveOrders \/ SaveStats \/ SaveSnapshot
  <2>1. DOMAIN disk = WritePhases
    BY DEF OrdersInv, TypeOK, DiskOK
  <2>2. SavedClaims'
    <3>. USE <2>1 DEF Write, File, Exists, WritePhases, OrdersInv, SavedClaims
    <3>1. CASE SavePositions
      BY <3>1 DEF SavePositions, BooksAgree
    <3>2. CASE SaveOrders
      BY <3>2 DEF SaveOrders
    <3>3. CASE SaveStats
      BY <3>3 DEF SaveStats
    <3>4. CASE SaveSnapshot
      BY <3>4 DEF SaveSnapshot
    <3>. QED  BY <1>5, <3>1, <3>2, <3>3, <3>4
  <2>3. SavedTogether'
    BY <1>2, <1>5, <2>1
    DEF SavePositions, SaveOrders, SaveStats, SaveSnapshot, Write, File, Exists,
        WritePhases, OrdersInv, SavedTogether
  <2>4. OrderPhases'
    BY <1>2, <1>5
    DEF SavePositions, SaveOrders, SaveStats, SaveSnapshot, Write, loopVars,
        OrdersInv, OrderPhases, WritePhases
  <2>. QED  BY <1>1, <1>2, <1>3, <2>2, <2>3, <2>4 DEF OrdersInv, CrashesOK
<1>. QED  BY <1>4, <1>5

\* A process that ends, in order or not.
LEMMA EndOrders ==
  ASSUME OrdersInv, SaveSnapshotClosing \/ Crash PROVE OrdersInv'
<1>1. TypeOK'
  BY NextType DEF OrdersInv, Next, Persist
<1>2. DOMAIN disk = WritePhases
  BY DEF OrdersInv, TypeOK, DiskOK
<1>3. CASE SaveSnapshotClosing /\ closing = 2
  <2>1. UNCHANGED <<queue, polling, fills, active, pos, held, crashes>>
    BY <1>3 DEF SaveSnapshotClosing, brokerVars, traderVars, boundVars
  <2>2. BooksAgree'
    BY <2>1, BooksSame DEF OrdersInv
  <2>. QED
    BY <1>1, <1>2, <1>3, <2>1, <2>2
    DEF SaveSnapshotClosing, OrdersInv, CrashesOK, OrderPhases, SavedClaims,
        SavedTogether, WritePhases, Exists, File
<1>4. CASE SaveSnapshotClosing /\ closing # 2
  <2>1. FreshMemory /\ phase' = "down" /\ crashes' = crashes
          /\ disk' = [disk EXCEPT !.snapshot = File(Snapshot)]
    BY <1>4 DEF SaveSnapshotClosing, boundVars
  <2>2. BooksAgree'
    BY <2>1, FreshMemoryBooks
  <2>. QED
    BY <1>1, <1>2, <2>1, <2>2
    DEF FreshMemory, NewBroker, OrdersInv, CrashesOK, OrderPhases, SavedClaims,
        SavedTogether, WritePhases, Exists, File
<1>5. CASE Crash
  <2>1. FreshMemory /\ phase' = "down" /\ crashes' = crashes + 1
          /\ \/ disk' = disk
             \/ phase \in WritePhases /\ disk' = [disk EXCEPT ![phase] = Torn]
    BY <1>5 DEF Crash
  <2>2. BooksAgree'
    BY <2>1, FreshMemoryBooks
  <2>. QED
    BY <1>1, <1>2, <2>1, <2>2
    DEF FreshMemory, NewBroker, OrdersInv, CrashesOK, OrderPhases, SavedClaims,
        SavedTogether, WritePhases, Exists, Torn
<1>. QED  BY <1>3, <1>4, <1>5

LEMMA NextOrders ==
  ASSUME OrdersInv, [Next]_vars PROVE OrdersInv'
<1>1. ASSUME NEW s \in Symbols, NEW px \in Prices, NEW t \in 0 .. MaxTime,
             MarketEvent(s, px, t)
      PROVE  OrdersInv'
  <2>1. TypeOK'
    BY NextType DEF OrdersInv
  <2>2. polling = <<>>
    BY <1>1 DEF MarketEvent, OrdersInv, OrderPhases
  <2>3. BooksAgree'
    BY <1>1, <2>2, PollStartBooks DEF MarketEvent, OrdersInv, boundVars
  <2>. QED
    BY <1>1, <2>1, <2>3
    DEF MarketEvent, boundVars, OrdersInv, CrashesOK, OrderPhases, SavedClaims,
        SavedTogether, WritePhases
<1>2. CASE UNCHANGED vars
  <2>1. TypeOK'
    BY NextType DEF OrdersInv
  <2>2. BooksAgree'
    BY <1>2, BooksSame
    DEF OrdersInv, vars, brokerVars, traderVars, loopVars, boundVars
  <2>. QED
    BY <1>2, <2>1, <2>2
    DEF vars, brokerVars, traderVars, loopVars, boundVars, OrdersInv, CrashesOK,
        OrderPhases, SavedClaims, SavedTogether
<1>. QED
  BY <1>1, <1>2, PollOrders, ApplyOrders, TradeOrders, QuietOrders, EndOrders,
     StartOrders
  DEF Next, HandleEvent, Persist

\* The invariant of orders on their way holds in every reachable state.
THEOREM OrdersInOrder == Spec => []OrdersInv
<1>1. OrdersInv /\ [Next]_vars => OrdersInv'
  BY NextOrders
<1>. QED  BY <1>1, InitOrders, PTL DEF Spec

\* The orders the broker still has to fill are exactly the ACKED orders of
\* the order manager, whatever the delay of fills, so can_submit is right
\* about what is open (order_manager.submit, process_fills).
THEOREM QueueMatchesRecords == Spec => []OrdersAgree
BY OrdersInOrder, PTL DEF OrdersInv, BooksAgree

\* An order that is open, or filled and not applied, belongs to a position
\* that is pending on its side, until the position manager applies the fill.
THEOREM OrdersArePending == Spec => []OpenOrderIsPending
BY OrdersInOrder, PTL DEF OrdersInv, BooksAgree

\* Between two events the broker holds exactly the shares the positions
\* claim; after a crash in the first save it may hold none of a symbol's.
THEOREM LedgersAgree == Spec => []LedgerAgreement
<1>1. OrdersInv => LedgerAgreement
  <2>. SUFFICES ASSUME OrdersInv, phase = "ready", NEW s \in Symbols
                PROVE  held[s] = pos[s].qty \/ (crashes > 0 /\ held[s] = 0)
    BY DEF LedgerAgreement
  <2>1. closing = 0
    BY DEF OrdersInv, OrderPhases, WritePhases, TypeOK, LoopOK
  <2>2. FillsIn(fills) = {}
    BY <2>1 DEF OrdersInv, OrderPhases, FillsIn
  <2>. QED  BY <2>2 DEF OrdersInv, BooksAgree, Booked
<1>. QED  BY <1>1, OrdersInOrder, PTL

\* No symbol ever has two orders on the way, in the queue or under poll.
THEOREM OneOrderPerSymbol == Spec => []OneOpenOrder
<1>1. OrdersInv => OneOpenOrder
  <2>. SUFFICES ASSUME OrdersInv PROVE OneOpenOrder
    OBVIOUS
  <2>. DEFINE all == polling \o queue
              m == Len(polling)
              n == Len(queue)
  <2>1. /\ polling \in Seq(QueueEntries) /\ queue \in Seq(QueueEntries)
        /\ m \in Nat /\ n \in Nat /\ DOMAIN polling = 1 .. m /\ DOMAIN queue = 1 .. n
    BY LenProperties DEF OrdersInv, TypeOK, BrokerOK
  <2>2. /\ DOMAIN all = 1 .. m + n
        /\ \A i \in 1 .. m + n : all[i] = IF i <= m THEN polling[i] ELSE queue[i - m]
    BY <2>1, ConcatProperties, LenProperties
  <2>. HIDE DEF all, m, n
  <2>3. \A i \in DOMAIN all :
          \/ i \in DOMAIN polling /\ all[i] = polling[i] /\ all[i].order \in OrdersIn(polling)
          \/ i - m \in DOMAIN queue /\ all[i] = queue[i - m]
               /\ all[i].order \in OrdersIn(queue)
    <3>. SUFFICES ASSUME NEW i \in DOMAIN all
                  PROVE  \/ i \in DOMAIN polling /\ all[i] = polling[i]
                              /\ all[i].order \in OrdersIn(polling)
                         \/ i - m \in DOMAIN queue /\ all[i] = queue[i - m]
                              /\ all[i].order \in OrdersIn(queue)
      OBVIOUS
    <3>1. CASE i <= m
      BY <2>1, <2>2, <3>1 DEF OrdersIn
    <3>2. CASE i > m
      <4>1. i - m \in DOMAIN queue /\ all[i] = queue[i - m]
        BY <2>1, <2>2, <3>2
      <4>. QED  BY <4>1 DEF OrdersIn
    <3>. QED  BY <2>1, <2>2, <3>1, <3>2
  <2>4. ASSUME NEW i \in DOMAIN all, NEW j \in DOMAIN all,
               all[i].order.sym = all[j].order.sym
        PROVE  i = j
    <3>. USE DEF OrdersInv, BooksAgree, QueueApart
    <3>1. CASE i \in DOMAIN polling /\ all[i] = polling[i]
                 /\ j \in DOMAIN polling /\ all[j] = polling[j]
      BY <2>4, <3>1 DEF Distinct
    <3>2. CASE i - m \in DOMAIN queue /\ all[i] = queue[i - m]
                 /\ j - m \in DOMAIN queue /\ all[j] = queue[j - m]
      <4>1. i - m = j - m
        BY <2>4, <3>2 DEF Distinct
      <4>. QED  BY <2>1, <2>2, <4>1
    <3>3. ASSUME NEW x \in DOMAIN all, NEW y \in DOMAIN all,
                 all[x].order \in OrdersIn(polling), all[y].order \in OrdersIn(queue)
          PROVE  all[x].order.sym # all[y].order.sym
      BY <3>3
    <3>. QED  BY <2>3, <2>4, <3>1, <3>2, <3>3
  <2>. QED  BY <2>4 DEF OneOpenOrder, all
<1>. QED  BY <1>1, OrdersInOrder, PTL

\* A restart that finds a snapshot gives the broker exactly the shares of the
\* positions it reads, pending ones included (restore_state).
THEOREM RestartRestores == Spec => LedgerRestored
<1>1. OrdersInv /\ [Next]_vars =>
        [Start /\ Exists(disk.snapshot) =>
           \A s \in Symbols : held'[s] = pos'[s].qty]_vars
  <2>. SUFFICES ASSUME OrdersInv, Start, Exists(disk.snapshot), NEW s \in Symbols
                PROVE  held'[s] = pos'[s].qty
    OBVIOUS
  <2>1. RestoredPositions \in PositionMaps /\ Claims(RestoredPositions)
    BY EmptyClaims, FreshType
    DEF OrdersInv, SavedClaims, RestoredPositions, TypeOK, DiskOK
  <2>2. held'[s] = IF HoldsShares(RestoredPositions[s])
                   THEN RestoredPositions[s].qty ELSE 0
    BY DEF Start, Hydrate, RestoredLedger
  <2>3. RestoredPositions[s] \in LivePositions
    BY <2>1 DEF PositionMaps
  <2>4. held'[s] = RestoredPositions[s].qty
    BY <2>1, <2>2, <2>3 DEF HoldsShares, Claims, LivePositions, Statuses
  <2>. QED  BY <2>4 DEF Start
<1>. QED  BY <1>1, OrdersInOrder, PTL DEF Spec, LedgerRestored
=============================================================================
