-------------------------- MODULE LiveSafety_proofs --------------------------
(***************************************************************************)
(* What a trader whose orders are filled at once keeps, for every value of *)
(* the other constants, through every crash and every restart.             *)
(***************************************************************************)
EXTENDS LiveTrader_proofs, LiveAccount, LiveTraderHistory, FoldTheorems

(***************************************************************************)
(* The inductive invariant: the limits hold in memory and for what a later *)
(* process will read back from the state files.                            *)
(***************************************************************************)
NoneOpen == queue = <<>> /\ polling = <<>> /\ fills = <<>>

LongIn(m) == {s \in Symbols : m[s].status = "LONG" /\ m[s].qty > 0}

SavedLimit ==
  Exists(disk.positions) => Cardinality(LongIn(disk.positions.val)) <= MaxPositions

SavedCash == Exists(disk.snapshot) => disk.snapshot.val.cash >= 0

SharesKnown == \A s \in Symbols : held[s] <= pos[s].qty

EmptyWhenDown == phase = "down" => held = [s \in Symbols |-> 0]

AccountInv ==
  /\ EmptyWhenDown
  /\ TypeOK /\ NoneOpen
  /\ PositionLimit /\ SavedLimit
  /\ CashNotNegative /\ SavedCash
  /\ SharesKnown

\* The long symbols are finitely many.
LEMMA LongFinite ==
  ASSUME NEW m PROVE IsFiniteSet(LongIn(m)) /\ Cardinality(LongIn(m)) \in Nat
<1>1. LongIn(m) \subseteq Symbols
  BY DEF LongIn
<1>. QED  BY <1>1, ConfigAssumption, FS_Subset, FS_CardinalityType

\* A symbol that leaves, or one that enters, moves the count accordingly.
LEMMA LongCount ==
  ASSUME NEW m, NEW n, NEW s \in Symbols,
         \A x \in Symbols \ {s} : n[x] = m[x]
  PROVE  /\ Cardinality(LongIn(n)) <= Cardinality(LongIn(m)) + 1
         /\ s \notin LongIn(n) => Cardinality(LongIn(n)) <= Cardinality(LongIn(m))
<1>1. LongIn(n) \subseteq LongIn(m) \cup {s}
  BY DEF LongIn
<1>2. IsFiniteSet(LongIn(m)) /\ IsFiniteSet(LongIn(n))
        /\ Cardinality(LongIn(m)) \in Nat /\ Cardinality(LongIn(n)) \in Nat
  BY LongFinite
<1>3. IsFiniteSet(LongIn(m) \cup {s})
        /\ Cardinality(LongIn(m) \cup {s}) \in Nat
        /\ Cardinality(LongIn(m) \cup {s}) <= Cardinality(LongIn(m)) + 1
  <2>1. /\ IsFiniteSet(LongIn(m) \cup {s})
        /\ Cardinality(LongIn(m) \cup {s})
             = IF s \in LongIn(m) THEN Cardinality(LongIn(m))
                                  ELSE Cardinality(LongIn(m)) + 1
    BY <1>2, FS_AddElement
  <2>. QED  BY <1>2, <2>1
<1>4. Cardinality(LongIn(n)) <= Cardinality(LongIn(m) \cup {s})
  BY <1>1, <1>3, FS_Subset
<1>5. ASSUME s \notin LongIn(n)
      PROVE  Cardinality(LongIn(n)) <= Cardinality(LongIn(m))
  <2>1. LongIn(n) \subseteq LongIn(m)
    BY <1>1, <1>5
  <2>. QED  BY <1>2, <2>1, FS_Subset
<1>. QED  BY <1>2, <1>3, <1>4, <1>5

\* The limit of positions in terms of the position dictionary.
LEMMA LimitIs ==
  /\ PositionLimit  <=> Cardinality(LongIn(pos)) <= MaxPositions
  /\ PositionLimit' <=> Cardinality(LongIn(pos')) <= MaxPositions
<1>1. LongSymbols = LongIn(pos) /\ LongSymbols' = LongIn(pos')
  BY DEF LongSymbols, LongIn
<1>. QED  BY <1>1 DEF PositionLimit

\* An exit that is filled at once keeps the account in order.
LEMMA ExitSafe ==
  ASSUME FillsAtOnce, AccountInv, NEW s \in Symbols, TryExit(s)
  PROVE  /\ PositionLimit' /\ CashNotNegative' /\ SharesKnown'
         /\ queue' = <<>> /\ polling' = <<>>
<1>. DEFINE o == ExitOrder(s)
<1>0. /\ cash \in Int /\ held \in [Symbols -> Nat] /\ pos \in [Symbols -> LivePositions]
      /\ pos[s] \in LivePositions
  BY DEF AccountInv, TypeOK, BrokerOK, TraderOK, PositionMaps
<1>1. CASE SkipExit(s)
  BY <1>1
  DEF SkipExit, AccountInv, NoneOpen, PositionLimit, LongSymbols,
      CashNotNegative, SharesKnown, brokerVars, traderVars
<1>2. CASE ExitFilled(s)
  <2>1. o \in Orders /\ o.side = "SELL" /\ o.sym = s /\ o.qty = pos[s].qty
    BY <1>2, OrderType DEF ExitFilled, ExitOrder, AccountInv
  <2>2. o.qty \in Nat \ {0} /\ o.px * o.qty \in Nat
    <3>1. o.px \in Nat
      BY <2>1, ConfigAssumption DEF Orders
    <3>. QED  BY <2>1, <3>1 DEF Orders
  <2>3. Accepts(o) /\ Settle(o) /\ queue' = queue /\ polling' = polling
    BY <1>2 DEF ExitFilled, SubmitFilled
  <2>4. held[s] = o.qty
    BY <1>0, <2>1, <2>2, <2>3 DEF Accepts, AccountInv, SharesKnown
  <2>5. held' = [held EXCEPT ![s] = 0] /\ cash' = cash + o.px * o.qty
    BY <1>0, <2>1, <2>2, <2>3, <2>4 DEF Settle
  <2>6. ApplyFill(pos[s], o).qty = 0 /\ ApplyFill(pos[s], o).status = "FLAT"
    BY <1>0, <2>1, <2>2 DEF ApplyFill, SoldBy, FlatPosition
  <2>7. pos' = [pos EXCEPT ![s] = ApplyFill(pos[s], o)]
    BY <1>2 DEF ExitFilled
  <2>8. s \notin LongIn(pos') /\ \A x \in Symbols \ {s} : pos'[x] = pos[x]
    BY <1>0, <2>6, <2>7 DEF LongIn
  <2>9. PositionLimit'
    <3>1. Cardinality(LongIn(pos')) <= Cardinality(LongIn(pos))
      BY <2>8, LongCount
    <3>. QED
      BY <3>1, LongFinite, LimitIs, ConfigAssumption DEF AccountInv
  <2>10. CashNotNegative'
    BY <1>0, <2>2, <2>5 DEF AccountInv, CashNotNegative
  <2>11. SharesKnown'
    BY <1>0, <2>5, <2>6, <2>7 DEF AccountInv, SharesKnown
  <2>. QED  BY <2>3, <2>9, <2>10, <2>11 DEF AccountInv, NoneOpen
<1>3. CASE ExitAcked(s)
  BY <1>3 DEF ExitAcked, SubmitQueued
<1>4. CASE ExitRejected(s)
  <2>1. o.sym = s /\ o.side = "SELL"
    BY DEF ExitOrder
  <2>2. pos' = [pos EXCEPT ![s].status = "PENDING_SELL"]
    BY <1>4, <2>1 DEF ExitRejected, MarkPending
  <2>3. UNCHANGED brokerVars
    BY <1>4 DEF ExitRejected, SubmitRejected
  <2>4. /\ s \notin LongIn(pos')
        /\ \A x \in Symbols \ {s} : pos'[x] = pos[x]
        /\ \A x \in Symbols : pos'[x].qty = pos[x].qty
    BY <1>0, <2>2 DEF LongIn, LivePositions
  <2>5. PositionLimit'
    <3>1. Cardinality(LongIn(pos')) <= Cardinality(LongIn(pos))
      BY <2>4, LongCount
    <3>. QED
      BY <3>1, LongFinite, LimitIs, ConfigAssumption DEF AccountInv
  <2>. QED
    BY <2>3, <2>4, <2>5
    DEF AccountInv, NoneOpen, CashNotNegative, SharesKnown, brokerVars
<1>. QED  BY <1>1, <1>2, <1>3, <1>4 DEF TryExit

\* So does an entry: it is paid with cash at hand and takes a free place.
LEMMA EntrySafe ==
  ASSUME FillsAtOnce, AccountInv, NEW s \in Symbols, TryEnter(s)
  PROVE  /\ PositionLimit' /\ CashNotNegative' /\ SharesKnown'
         /\ queue' = <<>> /\ polling' = <<>>
<1>. DEFINE o == EntryOrder(s)
<1>0. /\ cash \in Int /\ held \in [Symbols -> Nat] /\ pos \in [Symbols -> LivePositions]
      /\ pos[s] \in LivePositions
  BY DEF AccountInv, TypeOK, BrokerOK, TraderOK, PositionMaps
<1>1. CASE SkipEntry(s)
  BY <1>1
  DEF SkipEntry, AccountInv, NoneOpen, PositionLimit, LongSymbols,
      CashNotNegative, SharesKnown, brokerVars, traderVars
<1>2. CASE EntryFilled(s)
  <2>1. o \in Orders /\ o.side = "BUY" /\ o.sym = s
    BY <1>2, OrderType DEF EntryFilled, EntryOrder, AccountInv
  <2>2. o.qty \in Nat \ {0} /\ o.px * o.qty \in Nat
    <3>1. o.px \in Nat
      BY <2>1, ConfigAssumption DEF Orders
    <3>. QED  BY <2>1, <3>1 DEF Orders
  <2>3. Accepts(o) /\ Settle(o) /\ queue' = queue /\ polling' = polling
    BY <1>2 DEF EntryFilled, SubmitFilled
  <2>4. o.px * o.qty * 1001 <= cash * 1000
    BY <2>1, <2>3 DEF Accepts
  <2>5. held' = [held EXCEPT ![s] = @ + o.qty] /\ cash' = cash - o.px * o.qty
    BY <2>1, <2>3 DEF Settle
  <2>6. Filled(pos[s], o, StopLevel(md[s])).qty = pos[s].qty + o.qty
    BY <1>0, <2>1, <2>2 DEF Filled, ApplyFill, LivePositions
  <2>7. pos' = [pos EXCEPT ![s] = Filled(pos[s], o, StopLevel(md[s]))]
    BY <1>2 DEF EntryFilled
  <2>8. PositionLimit'
    <3>1. \A x \in Symbols \ {s} : pos'[x] = pos[x]
      BY <1>0, <2>7
    <3>2. Cardinality(LongIn(pos')) <= Cardinality(LongIn(pos)) + 1
      BY <3>1, LongCount
    <3>3. LongIn(pos) = LongSymbols
      BY DEF LongIn, LongSymbols
    <3>4. Cardinality(LongIn(pos)) < MaxPositions
      BY <1>2, <3>3 DEF EntryFilled, MayEnter, CanEnter, PositionsLeft
    <3>. QED
      BY <3>2, <3>4, LongFinite, LimitIs, ConfigAssumption
  <2>9. CashNotNegative'
    <3>. DEFINE cost == o.px * o.qty
    <3>1. cost \in Nat /\ cost * 1001 <= cash * 1000 /\ cash' = cash - cost
      BY <2>2, <2>4, <2>5
    <3>. HIDE DEF cost
    <3>. QED  BY <1>0, <3>1 DEF CashNotNegative
  <2>10. SharesKnown'
    BY <1>0, <2>2, <2>5, <2>6, <2>7 DEF AccountInv, SharesKnown, LivePositions
  <2>. QED  BY <2>3, <2>8, <2>9, <2>10 DEF AccountInv, NoneOpen
<1>3. CASE EntryAcked(s)
  BY <1>3 DEF EntryAcked, SubmitQueued
<1>4. CASE EntryRejected(s)
  <2>1. o.sym = s /\ o.side = "BUY"
    BY DEF EntryOrder
  <2>2. pos' = [pos EXCEPT ![s].status = "PENDING_BUY"]
    BY <1>4, <2>1 DEF EntryRejected, MarkPending
  <2>3. UNCHANGED brokerVars
    BY <1>4 DEF EntryRejected, SubmitRejected
  <2>4. /\ s \notin LongIn(pos')
        /\ \A x \in Symbols \ {s} : pos'[x] = pos[x]
        /\ \A x \in Symbols : pos'[x].qty = pos[x].qty
    BY <1>0, <2>2 DEF LongIn, LivePositions
  <2>5. PositionLimit'
    <3>1. Cardinality(LongIn(pos')) <= Cardinality(LongIn(pos))
      BY <2>4, LongCount
    <3>. QED
      BY <3>1, LongFinite, LimitIs, ConfigAssumption DEF AccountInv
  <2>. QED
    BY <2>3, <2>4, <2>5
    DEF AccountInv, NoneOpen, CashNotNegative, SharesKnown, brokerVars
<1>. QED  BY <1>1, <1>2, <1>3, <1>4 DEF TryEnter

\* The memory of a new process has nothing to account for.
LEMMA FreshSafe ==
  ASSUME FreshMemory
  PROVE  /\ NoneOpen' /\ PositionLimit' /\ CashNotNegative' /\ SharesKnown'
         /\ EmptyWhenDown'
<1>1. LongIn(NoPositions) = {}
  BY DEF LongIn, NoPositions, FlatPosition
<1>2. PositionLimit'
  <2>1. Cardinality(LongIn(pos')) = 0
    BY <1>1, FS_EmptySet DEF FreshMemory
  <2>. QED  BY <2>1, LimitIs, ConfigAssumption
<1>. QED
  BY <1>2, ConfigAssumption
  DEF FreshMemory, NewBroker, NoneOpen, CashNotNegative, SharesKnown,
      EmptyWhenDown, NoPositions, FlatPosition

LEMMA InitSafe == Init => AccountInv
<1>. SUFFICES ASSUME Init PROVE AccountInv
  OBVIOUS
<1>1. LongIn(pos) = {}
  BY DEF Init, LongIn, NoPositions, FlatPosition
<1>2. PositionLimit
  <2>1. Cardinality(LongIn(pos)) = 0
    BY <1>1, FS_EmptySet
  <2>. QED  BY <2>1, LimitIs, ConfigAssumption
<1>. QED
  BY <1>2, InitType, ConfigAssumption
  DEF Init, BrokerInit, AccountInv, NoneOpen, SavedLimit, CashNotNegative,
      SavedCash, SharesKnown, EmptyWhenDown, EmptyDisk, Absent, Exists, NoPositions,
      FlatPosition

\* What a restart reads back is in order.
LEMMA StartSafe ==
  ASSUME AccountInv, Start
  PROVE  AccountInv'
<1>1. TypeOK'
  BY NextType DEF AccountInv, Next
<1>2. RestoredPositions \in PositionMaps
  BY FreshType DEF RestoredPositions, AccountInv, TypeOK, DiskOK
<1>3. PositionLimit'
  <2>1. CASE Exists(disk.positions)
    BY <2>1, LimitIs DEF Start, RestoredPositions, AccountInv, SavedLimit
  <2>2. CASE ~Exists(disk.positions)
    <3>1. LongIn(pos') = {}
      BY <2>2 DEF Start, RestoredPositions, LongIn, NoPositions, FlatPosition
    <3>2. Cardinality(LongIn(pos')) = 0
      BY <3>1, FS_EmptySet
    <3>. QED  BY <3>2, LimitIs, ConfigAssumption
  <2>. QED  BY <2>1, <2>2
<1>4. CASE Exists(disk.snapshot)
  <2>1. Hydrate(disk.snapshot.val.cash, RestoredLedger(RestoredPositions))
    BY <1>4 DEF Start
  <2>2. \A s \in Symbols : held'[s] <= pos'[s].qty
    BY <1>2, <2>1
    DEF Hydrate, RestoredLedger, Start, PositionMaps, LivePositions
  <2>. QED
    BY <1>1, <1>3, <1>4, <2>1, <2>2
    DEF AccountInv, Start, Hydrate, NoneOpen, SavedLimit, CashNotNegative,
        SavedCash, SharesKnown, EmptyWhenDown
<1>5. CASE ~Exists(disk.snapshot)
  <2>1. \A s \in Symbols : held'[s] = 0
    BY <1>5 DEF AccountInv, EmptyWhenDown, Start, brokerVars
  <2>2. \A s \in Symbols : pos'[s].qty \in Nat
    BY <1>2 DEF Start, PositionMaps, LivePositions
  <2>3. SharesKnown'
    BY <2>1, <2>2 DEF SharesKnown
  <2>. QED
    BY <1>1, <1>3, <1>5, <2>3
    DEF AccountInv, Start, brokerVars, NoneOpen, SavedLimit, CashNotNegative,
        SavedCash, EmptyWhenDown
<1>. QED  BY <1>4, <1>5

\* Every step of a trader whose orders are filled at once keeps the account
\* in order.
LEMMA NextSafe ==
  ASSUME FillsAtOnce, AccountInv, [Next]_vars
  PROVE  AccountInv'
<1>0. TypeOK'
  BY NextType DEF AccountInv
<1>1. ASSUME NEW s \in Symbols, NEW px \in Prices, NEW t \in 0 .. MaxTime,
             MarketEvent(s, px, t)
      PROVE  AccountInv'
  BY <1>0, <1>1
  DEF MarketEvent, PollStart, AccountInv, NoneOpen, PositionLimit, LongSymbols,
      SavedLimit, CashNotNegative, SavedCash, SharesKnown, EmptyWhenDown
<1>2. CASE PollOrder \/ ApplyBuyFill \/ ApplySellFill
  BY <1>2
  DEF PollOrder, PollFill, PollKeep, ApplyBuyFill, ApplySellFill, AccountInv,
      NoneOpen
<1>3. CASE PollDone \/ FillsDone \/ ForceDone \/ LossGuard
  BY <1>0, <1>3
  DEF PollDone, FillsDone, ForceDone, LossGuard, brokerVars, traderVars,
      loopVars, AccountInv, NoneOpen, PositionLimit, LongSymbols,
      SavedLimit, CashNotNegative, SavedCash, SharesKnown, EmptyWhenDown
<1>4. ASSUME NEW s \in Symbols, TryExit(s) \/ TryEnter(s), fills' = fills,
             disk' = disk, phase' # "down"
      PROVE  AccountInv'
  <2>1. /\ PositionLimit' /\ CashNotNegative' /\ SharesKnown'
        /\ queue' = <<>> /\ polling' = <<>>
    BY <1>4, ExitSafe, EntrySafe
  <2>. QED
    BY <1>0, <1>4, <2>1
    DEF AccountInv, NoneOpen, SavedLimit, SavedCash, EmptyWhenDown
<1>5. CASE ForceExit \/ EvaluateExit \/ EvaluateEntry
  <2>1. cur \in Symbols /\ toExit \subseteq Symbols
    BY DEF AccountInv, TypeOK, LoopOK
  <2>. QED
    BY <1>4, <1>5, <2>1 DEF ForceExit, EvaluateExit, EvaluateEntry, loopVars
<1>6. CASE SavePositions \/ SaveOrders \/ SaveStats \/ SaveSnapshot
  <2>1. SavedLimit' /\ SavedCash'
    <3>. USE DEF Write, File, Exists, AccountInv, SavedLimit, SavedCash, TypeOK,
                 DiskOK, WritePhases
    <3>1. CASE SavePositions
      BY <1>6, <3>1, LimitIs DEF SavePositions
    <3>2. CASE SaveOrders
      BY <1>6, <3>2 DEF SaveOrders
    <3>3. CASE SaveStats
      BY <1>6, <3>3 DEF SaveStats
    <3>4. CASE SaveSnapshot
      BY <1>6, <3>4 DEF SaveSnapshot, Snapshot, CashNotNegative
    <3>. QED  BY <1>6, <3>1, <3>2, <3>3, <3>4
  <2>. QED
    BY <1>0, <1>6, <2>1
    DEF SavePositions, SaveOrders, SaveStats, SaveSnapshot, Write, brokerVars,
        traderVars, loopVars, AccountInv, NoneOpen, PositionLimit, LongSymbols,
        CashNotNegative, SharesKnown, EmptyWhenDown
<1>7. CASE SaveSnapshotClosing
  <2>1. SavedLimit' /\ SavedCash'
    BY <1>7
    DEF SaveSnapshotClosing, File, Exists, Snapshot, AccountInv, SavedLimit,
        SavedCash, CashNotNegative, TypeOK, DiskOK, WritePhases
  <2>2. CASE closing = 2
    BY <1>0, <1>7, <2>1, <2>2
    DEF SaveSnapshotClosing, brokerVars, traderVars, AccountInv, NoneOpen,
        PositionLimit, LongSymbols, CashNotNegative, SharesKnown, EmptyWhenDown
  <2>3. CASE closing # 2
    BY <1>0, <1>7, <2>1, <2>3, FreshSafe DEF SaveSnapshotClosing, AccountInv
  <2>. QED  BY <2>2, <2>3
<1>8. CASE StartFails \/ Stop \/ UNCHANGED vars
  BY <1>0, <1>8
  DEF StartFails, Stop, vars, brokerVars, traderVars, loopVars, AccountInv,
      NoneOpen, PositionLimit, LongSymbols, SavedLimit, CashNotNegative,
      SavedCash, SharesKnown, EmptyWhenDown
<1>9. CASE Crash
  <2>1. SavedLimit' /\ SavedCash'
    BY <1>9
    DEF Crash, Torn, Exists, AccountInv, SavedLimit, SavedCash, TypeOK, DiskOK,
        WritePhases
  <2>. QED  BY <1>0, <1>9, <2>1, FreshSafe DEF Crash, AccountInv
<1>. QED
  BY <1>1, <1>2, <1>3, <1>5, <1>6, <1>7, <1>8, <1>9, StartSafe
  DEF Next, HandleEvent, Persist

\* The invariant of a trader whose orders are filled at once.
THEOREM AccountInOrder == ASSUME FillsAtOnce PROVE Spec => []AccountInv
<1>1. AccountInv /\ [Next]_vars => AccountInv'
  BY NextSafe
<1>. QED  BY <1>1, InitSafe, PTL DEF Spec

\* When orders are filled at once, never more than max_positions positions
\* are long, across crashes and restarts from any mix of old and new state
\* files (can_enter counts the long positions).
THEOREM PositionsLimited == ASSUME FillsAtOnce PROVE Spec => []PositionLimit
BY AccountInOrder, PTL DEF AccountInv

\* When orders are filled at once, the cash check of submit_order keeps the
\* cash from becoming negative.
THEOREM CashSuffices == ASSUME FillsAtOnce PROVE Spec => []CashNotNegative
BY AccountInOrder, PTL DEF AccountInv

(***************************************************************************)
(* Sectors                                                                 *)
(***************************************************************************)
PeersIn(m, s) == {x \in LongIn(m) : SectorOf[x] = SectorOf[s]}

SectorsIn(m) ==
  \A s \in Symbols : SectorOf[s] \in DOMAIN SectorCap =>
    Cardinality(PeersIn(m, s)) <= SectorCap[SectorOf[s]]

SavedSectors == Exists(disk.positions) => SectorsIn(disk.positions.val)

LEMMA PeersFinite ==
  ASSUME NEW m, NEW s
  PROVE  IsFiniteSet(PeersIn(m, s)) /\ Cardinality(PeersIn(m, s)) \in Nat
<1>1. PeersIn(m, s) \subseteq LongIn(m)
  BY DEF PeersIn
<1>. QED  BY <1>1, LongFinite, FS_Subset, FS_CardinalityType

\* Fewer long positions keep every sector within its limit.
LEMMA FewerPeers ==
  ASSUME NEW m, NEW n, LongIn(n) \subseteq LongIn(m), SectorsIn(m)
  PROVE  SectorsIn(n)
<1>. SUFFICES ASSUME NEW s \in Symbols, SectorOf[s] \in DOMAIN SectorCap
              PROVE  Cardinality(PeersIn(n, s)) <= SectorCap[SectorOf[s]]
  BY DEF SectorsIn
<1>1. PeersIn(n, s) \subseteq PeersIn(m, s)
  BY DEF PeersIn
<1>2. Cardinality(PeersIn(n, s)) <= Cardinality(PeersIn(m, s))
  BY <1>1, PeersFinite, FS_Subset
<1>3. Cardinality(PeersIn(m, s)) <= SectorCap[SectorOf[s]]
        /\ SectorCap[SectorOf[s]] \in Nat
  BY ConfigAssumption DEF SectorsIn
<1>. QED  BY <1>2, <1>3, PeersFinite

\* So does one more in a sector that is not full.
LEMMA OneMorePeer ==
  ASSUME SectorsIn(pos), NEW s \in Symbols, ~SectorFull(s),
         NEW n, LongIn(n) \subseteq LongIn(pos) \cup {s}
  PROVE  SectorsIn(n)
<1>. SUFFICES ASSUME NEW x \in Symbols, SectorOf[x] \in DOMAIN SectorCap
              PROVE  Cardinality(PeersIn(n, x)) <= SectorCap[SectorOf[x]]
  BY DEF SectorsIn
<1>. DEFINE cap == SectorCap[SectorOf[x]]
            P == PeersIn(pos, x)
<1>0. cap \in Nat /\ Cardinality(P) <= cap
  BY ConfigAssumption DEF SectorsIn
<1>1. CASE SectorOf[x] = SectorOf[s]
  <2>1. SectorPeers(s) = P
    BY <1>1 DEF SectorPeers, LongSymbols, PeersIn, LongIn
  <2>2. ~(Cardinality(P) >= cap)
    BY <1>1, <2>1 DEF SectorFull
  <2>3. PeersIn(n, x) \subseteq P \cup {s}
    BY DEF PeersIn
  <2>. HIDE DEF P, cap
  <2>4. IsFiniteSet(P) /\ Cardinality(P) \in Nat
    BY PeersFinite DEF P
  <2>5. /\ IsFiniteSet(P \cup {s})
        /\ Cardinality(P \cup {s})
             = IF s \in P THEN Cardinality(P) ELSE Cardinality(P) + 1
    BY <2>4, FS_AddElement
  <2>6. Cardinality(P \cup {s}) \in Nat /\ Cardinality(P \cup {s}) <= cap
    BY <1>0, <2>2, <2>4, <2>5
  <2>7. Cardinality(PeersIn(n, x)) <= Cardinality(P \cup {s})
    BY <2>3, <2>5, FS_Subset
  <2>8. Cardinality(PeersIn(n, x)) \in Nat
    BY PeersFinite
  <2>. QED  BY <1>0, <2>6, <2>7, <2>8 DEF cap
<1>2. CASE SectorOf[x] # SectorOf[s]
  <2>1. PeersIn(n, x) \subseteq P
    BY <1>2 DEF PeersIn
  <2>2. Cardinality(PeersIn(n, x)) <= Cardinality(P)
    BY <2>1, PeersFinite, FS_Subset
  <2>. QED  BY <1>0, <2>2, PeersFinite
<1>. QED  BY <1>1, <1>2

LEMMA NoPeers == SectorsIn(NoPositions)
<1>. SUFFICES ASSUME NEW s \in Symbols, SectorOf[s] \in DOMAIN SectorCap
              PROVE  Cardinality(PeersIn(NoPositions, s)) <= SectorCap[SectorOf[s]]
  BY DEF SectorsIn
<1>1. PeersIn(NoPositions, s) = {}
  BY DEF PeersIn, LongIn, NoPositions, FlatPosition
<1>. QED  BY <1>1, FS_EmptySet, ConfigAssumption

\* What a step can do to the set of long positions: only an entry that is
\* filled at once enlarges it, by one symbol.
LEMMA LongStep ==
  ASSUME FillsAtOnce, AccountInv, [Next]_vars, ~Start
  PROVE  \/ LongIn(pos') \subseteq LongIn(pos)
         \/ \E s \in Symbols :
              /\ MayEnter(s) /\ phase = "enter"
              /\ LongIn(pos') \subseteq LongIn(pos) \cup {s}
<1>0. pos \in [Symbols -> LivePositions] /\ queue = <<>> /\ polling = <<>>
        /\ fills = <<>>
  BY DEF AccountInv, NoneOpen, TypeOK, TraderOK, PositionMaps
<1>1. ASSUME NEW s \in Symbols, TryExit(s)
      PROVE  LongIn(pos') \subseteq LongIn(pos)
  <2>1. CASE SkipExit(s)
    BY <2>1 DEF SkipExit, traderVars
  <2>2. CASE ExitFilled(s)
    <3>1. pos' = [pos EXCEPT ![s] = ApplyFill(pos[s], ExitOrder(s))] /\ s \in LongIn(pos)
      BY <2>2 DEF ExitFilled, MayExit, LongSymbols, LongIn
    <3>. QED  BY <1>0, <3>1 DEF LongIn
  <2>3. CASE ExitAcked(s) \/ ExitRejected(s)
    <3>1. pos' = MarkPending(ExitOrder(s)) /\ ExitOrder(s).sym = s
            /\ ExitOrder(s).side = "SELL"
      BY <2>3 DEF ExitAcked, ExitRejected, ExitOrder
    <3>2. pos' = [pos EXCEPT ![s] = [pos[s] EXCEPT !.status = "PENDING_SELL"]]
      BY <3>1 DEF MarkPending
    <3>3. pos[s] \in LivePositions
      BY <1>0
    <3>4. [pos[s] EXCEPT !.status = "PENDING_SELL"].status = "PENDING_SELL"
      BY <3>3 DEF LivePositions
    <3>. QED  BY <1>0, <3>2, <3>4 DEF LongIn
  <2>. QED  BY <1>1, <2>1, <2>2, <2>3 DEF TryExit
<1>2. ASSUME NEW s \in Symbols, TryEnter(s)
      PROVE  \/ LongIn(pos') \subseteq LongIn(pos)
             \/ MayEnter(s) /\ LongIn(pos') \subseteq LongIn(pos) \cup {s}
  <2>1. CASE SkipEntry(s)
    BY <2>1 DEF SkipEntry, traderVars
  <2>2. CASE ~SkipEntry(s)
    <3>1. MayEnter(s)
      BY <1>2, <2>2 DEF TryEnter, EntryFilled, EntryAcked, EntryRejected
    <3>2. \A x \in Symbols \ {s} : pos'[x] = pos[x]
      BY <1>0, <1>2, <2>2
      DEF TryEnter, EntryFilled, EntryAcked, EntryRejected, MarkPending, EntryOrder
    <3>. QED  BY <3>1, <3>2 DEF LongIn
  <2>. QED  BY <2>1, <2>2
<1>3. CASE ForceExit \/ EvaluateExit \/ EvaluateEntry
  <2>1. cur \in Symbols /\ toExit \subseteq Symbols
    BY DEF AccountInv, TypeOK, LoopOK
  <2>. QED
    BY <1>1, <1>2, <1>3, <2>1 DEF ForceExit, EvaluateExit, EvaluateEntry
<1>4. CASE FreshMemory
  BY <1>4 DEF FreshMemory, LongIn, NoPositions, FlatPosition
<1>5. CASE pos' = pos
  BY <1>5 DEF LongIn
<1>. QED
  BY <1>0, <1>3, <1>4, <1>5
  DEF Next, HandleEvent, Persist, MarketEvent, PollOrder, PollFill, PollKeep, PollDone,
      ApplyBuyFill, ApplySellFill, FillsDone, ForceDone, LossGuard, SavePositions,
      SaveOrders, SaveStats, SaveSnapshot, SaveSnapshotClosing, Write, StartFails,
      Stop, Crash, traderVars, vars

\* positions.json is left as it was, cut short, or written as a whole.
LEMMA SavedStep ==
  ASSUME TypeOK, [Next]_vars
  PROVE  disk'.positions \in {disk.positions, Torn, File(pos)}
<1>1. DOMAIN disk = WritePhases
  BY DEF TypeOK, DiskOK
<1>2. CASE disk' = disk
  BY <1>2
<1>3. CASE Persist
  BY <1>1, <1>3
  DEF Persist, SavePositions, SaveOrders, SaveStats, SaveSnapshot,
      SaveSnapshotClosing, Write, WritePhases
<1>4. CASE Crash
  BY <1>1, <1>4 DEF Crash, WritePhases
<1>. QED
  BY <1>2, <1>3, <1>4
  DEF Next, HandleEvent, MarketEvent, PollOrder, PollDone, ApplyBuyFill,
      ApplySellFill, FillsDone, ForceExit, ForceDone, EvaluateExit, EvaluateEntry,
      LossGuard, Start, StartFails, Stop, vars

\* When orders are filled at once, no sector ever has more long positions
\* than max_positions_per_sector allows it, across crashes and restarts from
\* any mix of old and new state files (can_enter counts the sector's peers).
THEOREM SectorsLimited == ASSUME FillsAtOnce PROVE Spec => []SectorLimit
<1>. DEFINE Inv == SectorsIn(pos) /\ SavedSectors
<1>1. Init => Inv
  BY NoPeers DEF Init, EmptyDisk, Absent, Exists, SavedSectors
<1>2. AccountInv /\ Inv /\ [Next]_vars => Inv'
  <2>. SUFFICES ASSUME AccountInv, Inv, [Next]_vars PROVE Inv'
    OBVIOUS
  <2>1. SectorsIn(pos')
    <3>1. CASE Start
      BY <3>1, NoPeers DEF Start, RestoredPositions, SavedSectors
    <3>2. CASE ~Start
      <4>1. ASSUME NEW s \in Symbols, MayEnter(s),
                   LongIn(pos') \subseteq LongIn(pos) \cup {s}
            PROVE  SectorsIn(pos')
        BY <4>1, OneMorePeer DEF MayEnter, CanEnter
      <4>. QED  BY <3>2, <4>1, LongStep, FewerPeers
    <3>. QED  BY <3>1, <3>2
  <2>2. SavedSectors'
    <3>1. disk'.positions \in {disk.positions, Torn, File(pos)}
      BY SavedStep DEF AccountInv
    <3>. QED  BY <3>1 DEF SavedSectors, Exists, Torn, File
  <2>. QED  BY <2>1, <2>2
<1>3. Inv => SectorLimit
  BY DEF SectorsIn, SectorLimit, SectorPeers, PeersIn, LongSymbols, LongIn
<1>. QED  BY <1>1, <1>2, <1>3, AccountInOrder, PTL DEF Spec

(***************************************************************************)
(* Orderly restarts                                                        *)
(*                                                                         *)
(* Without crashes a process that is down has left three complete files,   *)
(* written by one save.                                                    *)
(***************************************************************************)
Orderly ==
  /\ crashes = 0 /\ phase # "failed"
  /\ \A f \in WritePhases : disk[f].is # "torn"
  /\ phase \in {"orders", "stats", "snapshot"} => disk.positions = File(pos)
  /\ phase = "snapshot" => disk.stats = File(stats)
  /\ phase = "down" =>
       Exists(disk.positions) /\ Exists(disk.stats) /\ Exists(disk.snapshot)

\* No position waits for a sale, in memory or on disk: when orders are filled
\* at once an exit is never refused.
NoneSelling(m) == \A s \in Symbols : m[s].status # "PENDING_SELL"

SoldAtOnce ==
  /\ NoneSelling(pos)
  /\ Exists(disk.positions) => NoneSelling(disk.positions.val)

SteadyInv == AccountInv /\ OrdersInv /\ Orderly /\ SoldAtOnce

LEMMA OrderlyInit == Init => Orderly
BY DEF Init, Orderly, EmptyDisk, Absent, WritePhases

LEMMA OrderlyNext ==
  ASSUME MaxCrashes = 0, TypeOK, Orderly, [Next]_vars
  PROVE  Orderly'
<1>0. DOMAIN disk = WritePhases
  BY DEF TypeOK, DiskOK
<1>1. CASE Persist
  <2>1. CASE SavePositions
    BY <1>0, <2>1
    DEF SavePositions, Write, File, traderVars, boundVars, Orderly, WritePhases
  <2>2. CASE SaveOrders
    BY <1>0, <2>2
    DEF SaveOrders, Write, File, traderVars, boundVars, Orderly, WritePhases
  <2>3. CASE SaveStats
    BY <1>0, <2>3
    DEF SaveStats, Write, File, traderVars, boundVars, Orderly, WritePhases
  <2>4. CASE SaveSnapshot
    BY <1>0, <2>4
    DEF SaveSnapshot, Write, File, traderVars, boundVars, Orderly, WritePhases
  <2>5. CASE SaveSnapshotClosing
    BY <1>0, <2>5
    DEF SaveSnapshotClosing, File, Exists, boundVars, Orderly, WritePhases
  <2>. QED  BY <1>1, <2>1, <2>2, <2>3, <2>4, <2>5 DEF Persist
<1>2. CASE Crash
  BY <1>2 DEF Crash, Orderly
<1>3. CASE StartFails
  BY <1>3 DEF StartFails, Readable, Orderly, WritePhases
<1>4. CASE Start
  BY <1>4 DEF Start, Orderly
<1>5. CASE UNCHANGED vars
  BY <1>5 DEF vars, traderVars, boundVars, Orderly
<1>6. CASE HandleEvent \/ Stop
  <2>1. /\ disk' = disk /\ crashes' = crashes
        /\ phase' \in {"positions", "ready"} \cup HandlerPhases
    BY <1>6
    DEF HandleEvent, MarketEvent, PollOrder, PollDone, ApplyBuyFill, ApplySellFill,
        FillsDone, ForceExit, ForceDone, EvaluateExit, EvaluateEntry, LossGuard, Stop,
        boundVars, HandlerPhases
  <2>. QED  BY <2>1 DEF Orderly, HandlerPhases
<1>. QED  BY <1>1, <1>2, <1>3, <1>4, <1>5, <1>6 DEF Next

\* What the broker holds is what the positions claim, in every state.
LEMMA HeldIs ==
  ASSUME SteadyInv PROVE \A s \in Symbols : held[s] = pos[s].qty
<1>1. FillsIn(fills) = {}
  BY DEF SteadyInv, AccountInv, NoneOpen, FillsIn
<1>. QED  BY <1>1 DEF SteadyInv, Orderly, OrdersInv, BooksAgree, Booked

LEMMA SoldNext ==
  ASSUME FillsAtOnce, SteadyInv, [Next]_vars
  PROVE  SoldAtOnce'
<1>0. pos \in [Symbols -> LivePositions] /\ queue = <<>> /\ polling = <<>>
        /\ fills = <<>>
  BY DEF SteadyInv, AccountInv, NoneOpen, TypeOK, TraderOK, PositionMaps
<1>1. ASSUME NEW s \in Symbols, TryExit(s) \/ TryEnter(s)
      PROVE  NoneSelling(pos')
  <2>0. pos[s] \in LivePositions /\ NoneSelling(pos)
    BY <1>0 DEF SteadyInv, SoldAtOnce
  <2>1. CASE SkipExit(s) \/ SkipEntry(s)
    BY <2>0, <2>1 DEF SkipExit, SkipEntry, traderVars
  <2>2. CASE ExitFilled(s)
    <3>1. pos' = [pos EXCEPT ![s] = ApplyFill(pos[s], ExitOrder(s))]
      BY <2>2 DEF ExitFilled
    <3>2. ApplyFill(pos[s], ExitOrder(s)).status # "PENDING_SELL"
      BY <2>0 DEF ApplyFill, ExitOrder, NoneSelling, FlatPosition
    <3>. QED  BY <1>0, <2>0, <3>1, <3>2 DEF NoneSelling
  <2>3. CASE ExitAcked(s) \/ EntryAcked(s)
    BY <2>3 DEF ExitAcked, EntryAcked, SubmitQueued
  <2>4. CASE ExitRejected(s)
    <3>1. ExitOrder(s).qty <= held[s]
      BY HeldIs, <1>0, <2>0 DEF ExitOrder, LivePositions
    <3>. QED
      BY <2>4, <3>1 DEF ExitRejected, SubmitRejected, Accepts, ExitOrder
  <2>5. CASE EntryFilled(s)
    <3>1. /\ pos' = [pos EXCEPT ![s] = Filled(pos[s], EntryOrder(s), StopLevel(md[s]))]
          /\ EntryOrder(s).side = "BUY"
      BY <2>5 DEF EntryFilled, EntryOrder
    <3>2. Filled(pos[s], EntryOrder(s), StopLevel(md[s])).status = "LONG"
      BY <2>0, <3>1 DEF Filled, ApplyFill, LivePositions
    <3>. QED  BY <1>0, <2>0, <3>1, <3>2 DEF NoneSelling
  <2>6. CASE EntryRejected(s)
    <3>1. /\ pos' = [pos EXCEPT ![s] = [pos[s] EXCEPT !.status = "PENDING_BUY"]]
      BY <2>6 DEF EntryRejected, EntryOrder, MarkPending
    <3>2. [pos[s] EXCEPT !.status = "PENDING_BUY"].status = "PENDING_BUY"
      BY <2>0 DEF LivePositions
    <3>. QED  BY <1>0, <2>0, <3>1, <3>2 DEF NoneSelling
  <2>. QED
    BY <1>1, <2>1, <2>2, <2>3, <2>4, <2>5, <2>6 DEF TryExit, TryEnter
<1>2. NoneSelling(pos')
  <2>1. CASE ForceExit \/ EvaluateExit \/ EvaluateEntry
    <3>1. cur \in Symbols /\ toExit \subseteq Symbols
      BY DEF SteadyInv, AccountInv, TypeOK, LoopOK
    <3>. QED
      BY <1>1, <2>1, <3>1 DEF ForceExit, EvaluateExit, EvaluateEntry
  <2>2. NoneSelling(NoPositions)
    BY DEF NoneSelling, NoPositions, FlatPosition
  <2>3. CASE FreshMemory
    BY <2>2, <2>3 DEF FreshMemory
  <2>4. CASE Start
    BY <2>2, <2>4 DEF Start, RestoredPositions, SteadyInv, SoldAtOnce
  <2>5. CASE pos' = pos
    BY <2>5 DEF SteadyInv, SoldAtOnce
  <2>. QED
    BY <1>0, <2>1, <2>3, <2>4, <2>5
    DEF Next, HandleEvent, Persist, MarketEvent, PollOrder, PollFill, PollKeep,
        PollDone, ApplyBuyFill, ApplySellFill, FillsDone, ForceDone, LossGuard,
        SavePositions, SaveOrders, SaveStats, SaveSnapshot, SaveSnapshotClosing,
        Write, StartFails, Stop, Crash, traderVars, vars
<1>3. disk'.positions \in {disk.positions, Torn, File(pos)}
  BY SavedStep DEF SteadyInv, AccountInv
<1>. QED
  BY <1>2, <1>3 DEF SoldAtOnce, SteadyInv, Exists, Torn, File

LEMMA SteadySpec ==
  ASSUME FillsAtOnce, MaxCrashes = 0 PROVE Spec => []SteadyInv
<1>1. Init => Orderly /\ SoldAtOnce
  BY OrderlyInit
  DEF Init, SoldAtOnce, NoneSelling, NoPositions, FlatPosition, EmptyDisk, Absent,
      Exists
<1>2. AccountInv /\ OrdersInv /\ Orderly /\ SoldAtOnce /\ [Next]_vars
        => Orderly' /\ SoldAtOnce'
  BY OrderlyNext, SoldNext DEF SteadyInv, AccountInv
<1>3. AccountInv /\ OrdersInv /\ Orderly /\ SoldAtOnce <=> SteadyInv
  BY DEF SteadyInv
<1>. QED
  BY <1>1, <1>2, <1>3, AccountInOrder, OrdersInOrder, PTL DEF Spec

(***************************************************************************)
(* The trader implements the account                                       *)
(***************************************************************************)

\* While a process runs, the account is the broker's ledger.
LEMMA AccountIs ==
  ASSUME held \in [Symbols -> Nat], held' \in [Symbols -> Nat]
  PROVE  /\ phase # "down" => AccountMoney = cash /\ AccountShares = held
         /\ phase' # "down" => AccountMoney' = cash' /\ AccountShares' = held'
BY DEF AccountMoney, AccountShares, Offline

\* An exit that is filled sells all shares of a symbol.
LEMMA ExitIsSale ==
  ASSUME SteadyInv, NEW s \in Symbols, ExitFilled(s),
         phase # "down", phase' # "down", TypeOK'
  PROVE  \E px \in Prices : Account!Sell(s, px)
<1>. DEFINE o == ExitOrder(s)
<1>0. /\ cash \in Int /\ held \in [Symbols -> Nat] /\ held' \in [Symbols -> Nat]
      /\ md[s] \in Prices /\ pos[s] \in LivePositions
  BY DEF SteadyInv, AccountInv, TypeOK, BrokerOK, TraderOK, PositionMaps, LoopOK
<1>1. /\ o.sym = s /\ o.side = "SELL" /\ o.qty = pos[s].qty /\ o.px = md[s]
      /\ pos[s].qty > 0 /\ pos[s].qty = held[s] /\ Settle(o)
  BY HeldIs DEF ExitFilled, MayExit, LongSymbols, SubmitFilled, ExitOrder
<1>. HIDE DEF o
<1>2. held' = [held EXCEPT ![s] = 0] /\ cash' = cash + md[s] * held[s]
  BY <1>0, <1>1 DEF Settle
<1>3. /\ AccountMoney = cash /\ AccountShares = held
      /\ AccountMoney' = cash' /\ AccountShares' = held'
  BY <1>0, AccountIs
<1>4. Account!Sell(s, md[s])
  BY <1>0, <1>1, <1>2, <1>3 DEF Account!Sell
<1>. QED  BY <1>0, <1>4

\* An entry that is filled buys shares of a symbol of which none is held,
\* with money that is there and within the limit of positions.
LEMMA EntryIsPurchase ==
  ASSUME SteadyInv, NEW s \in Symbols, EntryFilled(s),
         phase # "down", phase' # "down", TypeOK'
  PROVE  \E px \in Prices : Account!Buy(s, px)
<1>. DEFINE o == EntryOrder(s)
            cost == md[s] * o.qty
<1>0. /\ cash \in Int /\ held \in [Symbols -> Nat] /\ held' \in [Symbols -> Nat]
      /\ md[s] \in Prices /\ md[s] \in Nat /\ pos \in [Symbols -> LivePositions]
  BY ConfigAssumption
  DEF SteadyInv, AccountInv, TypeOK, BrokerOK, TraderOK, PositionMaps, LoopOK
<1>1. /\ MayEnter(s) /\ Accepts(o) /\ Settle(o) /\ o \in Orders
      /\ o.sym = s /\ o.side = "BUY" /\ o.px = md[s]
  BY OrderType
  DEF EntryFilled, SubmitFilled, EntryOrder, SteadyInv, AccountInv
<1>2. pos[s].status = "FLAT" /\ Cardinality(LongSymbols) < MaxPositions
  BY <1>1 DEF MayEnter, CanEnter, PositionsLeft
<1>3. held[s] = 0
  BY <1>2, HeldIs DEF SteadyInv, OrdersInv, BooksAgree, Claims
<1>4. o.qty \in Nat \ {0} /\ cost \in Nat
  BY <1>0, <1>1 DEF Orders
<1>. HIDE DEF o
<1>5. /\ cost * 1001 <= cash * 1000 /\ cash' = cash - cost
      /\ held' = [held EXCEPT ![s] = o.qty]
  BY <1>0, <1>1, <1>3, <1>4 DEF Accepts, Settle
<1>. HIDE DEF cost
<1>6. cost <= cash
  BY <1>0, <1>4, <1>5
<1>7. Account!Holdings = LongSymbols
  <2>1. AccountShares = held
    BY <1>0, AccountIs
  <2>2. \A x \in Symbols : held[x] > 0 <=> pos[x].status = "LONG" /\ pos[x].qty > 0
    <3>. SUFFICES ASSUME NEW x \in Symbols
                  PROVE  held[x] > 0 <=> pos[x].status = "LONG" /\ pos[x].qty > 0
      OBVIOUS
    <3>1. /\ held[x] = pos[x].qty /\ pos[x] \in LivePositions
          /\ pos[x].status # "PENDING_SELL"
          /\ pos[x].status \in {"FLAT", "PENDING_BUY"} <=> pos[x].qty = 0
      BY <1>0, HeldIs
      DEF SteadyInv, SoldAtOnce, NoneSelling, OrdersInv, BooksAgree, Claims
    <3>. QED  BY <3>1 DEF LivePositions, Statuses
  <2>. QED  BY <2>1, <2>2 DEF Account!Holdings, LongSymbols
<1>8. /\ AccountMoney = cash /\ AccountShares = held
      /\ AccountMoney' = cash' /\ AccountShares' = held'
  BY <1>0, AccountIs
<1>9. /\ AccountShares[s] = 0 /\ AccountShares'[s] = o.qty /\ o.qty > 0
      /\ AccountShares' = [AccountShares EXCEPT ![s] = AccountShares'[s]]
  BY <1>0, <1>3, <1>4, <1>5, <1>8
<1>10. /\ md[s] * AccountShares'[s] <= AccountMoney
       /\ AccountMoney' = AccountMoney - md[s] * AccountShares'[s]
  BY <1>5, <1>6, <1>8, <1>9 DEF cost
<1>11. Account!Buy(s, md[s])
  <2>1. Account!Cardinality(Account!Holdings) < MaxPositions
    BY <1>2, <1>7 DEF Account!Cardinality, Cardinality
  <2>. QED  BY ONLY <1>9, <1>10, <2>1 DEF Account!Buy
<1>. QED  BY <1>0, <1>11

\* Exits and entries are steps of the account, or leave it alone.
LEMMA TradeIsAccountStep ==
  ASSUME FillsAtOnce, SteadyInv, NEW s \in Symbols, TryExit(s) \/ TryEnter(s),
         phase # "down", phase' # "down", TypeOK'
  PROVE  Account!ANext \/ UNCHANGED <<AccountMoney, AccountShares>>
<1>1. CASE ExitFilled(s)
  BY <1>1, ExitIsSale DEF Account!ANext
<1>2. CASE EntryFilled(s)
  BY <1>2, EntryIsPurchase DEF Account!ANext
<1>3. CASE ExitAcked(s) \/ EntryAcked(s)
  BY <1>3 DEF ExitAcked, EntryAcked, SubmitQueued
<1>4. CASE SkipExit(s) \/ SkipEntry(s) \/ ExitRejected(s) \/ EntryRejected(s)
  <2>1. cash' = cash /\ held' = held
    BY <1>4
    DEF SkipExit, SkipEntry, ExitRejected, EntryRejected, SubmitRejected, brokerVars
  <2>2. held \in [Symbols -> Nat] /\ held' \in [Symbols -> Nat]
    BY DEF SteadyInv, AccountInv, TypeOK, BrokerOK
  <2>. QED  BY <2>1, <2>2, AccountIs
<1>. QED  BY <1>1, <1>2, <1>3, <1>4 DEF TryExit, TryEnter

\* Every step of the trader is a step of the account, or leaves it alone: a
\* process that ends hands its ledger to the files, one that starts takes it
\* from there.
LEMMA NextIsAccountStep ==
  ASSUME FillsAtOnce, MaxCrashes = 0, SteadyInv, [Next]_vars
  PROVE  Account!ANext \/ UNCHANGED <<AccountMoney, AccountShares>>
<1>0. /\ TypeOK /\ TypeOK' /\ held \in [Symbols -> Nat] /\ held' \in [Symbols -> Nat]
      /\ polling = <<>> /\ fills = <<>>
  <2>1. TypeOK /\ TypeOK' /\ polling = <<>> /\ fills = <<>>
    BY NextType DEF SteadyInv, AccountInv, NoneOpen
  <2>. QED  BY <2>1 DEF TypeOK, BrokerOK
<1>1. CASE ForceExit \/ EvaluateExit \/ EvaluateEntry
  <2>1. cur \in Symbols /\ toExit \subseteq Symbols
    BY <1>0 DEF TypeOK, LoopOK
  <2>2. PICK s \in Symbols : TryExit(s) \/ TryEnter(s)
    BY <1>1, <2>1 DEF ForceExit, EvaluateExit, EvaluateEntry
  <2>3. phase # "down" /\ phase' # "down"
    BY <1>1 DEF ForceExit, EvaluateExit, EvaluateEntry
  <2>. QED  BY <1>0, <2>2, <2>3, TradeIsAccountStep
<1>2. CASE Start
  <2>1. Offline
    BY <1>2 DEF Start, SteadyInv, Orderly, Offline
  <2>2. /\ AccountMoney = disk.snapshot.val.cash
        /\ AccountShares = [s \in Symbols |-> disk.positions.val[s].qty]
    BY <2>1 DEF AccountMoney, AccountShares
  <2>3. pos' = disk.positions.val /\ cash' = disk.snapshot.val.cash
          /\ phase' = "ready"
    BY <1>2, <2>1 DEF Start, Offline, RestoredPositions, Hydrate
  <2>4. \A s \in Symbols : held'[s] = pos'[s].qty
    <3>1. Claims(RestoredPositions) /\ RestoredPositions \in PositionMaps
      BY EmptyClaims, FreshType, <1>0
      DEF SteadyInv, OrdersInv, SavedClaims, RestoredPositions, TypeOK, DiskOK
    <3>. SUFFICES ASSUME NEW s \in Symbols PROVE held'[s] = pos'[s].qty
      OBVIOUS
    <3>2. held'[s] = IF HoldsShares(RestoredPositions[s])
                     THEN RestoredPositions[s].qty ELSE 0
      BY <1>2, <2>1 DEF Start, Offline, Hydrate, RestoredLedger
    <3>3. RestoredPositions[s] \in LivePositions
      BY <3>1 DEF PositionMaps
    <3>4. held'[s] = RestoredPositions[s].qty
      BY <3>1, <3>2, <3>3 DEF HoldsShares, Claims, LivePositions, Statuses
    <3>. QED  BY <1>2, <3>4 DEF Start
  <2>5. AccountMoney' = cash' /\ AccountShares' = held'
    BY <1>0, <2>3, AccountIs
  <2>6. held' = [s \in Symbols |-> disk.positions.val[s].qty]
    BY <1>0, <2>3, <2>4
  <2>. QED  BY <2>2, <2>3, <2>5, <2>6
<1>3. CASE SaveSnapshotClosing /\ closing # 2
  <2>1. DOMAIN disk = WritePhases
    BY <1>0 DEF TypeOK, DiskOK
  <2>2. /\ phase = "snapshot" /\ phase' = "down" /\ disk.positions = File(pos)
        /\ disk' = [disk EXCEPT !.snapshot = File(Snapshot)]
    BY <1>3 DEF SaveSnapshotClosing, SteadyInv, Orderly
  <2>3. /\ disk'.positions = File(pos) /\ disk'.snapshot = File(Snapshot)
    BY <2>1, <2>2 DEF WritePhases
  <2>4. Offline' /\ disk'.positions.val = pos /\ disk'.snapshot.val.cash = cash
    BY <2>2, <2>3 DEF Offline, Exists, File, Snapshot
  <2>5. /\ AccountMoney' = cash
        /\ AccountShares' = [s \in Symbols |-> pos[s].qty]
    BY <2>4 DEF AccountMoney, AccountShares
  <2>6. AccountMoney = cash /\ AccountShares = held
    BY <1>0, <2>2, AccountIs
  <2>7. held = [s \in Symbols |-> pos[s].qty]
    BY <1>0, HeldIs
  <2>. QED  BY <2>5, <2>6, <2>7
<1>4. CASE UNCHANGED <<cash, held>> /\ phase # "down" /\ phase' # "down"
  BY <1>0, <1>4, AccountIs
<1>5. CASE UNCHANGED vars
  BY <1>5 DEF vars, brokerVars, AccountMoney, AccountShares, Offline
<1>6. CASE Crash \/ StartFails
  BY <1>6 DEF Crash, StartFails, SteadyInv, Orderly, Readable, WritePhases
<1>7. CASE Persist /\ ~(SaveSnapshotClosing /\ closing # 2)
  BY <1>4, <1>7
  DEF Persist, SavePositions, SaveOrders, SaveStats, SaveSnapshot,
      SaveSnapshotClosing, Write, brokerVars
<1>8. CASE HandleEvent /\ ~(ForceExit \/ EvaluateExit \/ EvaluateEntry)
  <2>1. UNCHANGED <<cash, held>> /\ phase # "down" /\ phase' # "down"
    BY <1>0, <1>8
    DEF HandleEvent, MarketEvent, PollStart, PollOrder, PollFill, PollKeep, PollDone,
        ApplyBuyFill, ApplySellFill, FillsDone, ForceDone, LossGuard, brokerVars
  <2>. QED  BY <1>4, <2>1
<1>9. CASE Stop
  BY <1>4, <1>9 DEF Stop, brokerVars
<1>. QED
  BY <1>1, <1>2, <1>3, <1>5, <1>6, <1>7, <1>8, <1>9 DEF Next

\* A trader whose orders are filled at once and that is not killed implements
\* the account of TradingAccount, for every number of symbols, every limit and
\* through every orderly restart: shares are bought out of money that is
\* there, for symbols of which none is held, within the limit of positions,
\* and sold as a whole at a market price; nothing else moves the account.
THEOREM TraderIsAccount ==
  ASSUME FillsAtOnce, MaxCrashes = 0 PROVE Spec => ImplementsAccount
<1>1. Init => Account!AInit
  BY DEF Init, BrokerInit, Account!AInit, AccountMoney, AccountShares, Offline
<1>2. SteadyInv /\ [Next]_vars => [Account!ANext]_(Account!accountVars)
  BY NextIsAccountStep DEF Account!accountVars
<1>. QED
  BY <1>1, <1>2, SteadySpec, PTL DEF Spec, ImplementsAccount, Account!ASpec

(***************************************************************************)
(* The limits of a day over restarts                                       *)
(*                                                                         *)
(* The counters a process reads back are those of the record LiveTrader-   *)
(* History keeps of the trades.                                            *)
(***************************************************************************)
Remembered == IF phase = "down" THEN disk.stats.val ELSE stats

OfToday == phase \in HandlerPhases => stats.day = Day(now)

BuysCounted ==
  /\ bought = <<Day(now), bought[2]>> /\ bought[2] \in Nat
  /\ bought[2] > 0 => Remembered.day = Day(now) /\ bought[2] <= Remembered.entries
  /\ bought[2] <= MaxDailyNewEntries

SalesDated ==
  /\ soldAt = [s \in DOMAIN soldAt |-> soldAt[s]]
  /\ \A s \in DOMAIN soldAt : /\ soldAt[s] \in Nat /\ s \in DOMAIN Remembered.lastExit
                              /\ Remembered.lastExit[s] = soldAt[s]

LossDated ==
  /\ lossDay \in Int /\ lossDay <= Day(now)
  /\ lossDay = Day(now) => Remembered.blocked /\ Remembered.day = Day(now)

HistoryInv == OfToday /\ BuysCounted /\ SalesDated /\ LossDated

\* Days are natural numbers and do not run backwards.
LEMMA DayGrows ==
  ASSUME NEW t \in Nat, NEW u \in Nat, t <= u
  PROVE  Day(t) \in Nat /\ Day(u) \in Nat /\ Day(t) <= Day(u)
<1>1. SlotsPerDay \in Nat \ {0}
  BY ConfigAssumption
<1>2. ASSUME NEW a \in Nat, NEW b \in Nat, NEW n \in Nat \ {0}, a <= b
      PROVE  a \div n \in Nat /\ b \div n \in Nat /\ a \div n <= b \div n
  <2>. DEFINE q == a \div n
              r == b \div n
  <2>1. q \in Int /\ r \in Int /\ n * q <= a /\ a < n * q + n
          /\ n * r <= b /\ b < n * r + n
    BY <1>2, SMTT(30)
  <2>. HIDE DEF q, r
  <2>2. n * q < n * (r + 1)
    BY <1>2, <2>1
  <2>3. q < r + 1
    BY <2>1, <2>2
  <2>4. n * (-1) < n * q /\ n * (-1) < n * r
    BY <1>2, <2>1
  <2>5. -1 < q /\ -1 < r
    BY <2>1, <2>4
  <2>. QED  BY <2>1, <2>3, <2>5 DEF q, r
<1>. QED  BY <1>1, <1>2 DEF Day

\* What the steps do to the counters: a new event may begin a day, a purchase
\* and a sale are counted, the guard looks at the equity; every other step
\* leaves them as they are, also one that ends or starts a process.
Rolls ==
  /\ phase = "ready" /\ phase' = "poll"
  /\ now <= now' /\ stats' = Rolled(now')
  /\ BoughtNow = {} /\ SoldNow = {}

Buys(s) ==
  /\ phase = "enter" /\ phase' = "guard" /\ now' = now
  /\ MayEnter(s) /\ stats' = [stats EXCEPT !.entries = @ + 1]
  /\ BoughtNow \subseteq {s} /\ SoldNow = {}

Sells(s) ==
  /\ phase \in {"force", "exit"} /\ phase' \in HandlerPhases /\ now' = now
  /\ stats' = WithExit(WithPnl(stats, SellPnl(pos[s], ExitOrder(s))), s)
  /\ BoughtNow = {} /\ SoldNow = {s}

Guards ==
  /\ phase = "guard" /\ phase' \in {"positions", "ready"} /\ now' = now
  /\ \E x : stats' = Guarded(x)
  /\ BoughtNow = {} /\ SoldNow = {}

Passes ==
  /\ phase # "guard" /\ now' = now /\ Remembered' = Remembered
  /\ phase' \in HandlerPhases => phase \in HandlerPhases /\ stats' = stats
  /\ BoughtNow = {} /\ SoldNow = {}

\* The trades of a step that leaves the ledger alone.
LEMMA NoTrade == ASSUME held' = held, held \in [Symbols -> Nat]
                 PROVE BoughtNow = {} /\ SoldNow = {}
BY DEF BoughtNow, SoldNow

\* An exit that is filled is a sale, and counted as one.
LEMMA ExitSells ==
  ASSUME SteadyInv, TypeOK', NEW s \in Symbols, ExitFilled(s),
         phase \in {"force", "exit"}, phase' \in HandlerPhases, now' = now
  PROVE  Sells(s)
<1>. DEFINE o == ExitOrder(s)
<1>0. held \in [Symbols -> Nat] /\ pos[s] \in LivePositions
  BY DEF SteadyInv, AccountInv, TypeOK, BrokerOK, TraderOK, PositionMaps
<1>1. /\ o.sym = s /\ o.side = "SELL" /\ o.qty = held[s] /\ held[s] > 0
      /\ Settle(o)
  BY HeldIs DEF ExitFilled, MayExit, LongSymbols, SubmitFilled, ExitOrder
<1>2. stats' = WithExit(WithPnl(stats, SellPnl(pos[s], ExitOrder(s))), s)
  BY DEF ExitFilled
<1>. HIDE DEF o
<1>3. held' = [held EXCEPT ![s] = 0]
  BY <1>0, <1>1 DEF Settle
<1>4. BoughtNow = {} /\ SoldNow = {s}
  BY <1>0, <1>1, <1>3 DEF BoughtNow, SoldNow, Running, HandlerPhases
<1>. QED  BY <1>2, <1>4 DEF Sells

\* An entry that is filled buys one symbol, which may be entered.
LEMMA EntryBuys ==
  ASSUME SteadyInv, NEW s \in Symbols, EntryFilled(s),
         phase = "enter", phase' = "guard", now' = now
  PROVE  Buys(s)
<1>. DEFINE o == EntryOrder(s)
<1>0. held \in [Symbols -> Nat]
  BY DEF SteadyInv, AccountInv, TypeOK, BrokerOK
<1>1. o.sym = s /\ o.side = "BUY" /\ o.qty \in Nat /\ Settle(o)
  BY OrderType
  DEF EntryFilled, SubmitFilled, EntryOrder, SteadyInv, AccountInv, Orders
<1>2. MayEnter(s) /\ stats' = [stats EXCEPT !.entries = @ + 1]
  BY DEF EntryFilled
<1>. HIDE DEF o
<1>3. held' = [held EXCEPT ![s] = @ + o.qty]
  BY <1>1 DEF Settle
<1>4. BoughtNow \subseteq {s} /\ SoldNow = {}
  BY <1>0, <1>1, <1>3 DEF BoughtNow, SoldNow
<1>. QED  BY <1>2, <1>4 DEF Buys

LEMMA StepKinds ==
  ASSUME FillsAtOnce, MaxCrashes = 0, SteadyInv, Next
  PROVE  Rolls \/ Guards \/ Passes \/ \E s \in Symbols : Buys(s) \/ Sells(s)
<1>0. /\ TypeOK /\ TypeOK' /\ held \in [Symbols -> Nat]
      /\ polling = <<>> /\ fills = <<>> /\ cur \in Symbols /\ toExit \subseteq Symbols
  <2>1. TypeOK /\ TypeOK' /\ polling = <<>> /\ fills = <<>>
    BY NextType DEF SteadyInv, AccountInv, NoneOpen
  <2>. QED  BY <2>1 DEF TypeOK, BrokerOK, LoopOK
<1>1. CASE HandleEvent
  <2>1. CASE \E s \in Symbols, px \in Prices, t \in 0 .. MaxTime : MarketEvent(s, px, t)
    BY <1>0, <2>1, NoTrade DEF MarketEvent, PollStart, Rolls
  <2>2. CASE LossGuard
    BY <1>0, <2>2, NoTrade DEF LossGuard, brokerVars, Guards
  <2>3. CASE PollDone \/ FillsDone \/ ForceDone
    BY <1>0, <2>3, NoTrade
    DEF PollDone, FillsDone, ForceDone, brokerVars, traderVars, loopVars, Passes,
        Remembered, HandlerPhases
  <2>4. CASE PollOrder \/ ApplyBuyFill \/ ApplySellFill
    BY <1>0, <2>4
    DEF PollOrder, PollFill, PollKeep, ApplyBuyFill, ApplySellFill
  <2>5. ASSUME NEW s \in Symbols, TryExit(s), now' = now,
               phase \in {"force", "exit"}, phase' \in HandlerPhases
        PROVE  Passes \/ Sells(s)
    <3>1. CASE ExitFilled(s)
      BY <1>0, <2>5, <3>1, ExitSells
    <3>2. CASE ExitAcked(s)
      BY <3>2 DEF ExitAcked, SubmitQueued
    <3>3. CASE SkipExit(s) \/ ExitRejected(s)
      <4>1. held' = held /\ stats' = stats
        BY <3>3
        DEF SkipExit, ExitRejected, SubmitRejected, brokerVars, traderVars
      <4>. QED
        BY <1>0, <2>5, <4>1, NoTrade DEF Passes, Remembered, HandlerPhases
    <3>. QED  BY <2>5, <3>1, <3>2, <3>3 DEF TryExit
  <2>6. CASE ForceExit
    BY <1>0, <2>5, <2>6 DEF ForceExit, HandlerPhases
  <2>7. CASE EvaluateExit
    BY <1>0, <2>5, <2>7 DEF EvaluateExit, loopVars, HandlerPhases
  <2>8. CASE EvaluateEntry
    <3>1. phase = "enter" /\ phase' = "guard" /\ now' = now /\ TryEnter(cur)
      BY <2>8 DEF EvaluateEntry, loopVars
    <3>2. CASE EntryFilled(cur)
      BY <1>0, <3>1, <3>2, EntryBuys
    <3>3. CASE EntryAcked(cur)
      BY <3>3 DEF EntryAcked, SubmitQueued
    <3>4. CASE SkipEntry(cur) \/ EntryRejected(cur)
      <4>1. held' = held /\ stats' = stats
        BY <3>4
        DEF SkipEntry, EntryRejected, SubmitRejected, brokerVars, traderVars
      <4>. QED
        BY <1>0, <3>1, <4>1, NoTrade DEF Passes, Remembered, HandlerPhases
    <3>. QED  BY <3>1, <3>2, <3>3, <3>4 DEF TryEnter
  <2>. QED
    BY <1>1, <2>1, <2>2, <2>3, <2>4, <2>6, <2>7, <2>8 DEF HandleEvent
<1>2. CASE Persist
  <2>1. phase \notin HandlerPhases
    BY <1>2
    DEF Persist, SavePositions, SaveOrders, SaveStats, SaveSnapshot,
        SaveSnapshotClosing, Write, HandlerPhases
  <2>2. BoughtNow = {} /\ SoldNow = {}
    BY <2>1 DEF BoughtNow, SoldNow, Running
  <2>3. CASE SaveSnapshotClosing /\ phase' = "down"
    <3>1. DOMAIN disk = WritePhases
      BY <1>0 DEF TypeOK, DiskOK
    <3>2. phase = "snapshot" /\ now' = now
            /\ disk' = [disk EXCEPT !.snapshot = File(Snapshot)]
      BY <2>3 DEF SaveSnapshotClosing
    <3>3. disk'.stats = File(stats)
      BY <3>1, <3>2 DEF SteadyInv, Orderly, WritePhases
    <3>. QED
      BY <2>2, <2>3, <3>2, <3>3 DEF Passes, Remembered, File, HandlerPhases
  <2>4. CASE ~(SaveSnapshotClosing /\ phase' = "down")
    <3>1. /\ now' = now /\ stats' = stats /\ phase # "down" /\ phase' # "down"
          /\ phase # "guard" /\ phase' \notin HandlerPhases
      BY <1>2, <2>4
      DEF Persist, SavePositions, SaveOrders, SaveStats, SaveSnapshot,
          SaveSnapshotClosing, Write, traderVars, loopVars, HandlerPhases
    <3>. QED  BY <2>2, <3>1 DEF Passes, Remembered
  <2>. QED  BY <2>3, <2>4
<1>3. CASE Start
  <2>1. /\ phase = "down" /\ phase' = "ready" /\ now' = now
        /\ stats' = disk.stats.val
    BY <1>3 DEF Start, RestoredStats, SteadyInv, Orderly
  <2>. QED
    BY <2>1
    DEF Passes, Remembered, HandlerPhases, BoughtNow, SoldNow, Running
<1>4. CASE Stop
  BY <1>0, <1>4, NoTrade
  DEF Stop, brokerVars, traderVars, Passes, Remembered, HandlerPhases
<1>5. CASE StartFails \/ Crash
  BY <1>5 DEF Crash, StartFails, SteadyInv, Orderly, Readable, WritePhases
<1>. QED  BY <1>1, <1>2, <1>3, <1>4, <1>5 DEF Next

\* The statistics keep their fields: a lookup in them is a lookup in a record.
LEMMA StatsAre ==
  ASSUME TypeOK
  PROVE  /\ IsStats(stats) /\ stats.entries \in Nat /\ stats.day \in Int
         /\ \A st : st = [stats EXCEPT !.entries = @ + 1] =>
              /\ st.entries = stats.entries + 1 /\ st.day = stats.day
              /\ st.blocked = stats.blocked /\ st.lastExit = stats.lastExit
         /\ \A x : LET st == Guarded(x)
                   IN  /\ st.entries = stats.entries /\ st.day = stats.day
                       /\ st.lastExit = stats.lastExit
                       /\ stats.blocked => st.blocked
         /\ \A pnl, s : LET st == WithExit(WithPnl(stats, pnl), s)
                        IN  /\ st.entries = stats.entries /\ st.day = stats.day
                            /\ st.blocked = stats.blocked
                            /\ DOMAIN st.lastExit = DOMAIN stats.lastExit \cup {s}
                            /\ st.lastExit[s] = now
                            /\ \A x \in DOMAIN stats.lastExit \ {s} :
                                 st.lastExit[x] = stats.lastExit[x]
<1>1. IsStats(stats)
  BY DEF TypeOK, TraderOK
<1>2. ASSUME NEW pnl, NEW s
      PROVE  LET st == WithExit(WithPnl(stats, pnl), s)
             IN  /\ st.entries = stats.entries /\ st.day = stats.day
                 /\ st.blocked = stats.blocked
                 /\ DOMAIN st.lastExit = DOMAIN stats.lastExit \cup {s}
                 /\ st.lastExit[s] = now
                 /\ \A x \in DOMAIN stats.lastExit \ {s} :
                      st.lastExit[x] = stats.lastExit[x]
  <2>. DEFINE w == WithPnl(stats, pnl)
  <2>1. /\ DOMAIN w = StatsFields /\ w.entries = stats.entries /\ w.day = stats.day
        /\ w.blocked = stats.blocked /\ w.lastExit = stats.lastExit
    BY <1>1 DEF WithPnl, IsStats, StatsFields
  <2>. HIDE DEF w
  <2>. QED  BY <2>1 DEF WithExit, StatsFields, w
<1>3. ASSUME NEW x
      PROVE  LET st == Guarded(x)
             IN  /\ st.entries = stats.entries /\ st.day = stats.day
                 /\ st.lastExit = stats.lastExit
                 /\ stats.blocked => st.blocked
  BY <1>1 DEF Guarded, IsStats, StatsFields
<1>4. ASSUME NEW st, st = [stats EXCEPT !.entries = @ + 1]
      PROVE  /\ st.entries = stats.entries + 1 /\ st.day = stats.day
             /\ st.blocked = stats.blocked /\ st.lastExit = stats.lastExit
  BY <1>1, <1>4 DEF IsStats, StatsFields
<1>. QED  BY <1>1, <1>2, <1>3, <1>4 DEF IsStats

\* A new event finds the counters of the day it falls on.
LEMMA RolledTo ==
  ASSUME TypeOK, NEW t
  PROVE  /\ Rolled(t).day = Day(t) /\ Rolled(t).lastExit = stats.lastExit
         /\ stats.day = Day(t) => Rolled(t) = stats
         /\ Rolled(t).entries \in Nat
BY DEF TypeOK, TraderOK, IsStats, StatsFields, Rolled

\* Without a sale the record of sales stays as it is.
LEMMA NoSale == ASSUME SalesDated, Observe, SoldNow = {} PROVE soldAt' = soldAt
BY DEF SalesDated, Observe

LEMMA HistoryNext ==
  ASSUME FillsAtOnce, MaxCrashes = 0, SteadyInv, SteadyInv', HistoryInv,
         [Next /\ Observe]_<<vars, histVars>>
  PROVE  HistoryInv'
<1>0. /\ TypeOK /\ now \in Nat /\ now' \in Nat
  BY DEF SteadyInv, AccountInv, TypeOK, LoopOK
<1>1. CASE UNCHANGED <<vars, histVars>>
  BY <1>1
  DEF vars, histVars, traderVars, loopVars, HistoryInv, OfToday, BuysCounted,
      SalesDated, LossDated, Remembered
<1>2. CASE Rolls /\ Observe
  <2>1. Remembered = stats /\ Remembered' = Rolled(now') /\ stats' = Rolled(now')
    BY <1>2 DEF Rolls, Remembered
  <2>2. Day(now) \in Nat /\ Day(now') \in Nat /\ Day(now) <= Day(now')
    BY <1>0, <1>2, DayGrows DEF Rolls
  <2>3. OfToday'
    BY <1>0, <2>1, RolledTo DEF OfToday
  <2>4. bought' = <<Day(now'), IF bought[1] = Day(now') THEN bought[2] ELSE 0>>
    <3>1. BoughtNow = {} /\ Cardinality({}) = 0
      BY <1>2, FS_EmptySet DEF Rolls
    <3>. QED  BY <1>2, <3>1 DEF Observe, HistoryInv, BuysCounted
  <2>5. BuysCounted'
    BY <1>0, <2>1, <2>2, <2>4, RolledTo, ConfigAssumption
    DEF HistoryInv, BuysCounted
  <2>6. soldAt' = soldAt
    BY <1>2, NoSale DEF Rolls, HistoryInv
  <2>7. SalesDated'
    BY <1>0, <2>1, <2>6, RolledTo DEF HistoryInv, SalesDated
  <2>8. lossDay' = lossDay
    BY <1>2 DEF Observe, Rolls
  <2>9. LossDated'
    BY <1>0, <2>1, <2>2, <2>8, RolledTo DEF HistoryInv, LossDated
  <2>. QED  BY <2>3, <2>5, <2>7, <2>9 DEF HistoryInv
<1>3. ASSUME NEW s \in Symbols, Buys(s), Observe
      PROVE  HistoryInv'
  <2>1. Remembered = stats /\ Remembered' = stats' /\ stats.day = Day(now)
    BY <1>3 DEF Buys, Remembered, HistoryInv, OfToday, HandlerPhases
  <2>2. /\ stats'.entries = stats.entries + 1 /\ stats'.day = stats.day
        /\ stats'.blocked = stats.blocked /\ stats'.lastExit = stats.lastExit
        /\ stats.entries \in Nat /\ stats.entries < MaxDailyNewEntries
    BY <1>0, <1>3, StatsAre DEF Buys, MayEnter, CanEnter
  <2>3. Cardinality(BoughtNow) \in 0 .. 1
    <3>1. BoughtNow = {} \/ BoughtNow = {s}
      BY <1>3 DEF Buys
    <3>. QED  BY <3>1, FS_EmptySet, FS_Singleton
  <2>4. bought' = <<Day(now), bought[2] + Cardinality(BoughtNow)>>
    BY <1>3 DEF Observe, Buys, HistoryInv, BuysCounted
  <2>. HIDE DEF BoughtNow
  <2>5. BuysCounted'
    <3>1. bought[2] \in Nat /\ bought[2] <= stats.entries
      BY <2>1, <2>2 DEF HistoryInv, BuysCounted
    <3>2. bought[2] + Cardinality(BoughtNow) <= stats'.entries
            /\ bought[2] + Cardinality(BoughtNow) \in Nat
      BY <2>2, <2>3, <3>1
    <3>. QED
      BY <1>3, <2>1, <2>2, <2>4, <3>2, ConfigAssumption DEF BuysCounted, Buys
  <2>6. soldAt' = soldAt /\ lossDay' = lossDay /\ now' = now
    BY <1>3, NoSale DEF Observe, Buys, HistoryInv
  <2>. QED
    BY <2>1, <2>2, <2>5, <2>6
    DEF HistoryInv, OfToday, SalesDated, LossDated
<1>4. ASSUME NEW s \in Symbols, Sells(s), Observe
      PROVE  HistoryInv'
  <2>1. Remembered = stats /\ Remembered' = stats' /\ stats.day = Day(now)
          /\ now' = now
    BY <1>4 DEF Sells, Remembered, HistoryInv, OfToday, HandlerPhases
  <2>2. /\ stats'.entries = stats.entries /\ stats'.day = stats.day
        /\ stats'.blocked = stats.blocked
        /\ DOMAIN stats'.lastExit = DOMAIN stats.lastExit \cup {s}
        /\ stats'.lastExit[s] = now
        /\ \A x \in DOMAIN stats.lastExit \ {s} :
             stats'.lastExit[x] = stats.lastExit[x]
    BY <1>0, <1>4, StatsAre DEF Sells
  <2>3. bought' = bought /\ lossDay' = lossDay
    <3>1. BoughtNow = {} /\ Cardinality({}) = 0
      BY <1>4, FS_EmptySet DEF Sells
    <3>. QED
      BY <1>4, <2>1, <3>1 DEF Observe, Sells, HistoryInv, BuysCounted
  <2>4. soldAt' = [x \in DOMAIN soldAt \cup {s} |-> IF x = s THEN now ELSE soldAt[x]]
    BY <1>4 DEF Observe, Sells
  <2>5. SalesDated'
    BY <1>0, <2>1, <2>2, <2>4 DEF HistoryInv, SalesDated
  <2>. QED
    BY <2>1, <2>2, <2>3, <2>5 DEF HistoryInv, OfToday, BuysCounted, LossDated
<1>5. CASE Guards /\ Observe
  <2>1. Remembered = stats /\ Remembered' = stats' /\ stats.day = Day(now)
          /\ now' = now /\ phase' \notin HandlerPhases /\ phase' # "down"
    BY <1>5 DEF Guards, Remembered, HistoryInv, OfToday, HandlerPhases
  <2>2. /\ stats'.entries = stats.entries /\ stats'.day = stats.day
        /\ stats'.lastExit = stats.lastExit
        /\ stats.blocked => stats'.blocked
    BY <1>0, <1>5, StatsAre DEF Guards
  <2>3. bought' = bought /\ soldAt' = soldAt
    <3>1. BoughtNow = {} /\ SoldNow = {} /\ Cardinality({}) = 0
      BY <1>5, FS_EmptySet DEF Guards
    <3>. QED
      BY <1>5, <2>1, <3>1, NoSale DEF Observe, HistoryInv, BuysCounted
  <2>4. LossDated'
    <3>1. lossDay' = IF stats'.blocked THEN Day(now) ELSE lossDay
      BY <1>5, <2>1 DEF Observe, Guards
    <3>2. Day(now) \in Nat
      BY <1>0, DayGrows
    <3>. QED
      BY <2>1, <2>2, <3>1, <3>2 DEF HistoryInv, LossDated
  <2>. QED
    BY <2>1, <2>2, <2>3, <2>4
    DEF HistoryInv, OfToday, BuysCounted, SalesDated
<1>6. CASE Passes /\ Observe
  <2>1. bought' = bought /\ soldAt' = soldAt /\ lossDay' = lossDay /\ now' = now
    <3>1. BoughtNow = {} /\ SoldNow = {} /\ Cardinality({}) = 0
      BY <1>6, FS_EmptySet DEF Passes
    <3>. QED
      BY <1>6, <3>1, NoSale DEF Observe, Passes, HistoryInv, BuysCounted
  <2>. QED
    BY <1>6, <2>1
    DEF Passes, HistoryInv, OfToday, BuysCounted, SalesDated, LossDated
<1>. QED  BY <1>1, <1>2, <1>3, <1>4, <1>5, <1>6, StepKinds

\* A trader that is not killed remembers its counters over every restart.
LEMMA HistorySpec ==
  ASSUME FillsAtOnce, MaxCrashes = 0 PROVE HSpec => [](SteadyInv /\ HistoryInv)
<1>1. HInit => HistoryInv
  <2>. SUFFICES ASSUME HInit PROVE HistoryInv
    OBVIOUS
  <2>1. /\ now = 0 /\ phase = "ready" /\ bought = <<0, 0>> /\ soldAt = <<>>
        /\ lossDay = -1
    BY DEF HInit, Init
  <2>2. Day(0) = 0
    BY ConfigAssumption DEF Day
  <2>3. DOMAIN soldAt = {}
    BY <2>1
  <2>. QED
    BY <2>1, <2>2, <2>3, ConfigAssumption
    DEF HistoryInv, OfToday, BuysCounted, SalesDated, LossDated, HandlerPhases
<1>2. [Next /\ Observe]_<<vars, histVars>> => [Next]_vars
  OBVIOUS
<1>3. SteadyInv /\ SteadyInv' /\ HistoryInv /\ [Next /\ Observe]_<<vars, histVars>>
        => HistoryInv'
  BY HistoryNext
<1>4. HInit => Init
  BY DEF HInit
<1>. QED
  BY <1>1, <1>2, <1>3, <1>4, SteadySpec, PTL DEF HSpec, Spec

\* What is bought is bought by an entry, of the symbol it is about.
LEMMA BoughtByEntry ==
  ASSUME FillsAtOnce, MaxCrashes = 0, SteadyInv, Next, NEW s \in BoughtNow
  PROVE  s \in Symbols /\ Buys(s)
BY StepKinds DEF Rolls, Buys, Sells, Guards, Passes

\* The entries of a day stay within max_daily_new_entries, for every limit,
\* number of symbols and calendar, although the process that counts them may
\* have been started in the middle of the day (daily_stats of state_store.py,
\* can_enter).  Orders are filled at once and the process is not killed: an
\* order that waits is not counted, and a count that is not saved is lost.
THEOREM DailyEntriesLimited ==
  ASSUME FillsAtOnce, MaxCrashes = 0 PROVE HSpec => []DailyEntryLimit
BY HistorySpec, PTL DEF HistoryInv, BuysCounted, DailyEntryLimit

\* No symbol is bought again before its cooldown has passed, for every
\* cooldown and over every orderly restart: last_exit_ts, as the process reads
\* it back, is the time of the latest sale (reentry_cooldown_minutes).
THEOREM CooldownKept ==
  ASSUME FillsAtOnce, MaxCrashes = 0 PROVE HSpec => CooldownHolds
<1>. DEFINE Cooled == \A s \in BoughtNow : s \in DOMAIN soldAt => now - soldAt[s] >= Cooldown
<1>1. SteadyInv /\ HistoryInv /\ [Next /\ Observe]_<<vars, histVars>> => [Cooled]_vars
  <2>. SUFFICES ASSUME SteadyInv, HistoryInv, Next, NEW s \in BoughtNow,
                       s \in DOMAIN soldAt
                PROVE  now - soldAt[s] >= Cooldown
    OBVIOUS
  <2>1. phase = "enter" /\ ~CoolingDown(s, now, stats)
    BY BoughtByEntry DEF Buys, MayEnter, CanEnter
  <2>2. /\ s \in DOMAIN stats.lastExit /\ stats.lastExit[s] = soldAt[s]
        /\ soldAt[s] \in Nat
    BY <2>1 DEF HistoryInv, SalesDated, Remembered
  <2>3. now \in Nat /\ Cooldown \in Nat
    BY ConfigAssumption DEF SteadyInv, AccountInv, TypeOK, LoopOK
  <2>. QED  BY <2>1, <2>2, <2>3 DEF CoolingDown
<1>. HIDE DEF Cooled
<1>2. HSpec => [][Cooled]_vars
  BY <1>1, HistorySpec, PTL DEF HSpec
<1>. QED  BY <1>2 DEF CooldownHolds, Cooled

\* After the loss guard has blocked a day nothing is bought on it, for every
\* daily_loss_limit and over every orderly restart (_update_loss_guard,
\* _update_daily_roll, restore_state).
THEOREM LossBlocks ==
  ASSUME FillsAtOnce, MaxCrashes = 0 PROVE HSpec => LossBlockHolds
<1>. DEFINE Blocked == BoughtNow # {} => lossDay # Day(now)
<1>1. SteadyInv /\ HistoryInv /\ [Next /\ Observe]_<<vars, histVars>> => [Blocked]_vars
  <2>. SUFFICES ASSUME SteadyInv, HistoryInv, Next, NEW s \in BoughtNow
                PROVE  lossDay # Day(now)
    OBVIOUS
  <2>1. phase = "enter" /\ ~stats.blocked
    BY BoughtByEntry DEF Buys, MayEnter, CanEnter
  <2>. QED  BY <2>1 DEF HistoryInv, LossDated, Remembered
<1>. HIDE DEF Blocked
<1>2. HSpec => [][Blocked]_vars
  BY <1>1, HistorySpec, PTL DEF HSpec
<1>. QED  BY <1>2 DEF LossBlockHolds, Blocked

(***************************************************************************)
(* The money is accounted for                                              *)
(***************************************************************************)
BalancedOn(c, m) == c = InitialCash + SumFunction(Worth(m))

\* The books balance in every state: those of the running process, or those a
\* process that ended has left in the files.
Balanced ==
  IF phase = "down" THEN BalancedOn(disk.snapshot.val.cash, disk.positions.val)
                    ELSE BalancedOn(cash, pos)

LEMMA WorthType ==
  ASSUME NEW m \in PositionMaps
  PROVE  /\ Worth(m) \in [Symbols -> Int]
         /\ \A s \in Symbols : Worth(m)[s] = m[s].realized - m[s].avg * m[s].qty
BY DEF Worth, PositionMaps, LivePositions

\* A trade of one symbol changes the sum by what that symbol contributes.
LEMMA WorthMoves ==
  ASSUME NEW m \in PositionMaps, NEW n \in PositionMaps, NEW s \in Symbols,
         \A x \in Symbols \ {s} : n[x] = m[x]
  PROVE  /\ SumFunction(Worth(m)) \in Int
         /\ SumFunction(Worth(n)) = SumFunction(Worth(m)) - Worth(m)[s] + Worth(n)[s]
<1>1. /\ Worth(m) \in [Symbols -> Int] /\ Worth(n) \in [Symbols -> Int]
      /\ \A x \in Symbols \ {s} : Worth(n)[x] = Worth(m)[x]
  BY WorthType
<1>2. IsFiniteSet(Symbols)
  BY ConfigAssumption
<1>. QED  BY ONLY <1>1, <1>2, s \in Symbols, SumOfIntegers, SumMoves

\* An exit realizes what it earns, an entry books what it costs.
LEMMA ExitBooked ==
  ASSUME TypeOK, TypeOK', SteadyInv, NEW s \in Symbols, ExitFilled(s),
         BalancedOn(cash, pos)
  PROVE  BalancedOn(cash', pos')
<1>. DEFINE o == ExitOrder(s)
            q == pos[s].qty
<1>0. /\ pos \in PositionMaps /\ pos' \in PositionMaps /\ cash \in Int
      /\ pos[s] \in LivePositions /\ md[s] \in Nat /\ InitialCash \in Nat
  BY ConfigAssumption
  DEF TypeOK, TraderOK, BrokerOK, LoopOK, PositionMaps
<1>1. /\ o.sym = s /\ o.side = "SELL" /\ o.qty = q /\ q \in Nat /\ q > 0
      /\ o.px = md[s] /\ pos' = [pos EXCEPT ![s] = ApplyFill(pos[s], o)]
      /\ Settle(o)
  BY <1>0
  DEF ExitFilled, MayExit, LongSymbols, SubmitFilled, ExitOrder, LivePositions
<1>2. cash' = cash + md[s] * q
  BY <1>1 DEF Settle
<1>3. /\ pos'[s] = ApplyFill(pos[s], o)
      /\ \A x \in Symbols \ {s} : pos'[x] = pos[x]
  BY <1>0, <1>1 DEF PositionMaps
<1>4. /\ pos'[s].realized = pos[s].realized + (md[s] - pos[s].avg) * q
      /\ pos'[s].avg = 0 /\ pos'[s].qty = 0
  <2>1. SoldBy(pos[s], o) = q
    BY <1>1 DEF SoldBy
  <2>2. SellPnl(pos[s], o) = <<(md[s] - pos[s].avg) * q>>
    BY <1>1, <2>1 DEF SellPnl
  <2>3. ApplyFill(pos[s], o) =
          [FlatPosition EXCEPT !.realized = pos[s].realized + SellPnl(pos[s], o)[1]]
    BY <1>1, <2>1 DEF ApplyFill
  <2>. QED  BY <1>3, <2>2, <2>3 DEF FlatPosition
<1>. HIDE DEF o, q
<1>5. /\ Worth(pos)[s] = pos[s].realized - pos[s].avg * q
      /\ Worth(pos')[s] = pos[s].realized + (md[s] - pos[s].avg) * q
  <2>1. pos[s].avg \in Nat /\ pos[s].realized \in Int /\ pos'[s].realized \in Int
    BY <1>0 DEF LivePositions, PositionMaps
  <2>. QED  BY <1>0, <1>4, <2>1, WorthType DEF q
<1>6. Worth(pos')[s] - Worth(pos)[s] = md[s] * q
        /\ Worth(pos)[s] \in Int /\ Worth(pos')[s] \in Int /\ md[s] * q \in Int
  <2>1. pos[s].avg \in Nat /\ pos[s].realized \in Int
    BY <1>0 DEF LivePositions
  <2>. QED  BY <1>0, <1>1, <1>5, <2>1
<1>7. /\ SumFunction(Worth(pos)) \in Int
      /\ SumFunction(Worth(pos')) =
           SumFunction(Worth(pos)) - Worth(pos)[s] + Worth(pos')[s]
  BY <1>0, <1>3, WorthMoves
<1>. QED  BY <1>0, <1>2, <1>6, <1>7 DEF BalancedOn

LEMMA EntryBooked ==
  ASSUME TypeOK, TypeOK', SteadyInv, NEW s \in Symbols, EntryFilled(s),
         BalancedOn(cash, pos)
  PROVE  BalancedOn(cash', pos')
<1>. DEFINE o == EntryOrder(s)
<1>0. /\ pos \in PositionMaps /\ pos' \in PositionMaps /\ cash \in Int
      /\ pos[s] \in LivePositions /\ md[s] \in Nat /\ InitialCash \in Nat
  BY ConfigAssumption
  DEF TypeOK, TraderOK, BrokerOK, LoopOK, PositionMaps
<1>1. /\ o.sym = s /\ o.side = "BUY" /\ o.qty \in Nat \ {0} /\ o.px = md[s]
      /\ pos' = [pos EXCEPT ![s] = Filled(pos[s], o, StopLevel(md[s]))]
      /\ Settle(o) /\ pos[s].status = "FLAT"
  BY OrderType
  DEF EntryFilled, SubmitFilled, EntryOrder, MayEnter, CanEnter, Orders
<1>2. pos[s].qty = 0
  BY <1>1 DEF SteadyInv, OrdersInv, BooksAgree, Claims
<1>3. /\ pos'[s] = Filled(pos[s], o, StopLevel(md[s]))
      /\ \A x \in Symbols \ {s} : pos'[x] = pos[x]
  BY <1>0, <1>1 DEF PositionMaps
<1>. HIDE DEF o
<1>4. cash' = cash - md[s] * o.qty
  BY <1>1 DEF Settle
<1>5. AvgAfter(pos[s], o) = md[s]
  <2>1. ASSUME NEW p \in Nat, NEW k \in Nat \ {0}, NEW a \in Nat
        PROVE  (a * 0 + p * k) \div (0 + k) = p
    OBVIOUS
  <2>2. pos[s].avg \in Nat
    BY <1>0 DEF LivePositions
  <2>. QED  BY <1>0, <1>1, <1>2, <2>1, <2>2 DEF AvgAfter
<1>6. /\ pos'[s].realized = pos[s].realized /\ pos'[s].avg = md[s]
      /\ pos'[s].qty = o.qty
  <2>. DEFINE p == pos[s]
              r == [p EXCEPT !.avg = AvgAfter(p, o), !.qty = @ + o.qty,
                             !.status = "LONG"]
  <2>1. /\ r.realized = p.realized /\ r.avg = md[s] /\ r.qty = o.qty
        /\ DOMAIN r = DOMAIN p
    BY <1>0, <1>1, <1>2, <1>5 DEF LivePositions
  <2>2. ApplyFill(p, o) = r
    BY <1>1 DEF ApplyFill
  <2>. HIDE DEF r
  <2>3. Filled(p, o, StopLevel(md[s])) = [r EXCEPT !.stop = <<StopLevel(md[s])>>]
    BY <1>1, <2>2 DEF Filled
  <2>. QED  BY <1>0, <1>3, <2>1, <2>3 DEF LivePositions
<1>7. /\ Worth(pos)[s] = pos[s].realized /\ pos[s].realized \in Int
      /\ Worth(pos')[s] = pos[s].realized - md[s] * o.qty
  <2>1. pos[s].avg \in Nat /\ pos[s].realized \in Int /\ pos[s].avg * 0 = 0
    BY <1>0 DEF LivePositions
  <2>. QED  BY <1>0, <1>2, <1>6, <2>1, WorthType
<1>8. /\ SumFunction(Worth(pos)) \in Int /\ md[s] * o.qty \in Int
      /\ SumFunction(Worth(pos')) =
           SumFunction(Worth(pos)) - Worth(pos)[s] + Worth(pos')[s]
  <2>1. md[s] * o.qty \in Int
    BY <1>0, <1>1
  <2>. QED  BY <1>0, <1>3, <2>1, WorthMoves
<1>. QED  BY <1>0, <1>4, <1>7, <1>8 DEF BalancedOn

LEMMA BalancedNext ==
  ASSUME FillsAtOnce, MaxCrashes = 0, SteadyInv, Balanced, [Next]_vars
  PROVE  Balanced'
<1>0. /\ TypeOK /\ TypeOK' /\ polling = <<>> /\ fills = <<>>
  BY NextType DEF SteadyInv, AccountInv, NoneOpen
<1>1. ASSUME NEW s \in Symbols, TryExit(s) \/ TryEnter(s), BalancedOn(cash, pos)
      PROVE  BalancedOn(cash', pos')
  <2>1. CASE ExitFilled(s)
    BY <1>0, <1>1, <2>1, ExitBooked
  <2>2. CASE EntryFilled(s)
    BY <1>0, <1>1, <2>2, EntryBooked
  <2>3. CASE ExitAcked(s) \/ EntryAcked(s)
    BY <2>3 DEF ExitAcked, EntryAcked, SubmitQueued
  <2>4. CASE SkipExit(s) \/ SkipEntry(s)
    BY <1>1, <2>4 DEF SkipExit, SkipEntry, brokerVars, traderVars
  <2>5. CASE ExitRejected(s) \/ EntryRejected(s)
    <3>1. PICK o \in {ExitOrder(s), EntryOrder(s)} : pos' = MarkPending(o)
      BY <2>5 DEF ExitRejected, EntryRejected
    <3>2. cash' = cash
      BY <2>5 DEF ExitRejected, EntryRejected, SubmitRejected, brokerVars
    <3>3. o.sym = s
      BY DEF ExitOrder, EntryOrder
    <3>4. /\ pos \in PositionMaps /\ pos' \in PositionMaps
          /\ \A x \in Symbols : /\ pos'[x].realized = pos[x].realized
                                /\ pos'[x].avg = pos[x].avg
                                /\ pos'[x].qty = pos[x].qty
      <4>1. pos \in PositionMaps /\ pos' \in PositionMaps
        BY <1>0 DEF TypeOK, TraderOK
      <4>2. ASSUME NEW st, NEW p \in LivePositions
            PROVE  LET r == [p EXCEPT !.status = st]
                   IN  r.realized = p.realized /\ r.avg = p.avg /\ r.qty = p.qty
        BY DEF LivePositions
      <4>3. PICK st : pos' = [pos EXCEPT ![s] = [pos[s] EXCEPT !.status = st]]
        BY <3>1, <3>3 DEF MarkPending
      <4>. QED  BY <4>1, <4>2, <4>3 DEF PositionMaps
    <3>5. Worth(pos') = Worth(pos)
      BY <3>4 DEF Worth
    <3>. QED  BY <1>1, <3>2, <3>5 DEF BalancedOn
  <2>. QED
    BY <1>1, <2>1, <2>2, <2>3, <2>4, <2>5 DEF TryExit, TryEnter
<1>2. CASE ForceExit \/ EvaluateExit \/ EvaluateEntry
  <2>1. cur \in Symbols /\ toExit \subseteq Symbols
    BY <1>0 DEF TypeOK, LoopOK
  <2>2. PICK s \in Symbols : TryExit(s) \/ TryEnter(s)
    BY <1>2, <2>1 DEF ForceExit, EvaluateExit, EvaluateEntry
  <2>3. phase # "down" /\ phase' # "down"
    BY <1>2 DEF ForceExit, EvaluateExit, EvaluateEntry
  <2>. QED  BY <1>1, <2>2, <2>3 DEF Balanced
<1>3. CASE Start
  <2>1. /\ phase = "down" /\ phase' = "ready"
        /\ pos' = disk.positions.val /\ cash' = disk.snapshot.val.cash
    BY <1>3
    DEF Start, RestoredPositions, Hydrate, SteadyInv, Orderly
  <2>. QED  BY <2>1 DEF Balanced
<1>4. CASE SaveSnapshotClosing /\ phase' = "down"
  <2>1. DOMAIN disk = WritePhases
    BY <1>0 DEF TypeOK, DiskOK
  <2>2. /\ phase = "snapshot" /\ disk.positions = File(pos)
        /\ disk' = [disk EXCEPT !.snapshot = File(Snapshot)]
    BY <1>4 DEF SaveSnapshotClosing, SteadyInv, Orderly
  <2>3. disk'.positions.val = pos /\ disk'.snapshot.val.cash = cash
    BY <2>1, <2>2 DEF WritePhases, File, Snapshot
  <2>. QED  BY <1>4, <2>2, <2>3 DEF Balanced
<1>5. CASE UNCHANGED <<cash, pos>> /\ phase # "down" /\ phase' # "down"
  BY <1>5 DEF Balanced
<1>6. CASE UNCHANGED vars
  BY <1>6 DEF vars, brokerVars, traderVars, Balanced
<1>7. CASE Crash \/ StartFails
  BY <1>7 DEF Crash, StartFails, SteadyInv, Orderly, Readable, WritePhases
<1>8. CASE Persist /\ ~(SaveSnapshotClosing /\ phase' = "down")
  BY <1>5, <1>8
  DEF Persist, SavePositions, SaveOrders, SaveStats, SaveSnapshot,
      SaveSnapshotClosing, Write, brokerVars, traderVars
<1>9. CASE HandleEvent /\ ~(ForceExit \/ EvaluateExit \/ EvaluateEntry)
  <2>1. UNCHANGED <<cash, pos>> /\ phase # "down" /\ phase' # "down"
    BY <1>0, <1>9
    DEF HandleEvent, MarketEvent, PollStart, PollOrder, PollFill, PollKeep, PollDone,
        ApplyBuyFill, ApplySellFill, FillsDone, ForceDone, LossGuard, brokerVars,
        traderVars
  <2>. QED  BY <1>5, <2>1
<1>10. CASE Stop
  BY <1>5, <1>10 DEF Stop, brokerVars, traderVars
<1>. QED
  BY <1>2, <1>3, <1>4, <1>6, <1>7, <1>8, <1>9, <1>10 DEF Next

\* The money is accounted for between any two events, for every number of
\* symbols, every price and every limit, and over every orderly restart: the
\* cash of the broker is the initial cash, the realized results of the
\* position manager and the cost of what is held, which the two keep apart
\* from each other (mock_broker._apply_fill, position_manager.apply_fill).
\* A process that is killed may save one and not the other.
THEOREM MoneyAccountedFor ==
  ASSUME FillsAtOnce, MaxCrashes = 0 PROVE Spec => []BooksBalance
<1>1. Init => Balanced
  <2>. SUFFICES ASSUME Init PROVE Balanced
    OBVIOUS
  <2>1. phase = "ready" /\ cash = InitialCash /\ pos = NoPositions
    BY DEF Init, BrokerInit
  <2>2. Worth(NoPositions) = [s \in Symbols |-> 0]
    BY DEF Worth, NoPositions, FlatPosition
  <2>3. SumFunction(Worth(NoPositions)) = 0
    BY <2>2, SumOfZeros, ConfigAssumption
  <2>. QED
    BY <2>1, <2>3, ConfigAssumption DEF Balanced, BalancedOn
<1>2. SteadyInv /\ Balanced /\ [Next]_vars => Balanced'
  BY BalancedNext
<1>3. Balanced => BooksBalance
  BY DEF Balanced, BalancedOn, BooksBalance
<1>. QED  BY <1>1, <1>2, <1>3, SteadySpec, PTL DEF Spec
=============================================================================
