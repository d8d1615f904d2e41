----------------------------- MODULE RiskManager -----------------------------
(***************************************************************************)
(* live_trading/risk_manager.py: the checks made before an entry, over the *)
(* positions, the open orders and the statistics of the day.               *)
(***************************************************************************)
EXTENDS PositionManager

\* daily_stats.  day is -1 and startEquity <<>> for None; lastExit is the
\* dictionary last_exit_ts.
FreshStats ==
  [day |-> -1, entries |-> 0, blocked |-> FALSE, lastExit |-> <<>>,
   startEquity |-> <<>>, losing |-> 0]

\* Slips that the properties must notice: limits that admit one too many.
PositionsLeftOffByOne == Cardinality(LongSymbols) <= MaxPositions
SectorFullOffByOne(s) ==
  /\ SectorOf[s] \in DOMAIN SectorCap
  /\ Cardinality({x \in LongSymbols : SectorOf[x] = SectorOf[s]})
       > SectorCap[SectorOf[s]]

PositionsLeft == Cardinality(LongSymbols) < MaxPositions

SectorPeers(s) == {x \in LongSymbols : SectorOf[x] = SectorOf[s]}

SectorFull(s) ==
  /\ SectorOf[s] \in DOMAIN SectorCap
  /\ Cardinality(SectorPeers(s)) >= SectorCap[SectorOf[s]]

InOpeningWindow(t) ==
  Slot(t) >= OpenSlot /\ Slot(t) < OpenSlot + NoEntrySlots

CoolingDown(s, t, stats) ==
  s \in DOMAIN stats.lastExit /\ t - stats.lastExit[s] < Cooldown

EnoughCash(c) == c * 100 >= Allocation * 99

\* can_enter.  chase_bar_return_limit_pct is part of the entry signal.
CanEnter(s, t, c, stats) ==
  /\ ~stats.blocked
  /\ MaxLosing > 0 => stats.losing < MaxLosing
  /\ PositionsLeft
  /\ ~SectorFull(s)
  /\ pos[s].status = "FLAT"
  /\ CanSubmit(s)
  /\ EnoughCash(c)
  /\ stats.entries < MaxDailyNewEntries
  /\ ~InOpeningWindow(t)
  /\ Slot(t) < CutoffSlot
  /\ ~CoolingDown(s, t, stats)

\* can_place_new_orders.
MarketOpen(t) == Slot(t) < CloseSlot

\* should_force_exit.
ShouldForceExit(t) == ForceExitBeforeClose /\ Slot(t) >= ForceExitSlot
=============================================================================
