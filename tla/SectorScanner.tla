--------------------------- MODULE SectorScanner ---------------------------
(***************************************************************************)
(* The sector scanner over its processes: a process scans, follows the     *)
(* leaders' ticks and exports a universe for the other engines; the        *)
(* runtime file outlives it.                                               *)
(*                                                                         *)
(* Time is in minutes; a tick is [symbol, price, volume, ts].  Scores in   *)
(* the runtime file are those of ScannerScoring, moved by whole points.    *)
(***************************************************************************)
EXTENDS ScannerScoring

CONSTANTS
  Deliveries,                   \* what a stream may yield: sequences of [symbol, price, volume, late]
  Window,                       \* realtime_tick_window_minutes
  ScanInterval,                 \* full_scan_interval of the loop
  WeightIntensity, BonusHigh, PenaltyVwap,
  Decades,                      \* decades of volume that count as full intensity: 5 (80 000)
  MaxEvents, MaxSubscribed,     \* max_events, the 50 symbols a stream may ask for
  MaxTime, MaxRuns              \* bounds

ASSUME TickAssumption ==
  /\ Window \in Nat /\ MaxEvents \in Nat
  /\ \A d \in Deliveries : d \in Seq({d[i] : i \in DOMAIN d}) /\ \A i \in DOMAIN d : d[i].late \in Int

VARIABLES
  pc,         \* the next step of the process; "off" when there is none
  mode,       \* its mode: "once", "run" (neither flag), "loop"
  clock, runs,
  result,     \* the last ScanResult, whose scores and snapshots the engine keeps
  scanned,    \* when it was made
  runtime,    \* scanner_state_runtime.json
  export,     \* scanner_universe.json
  delivered   \* the ticks streamed since the runtime file was last lost, for the properties
vars == <<pc, mode, clock, runs, result, scanned, runtime, export, delivered>>

NoResult == [top |-> {}, scores |-> <<>>, leaders |-> <<>>, snaps |-> <<>>]
Missing == [state |-> "missing"]
Corrupt == [state |-> "corrupt"]
NoExport == [symbols |-> <<>>, leaders |-> <<>>]

-----------------------------------------------------------------------------
(* realtime_tick_score.py *)

InWindow(tick, now) == tick.ts >= now - Window
Recent(ticks, now) == Kept(ticks, {t \in Range(ticks) : InWindow(t, now)})
\* A slip: the ticks of the file are forgotten.
MergeTicksFresh(buffer, events, now) == Recent(events, now)
\* merge_tick_buffer: the new ticks after the old ones, without those out of the window.
MergeTicks(buffer, events, now) == Recent(buffer \o events, now)

TicksOf(buffer, s, now) == Kept(buffer, {t \in Range(buffer) : t.symbol = s /\ InWindow(t, now)})
\* trade_intensity_norm_5m: the logarithm of the volume, in decades.
Intensity(ticks) ==
  LET volume == SumFunction([i \in DOMAIN ticks |-> ticks[i].volume])
  IN  Min({Decades, Max({d \in 0 .. 9 : 10^d <= 1 + volume})})
MadeNewHigh(ticks, high) == high > 0 /\ \E t \in Range(ticks) : t.price >= high
\* The last by time, and of those the last that came.
BelowVwap(ticks, vwap) ==
  vwap > 0 /\ \E i \in DOMAIN ticks :
    /\ ticks[i].price < vwap
    /\ \A j \in DOMAIN ticks : ticks[j].ts < ticks[i].ts \/ (ticks[j].ts = ticks[i].ts /\ j <= i)
Delta(ticks, snap) ==
  (WeightIntensity * Intensity(ticks)) \div Decades
    + (IF MadeNewHigh(ticks, snap.high) THEN BonusHigh ELSE 0)
    - (IF BelowVwap(ticks, snap.vwap) THEN PenaltyVwap ELSE 0)
\* adjust_scores_with_ticks.
Adjusted(score, ticks, snaps) ==
  IF score.symbol \notin DOMAIN snaps THEN score
  ELSE [score EXCEPT !.score = Clip(@ + Delta(ticks, snaps[score.symbol]), 0, 100)]
AdjustScores(scores, snaps, buffer, now) ==
  [i \in DOMAIN scores |->
     CHOOSE r \in {Adjusted(scores[i], ticks, snaps) : ticks \in {TicksOf(buffer, scores[i].symbol, now)}} : TRUE]

\* universe_export.py: the runtime's record of a symbol replaces the scan's,
\* the runtime's leaders the scan's; the passed symbols by falling score.
Overlaid(scores, rt) ==
  [i \in DOMAIN scores |->
     IF rt.state = "ok" /\ \E r \in Range(rt.scores) : r.symbol = scores[i].symbol
     THEN CHOOSE r \in Range(rt.scores) : r.symbol = scores[i].symbol ELSE scores[i]]
UniversePackage(x, rt) ==
  LET passed == ByScore(SelectSeq(Overlaid(x.scores, rt), LAMBDA s : s.passed))
  IN  [symbols |-> Distinct([i \in DOMAIN passed |-> passed[i].symbol]),
       leaders |-> IF rt.state = "ok" /\ DOMAIN rt.leaders # {} THEN rt.leaders ELSE x.leaders]

-----------------------------------------------------------------------------
Init ==
  /\ pc = "off" /\ mode = "once" /\ clock = 0 /\ runs = 0
  /\ result = NoResult /\ scanned = 0
  /\ runtime = Missing /\ export = NoExport /\ delivered = <<>>

Start ==
  /\ pc = "off" /\ runs < MaxRuns
  /\ mode' \in {"once", "run", "loop"}
  /\ pc' = "scan" /\ runs' = runs + 1 /\ result' = NoResult
  /\ UNCHANGED <<clock, scanned, runtime, export, delivered>>

\* The symbols a stream is opened for: the first of the sorted leaders.
Subscribed(x) == Take(SetToSortSeq({s.symbol : s \in UNION {x.leaders[k] : k \in DOMAIN x.leaders}}, <), MaxSubscribed)

AfterRefresh == IF mode = "loop" THEN "sleep" ELSE "export"

\* scan_once; the loop exports what it finds before it listens to any tick.
Scan(found) ==
  /\ pc = "scan"
  /\ result' = found /\ scanned' = clock
  /\ export' = IF mode = "loop" THEN UniversePackage(result', Missing) ELSE export
  /\ pc' = IF mode # "once" /\ Subscribed(result') # <<>> THEN "refresh" ELSE AfterRefresh
  /\ UNCHANGED <<mode, clock, runs, runtime, delivered>>

\* The ticks of a stream for the subscribed symbols: WebSocketClientAdapter
\* starts over after a failure, so that the first of them come twice.
Events(delivery, retried) ==
  LET asked == Kept(delivery, {e \in Range(delivery) : e.symbol \in Range(Subscribed(result))})
      ticks == [i \in DOMAIN asked |-> [symbol |-> asked[i].symbol, price |-> asked[i].price, volume |-> asked[i].volume,
                                        ts |-> clock - asked[i].late]]
  IN  Take(Take(ticks, retried) \o ticks, MaxEvents)

Refreshed(buffer, scores) ==
  [state |-> "ok", at |-> clock, buffer |-> buffer, scores |-> scores, leaders |-> Leaders(scores), of |-> result]

\* refresh_realtime; a write that fails is only logged.
Refresh(delivery, retried, saved) ==
  /\ pc = "refresh" /\ runtime.state # "corrupt"
  /\ \E events \in {Events(delivery, retried)} :
     \E buffer \in {MergeTicks(IF runtime.state = "ok" THEN runtime.buffer ELSE <<>>, events, clock)} :
     \E scores \in {AdjustScores(result.scores, result.snaps, buffer, clock)} :
       /\ runtime' = IF saved THEN Refreshed(buffer, scores) ELSE runtime
       /\ delivered' = IF saved THEN delivered \o events ELSE delivered
  /\ pc' = AfterRefresh
  /\ UNCHANGED <<mode, clock, runs, result, scanned, export>>

\* load_runtime_state raises on a file cut short: the process ends, without an export.
RefreshFails ==
  /\ pc = "refresh" /\ runtime.state = "corrupt"
  /\ pc' = "off"
  /\ UNCHANGED <<mode, clock, runs, result, scanned, runtime, export, delivered>>

\* main: the export of a single run takes in whatever runtime file there is.
Export ==
  /\ pc = "export"
  /\ export' = UniversePackage(result, IF mode = "once" THEN Missing ELSE runtime)
  /\ pc' = "off"
  /\ UNCHANGED <<mode, clock, runs, result, scanned, runtime, delivered>>

\* The loop sleeps for a turn, then scans when it is time and listens when somebody leads.
Sleep ==
  /\ pc = "sleep" /\ clock < MaxTime
  /\ clock' = clock + 1
  /\ pc' = IF clock' - scanned >= ScanInterval THEN "scan"
           ELSE IF Subscribed(result) # <<>> THEN "refresh" ELSE "sleep"
  /\ UNCHANGED <<mode, runs, result, scanned, runtime, export, delivered>>
\* Time passes while a process works, or while there is none.
Pass ==
  /\ pc # "sleep" /\ clock < MaxTime
  /\ clock' = clock + 1
  /\ UNCHANGED <<pc, mode, runs, result, scanned, runtime, export, delivered>>

\* The process is stopped, perhaps while it writes the runtime file in place.
Stop(cut) ==
  /\ pc # "off" /\ (cut => pc = "refresh" /\ runtime.state # "corrupt")
  /\ pc' = "off"
  /\ runtime' = IF cut THEN Corrupt ELSE runtime
  /\ UNCHANGED <<mode, clock, runs, result, scanned, export, delivered>>
\* Somebody deletes a file no start can read.
Repair ==
  /\ pc = "off" /\ runtime.state = "corrupt"
  /\ runtime' = Missing /\ delivered' = <<>>
  /\ UNCHANGED <<pc, mode, clock, runs, result, scanned, export>>

Ended == pc = "off" /\ runs = MaxRuns /\ UNCHANGED vars

Next ==
  \/ Start \/ RefreshFails \/ Export \/ Sleep \/ Pass \/ Repair \/ Ended
  \/ \E found \in Scanned : Scan(found)
  \/ \E delivery \in Deliveries, retried \in 0 .. 1, saved \in BOOLEAN : Refresh(delivery, retried, saved)
  \/ \E cut \in BOOLEAN : Stop(cut)

Spec == Init /\ [][Next]_vars

-----------------------------------------------------------------------------
(* Hazard: the pool, the filters and the leader keys each decide on their  *)
(* own which group of a stock counts. Once a leader is listed under one of *)
(* the top groups of the scan, every leader is: a stock of a weak group    *)
(* cannot slip in through the other of its two groups or through a         *)
(* fallback.                                                               *)
LeadersUnderTopSectors ==
  DOMAIN result.leaders \cap result.top # {} => DOMAIN result.leaders \subseteq result.top

(* Hazard: refreshes repeat on a file that outlives the process and feed   *)
(* on their own output. However often it was refreshed and by however many *)
(* processes, the score in the runtime file is the scan's score moved once *)
(* by the ticks of the last minutes, all of those and no others; only the  *)
(* stocks that passed the scan lead, in the sectors the scan gave leaders. *)
RealtimeOfScan ==
  runtime.state = "ok" =>
    LET x == runtime.of
        recent(s) == Kept(delivered, {t \in Range(delivered) : t.symbol = s /\ t.ts + Window >= runtime.at})
    IN  /\ \A i \in DOMAIN x.scores : \A s \in {x.scores[i].symbol} \cap DOMAIN x.snaps :
             \E ticks \in {recent(s)} :
               runtime.scores[i].score = Clip(x.scores[i].score + Delta(ticks, x.snaps[s]), 0, 100)
        /\ DOMAIN runtime.leaders = DOMAIN x.leaders
        /\ \A k \in DOMAIN runtime.leaders :
             \A l \in runtime.leaders[k] : \E s \in Range(x.scores) : s.symbol = l.symbol /\ s.passed
=============================================================================
