-------------------------- MODULE ScannerScoring --------------------------
(***************************************************************************)
(* One scan of the sector scanner as a function of the market it sees: the *)
(* universe, the groups and their metrics, the candidates, their scores,   *)
(* the filters and the leaders.                                            *)
(*                                                                         *)
(* A market holds what the client answers: universe (symbol, sector,       *)
(* value), close (the daily closes of each symbol), corr (the correlation  *)
(* pandas finds for a pair) and clusters (the partition sklearn finds),    *)
(* rank (the rows of each ranking), index (the sector indices), quote,     *)
(* bars and flow of each symbol, and fails, the calls that raise.          *)
(* Scores, shares and ratios are percentages.                              *)
(***************************************************************************)
EXTENDS Integers, Sequences, FiniteSets, FiniteSetsExt, SequencesExt, Functions, Selection, TLC

CONSTANTS
  Markets, MarketOf,              \* the markets a scan may see, by name
  UseUniverse,                    \* use_universe_pipeline
  TopSectors, LeadersPerSector, PoolLimit,
  TargetSize, MinLiquidity,       \* universe_target_size, universe_min_value_traded
  MinCluster, MaxCluster,         \* dynamic_min_cluster_size, dynamic_max_cluster_size
  MinMembers, MinCoherence, MinBreadth, MaxConcentration,
  MinPrice, MinValue, MinVolumeRatio, VwapRequired, MaxPullback, MinSectorScore,
  None                            \* no sector

\* A market ranks its rows; min_evaluated_sector_score is positive, as it is by
\* default and everywhere in the repository.
ASSUME ScanAssumption ==
  /\ \A name \in Markets :
       LET rank == MarketOf[name].rank
       IN  \A k \in {"volume", "return", "strength", "high", "block"} :
             rank[k] \in Seq({rank[k][i] : i \in DOMAIN rank[k]})
  /\ PoolLimit \in Nat \ {0} /\ MinSectorScore \in Nat \ {0}

Clip(x, lo, hi) == Max({lo, Min({hi, x})})
Take(s, n) == SubSeq(s, 1, Min({n, Len(s)}))
Distinct(s) == FoldLeft(LAMBDA seen, x : IF x \in Range(seen) THEN seen ELSE Append(seen, x), <<>>, s)
Total(S, Value(_)) == MapThenSumSet(Value, S)

\* sorted(rows, key=Key, reverse=True): ties keep their order.
Descending(rows, Key(_)) ==
  LET before(i, j) == Key(rows[i]) > Key(rows[j]) \/ (Key(rows[i]) = Key(rows[j]) /\ i < j)
  IN  [k \in DOMAIN rows |-> rows[SortSeq([i \in DOMAIN rows |-> i], before)[k]]]
ByScore(rows) == LET key(r) == r.score IN Descending(rows, key)

-----------------------------------------------------------------------------
(* Groups of symbols. *)

\* load_universe, normalize_universe and build_symbol_list.
SymbolList(m) ==
  LET first(rows, r) == IF \E x \in Range(rows) : x.symbol = r.symbol THEN rows ELSE Append(rows, r)
      norm == IF "universe" \in m.fails THEN <<>> ELSE FoldLeft(first, <<>>, m.universe)
      value(r) == r.value
      liquid == Descending(SelectSeq(norm, LAMBDA r : r.value >= MinLiquidity), value)
  IN  [i \in DOMAIN Take(liquid, TargetSize) |-> liquid[i].symbol]
SectorOf(m, s) == (CHOOSE r \in Range(m.universe) : r.symbol = s).sector

\* fetch_price_history_frame: the closes of the symbols that have any.
Frame(m, symbols) ==
  IF "history" \in m.fails THEN <<>> ELSE Restrict(m.close, Range(symbols) \cap DOMAIN m.close)

\* DynamicSectorCluster.fit: the changes of fewer than ten days, or a failure
\* of the library, leave one cluster; of fewer than two symbols, none.
Clusters(m, frame) ==
  LET days == {Len(frame[s]) - 1 : s \in DOMAIN frame}
      kept == [i \in DOMAIN m.clusters |-> SelectSeq(m.clusters[i], LAMBDA s : s \in DOMAIN frame)]
  IN  IF Cardinality(DOMAIN frame) < 2 THEN <<>>
      ELSE IF Max(days) < 10 \/ "sklearn" \in m.fails THEN <<SetToSeq(DOMAIN frame)>>
      ELSE SelectSeq(kept, LAMBDA c : c # <<>>)

\* filter_cluster_sizes: clusters of an allowed size, or else the largest one.
DynamicGroups(m, frame) ==
  LET all == Clusters(m, frame)
      sized == SelectSeq(all, LAMBDA c : Len(c) \in MinCluster .. MaxCluster)
      size(c) == Len(c)
      kept == IF sized = <<>> THEN Take(Descending(all, size), 1) ELSE sized
  IN  [i \in DOMAIN kept |-> [key |-> <<"DYN", i - 1>>, members |-> kept[i]]]
FixedGroups(m, symbols) ==
  LET sectors == Distinct(SelectSeq([i \in DOMAIN symbols |-> SectorOf(m, symbols[i])], LAMBDA c : c # None))
  IN  [i \in DOMAIN sectors |->
         [key |-> <<"F", sectors[i]>>, members |-> SelectSeq(symbols, LAMBDA s : SectorOf(m, s) = sectors[i])]]

-----------------------------------------------------------------------------
(* Metrics of a group over the frame, whose cells are what the client gave. *)

LastCell(frame, s) == frame[s][Len(frame[s])]
Coherence(m, frame, mem) ==
  LET pairs == {p \in SUBSET mem : Cardinality(p) = 2}
      positive(p) == Max({0, m.corr[p]})
  IN  IF \E s \in mem : Len(frame[s]) < 5 THEN 0 ELSE Total(pairs, positive) \div Cardinality(pairs)
Breadth(frame, mem) == (100 * Cardinality({s \in mem : LastCell(frame, s) > 0})) \div Cardinality(mem)
DaySum(frame, mem, d) == LET cell(s) == frame[s][d] IN Total(mem, cell)
Days(frame, mem) == 1 .. Len(frame[CHOOSE s \in mem : TRUE])
Persistence(frame, mem) ==
  LET days == Days(frame, mem)
  IN  IF Cardinality(days) < 3 THEN 0
      ELSE (100 * Cardinality({d \in days : DaySum(frame, mem, d) > 0})) \div Cardinality(days)
Concentration(frame, mem) ==
  LET weight(s) == IF LastCell(frame, s) < 0 THEN -LastCell(frame, s) ELSE LastCell(frame, s)
      whole == Total(mem, weight)
      square(s) == ((100 * weight(s)) \div whole) * ((100 * weight(s)) \div whole)
  IN  IF whole = 0 THEN 0 ELSE Total(mem, square) \div 100
\* The median over five days of the group's mean less the market's, 30-fold around a half.
RelativeReturn(frame, mem) ==
  LET all == DOMAIN frame
      days == Days(frame, mem)
      tail == {d \in days : d > Max(days) - 5}
      excess(d) == (3000 * (Cardinality(all) * DaySum(frame, mem, d) - Cardinality(mem) * DaySum(frame, all, d)))
                     \div (Cardinality(all) * Cardinality(mem))
      sorted == SortSeq(SetToSeq(tail), LAMBDA d, e : excess(d) < excess(e))
  IN  Clip(50 + excess(sorted[(Len(sorted) + 1) \div 2]), 0, 100)

Metrics(m, frame, group) ==
  LET mem == Range(group.members) \cap DOMAIN frame
  IN  [key |-> group.key, members |-> Cardinality(mem), coherence |-> Coherence(m, frame, mem),
       breadth |-> Breadth(frame, mem), persistence |-> Persistence(frame, mem),
       concentration |-> Concentration(frame, mem), relative |-> RelativeReturn(frame, mem)]
\* validate_sector_metrics.
Valid(x) ==
  /\ x.members >= MinMembers
  /\ x.coherence >= MinCoherence
  /\ x.concentration <= MaxConcentration
  /\ x.breadth >= MinBreadth
GroupScore(x) ==
  Clip((25 * x.coherence + 20 * x.breadth + 20 * x.persistence + 25 * x.relative - 10 * x.concentration) \div 100, 0, 100)
\* evaluate_sector_group of each group: the valid ones with their scores.
Evaluations(m, frame, groups) ==
  LET judged == SelectSeq(groups, LAMBDA g : Cardinality(Range(g.members) \cap DOMAIN frame) >= 2)
      valid == SelectSeq([i \in DOMAIN judged |-> Metrics(m, frame, judged[i])], Valid)
  IN  [i \in DOMAIN valid |-> [key |-> valid[i].key, score |-> GroupScore(valid[i]),
                               breadth |-> valid[i].breadth, concentration |-> valid[i].concentration]]

-----------------------------------------------------------------------------
(* Weighted sums of min-max normalised factors. *)

\* _min_max_norm: equal values are all a half.
Normalised(f) ==
  LET lo == Min(Range(f))
      hi == Max(Range(f))
  IN  [x \in DOMAIN f |-> IF hi = lo THEN 50 ELSE (100 * (f[x] - lo)) \div (hi - lo)]
Weighted(weights, factors, x) ==
  LET part(k) == weights[k] * factors[k][x] IN Clip(Total(DOMAIN weights, part) \div 100, 0, 100)

SectorWeights == [return_pct |-> 35, trend |-> 20, high_proximity |-> 15, acceleration |-> 10, program |-> 10, flow |-> 10]
HighProximity(row) ==
  IF row.high <= row.low THEN Clip(50 + row.return_pct, 0, 100)
  ELSE Clip((100 * (row.current - row.low)) \div (row.high - row.low), 0, 100)
\* load_sector_snapshots and score_sectors: a later row of a sector replaces an earlier one.
SectorScores(m) ==
  LET codes == IF "index" \in m.fails THEN <<>> ELSE Distinct([i \in DOMAIN m.index |-> m.index[i].sector])
      row(i) == m.index[Max({j \in DOMAIN m.index : m.index[j].sector = codes[i]})]
      norm == [k \in DOMAIN SectorWeights |->
                 Normalised([i \in DOMAIN codes |-> IF k = "high_proximity" THEN HighProximity(row(i)) ELSE row(i)[k]])]
  IN  [i \in DOMAIN codes |-> [key |-> <<"CODE", codes[i]>>, score |-> Weighted(SectorWeights, norm, i)]]
\* pick_top_sectors.
TopKeys(scores) == {e.key : e \in Range(Take(ByScore(scores), TopSectors))}
Best(scores, f, keys) == Max({0} \cup {e[f] : e \in {x \in Range(scores) : x.key \in keys}})

\* RankingLoader.load_candidates: in the order the rankings name them, with
\* the best of each factor; the sector is the one of a symbol's first row,
\* attach_sector_info never replaces it, and the return is never below 0.
Sources == <<"volume", "return", "strength", "high", "block">>
Rows(m, k) == IF k \in m.fails THEN <<>> ELSE m.rank[k]
AllRanked(m) == UNION {{r.symbol : r \in Range(m.rank[k])} : k \in Range(Sources)}
Candidates(m, allowed, dynamic) ==
  LET all == FlattenSeq([i \in DOMAIN Sources |-> Rows(m, Sources[i])])
      rows == Kept(all, {r \in Range(all) : r.symbol \in allowed})
      symbols == Distinct([i \in DOMAIN rows |-> rows[i].symbol])
      best(k, s) ==
        Max({0} \cup {IF k = "volume" THEN 100 - (100 * (i - 1)) \div Len(m.rank[k])
                      ELSE IF k = "return" THEN m.rank[k][i].metric ELSE Clip(m.rank[k][i].metric, 0, 100) :
                        i \in {j \in DOMAIN Rows(m, k) : m.rank[k][j].symbol = s}})
  IN  [i \in DOMAIN symbols |->
         [symbol |-> symbols[i],
          sector |-> (SelectSeq(rows, LAMBDA r : r.symbol = symbols[i])[1]).sector,
          dynamic |-> IF symbols[i] \in DOMAIN dynamic THEN dynamic[symbols[i]] ELSE None,
          best |-> [k \in Range(Sources) |-> best(k, symbols[i])]]]

\* The keys of a candidate in the scores of the two pipelines.
Keys(c) == {<<"F", c.sector>> : x \in {c.sector} \ {None}} \cup {c.dynamic : x \in {c.dynamic} \ {None}}
LegacyKeys(c) == {<<"CODE", c.sector>> : x \in {c.sector} \ {None}}

-----------------------------------------------------------------------------
(* IntradayLoader.load_snapshot: a call that fails leaves its fields empty. *)

Bars(m, s) == IF "bars" \in m.fails THEN <<>> ELSE m.bars[s]
Volume(bars) == LET v(i) == bars[i].volume IN Total(DOMAIN bars, v)
Vwap(bars) ==
  LET traded(i) == ((bars[i].high + bars[i].low + bars[i].close) * bars[i].volume)
  IN  IF Volume(bars) = 0 THEN 0 ELSE Total(DOMAIN bars, traded) \div (3 * Volume(bars))
Trend(bars) ==
  IF Len(bars) < 2 THEN 0
  ELSE Clip(50 + (2500 * (bars[Len(bars)].close - bars[1].close)) \div bars[1].close, 0, 100)
NoQuote == [price |-> 0, high |-> 0, volume |-> 0, value |-> 0]
QuoteOf(m, s) == IF "price" \in m.fails THEN NoQuote ELSE m.quote[s]
Snapshot(quote, bars, flow, sectorScore) ==
  LET dayHigh == Max({0} \cup {bars[i].high : i \in DOMAIN bars})
  IN  [price |-> quote.price, high |-> quote.high, vwap |-> Vwap(bars), trend |-> Trend(bars),
       value |-> IF quote.value = 0 THEN quote.volume * quote.price ELSE quote.value,
       volumeRatio |-> IF Volume(bars) = 0 THEN 100 ELSE Clip((100 * quote.volume) \div Volume(bars), 0, 500),
       proximity |-> IF dayHigh = 0 THEN 0 ELSE Clip((100 * quote.price) \div dayHigh, 0, 100),
       flow |-> flow, sector |-> sectorScore]
\* load_many: the stocks of the pool that can be read.
Snapshots(m, pool, sector) ==
  LET read == {i \in DOMAIN pool : "snapshots" \notin m.fails /\ pool[i].symbol \in DOMAIN m.quote}
      flow == IF "flow" \in m.fails THEN <<>> ELSE m.flow
  IN  [s \in {pool[i].symbol : i \in read} |->
         CHOOSE x \in {Snapshot(quote, bars, f, sector[i]) :
                         quote \in {QuoteOf(m, s)}, bars \in {Bars(m, s)}, i \in {j \in read : pool[j].symbol = s},
                         f \in {IF s \in DOMAIN flow THEN flow[s] ELSE 0}} : TRUE]

(* ScoreEngine.score_stocks. *)

StockWeights == [return |-> 20, volume |-> 20, strength |-> 15, trend |-> 15, high |-> 10, sector |-> 10, flow |-> 5, block |-> 5]
StockScore(pool, snaps) ==
  LET best(k) == Normalised([i \in DOMAIN pool |-> pool[i].best[k]])
      live(k) == Normalised([i \in DOMAIN pool |-> IF pool[i].symbol \in DOMAIN snaps THEN snaps[pool[i].symbol][k] ELSE 0])
      higher == [i \in DOMAIN pool |-> Max({best("high")[i], live("proximity")[i]})]
      norm == [k \in {"return", "volume", "strength", "block"} |-> best(k)]
                @@ [k \in {"trend", "sector", "flow"} |-> live(k)] @@ ("high" :> higher)
  IN  [i \in DOMAIN pool |-> Weighted(StockWeights, norm, i)]
\* The blend with the groups of the stock: 0.22 * 28 of their score, 0.12 * 18
\* of their breadth, less 18 times the square of a concentration above 0.42.
Blend(score, ev, breadth, concentration) ==
  LET over == Max({0, concentration - 42})
  IN  Clip(score + (616 * ev + 216 * breadth - 18 * over * over) \div 10000, 0, 100)

(* filters.py *)

PassesFilters(snap, sectorScore) ==
  /\ snap.price >= MinPrice
  /\ snap.value >= MinValue
  /\ snap.volumeRatio >= MinVolumeRatio
  /\ VwapRequired /\ snap.vwap > 0 => snap.price >= snap.vwap
  /\ snap.high > 0 => 100 * (snap.high - snap.price) <= MaxPullback * snap.high
  /\ sectorScore >= MinSectorScore

\* A slip: the dynamic group whether or not it is a top one.
LeaderKeyDynamic(c, top) ==
  IF c.dynamic # None THEN c.dynamic ELSE IF c.sector # None THEN <<"F", c.sector>> ELSE <<"UNKNOWN">>
\* _leader_key: the top group of the stock, the dynamic one first.
LeaderKey(c, top) ==
  IF c.dynamic # None /\ c.dynamic \in top THEN c.dynamic
  ELSE IF c.sector # None /\ <<"F", c.sector>> \in top THEN <<"F", c.sector>>
  ELSE IF c.dynamic # None THEN c.dynamic
  ELSE IF c.sector # None THEN <<"F", c.sector>> ELSE <<"UNKNOWN">>
LegacyKey(c) == IF c.sector # None THEN <<"CODE", c.sector>> ELSE <<"UNKNOWN">>

\* pick_leaders_by_sector: of the stocks that passed, the first of each key.
Leaders(scores) ==
  LET passed == {i \in DOMAIN scores : scores[i].passed}
      above(i) == {j \in passed : /\ scores[j].key = scores[i].key
                                  /\ \/ scores[j].score > scores[i].score
                                     \/ scores[j].score = scores[i].score /\ j < i}
  IN  [k \in {scores[i].key : i \in passed} |->
         {scores[i] : i \in {j \in passed : scores[j].key = k /\ Cardinality(above(j)) < LeadersPerSector}}]

-----------------------------------------------------------------------------
(* scan_once, stage by stage: each fills in its part of the record of a    *)
(* scan x.  Without symbols, history or a valid group, or on an exception, *)
(* the universe pipeline falls back to the legacy one.                     *)

Unscanned ==
  [m |-> None, symbols |-> <<>>, frame |-> <<>>, groups |-> <<>>, evals |-> <<>>,
   universe |-> FALSE, sectors |-> <<>>, top |-> {}, candidates |-> <<>>, pool |-> <<>>,
   sector |-> <<>>, snaps |-> <<>>, plain |-> <<>>, scores |-> <<>>]
Loaded(m) == [Unscanned EXCEPT !.m = m, !.symbols = SymbolList(m)]
Framed(x) == [x EXCEPT !.frame = Frame(x.m, x.symbols)]
Grouped(x) == [x EXCEPT !.groups = DynamicGroups(x.m, x.frame)]
Evaluated(x) == [x EXCEPT !.evals = Evaluations(x.m, x.frame, FixedGroups(x.m, x.symbols) \o x.groups)]
Ranked(x) ==
  LET universe == /\ UseUniverse /\ "pipeline" \notin x.m.fails
                  /\ x.symbols # <<>> /\ DOMAIN x.frame # {} /\ x.evals # <<>>
  IN  [x EXCEPT !.universe = universe, !.sectors = IF universe THEN x.evals ELSE SectorScores(x.m)]

DynamicOf(x) ==
  [s \in UNION {Range(g.members) : g \in Range(x.groups)} |-> (CHOOSE g \in Range(x.groups) : s \in Range(g.members)).key]
Gathered(x) ==
  [x EXCEPT !.top = TopKeys(x.sectors),
            !.candidates = IF x.universe THEN Candidates(x.m, Range(x.symbols), DynamicOf(x))
                           ELSE Candidates(x.m, AllRanked(x.m), <<>>)]
KeysOf(x, c) == IF x.universe THEN Keys(c) ELSE LegacyKeys(c)
InTop(x, c) == KeysOf(x, c) \cap x.top # {} \/ (~x.universe /\ c.sector = None)
\* Candidates of a top sector, or all when there are none.
Pooled(x) ==
  LET near == {c \in Range(x.candidates) : InTop(x, c)}
  IN  [x EXCEPT !.pool = Take(IF near = {} THEN x.candidates ELSE Kept(x.candidates, near), PoolLimit)]
Snapped(x) ==
  LET sector == [i \in DOMAIN x.pool |-> Best(x.sectors, "score", KeysOf(x, x.pool[i]))]
  IN  [x EXCEPT !.sector = sector, !.snaps = Snapshots(x.m, x.pool, sector)]
Scored(x) == [x EXCEPT !.plain = StockScore(x.pool, x.snaps)]
Blended(x, i) ==
  Blend(x.plain[i], x.sector[i], Best(x.sectors, "breadth", Keys(x.pool[i])), Best(x.sectors, "concentration", Keys(x.pool[i])))
\* _apply_filters and _apply_filters_universe.
Filtered(x) ==
  [x EXCEPT !.scores =
     [i \in DOMAIN x.pool |->
        [symbol |-> x.pool[i].symbol,
         score |-> IF x.universe THEN Blended(x, i) ELSE x.plain[i],
         key |-> IF x.universe THEN LeaderKey(x.pool[i], x.top) ELSE LegacyKey(x.pool[i]),
         passed |-> /\ x.pool[i].symbol \in DOMAIN x.snaps
                    /\ PassesFilters(x.snaps[x.pool[i].symbol], x.sector[i])]]]
Result(x) == [top |-> x.top, scores |-> x.scores, leaders |-> Leaders(x.scores), snaps |-> x.snaps]

Universes(m) == {Evaluated(x) : x \in {Grouped(y) : y \in {Framed(z) : z \in {Loaded(m)}}}}
Pools(m) == {Pooled(x) : x \in {Gathered(y) : y \in {Ranked(z) : z \in Universes(m)}}}
ScanOnce(m) == {Result(w) : w \in {Filtered(x) : x \in {Scored(y) : y \in {Snapped(z) : z \in Pools(m)}}}}
\* What scans may find.
Scanned == UNION {ScanOnce(MarketOf[name]) : name \in Markets}

=============================================================================
