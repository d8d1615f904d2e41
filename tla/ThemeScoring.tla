---------------------------- MODULE ThemeScoring ----------------------------
(***************************************************************************)
(* The evaluation of collect_thema_sector_data.py: from a classification   *)
(* file and the market of a day to ranked groups, their breadth and their  *)
(* persistence over the days before.                                       *)
(*                                                                         *)
(* Percentages and scores are integers: "hundredths" of a point in inputs  *)
(* of a score, tenths where the code rounds to one decimal, thousandths    *)
(* for ratios.  The names of categories and symbols are numbers whose      *)
(* order is that of the strings, 0 a blank one.                            *)
(***************************************************************************)
EXTENDS Integers, Sequences, FiniteSets, FiniteSetsExt, SequencesExt, Functions, TLC

CONSTANTS
  Symbols,                \* the six digit codes
  Cap,                    \* marketCap of each
  TopN,                   \* --top-n
  Short, Medium, Long,    \* the windows of 5, 10 and 20 observations
  Lookback,               \* rows of the lake read for a symbol: 30
  MinEligible, MinLeader, \* members a middle group needs to be judged: 3, to lead: 8
  PathRenames, Additional, Overrides,    \* the reviewed corrections of the taxonomy
  OtherBattery, BatteryCell, BatteryParts

Full == 10000
Blank == ""   \* a text that is not there
\* A function by its values: TLC computes each once where it compares.
Computed(f) == CHOOSE g \in {f} : g = f
Round(a, b) == (2 * a + b) \div (2 * b)
Clip(x, lo, hi) == Max({lo, Min({hi, x})})

\* _pct_rank_map at v: equal values share a rank, a single value is at the top.
PctRank(values, v) ==
  IF Cardinality(values) = 1 THEN Full
  ELSE Round(Full * Cardinality({x \in values : x < v}), Cardinality(values) - 1)

-----------------------------------------------------------------------------
(* The classification file. *)

Declares(item, key, n) == key \in DOMAIN item => item[key] = n
Subs(major) == Range(major.subs)
Paths(file) == UNION {{<<major.name, sub.name>> : sub \in Subs(major)} : major \in Range(file.majors)}
Codes(stocks) == [i \in DOMAIN stocks |-> stocks[i].code]

\* _validate_classification_data finds no ERROR in the nested lists.
NestedOK(file) ==
  /\ Declares(file, "major_category_count", Len(file.majors))
  /\ Declares(file, "middle_category_count", SumFunction([i \in DOMAIN file.majors |-> Len(file.majors[i].subs)]))
  /\ \A major \in Range(file.majors) :
       /\ major.name # 0
       /\ Declares(major, "count", SumFunction([i \in DOMAIN major.subs |-> Len(major.subs[i].stocks)]))
       /\ \A sub \in Subs(major) :
            /\ sub.name # 0 /\ Declares(sub, "count", Len(sub.stocks))
            /\ Range(Codes(sub.stocks)) \subseteq Symbols /\ IsInjective(Codes(sub.stocks))
            /\ \A stock \in Range(sub.stocks) :
                 stock.sectors # <<>> => <<major.name, sub.name>> \in Range(stock.sectors)

\* ... nor in stock_to_sectors, which may be missing.
CanonicalOK(file) ==
  file.canonical # <<>> =>
    LET codes  == Codes(file.canonical)
        nested == UNION {UNION {Range(Codes(sub.stocks)) : sub \in Subs(major)} : major \in Range(file.majors)}
    IN  /\ IsInjective(codes) /\ Range(codes) = nested
        /\ Declares(file, "unique_stock_count", Len(codes))
        /\ \A stock \in Range(file.canonical) :
             stock.sectors # <<>> /\ Range(stock.sectors) \subseteq Paths(file)

ClassificationOK(file) == NestedOK(file) /\ CanonicalOK(file)

Distinct(s) == FoldLeft(LAMBDA seen, x : IF Contains(seen, x) THEN seen ELSE Append(seen, x), <<>>, s)
Rename(path) == IF path \in DOMAIN PathRenames THEN PathRenames[path] ELSE path
\* update_theme_classification.py: the reviewed paths of a stock.
Reviewed(stock) ==
  LET path(p) == IF stock.code \in OtherBattery /\ Rename(p) = BatteryCell THEN BatteryParts ELSE Rename(p)
      primary == IF stock.code \in DOMAIN Overrides THEN <<Overrides[stock.code]>>
                 ELSE [i \in DOMAIN stock.sectors |-> path(stock.sectors[i])]
      further == IF stock.code \in DOMAIN Additional THEN Additional[stock.code] ELSE <<>>
  IN  [code |-> stock.code, sectors |-> Distinct(primary \o further)]

\* ... and the nested lists, rebuilt from the reviewed stocks.
Updated(file) ==
  LET stocks == [i \in DOMAIN file.canonical |-> Reviewed(file.canonical[i])]
      Listed(path) == IF path = BatteryCell THEN <<path, BatteryParts>> ELSE <<path>>
      listed == FlattenSeq([i \in DOMAIN file.majors |-> LET major == file.majors[i] IN
                  FlattenSeq([j \in DOMAIN major.subs |-> Listed(Rename(<<major.name, major.subs[j].name>>))])])
      paths  == Distinct(listed \o FlattenSeq([i \in DOMAIN stocks |-> stocks[i].sectors]))
      names  == Distinct([i \in DOMAIN file.majors |-> file.majors[i].name] \o [i \in DOMAIN paths |-> paths[i][1]])
      At(path) == SelectSeq(stocks, LAMBDA stock : Contains(stock.sectors, path))
      Own(name) == SelectSeq(paths, LAMBDA path : path[1] = name)
      Sub(path) == [name |-> path[2], count |-> Len(At(path)), stocks |-> At(path)]
  IN  [canonical |-> stocks, unique_stock_count |-> Len(stocks),
       major_category_count |-> Len(names), middle_category_count |-> Len(paths),
       majors |-> [i \in DOMAIN names |->
         [name |-> names[i], subs |-> [j \in DOMAIN Own(names[i]) |-> Sub(Own(names[i])[j])],
          count |-> SumFunction([j \in DOMAIN Own(names[i]) |-> Len(At(Own(names[i])[j]))])]]]

\* _sort_theme_members
BigFirst(members) ==
  SortSeq(SetToSeq(members), LAMBDA s, t: Cap[s] > Cap[t] \/ (Cap[s] = Cap[t] /\ s < t))

\* The stocks of a middle category: those that name it in stock_to_sectors, or
\* else those listed under it; _dedupe_stocks keeps each once.
MembersAt(file, major, sub) ==
  IF file.canonical # <<>>
  THEN {stock.code : stock \in {s \in Range(file.canonical) : <<major.name, sub.name>> \in Range(s.sectors)}}
  ELSE Range(Codes(sub.stocks))

Group(type, path, members) == [type |-> type, path |-> path, stocks |-> BigFirst(members)]
Blueprint(file, major) ==
  {Group("major", <<major.name>>, UNION {MembersAt(file, major, sub) : sub \in Subs(major)})}
Blueprints(file, major) ==
  {Group("middle", <<major.name, sub.name>>, MembersAt(file, major, sub)) : sub \in Subs(major)}
\* _build_group_blueprints: the groups of both types.
AllGroups(file) == UNION {Blueprint(file, major) \cup Blueprints(file, major) : major \in Range(file.majors)}
OfType(groups, type) == {g \in groups : g.type = type}
AllMembers(groups) == UNION {Range(g.stocks) : g \in groups}

-----------------------------------------------------------------------------
(* Stocks within a group. *)

\* _position_score_map: a symbol listed twice takes its last place.
PositionScore(ranking, s) ==
  LET n == Len(ranking)
      last == Max({i \in DOMAIN ranking : ranking[i] = s})
  IN  IF s \notin Range(ranking) THEN 0
      ELSE IF n = 1 THEN Full ELSE Round(Full * (n - last), n - 1)

\* _build_live_signal_map: every listing counts, in percent of its weight.
SourceWeight == [return |-> 25, volume |-> 25, trade_strength |-> 30, near_high |-> 20]
LiveSignal(rankings, s) ==
  Round(SumFunction([src \in DOMAIN SourceWeight |->
          Cardinality({i \in DOMAIN rankings[src] : rankings[src][i] = s})
            * PositionScore(rankings[src], s) * SourceWeight[src]]), 100)

\* The value of a quote, 0 for a symbol without one.
Quoted(quotes, s, field) == IF s \in DOMAIN quotes THEN quotes[s][field] ELSE 0

\* _score_group_members: the synthetic RS of a member, relative to its group.
StockRS(group, quotes, rankings, s) ==
  LET peers == Range(group.stocks)
      pct(field) == IF s \notin DOMAIN quotes THEN 0
                    ELSE PctRank({Quoted(quotes, t, field) : t \in peers}, quotes[s][field])
      live == PctRank({LiveSignal(rankings, t) : t \in peers}, LiveSignal(rankings, s))
  IN  Round(live * 18 + pct("ret") * 32 + pct("value") * 35
            + PositionScore(rankings.trade_strength, s) * 10
            + PositionScore(rankings.near_high, s) * 5, 1000)

\* _score_group_members: members with their RS, the best first.
ScoredMembers(group, quotes, rankings) ==
  LET Key(s) == <<StockRS(group, quotes, rankings, s), Quoted(quotes, s, "ret"),
                  Quoted(quotes, s, "value"), PositionScore(rankings.trade_strength, s),
                  PositionScore(rankings.near_high, s), LiveSignal(rankings, s), Cap[s], 0 - s>>
      keyed == [i \in DOMAIN group.stocks |-> Key(group.stocks[i])]
      Before(k, l) == \E i \in DOMAIN k : (k[i] > l[i] /\ \A j \in 1 .. i - 1 : k[j] = l[j])
      order == SortSeq(keyed, Before)
  IN  [i \in DOMAIN order |-> [symbol |-> 0 - order[i][8], rs |-> order[i][1]]]

Top(scored) == SubSeq(scored, 1, Min({TopN, Len(scored)}))
SymbolsOf(scored) == {scored[i].symbol : i \in DOMAIN scored}

\* Slip: the probe ranks the members of the major groups only.
QuoteMajors(groups, mode, quotes, rankings) ==
  UNION {SymbolsOf(Top(ScoredMembers(g, quotes, rankings))) : g \in OfType(groups, "major")}
\* _select_quote_symbols: every member and every symbol of a ranking, or
\* _probe_top_symbols_per_group.
QuoteTargets(groups, mode, quotes, rankings) ==
  IF mode = "all"
  THEN AllMembers(groups) \cup UNION {Range(rankings[src]) : src \in DOMAIN SourceWeight}
  ELSE UNION {SymbolsOf(Top(ScoredMembers(g, quotes, rankings))) : g \in groups}

-----------------------------------------------------------------------------
(* Groups among those of their type. *)

SumOver(S, f(_)) == MapThenSumSet(f, S)
MeanOver(S, f(_), unit) == IF S = {} THEN 0 ELSE Round(unit * SumOver(S, f), Cardinality(S))

\* _build_group_metrics: what the members and the top members have in sum; what
\* the analysis adds is filled in later.
Metrics(group, scored, quotes, rankings) ==
  LET members == DOMAIN scored
      top     == SymbolsOf(Top(scored))
      rs(i)   == scored[i].rs
      Share(S) == IF members = {} THEN 0 ELSE Round(1000 * Cardinality(S), Len(scored))
      RsShare(least) == Share({i \in members : rs(i) >= least})
      value(s) == Max({0, Quoted(quotes, s, "value")})
      topValue == SumOver(top, value)
      quoted  == top \cap DOMAIN quotes
      cap     == SumOver(SymbolsOf(scored), LAMBDA s : Cap[s])
  IN  [type |-> group.type, path |-> group.path, members |-> Len(scored), symbols |-> SymbolsOf(scored),
       top |-> top, cap |-> cap,
       weighted_rs |-> IF cap > 0 THEN Round(10 * SumOver(members, LAMBDA i : rs(i) * Cap[scored[i].symbol]), cap)
                       ELSE MeanOver(members, rs, 10),
       avg_rs |-> MeanOver(members, rs, 10),
       high_rs |-> RsShare(800), rs60 |-> RsShare(600), rs70 |-> RsShare(700),
       topValue |-> topValue, value |-> SumOver(SymbolsOf(scored), value),
       quoted |-> quoted # {},
       topReturn |-> MeanOver(quoted, LAMBDA s : quotes[s].ret, 100),
       topPositive |-> MeanOver(quoted, LAMBDA s : IF quotes[s].ret > 0 THEN 1 ELSE 0, 1000),
       topShare |-> IF topValue = 0 THEN 0 ELSE Round(1000 * Max({value(s) : s \in top}), topValue),
       live |-> Share({i \in members : LiveSignal(rankings, scored[i].symbol) > 0}),
       up |-> Share({i \in members : Quoted(quotes, scored[i].symbol, "ret") > 0}),
       rs |-> 0, rank |-> 0, status |-> Blank, breadth |-> <<>>]

\* _analyze_group_rows: the score before it is rounded, in 1/10000 of a point.
GroupScore(rows, r) ==
  LET pct(field) == PctRank({row[field] : row \in rows}, r[field])
  IN  pct("topReturn") * 26 + pct("topValue") * 24 + r.weighted_rs * 18 + r.avg_rs * 8
      + r.high_rs * 10 * 8 + pct("cap") * 4 + pct("members") * 4 + pct("live") * 8

\* The signals a group shows, of which three or four make its score credible.
Signals(rows, r) ==
  LET strong(field) == PctRank({row[field] : row \in rows}, r[field]) >= 7000
  IN  Cardinality({i \in 1 .. 10 :
        CASE i = 1 -> r.weighted_rs >= 8000
          [] i = 2 -> r.avg_rs >= 7000
          [] i = 3 -> r.high_rs >= 300
          [] i = 4 -> r.rs60 >= 600
          [] i = 5 -> r.quoted /\ r.topReturn > 0
          [] i = 6 -> strong("topReturn") /\ r.quoted
          [] i = 7 -> strong("topValue") /\ r.topValue > 0
          [] i = 8 -> strong("live")
          [] i = 9 -> r.quoted /\ r.topPositive >= 600
          [] i = 10 -> r.topValue > 0 /\ r.topShare <= 650})

\* The leader status; a middle group of few members cannot lead.
Status(type, members, score, signals) ==
  LET standing == IF score >= 780 /\ signals >= 4 THEN "lead"
                  ELSE IF score >= 600 /\ signals >= 3 THEN "watch"
                  ELSE IF score >= 450 THEN "neutral" ELSE "weak"
  IN  IF type = "middle" /\ members < MinEligible THEN "sample"
      ELSE IF type = "middle" /\ members < MinLeader /\ standing = "lead" THEN "watch"
      ELSE standing

\* The order of display paths: "major" before "major > middle".
PathBefore(p, q) ==
  p[1] < q[1] \/ (p[1] = q[1] /\ (Len(p) < Len(q) \/ (Len(p) = 2 /\ Len(q) = 2 /\ p[2] < q[2])))

Judged(r, rs, rank, signals) ==
  [r EXCEPT !.rs = rs, !.rank = rank, !.status = Status(r.type, r.members, rs, signals)]
\* _analyze_group_rows: rank by the score as it is.
Ranked(rows) ==
  LET score == Computed([r \in rows |-> GroupScore(rows, r)])
      rank(r) == 1 + Cardinality({q \in rows :
                    score[q] > score[r] \/ (score[q] = score[r] /\ PathBefore(q.path, r.path))})
  IN  {Judged(r, Round(score[r], 1000), rank(r), Signals(rows, r)) : r \in rows}
\* _build_rows (a bound name is computed once, a definition at each use).
GroupRows(groups, quotes, rankings) ==
  LET scored == {<<g, ScoredMembers(g, quotes, rankings)>> : g \in groups}
  IN  UNION {Ranked(rows) : rows \in {{Metrics(s[1], s[2], quotes, rankings) : s \in scored}}}

\* market_up_ratio: the share of the quoted members of the file that rose.
MarketUp(groups, quotes) ==
  LET quoted == AllMembers(groups) \cap DOMAIN quotes
  IN  IF quoted = {} THEN <<>>
      ELSE <<Round(1000 * Cardinality({s \in quoted : quotes[s].ret > 0}), Cardinality(quoted))>>

-----------------------------------------------------------------------------
(* Breadth, persistence and the second score. *)

\* _load_symbol_value_averages: the sums of the newest values of a symbol in
\* the lake, newest first, for those with enough of them.
PositiveValues(lake, s) ==
  IF s \in DOMAIN lake THEN SelectSeq(SubSeq(lake[s], 1, Min({Lookback, Len(lake[s])})), LAMBDA v : v > 0)
  ELSE <<>>
SumFirst(vals, n) == SumFunction(SubSeq(vals, 1, n))

\* calculate_value_expansion_ratio: in thousandths, <<>> below half coverage.
ValueExpansion(lake, members) ==
  LET valid    == {s \in members : Len(PositiveValues(lake, s)) >= Long}
      expanded == {s \in valid : LET vals == PositiveValues(lake, s)
                                 IN  2 * Long * SumFirst(vals, Short) >= 3 * Short * SumFirst(vals, Long)}
  IN  IF valid # {} /\ 2 * Cardinality(valid) >= Cardinality(members)
      THEN <<Round(1000 * Cardinality(expanded), Cardinality(valid))>> ELSE <<>>

\* calculate_breadth_score, in tenths.
Breadth(row, marketUp, expansion) ==
  IF row.members = 0 THEN <<>>
  ELSE LET rs60   == Min({Round(1000 * row.rs60, 300), 1000})
           up     == IF marketUp = <<>> THEN 500 ELSE Clip(Round(1000 * (row.up - marketUp[1] + 200), 400), 0, 1000)
           spread == IF expansion = <<>> THEN 500 ELSE Min({Round(1000 * expansion[1], 250), 1000})
       IN  <<Round(40 * rs60 + 30 * up + 30 * spread, 100)>>

\* Slip: the row of an earlier run of the same date counts as a day of its own.
ObservationsTwice(history, current) ==
  <<current>> \o SortSeq(SetToSeq({r \in history : r.path = current.path}), LAMBDA r, q : r.date > q.date)
\* One observation of each date, the newest first, headed by the current row.
Observations(history, current) ==
  LET older == {r \in history : r.path = current.path /\ r.date # current.date}
      nth(i) == CHOOSE r \in older : Cardinality({q \in older : q.date > r.date}) = i - 1
  IN  <<current>> \o [i \in 1 .. Cardinality(older) |-> nth(i)]

FirstRows(rows, n) == SubSeq(rows, 1, Min({n, Len(rows)}))
SumField(rows, field) == SumFunction([i \in DOMAIN rows |-> rows[i][field]])

\* calculate_persistence_score, in tenths; <<>> with less than a week observed.
Persistence(rows) ==
  LET week  == FirstRows(rows, Short)
      month == FirstRows(rows, Long)
      rsAvg == Clip(Round(SumField(week, "rs"), Short), 0, 1000)
      top3  == Cardinality({i \in DOMAIN week : week[i].rank \in 1 .. 3})
      all   == SumField(month, "value")
      grown(num, den) == den * Long * SumField(week, "value") >= num * Short * all
      value == IF Len(month) < Long \/ all <= 0 THEN 500
               ELSE IF grown(2, 1) THEN 1000 ELSE IF grown(3, 2) THEN 800
               ELSE IF grown(6, 5) THEN 600 ELSE IF grown(1, 1) THEN 400 ELSE 200
  IN  IF Len(week) < Short THEN <<>>
      ELSE <<Round(40 * rsAvg + 30 * Round(1000 * top3, Short) + 30 * value, 100)>>

\* classify_theme_quality
Quality(p, b) ==
  IF p = <<>> \/ b = <<>> THEN "unknown"
  ELSE IF p[1] >= 700 /\ b[1] >= 700 THEN "leading"
  ELSE IF p[1] >= 700 /\ b[1] < 500 THEN "one stock"
  ELSE IF p[1] < 500 /\ b[1] >= 700 THEN "rotation"
  ELSE IF p[1] >= 500 /\ b[1] >= 500 THEN "watch" ELSE "weak"

\* _inject_v2: theme_score_v2, <<>> without a persistence or a breadth.
ScoreV2(row, p, b) == IF p = <<>> \/ b = <<>> THEN <<>> ELSE <<Round(60 * row.rs + 20 * p[1] + 20 * b[1], 100)>>
=============================================================================
