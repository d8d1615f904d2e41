--------------------------- MODULE ThemeCollection ---------------------------
(***************************************************************************)
(* The daily theme report: a job of the workflow, or the operator's own    *)
(* machine, restores the history of past days from the newest releases,    *)
(* evaluates the groups of the day, writes the day's snapshot and the      *)
(* overview and publishes both with the history as a release.  The job     *)
(* starts with an empty directory; the machine keeps its own.              *)
(***************************************************************************)
EXTENDS ThemeScoring

CONSTANTS
  File0,                      \* the classification file in the repository
  Markets, MarketOf,          \* what a day's market may look like, by name
  Losses,                     \* symbols the quotes of a run may fail for
  Rounds,                     \* ... and its two rounds of requests for investor flows
  Weekdays, Sessions,         \* the calendar: days of the cron, trading days
  Archive,                    \* the releases at the start
  FirstDay, MaxDay,           \* bound: the days the model runs over
  LocalDays,                  \* days on which the operator works
  MaxRuns,                    \* bound: runs of either host
  MinDays, MaxGap, MaxDays,   \* 5 dates, 14 days, 40 dates
  MaxReleases,                \* --theme-history-sync-max-releases of each host
  Fallback,                   \* THEME_HISTORY_FALLBACK_LEADER_COUNT: 3
  ReportDays                  \* --history-report-days: 14

VARIABLES
  today, runs,
  updated,  \* whether the classification file was rewritten from its review
  releases, \* the assets of each published tag, the host that wrote it last and
            \* those that ever did (history of the model)
  local,    \* data/theme_history of the operator's machine
  job,      \* the run in progress
  torn,     \* tags an upload to was cut short (history of the model)
  led       \* the groups runs found leading, by date (history of the model)

vars == <<today, runs, updated, releases, local, job, torn, led>>

Hosts == {"ci", "local"}
ASSUME ThemeAssumption ==
  /\ {FirstDay, MaxDay, MaxRuns} \subseteq Nat /\ FirstDay <= MaxDay
  /\ Weekdays \cup Sessions \cup LocalDays \subseteq Nat
  /\ {MinDays, MaxDays} \subseteq Nat \ {0} /\ MaxReleases \in [Hosts -> Nat \ {0}]

None == <<>>
NoFile == <<>>
EmptyDir == [combined |-> NoFile, daily |-> <<>>]
NoTag == [form |-> 0, day |-> 0]
NoJob == [host |-> "none", phase |-> "idle", tag |-> NoTag, closed |-> FALSE, dir |-> EmptyDir,
          overview |-> None, left |-> 0]

\* A tag by its form and day: theme-sector-YYYYMMDD-HHMM sorts, as form 0,
\* before every tag of another form (theme_sector_tag_sort_key).
TagBefore(t, u) == t.form < u.form \/ (t.form = u.form /\ t.day < u.day)
\* The last of a set of tags in that order.
Newest(tags) == CHOOSE t \in tags : \A u \in tags : ~TagBefore(t, u)

\* Files with one of them written.
Written(files, name, file) == [n \in DOMAIN files \cup {name} |-> IF n = name THEN file ELSE files[n]]

-----------------------------------------------------------------------------
(* Snapshots: metric rows of every group and rows of the leading groups.   *)

Key(r) == <<r.date, r.path>>
DatesOf(rows) == {r.date : r \in rows}
Override(rows, newer) == newer \cup {r \in rows : \A q \in newer : Key(q) # Key(r)}

\* _limit_history_rows_to_recent_dates
Recent(dates, n) == {d \in dates : Cardinality({x \in dates : x > d}) < n}
Limit(rows, n) == {r \in rows : r.date \in Recent(DatesOf(rows), n)}

Row(r, date, status, src) ==
  [date |-> date, path |-> r.path, rs |-> r.rs, rank |-> r.rank, value |-> r.value,
   status |-> status, source |-> src]

\* Slip: a fallback of a day without leaders passes for one.
AnyLeader(r) == TRUE
\* _normalize_leader_history_row keeps a row whose source was a leader, or is
\* not known; what it keeps no longer names its source.
StrictLeader(r) == r.source \in {Blank, "lead"}
Plain(r) == Row(r, r.date, r.status, Blank)
CollectedLeaders(rows) == {Plain(r) : r \in {q \in rows : StrictLeader(q)}}
\* _normalize_leader_row of the publisher does not look at the source.
PublishedLeaders(rows) == {Plain(r) : r \in rows}

\* _read_theme_history_snapshot_rows: metric rows, or else the leaders.
MetricsIn(payload) ==
  {Plain(r) : r \in IF payload.metrics # {} THEN payload.metrics ELSE payload.leaders}
\* _load_theme_history_rows: the combined file, then the files of single days.
LoadMetrics(dir) ==
  Override(IF dir.combined = NoFile THEN {} ELSE MetricsIn(dir.combined),
           UNION {MetricsIn(dir.daily[d]) : d \in DOMAIN dir.daily})
LoadLeaders(dir, Normal(_)) ==
  Override(IF dir.combined = NoFile THEN {} ELSE Normal(dir.combined.leaders),
           UNION {Normal(dir.daily[d].leaders) : d \in DOMAIN dir.daily})

\* _combine_theme_history_dirs: rows of the second override those of the first.
Combined(first, second) ==
  [leaders |-> Limit(Override(LoadLeaders(first, CollectedLeaders), LoadLeaders(second, CollectedLeaders)), MaxDays),
   metrics |-> Limit(Override(LoadMetrics(first), LoadMetrics(second)), MaxDays)]

\* write_daily_snapshot_from_overview: without a leader the first groups are
\* written as leaders, with the status they had as their source.
Rebuilt(overview) ==
  LET lead == {r \in overview.rows : r.status = "lead"}
      Above(r) == {q \in overview.rows :
                    \/ q.rs > r.rs
                    \/ q.rs = r.rs /\ q.rank < r.rank
                    \/ q.rs = r.rs /\ q.rank = r.rank /\ PathBefore(q.path, r.path)}
      chosen == IF lead # {} THEN lead ELSE {r \in overview.rows : Cardinality(Above(r)) < Fallback}
  IN  [leaders |-> {Row(r, overview.date, "lead", r.status) : r \in chosen},
       metrics |-> {Row(r, overview.date, r.status, Blank) : r \in overview.rows}]
\* expand_combined_snapshot_to_daily_files: the rows of a day.
Expanded(snapshot, d) ==
  [leaders |-> {r \in snapshot.leaders : r.date = d}, metrics |-> {r \in snapshot.metrics : r.date = d}]

\* The days a release brings to a synchronisation, and their files: that of its
\* overview is rebuilt.  Without a snapshot it is skipped.
DaysIn(release) ==
  IF release.snapshot = None THEN {}
  ELSE DatesOf(release.snapshot.leaders \cup release.snapshot.metrics)
       \cup (IF release.overview = None THEN {} ELSE {release.overview.date})
DayIn(release, d) ==
  IF release.overview # None /\ release.overview.date = d
  THEN Rebuilt(release.overview) ELSE Expanded(release.snapshot, d)

\* sync_theme_snapshots: of the last releases in the order of their tags, the
\* last one that brings a day writes its file.
Taken(host) == {t \in DOMAIN releases : Cardinality({u \in DOMAIN releases : TagBefore(t, u)}) < MaxReleases[host]}
Bringing(host, d) == {t \in Taken(host) : d \in DaysIn(releases[t])}
Synced(dir, host) ==
  [combined |-> dir.combined,
   daily |-> [d \in DOMAIN dir.daily \cup UNION {DaysIn(releases[t]) : t \in Taken(host)} |->
               IF Bringing(host, d) = {} THEN dir.daily[d] ELSE DayIn(releases[Newest(Bringing(host, d))], d)]]

\* _recent_history_gap_days, 0 with a single date.
RecentGap(dates) ==
  IF Cardinality(dates) < 2 THEN 0 ELSE Max(dates) - Max(dates \ {Max(dates)})

-----------------------------------------------------------------------------
(* What a run evaluates.                                                   *)

Modes == {"top", "all", "off"}   \* default, --full-quote-enrichment, --no-quote-enrichment
Strict == job.host = "ci"        \* --strict-completeness

\* The quotes of the probe or of the full enrichment, without those lost.
QuotesOf(market, mode, lost) ==
  IF mode = "off" THEN <<>> ELSE Restrict(market.quotes, DOMAIN market.quotes \ lost)

\* By whether the file was rewritten.
FileOf == Computed([u \in BOOLEAN |-> IF u THEN Updated(File0) ELSE File0])
GroupsOf == Computed([u \in BOOLEAN |-> AllGroups(FileOf[u])])
Valid == Computed([u \in BOOLEAN |-> ClassificationOK(FileOf[u])])
EvaluationOf(u, market, mode, lost) ==
  LET quotes == QuotesOf(market, mode, lost)
      up == MarketUp(GroupsOf[u], quotes)
      rows(type) == GroupRows(OfType(GroupsOf[u], type), quotes, market.rankings)
  IN  [targets |-> QuoteTargets(GroupsOf[u], mode, quotes, market.rankings),
       complete |-> AllMembers(GroupsOf[u]) \subseteq DOMAIN quotes,
       rows |-> UNION {{[r EXCEPT !.breadth = Breadth(r, up, ValueExpansion(market.lake, r.symbols))]
                         : r \in rows(type)} : type \in {"major", "middle"}}]
Evaluation == Computed(
  [run \in BOOLEAN \X Markets \X Modes \X Losses |-> EvaluationOf(run[1], MarketOf[run[2]], run[3], run[4])])

\* _investor_collection_enabled under the policy auto.
InvestorEnabled == today \notin Weekdays \/ job.closed
Both == {"foreign", "institution"}
\* _missing_investor_symbols; a stock that did not trade is excused once its
\* quote is looked at.
MissingInvestor(symbols, inv, noTrade) ==
  {s \in symbols \ noTrade : s \notin DOMAIN inv \/ inv[s] # Both}
\* A round of requests for symbols: dict.update replaces what was known.
Answered(market, symbols, lost) ==
  [s \in {x \in symbols \ lost : market.investor[x] # {}} |-> market.investor[s]]
InvestorOf(market, mode, targets, first, second) ==
  LET ranked == market.flow
      extra  == Answered(market, MissingInvestor(targets, ranked, {}), first) @@ ranked
      retry  == Answered(market, MissingInvestor(targets, extra, market.noTrade), second) @@ extra
  IN  IF ~InvestorEnabled THEN <<>> ELSE IF mode = "off" THEN ranked ELSE IF Strict THEN retry ELSE extra

\* _resolve_latest_common_trading_date: the last session the anchors traded,
\* which before the close may be yesterday's; a date without a lookup is
\* trusted on a weekday after the close only; 0 refuses.
LastSession(day) == Max({0} \cup {d \in Sessions : d <= day})
TradingDates ==
  {LastSession(today)} \cup (IF job.closed THEN {} ELSE {LastSession(today - 1)})
  \cup {IF today \in Weekdays /\ job.closed THEN today ELSE 0}

\* _inject_v2: a group with the scores of its history and its breadth.
Scored(r, history, date) ==
  LET p == Persistence(Observations(history, Row(r, date, r.status, Blank)))
  IN  [path |-> r.path, rs |-> r.rs, rank |-> r.rank, value |-> r.value, status |-> r.status,
       persistence |-> p, v2 |-> ScoreV2(r, p, r.breadth), quality |-> Quality(p, r.breadth)]

Shown(rows) == {r \in rows : r.status \in {"lead", "watch"}}
\* _full_leader_history_by_date and its sections: the first row of a group is
\* kept unless only a later one names a stock, as rows of leaders do; today is
\* what this run found, if it found a leader or a group to watch.
Report(metrics, leaders, rows, date) ==
  LET past == Override(Shown(metrics), leaders)
      live == {Row(r, date, r.status, Blank) : r \in Shown(rows)}
      all  == IF live = {} THEN past ELSE live \cup {r \in past : r.date # date}
  IN  {r \in all : r.date \in Recent(DatesOf(all) \cup {date}, ReportDays)}

-----------------------------------------------------------------------------
(* The steps of a run.                                                     *)

Led(r, date) == <<date, r.path, r.rs>>
ThemeInit ==
  /\ today = FirstDay /\ runs = 0 /\ updated = FALSE
  /\ releases = Archive /\ local = EmptyDir /\ job = NoJob /\ torn = {}
  /\ led = UNION {{Led(r, r.date) : r \in Archive[t].snapshot.leaders} : t \in DOMAIN Archive}

Idle == job = NoJob
Dir == IF job.host = "local" THEN local ELSE job.dir

Begin(host, tag, closed) ==
  /\ Idle /\ runs < MaxRuns
  /\ runs' = runs + 1
  /\ job' = [NoJob EXCEPT !.host = host, !.phase = "sync", !.tag = tag, !.closed = closed]
  /\ UNCHANGED <<today, updated, releases, local, torn, led>>

DayTag == [form |-> 1, day |-> today]
\* The cron, 20:30 and 21:30: nothing to do if the day has a release.
Schedule == today \in Weekdays /\ DayTag \notin DOMAIN releases /\ Begin("ci", DayTag, TRUE)
Dispatch == \E closed \in BOOLEAN : Begin("ci", DayTag, closed)
\* The operator names the tag.
LocalRun == today \in LocalDays /\ \E form \in {0, 1}, closed \in BOOLEAN :
              Begin("local", [form |-> form, day |-> today], closed)

\* Slip: a run goes on without its history.
RestoredAnyway(dates) == RecentGap(dates) <= MaxGap
Restored(dates) == Cardinality(dates) >= MinDays /\ RecentGap(dates) <= MaxGap

\* The first part of main: the releases go to a directory of their own, whose
\* rows override those of the history in the combined file; the files of
\* single days stay.  The releases may be out of reach.
Sync ==
  /\ job.phase = "sync"
  /\ \E fetched \in {Synced(EmptyDir, job.host), EmptyDir} :
       LET dates  == DatesOf(LoadMetrics(fetched))
           merged == [combined |-> Combined(Dir, fetched), daily |-> Dir.daily]
       IN  \/ /\ job.host = "ci" /\ Restored(dates)
              /\ job' = [job EXCEPT !.phase = "collect", !.dir = merged]
              /\ local' = local
           \/ /\ job.host = "ci" /\ ~Restored(dates)
              /\ job' = NoJob /\ local' = local
           \/ /\ job.host = "local"
              /\ job' = [job EXCEPT !.phase = "collect"]
              /\ local' = IF dates # {} THEN merged ELSE local
  /\ UNCHANGED <<today, runs, updated, releases, torn, led>>

\* _build_theme_metric_history_rows and _build_theme_history_snapshot_rows
DaySnapshot(rows, date) ==
  [metrics |-> {Row(r, date, r.status, Blank) : r \in rows},
   leaders |-> {Row(r, date, "lead", "lead") : r \in {q \in rows : q.status = "lead"}}]

\* main from the classification to the overview: every check of a strict run
\* comes before the snapshot is written.
Evaluate(found, market, mode, first, second, date) ==
  LET inv     == InvestorOf(MarketOf[market], mode, found.targets, first, second)
      Unknown(symbols) == IF InvestorEnabled THEN MissingInvestor(symbols, inv, MarketOf[market].noTrade) ELSE {}
      history == Limit(LoadMetrics(Dir), MaxDays)
      written == [combined |-> Dir.combined, daily |-> Written(Dir.daily, date, DaySnapshot(found.rows, date))]
      overview == [date |-> date, rows |-> {Scored(r, history, date) : r \in found.rows},
                   report |-> Report(history, Limit(LoadLeaders(Dir, CollectedLeaders), MaxDays), found.rows, date),
                   unknown |-> Unknown(UNION {r.top : r \in found.rows})]
      refused == \/ ~Valid[updated] \/ date = 0
                 \/ Strict /\ (~found.complete \/ Unknown(found.targets) # {})
  IN  \/ refused /\ job' = NoJob /\ UNCHANGED <<local, led>>
      \/ /\ ~refused
         /\ job' = [job EXCEPT !.phase = "publish", !.dir = IF job.host = "ci" THEN written ELSE @,
                               !.overview = overview]
         /\ local' = IF job.host = "local" THEN written ELSE local
         /\ led' = led \cup {Led(r, date) : r \in {q \in found.rows : q.status = "lead"}}

Collect ==
  /\ job.phase = "collect"
  /\ \E market \in Markets, lost \in Losses, failed \in Rounds, date \in TradingDates,
        mode \in IF Strict THEN {"top"} ELSE Modes :
       \E found \in {Evaluation[<<updated, market, mode, lost>>]} :
         Evaluate(found, market, mode, failed[1], failed[2], date)
  /\ UNCHANGED <<today, runs, updated, releases, torn>>

\* write_combined_snapshot of publish_theme_sector_release.py refuses a day
\* without metric rows.
Snapshot == [metrics |-> LoadMetrics(Dir), leaders |-> LoadLeaders(Dir, PublishedLeaders)]
Publishable == job.phase = "publish" /\ job.overview.rows # {}

\* gh release create shows a release once its assets are there.
Create ==
  /\ Publishable /\ job.tag \notin DOMAIN releases
  /\ releases' = Written(releases, job.tag, [snapshot |-> Snapshot, overview |-> job.overview,
                                             by |-> job.host, hosts |-> {job.host}])
  /\ job' = NoJob
  /\ UNCHANGED <<today, runs, updated, local, torn, led>>

\* gh release upload --clobber: each asset is deleted and uploaded again.
Uploads == <<<<"overview", job.overview>>, <<"overview", None>>, <<"snapshot", Snapshot>>, <<"snapshot", None>>>>
BeginUpload ==
  /\ Publishable /\ job.tag \in DOMAIN releases
  /\ job' = [job EXCEPT !.phase = "upload", !.left = Len(Uploads)]
  /\ torn' = torn \cup {job.tag}
  /\ UNCHANGED <<today, runs, updated, releases, local, led>>

Upload ==
  /\ job.phase = "upload"
  /\ LET asset == Uploads[job.left]
         done  == job.left = 1
     IN  /\ releases' = [releases EXCEPT ![job.tag][asset[1]] = asset[2], ![job.tag].by = job.host,
                                         ![job.tag].hosts = @ \cup {job.host}]
         /\ job' = IF done THEN NoJob ELSE [job EXCEPT !.left = @ - 1]
         /\ torn' = IF done THEN torn \ {job.tag} ELSE torn
  /\ UNCHANGED <<today, runs, updated, local, led>>

\* The process, the runner or the network ends the run where it stands.
Abort == ~Idle /\ job' = NoJob /\ UNCHANGED <<today, runs, updated, releases, local, torn, led>>

\* sync_theme_history_from_github_releases.py, run by the operator.
ManualSync ==
  /\ Idle /\ today \in LocalDays /\ runs < MaxRuns
  /\ runs' = runs + 1 /\ local' = Synced(local, "local")
  /\ UNCHANGED <<today, updated, releases, job, torn, led>>

\* update_theme_classification.py and a commit.
Reclassify ==
  /\ Idle /\ today \in LocalDays /\ ~updated /\ updated' = TRUE
  /\ UNCHANGED <<today, runs, releases, local, job, torn, led>>

Midnight ==
  /\ Idle /\ today < MaxDay /\ today' = today + 1
  /\ UNCHANGED <<runs, updated, releases, local, job, torn, led>>

Ended == Idle /\ today = MaxDay /\ runs = MaxRuns /\ UNCHANGED vars

ThemeNext ==
  \/ Schedule \/ Dispatch \/ LocalRun \/ Sync \/ Collect \/ Create \/ BeginUpload \/ Upload
  \/ Abort \/ ManualSync \/ Reclassify \/ Midnight \/ Ended

ThemeSpec == ThemeInit /\ [][ThemeNext]_vars

-----------------------------------------------------------------------------
\* The persistence an overview shows is that of the history beside it.
Matches(snapshot, overview) ==
  LET history == {r \in snapshot.metrics : r.date # overview.date}
  IN  \A r \in overview.rows :
        r.persistence = Persistence(Observations(history, Row(r, overview.date, r.status, Blank)))
\* A machine that keeps the files of more days than a run reads publishes all of
\* them, and scores the last.
ScoresAll(release) == release.by = "ci" \/ Cardinality(DatesOf(release.snapshot.metrics)) <= MaxDays
LedIn(rows) == {Led(r, r.date) : r \in {q \in rows : q.status = "lead"}}

\* The releases at the start are older than the first day and such as the
\* program publishes.
WellPublished(release) ==
  LET s == release.snapshot
      o == release.overview
  IN  /\ release = [snapshot |-> s, overview |-> o, by |-> release.by, hosts |-> release.hosts]
      /\ release.by \in release.hosts /\ release.hosts \subseteq Hosts
      /\ s # None /\ o # None /\ o.rows # {} /\ \A r \in o.rows : r.status # Blank
      /\ DatesOf(s.leaders \cup s.metrics) \cup {o.date} \subseteq 0 .. FirstDay
      /\ LedIn(s.metrics) \cup {Led(r, o.date) : r \in {q \in o.rows : q.status = "lead"}}
           \subseteq {Led(r, r.date) : r \in s.leaders}
      /\ ScoresAll(release) => Matches(s, o)
      /\ release.by = "ci" => o.unknown = {} /\ LedIn(o.report) \subseteq {Led(r, r.date) : r \in s.leaders}
ASSUME ArchiveAssumption ==
  /\ IsFiniteSet(DOMAIN Archive)
  /\ \A t \in DOMAIN Archive : t \in [form : {0, 1}, day : 0 .. FirstDay - 1] /\ WellPublished(Archive[t])

Whole == {t \in DOMAIN releases : t \notin torn}
WholeByCI == {t \in Whole : releases[t].by = "ci"}

\* The persistence a release reports is that of the history published beside
\* it: one observation of each date, however often the day was collected and
\* whatever files the rows came from.
ScoresMatchHistory == \A t \in Whole : ScoresAll(releases[t]) => Matches(releases[t].snapshot, releases[t].overview)

\* While the workflow alone has published, every group its releases hold or
\* show as leading was found leading by a run for that date: the first groups
\* of a day without leaders, which a sync rebuilds, are never taken for
\* leaders.  (What an operator's run published stays in the history of the
\* workflow's, even after the workflow has written that release again.)
LeadersWereFound ==
  (\A t \in DOMAIN releases \ DOMAIN Archive : releases[t].hosts = {"ci"}) =>
    \A t \in WholeByCI :
      {Led(r, r.date) : r \in releases[t].snapshot.leaders} \cup LedIn(releases[t].overview.report) \subseteq led

\* A strict release displays no traded stock without its investor flow: the
\* stocks asked for, by the ranking of the probe, are those displayed.
DisplayedComplete == \A t \in WholeByCI : releases[t].overview.unknown = {}

\* A release of the workflow carries on the history of the newest one before
\* it: only dates that newer ones push out of the limit are left behind.
Named(rs) == {t \in DOMAIN rs : rs[t].snapshot # None}
HistoryCarriedOn ==
  [][\A t \in DOMAIN releases' :
       LET before == Named(releases) \ {t}
           old == DatesOf(releases[Newest(before)].snapshot.metrics)
           new == DatesOf(releases'[t].snapshot.metrics)
       IN  /\ releases'[t].by = "ci" /\ releases'[t].snapshot # None /\ before # {}
           /\ t \notin DOMAIN releases \/ releases[t].snapshot # releases'[t].snapshot
           => old \cap Recent(old \cup new, MaxDays) \subseteq new]_vars
=============================================================================
