------------------------ MODULE ThemeCollection_proofs ------------------------
(***************************************************************************)
(* What the releases of the theme report hold, for every classification,   *)
(* market, calendar and number of runs, whatever is lost on the way and    *)
(* wherever an upload is cut short: no displayed stock lacks its investor  *)
(* flow, nothing passes for a leader that was not found leading, the       *)
(* scores are those of the history beside them, and that history carries   *)
(* on the one of the newest release before it.                             *)
(***************************************************************************)
EXTENDS ThemeCollection, FoldTheorems

Days == 0 .. MaxDay
Tags == [form : {0, 1}, day : Nat]

-----------------------------------------------------------------------------
(* What is where.  Every property below needs it.                          *)

JobShaped ==
  /\ job = [host |-> job.host, phase |-> job.phase, tag |-> job.tag, closed |-> job.closed,
            dir |-> job.dir, overview |-> job.overview, left |-> job.left]
  /\ job.phase \in {"idle", "sync", "collect", "publish", "upload"}
  /\ job.phase = "idle" => Idle
  /\ job.phase = "sync" => job.dir = EmptyDir
  /\ job.phase # "idle" => job.host \in Hosts /\ job.tag \in Tags /\ job.tag.day >= FirstDay

ReleasesShaped ==
  /\ IsFiniteSet(DOMAIN releases) /\ DOMAIN releases \subseteq Tags /\ DOMAIN Archive \subseteq DOMAIN releases
  /\ \A t \in DOMAIN releases :
       /\ releases[t] = [snapshot |-> releases[t].snapshot, overview |-> releases[t].overview,
                         by |-> releases[t].by, hosts |-> releases[t].hosts]
       /\ releases[t].by \in releases[t].hosts
       /\ t \notin torn => releases[t].snapshot # None /\ releases[t].overview # None
  /\ \A t \in DOMAIN Archive : releases[t] = Archive[t]

\* How far an upload has come: its tag counts as torn, and what it has written
\* is what the run publishes.
UploadOnItsWay ==
  job.phase = "upload" =>
    /\ job.tag \in DOMAIN releases \cap torn /\ job.left \in 1 .. 4
    /\ job.left <= 2 => releases[job.tag].snapshot = Snapshot

\* The file of a day holds rows of that day only.
RowsOn(payload, days) == DatesOf(payload.leaders \cup payload.metrics) \subseteq days
DirDated(dir) ==
  /\ dir.combined # NoFile => RowsOn(dir.combined, Days)
  /\ \A d \in DOMAIN dir.daily : d \in Days /\ RowsOn(dir.daily[d], {d})
OverviewDated(overview) == overview.date \in Days /\ overview.rows # {}

Dated ==
  /\ today \in FirstDay .. MaxDay /\ updated \in BOOLEAN
  /\ DirDated(local) /\ DirDated(job.dir)
  /\ job.phase \in {"publish", "upload"} => job.overview # None /\ job.overview.date \in Days
  /\ job.phase = "upload" => job.overview.rows # {}
  /\ \A t \in DOMAIN releases :
       /\ releases[t].snapshot # None => RowsOn(releases[t].snapshot, Days)
       /\ releases[t].overview # None => OverviewDated(releases[t].overview)

ThemeInv == JobShaped /\ ReleasesShaped /\ UploadOnItsWay /\ Dated

-----------------------------------------------------------------------------
(* Investor flows. *)

\* The report of a strict run is complete before it is published.
CompleteInv ==
  /\ DisplayedComplete
  /\ job.host = "ci" /\ job.phase \in {"publish", "upload"} => job.overview.unknown = {}

-----------------------------------------------------------------------------
(* Leaders. *)

OnlyWorkflow == \A t \in DOMAIN releases \ DOMAIN Archive : releases[t].hosts = {"ci"}

\* Of what is known to have been found leading.
AllLed(rows, known) == {Led(r, r.date) : r \in rows} \subseteq known
\* What a sync may bring: leaders that were not found name their source, and
\* are never read as metrics.
PayloadSound(payload, known) ==
  /\ LedIn(payload.metrics) \subseteq known
  /\ AllLed({r \in payload.leaders : StrictLeader(r)}, known)
  /\ payload.metrics = {} => AllLed(payload.leaders, known)
\* What the workflow keeps and publishes.
FileSound(payload, known) == LedIn(payload.metrics) \subseteq known /\ AllLed(payload.leaders, known)
DirSound(dir, known) ==
  /\ dir.combined # NoFile => FileSound(dir.combined, known)
  /\ \A d \in DOMAIN dir.daily : FileSound(dir.daily[d], known)
RowsSound(overview, known) ==
  \A r \in overview.rows : r.status # Blank /\ (r.status = "lead" => Led(r, overview.date) \in known)
ReportSound(overview, known) == LedIn(overview.report) \subseteq known

ReleaseSound(release, known) ==
  /\ release.snapshot # None => FileSound(release.snapshot, known)
  /\ release.overview # None => RowsSound(release.overview, known)
  /\ release.overview # None /\ release.by = "ci" => ReportSound(release.overview, known)
RunSound ==
  job.host = "ci" =>
    /\ DirSound(job.dir, led)
    /\ job.phase \in {"publish", "upload"} => RowsSound(job.overview, led) /\ ReportSound(job.overview, led)
SoundInv == OnlyWorkflow => RunSound /\ \A t \in DOMAIN releases : ReleaseSound(releases[t], led)

-----------------------------------------------------------------------------
(* Scores. *)

\* The workflow starts from a combined file within the limit, without files of
\* single days.
HistoryLimited ==
  job.host = "ci" /\ job.phase = "collect" =>
    DOMAIN job.dir.daily = {} /\ Cardinality(DatesOf(LoadMetrics(job.dir))) <= MaxDays

\* What a run will publish.
RunMatches ==
  job.phase \in {"publish", "upload"} /\ (job.host = "ci" \/ Cardinality(DatesOf(Snapshot.metrics)) <= MaxDays)
    => Matches(Snapshot, job.overview)
ScoresInv == ScoresMatchHistory /\ HistoryLimited /\ RunMatches

-----------------------------------------------------------------------------
(* History. *)

\* Of the old dates, new ones may lack those that MaxDays newer ones push out.
Carried(old, new) == \A d \in old : d \in new \/ MaxDays <= Cardinality({x \in new : x > d})
Before == Named(releases) \ {job.tag}
CarriedInv ==
  job.host = "ci" /\ job.phase \in {"collect", "publish", "upload"} /\ Before # {} =>
    Carried(DatesOf(releases[Newest(Before)].snapshot.metrics), DatesOf(LoadMetrics(job.dir)))

\* Releases that lost their snapshot to an upload: fewer than a run looks at.
Bare == {t \in DOMAIN releases : releases[t].snapshot = None}
FewBare == Cardinality(Bare) + 1 < MaxReleases["ci"]

-----------------------------------------------------------------------------
(* Sets of dates and of tags.                                              *)

LEMMA ComputedIs == ASSUME NEW f PROVE Computed(f) = f
BY DEF Computed

LEMMA BlankIs == Blank \notin {"lead", "watch", "neutral", "weak", "sample"}
BY Zenon DEF Blank

LEMMA DatesFinite ==
  ASSUME NEW T \in SUBSET Days
  PROVE  /\ IsFiniteSet(T) /\ Cardinality(T) \in Nat
         /\ \A d \in T : d \in Nat
         /\ \A S \in SUBSET T : IsFiniteSet(S) /\ Cardinality(S) \in Nat /\ Cardinality(S) <= Cardinality(T)
<1>1. IsFiniteSet(Days)
  BY ThemeAssumption, FS_Interval DEF Days
<1>2. IsFiniteSet(T)
  BY <1>1, FS_Subset
<1>3. \A d \in T : d \in Nat
  BY DEF Days
<1>. QED  BY <1>2, <1>3, FS_Subset, FS_CardinalityType

\* The n most recent dates are at most n.
LEMMA RecentFew ==
  ASSUME NEW T \in SUBSET Days, NEW n \in Nat
  PROVE  Recent(T, n) \subseteq T /\ Cardinality(Recent(T, n)) <= n
<1>1. Recent(T, n) \subseteq T
  BY DEF Recent
<1>2. CASE Recent(T, n) = {}
  BY <1>1, <1>2, FS_EmptySet
<1>3. CASE Recent(T, n) # {}
  <2>1. Recent(T, n) \in SUBSET Nat
    BY <1>1, DatesFinite
  <2>2. PICK m \in Recent(T, n) : \A x \in Recent(T, n) : m <= x
    BY <1>3, <2>1, LeastNat
  <2>. DEFINE Later == {x \in T : x > m}
  <2>3. Cardinality(Later) < n /\ m \notin Later /\ m \in Nat
    BY <2>1, <2>2 DEF Recent
  <2>4. Recent(T, n) \subseteq Later \cup {m}
    BY <1>1, <2>1, <2>2
  <2>5. IsFiniteSet(Later) /\ Cardinality(Later) \in Nat
    <3>1. Later \in SUBSET T
      OBVIOUS
    <3>. QED  BY <3>1, DatesFinite
  <2>6. IsFiniteSet(Later \cup {m}) /\ Cardinality(Later \cup {m}) = Cardinality(Later) + 1
    BY <2>3, <2>5, FS_AddElement
  <2>7. Cardinality(Recent(T, n)) <= Cardinality(Later \cup {m}) /\ Cardinality(Recent(T, n)) \in Nat
    BY <2>4, <2>6, FS_Subset, FS_CardinalityType
  <2>. QED  BY <1>1, <2>3, <2>5, <2>6, <2>7
<1>. QED  BY <1>2, <1>3

\* Within the limit nothing is dropped.
LEMMA RecentAll ==
  ASSUME NEW T \in SUBSET Days, NEW n \in Nat, Cardinality(T) <= n
  PROVE  Recent(T, n) = T
<1>. SUFFICES ASSUME NEW d \in T PROVE Cardinality({x \in T : x > d}) < n
  BY DEF Recent
<1>1. d \in Nat /\ IsFiniteSet(T) /\ Cardinality(T) \in Nat
  BY DatesFinite
<1>2. {x \in T : x > d} \subseteq T \ {d}
  BY <1>1
<1>3. IsFiniteSet(T \ {d}) /\ Cardinality(T \ {d}) = Cardinality(T) - 1
  BY <1>1, FS_RemoveElement
<1>4. Cardinality({x \in T : x > d}) <= Cardinality(T \ {d}) /\ Cardinality({x \in T : x > d}) \in Nat
  BY <1>2, <1>3, FS_Subset, FS_CardinalityType
<1>. QED  BY <1>1, <1>3, <1>4

\* What is left out is left out for n later dates that are kept.
LEMMA RecentCarries ==
  ASSUME NEW T \in SUBSET Days, NEW n \in Nat, NEW d \in T, d \notin Recent(T, n)
  PROVE  n <= Cardinality({x \in Recent(T, n) : x > d})
<1>. DEFINE A == {x \in T : x > d}
            R == {x \in Recent(T, n) : x > d}
            Out == A \ R
<1>1. d \in Nat /\ IsFiniteSet(A) /\ IsFiniteSet(R) /\ Cardinality(A) \in Nat /\ Cardinality(R) \in Nat
  <2>1. A \in SUBSET T /\ R \in SUBSET T
    BY DEF Recent
  <2>. QED  BY <2>1, DatesFinite
<1>2. n <= Cardinality(A)
  BY <1>1 DEF Recent
<1>3. CASE Out = {}
  <2>1. A = R
    BY <1>3 DEF Recent
  <2>. QED  BY <1>2, <2>1
<1>4. CASE Out # {}
  <2>1. Out \in SUBSET Nat /\ IsFiniteSet(Out) /\ Out \subseteq T
    BY <1>1, DatesFinite, FS_Subset
  <2>2. PICK m \in Out : \A x \in Out : m >= x
    <3>. HIDE DEF Out
    <3>. QED  BY <1>4, <2>1, LargestIn
  <2>. DEFINE Later == {x \in T : x > m}
  <2>3. Later \subseteq R
    <3>. SUFFICES ASSUME NEW x \in T, x > m, x \notin R PROVE FALSE
      OBVIOUS
    <3>1. x \in Nat /\ m \in Nat /\ m > d
      BY <2>1, DatesFinite
    <3>2. x \in Out
      BY <1>1, <3>1
    <3>. QED  BY <2>2, <3>1, <3>2
  <2>4. ~(Cardinality(Later) < n)
    BY DEF Recent
  <2>5. Cardinality(Later) <= Cardinality(R) /\ Cardinality(Later) \in Nat
    BY <1>1, <2>3, FS_Subset, FS_CardinalityType
  <2>. QED  BY <1>1, <2>4, <2>5
<1>. QED  BY <1>3, <1>4

LEMMA FormsFinite ==
  ASSUME NEW T, IsFiniteSet(T)
  PROVE  IsFiniteSet({t.form : t \in T}) /\ IsFiniteSet({t.day : t \in T})
<1>1. IsFiniteSet({t.form : t \in T})
  <2>1. [t \in T |-> t.form] \in Surjection(T, {t.form : t \in T})
    BY DEF Surjection
  <2>. QED  BY <2>1, FS_Surjection
<1>2. IsFiniteSet({t.day : t \in T})
  <2>1. [t \in T |-> t.day] \in Surjection(T, {t.day : t \in T})
    BY DEF Surjection
  <2>. QED  BY <2>1, FS_Surjection
<1>. QED  BY <1>1, <1>2

\* The last of some tags is one of them.
LEMMA NewestIs ==
  ASSUME NEW T \in SUBSET Tags, IsFiniteSet(T), T # {}
  PROVE  Newest(T) \in T /\ \A u \in T : ~TagBefore(Newest(T), u)
<1>1. PICK f \in {t.form : t \in T} : \A g \in {t.form : t \in T} : f >= g
  <2>1. {t.form : t \in T} \in SUBSET Nat /\ {t.form : t \in T} # {}
    BY DEF Tags
  <2>2. IsFiniteSet({t.form : t \in T})
    BY FormsFinite
  <2>. QED  BY <2>1, <2>2, LargestIn
<1>. DEFINE S == {t \in T : t.form = f}
<1>2. PICK d \in {t.day : t \in S} : \A e \in {t.day : t \in S} : d >= e
  <2>1. IsFiniteSet(S) /\ S # {} /\ S \subseteq Tags
    BY <1>1, FS_Subset
  <2>2. {t.day : t \in S} \in SUBSET Nat /\ {t.day : t \in S} # {} /\ IsFiniteSet({t.day : t \in S})
    <3>. HIDE DEF S
    <3>1. {t.day : t \in S} \in SUBSET Nat /\ {t.day : t \in S} # {}
      BY <2>1 DEF Tags
    <3>. QED  BY <2>1, <3>1, FormsFinite
  <2>. HIDE DEF S
  <2>. QED  BY <2>2, LargestIn
<1>3. PICK t \in S : t.day = d
  BY <1>2
<1>4. t \in T /\ \A u \in T : ~TagBefore(t, u)
  <2>. SUFFICES ASSUME NEW u \in T PROVE ~TagBefore(t, u)
    BY <1>3
  <2>1. u.form <= t.form /\ t.form = f /\ u.form \in Nat /\ t.form \in Nat /\ u.day \in Nat /\ t.day \in Nat
    BY <1>1, <1>3 DEF Tags
  <2>2. u.form = t.form => u.day <= t.day
    BY <1>2, <1>3, <2>1
  <2>. QED  BY <2>1, <2>2 DEF TagBefore
<1>. QED  BY <1>4 DEF Newest

-----------------------------------------------------------------------------
(* The history in a directory: which dates its rows have.                  *)

LEMMA RowIs ==
  ASSUME NEW r, NEW date, NEW status, NEW src
  PROVE  /\ Row(r, date, status, src).date = date /\ Row(r, date, status, src).path = r.path
         /\ Row(r, date, status, src).rs = r.rs /\ Row(r, date, status, src).status = status
         /\ Row(r, date, status, src).source = src
         /\ Led(Row(r, date, status, src), date) = Led(r, date)
BY DEF Row, Led

LEMMA PlainIs ==
  ASSUME NEW r
  PROVE  Plain(r).date = r.date /\ Plain(r).status = r.status /\ Led(Plain(r), Plain(r).date) = Led(r, r.date)
BY DEF Plain, Row, Led

\* A newer row replaces one of the same date: no date is lost.
LEMMA OverrideIs ==
  ASSUME NEW rows, NEW newer
  PROVE  /\ DatesOf(Override(rows, newer)) = DatesOf(rows) \cup DatesOf(newer)
         /\ newer \subseteq Override(rows, newer) /\ Override(rows, newer) \subseteq rows \cup newer
<1>1. \A r \in rows : r \notin Override(rows, newer) => \E q \in newer : q.date = r.date
  BY DEF Override, Key
<1>2. newer \subseteq Override(rows, newer) /\ Override(rows, newer) \subseteq rows \cup newer
  BY DEF Override
<1>. QED  BY <1>1, <1>2 DEF DatesOf

LEMMA LimitIs ==
  ASSUME NEW rows, NEW n
  PROVE  Limit(rows, n) \subseteq rows /\ DatesOf(Limit(rows, n)) = Recent(DatesOf(rows), n)
BY DEF Limit, DatesOf, Recent

LEMMA LimitAll ==
  ASSUME NEW rows, NEW n, Recent(DatesOf(rows), n) = DatesOf(rows)
  PROVE  Limit(rows, n) = rows
BY DEF Limit, DatesOf

LEMMA MetricsInDated ==
  ASSUME NEW payload, NEW days, RowsOn(payload, days)
  PROVE  DatesOf(MetricsIn(payload)) \subseteq days
BY PlainIs DEF MetricsIn, RowsOn, DatesOf

LEMMA NormalDated ==
  ASSUME NEW rows
  PROVE  DatesOf(CollectedLeaders(rows)) \subseteq DatesOf(rows) /\ DatesOf(PublishedLeaders(rows)) \subseteq DatesOf(rows)
BY PlainIs DEF CollectedLeaders, PublishedLeaders, DatesOf

\* What a directory holds has dates of the calendar.
LEMMA LoadDated ==
  ASSUME NEW dir, DirDated(dir)
  PROVE  /\ DatesOf(LoadMetrics(dir)) \subseteq Days
         /\ DatesOf(LoadLeaders(dir, CollectedLeaders)) \subseteq Days
         /\ DatesOf(LoadLeaders(dir, PublishedLeaders)) \subseteq Days
<1>1. DatesOf(LoadMetrics(dir)) \subseteq Days
  <2>. DEFINE old == IF dir.combined = NoFile THEN {} ELSE MetricsIn(dir.combined)
              new == UNION {MetricsIn(dir.daily[d]) : d \in DOMAIN dir.daily}
  <2>1. DatesOf(old) \subseteq Days
    <3>1. CASE dir.combined = NoFile
      BY <3>1 DEF DatesOf
    <3>2. CASE dir.combined # NoFile
      BY <3>2, MetricsInDated DEF DirDated
    <3>. QED  BY <3>1, <3>2
  <2>2. DatesOf(new) \subseteq Days
    <3>1. ASSUME NEW d \in DOMAIN dir.daily PROVE DatesOf(MetricsIn(dir.daily[d])) \subseteq {d} /\ d \in Days
      BY MetricsInDated DEF DirDated
    <3>. QED  BY <3>1 DEF DatesOf
  <2>3. LoadMetrics(dir) = Override(old, new)
    BY DEF LoadMetrics
  <2>. HIDE DEF old, new
  <2>. QED  BY <2>1, <2>2, <2>3, OverrideIs
<1>2. DatesOf(LoadLeaders(dir, CollectedLeaders)) \subseteq Days
  <2>. DEFINE old == IF dir.combined = NoFile THEN {} ELSE CollectedLeaders(dir.combined.leaders)
              new == UNION {CollectedLeaders(dir.daily[d].leaders) : d \in DOMAIN dir.daily}
  <2>1. DatesOf(old) \subseteq Days
    <3>1. CASE dir.combined = NoFile
      BY <3>1 DEF DatesOf
    <3>2. CASE dir.combined # NoFile
      <4>1. DatesOf(dir.combined.leaders) \subseteq Days
        BY <3>2 DEF DirDated, RowsOn, DatesOf
      <4>. QED  BY <3>2, <4>1, NormalDated
    <3>. QED  BY <3>1, <3>2
  <2>2. DatesOf(new) \subseteq Days
    <3>1. ASSUME NEW d \in DOMAIN dir.daily
          PROVE  DatesOf(CollectedLeaders(dir.daily[d].leaders)) \subseteq {d} /\ d \in Days
      <4>1. DatesOf(dir.daily[d].leaders) \subseteq {d} /\ d \in Days
        BY DEF DirDated, RowsOn, DatesOf
      <4>. QED  BY <4>1, NormalDated
    <3>. QED  BY <3>1 DEF DatesOf
  <2>3. LoadLeaders(dir, CollectedLeaders) = Override(old, new)
    BY DEF LoadLeaders
  <2>. HIDE DEF old, new
  <2>. QED  BY <2>1, <2>2, <2>3, OverrideIs
<1>3. DatesOf(LoadLeaders(dir, PublishedLeaders)) \subseteq Days
  <2>. DEFINE old == IF dir.combined = NoFile THEN {} ELSE PublishedLeaders(dir.combined.leaders)
              new == UNION {PublishedLeaders(dir.daily[d].leaders) : d \in DOMAIN dir.daily}
  <2>1. DatesOf(old) \subseteq Days
    <3>1. CASE dir.combined = NoFile
      BY <3>1 DEF DatesOf
    <3>2. CASE dir.combined # NoFile
      <4>1. DatesOf(dir.combined.leaders) \subseteq Days
        BY <3>2 DEF DirDated, RowsOn, DatesOf
      <4>. QED  BY <3>2, <4>1, NormalDated
    <3>. QED  BY <3>1, <3>2
  <2>2. DatesOf(new) \subseteq Days
    <3>1. ASSUME NEW d \in DOMAIN dir.daily
          PROVE  DatesOf(PublishedLeaders(dir.daily[d].leaders)) \subseteq {d} /\ d \in Days
      <4>1. DatesOf(dir.daily[d].leaders) \subseteq {d} /\ d \in Days
        BY DEF DirDated, RowsOn, DatesOf
      <4>. QED  BY <4>1, NormalDated
    <3>. QED  BY <3>1 DEF DatesOf
  <2>3. LoadLeaders(dir, PublishedLeaders) = Override(old, new)
    BY DEF LoadLeaders
  <2>. HIDE DEF old, new
  <2>. QED  BY <2>1, <2>2, <2>3, OverrideIs
<1>. QED  BY <1>1, <1>2, <1>3

LEMMA CombinedDated ==
  ASSUME NEW first, NEW second, DirDated(first), DirDated(second)
  PROVE  RowsOn(Combined(first, second), Days)
<1>. DEFINE L == Override(LoadLeaders(first, CollectedLeaders), LoadLeaders(second, CollectedLeaders))
            M == Override(LoadMetrics(first), LoadMetrics(second))
<1>1. DatesOf(L) \subseteq Days /\ DatesOf(M) \subseteq Days
  BY LoadDated, OverrideIs
<1>2. Combined(first, second) = [leaders |-> Limit(L, MaxDays), metrics |-> Limit(M, MaxDays)]
  BY DEF Combined
<1>. HIDE DEF L, M
<1>3. Limit(L, MaxDays) \subseteq L /\ Limit(M, MaxDays) \subseteq M
  BY LimitIs
<1>. QED  BY <1>1, <1>2, <1>3 DEF RowsOn, DatesOf

\* A file that a release brings holds rows of its day, and has some.
LEMMA DayInDated ==
  ASSUME NEW release, NEW d \in DaysIn(release),
         release.snapshot # None => RowsOn(release.snapshot, Days),
         release.overview # None => OverviewDated(release.overview)
  PROVE  d \in Days /\ RowsOn(DayIn(release, d), {d}) /\ d \in DatesOf(MetricsIn(DayIn(release, d)))
<1>1. release.snapshot # None
  BY DEF DaysIn
<1>2. CASE release.overview # None /\ release.overview.date = d
  <2>. DEFINE p == Rebuilt(release.overview)
  <2>1. DayIn(release, d) = p /\ d \in Days /\ release.overview.rows # {}
    BY <1>2 DEF DayIn, OverviewDated
  <2>2. p.metrics = {Row(r, d, r.status, Blank) : r \in release.overview.rows}
    BY <1>2 DEF Rebuilt
  <2>3. p.leaders \subseteq {Row(r, d, "lead", r.status) : r \in release.overview.rows}
    BY <1>2 DEF Rebuilt
  <2>4. p.metrics # {}
    <3>1. PICK r \in release.overview.rows : TRUE
      BY <2>1
    <3>. QED  BY <2>2, <3>1
  <2>5. (\A r \in p.metrics : r.date = d) /\ (\A r \in p.leaders : r.date = d)
    <3>1. ASSUME NEW r \in p.metrics PROVE r.date = d
      <4>1. PICK q : r = Row(q, d, q.status, Blank)
        BY <2>2
      <4>. QED  BY <4>1 DEF Row
    <3>2. ASSUME NEW r \in p.leaders PROVE r.date = d
      <4>1. PICK q : r = Row(q, d, "lead", q.status)
        BY <2>3
      <4>. QED  BY <4>1 DEF Row
    <3>. QED  BY <3>1, <3>2
  <2>. HIDE DEF p
  <2>6. RowsOn(p, {d})
    BY <2>5 DEF RowsOn, DatesOf
  <2>7. d \in DatesOf(MetricsIn(p))
    <3>1. PICK r \in p.metrics : r.date = d
      BY <2>4, <2>5
    <3>2. Plain(r) \in MetricsIn(p) /\ Plain(r).date = d
      BY <2>4, <3>1, PlainIs DEF MetricsIn
    <3>. QED  BY <3>2 DEF DatesOf
  <2>. QED  BY <2>1, <2>6, <2>7
<1>3. CASE ~(release.overview # None /\ release.overview.date = d)
  <2>. DEFINE p == Expanded(release.snapshot, d)
  <2>1. DayIn(release, d) = p
    BY <1>3 DEF DayIn
  <2>2. d \in DatesOf(release.snapshot.leaders \cup release.snapshot.metrics)
    BY <1>1, <1>3 DEF DaysIn
  <2>3. d \in Days /\ RowsOn(p, {d})
    BY <1>1, <2>2 DEF RowsOn, Expanded, DatesOf
  <2>4. d \in DatesOf(MetricsIn(p))
    BY <2>2, PlainIs DEF MetricsIn, Expanded, DatesOf
  <2>. QED  BY <2>1, <2>3, <2>4
<1>. QED  BY <1>2, <1>3

\* What a sync writes was brought by one of the releases it takes.
LEMMA SyncedFrom ==
  ASSUME ReleasesShaped, NEW dir, NEW host, NEW d \in DOMAIN Synced(dir, host).daily
  PROVE  \/ d \in DOMAIN dir.daily /\ Synced(dir, host).daily[d] = dir.daily[d]
         \/ \E t \in DOMAIN releases :
              d \in DaysIn(releases[t]) /\ Synced(dir, host).daily[d] = DayIn(releases[t], d)
<1>. DEFINE B == Bringing(host, d)
<1>1. B \subseteq DOMAIN releases /\ IsFiniteSet(B) /\ B \in SUBSET Tags
  BY FS_Subset DEF Bringing, Taken, ReleasesShaped
<1>2. d \in DOMAIN dir.daily \/ B # {}
  BY DEF Synced, Bringing
<1>3. Synced(dir, host).daily[d] = IF B = {} THEN dir.daily[d] ELSE DayIn(releases[Newest(B)], d)
  BY DEF Synced
<1>4. B # {} => Newest(B) \in B
  <2>. HIDE DEF B
  <2>. QED  BY <1>1, NewestIs
<1>. QED  BY <1>1, <1>2, <1>3, <1>4 DEF Bringing

LEMMA SyncedDated ==
  ASSUME ReleasesShaped, Dated, NEW dir, DirDated(dir), NEW host
  PROVE  DirDated(Synced(dir, host))
<1>1. Synced(dir, host).combined = dir.combined
  BY DEF Synced
<1>2. ASSUME NEW d \in DOMAIN Synced(dir, host).daily
      PROVE  d \in Days /\ RowsOn(Synced(dir, host).daily[d], {d})
  <2>1. CASE d \in DOMAIN dir.daily /\ Synced(dir, host).daily[d] = dir.daily[d]
    BY <2>1 DEF DirDated
  <2>2. ASSUME NEW t \in DOMAIN releases, d \in DaysIn(releases[t]),
               Synced(dir, host).daily[d] = DayIn(releases[t], d)
        PROVE  d \in Days /\ RowsOn(Synced(dir, host).daily[d], {d})
    BY <2>2, DayInDated DEF Dated
  <2>. QED  BY <2>1, <2>2, SyncedFrom
<1>. QED  BY <1>1, <1>2 DEF DirDated

LEMMA EmptyDated == DirDated(EmptyDir) /\ DatesOf(LoadMetrics(EmptyDir)) = {} /\ EmptyDir.combined = NoFile
                    /\ DOMAIN EmptyDir.daily = {}
<1>1. EmptyDir.combined = NoFile /\ DOMAIN EmptyDir.daily = {}
  BY DEF EmptyDir
<1>. QED  BY <1>1 DEF DirDated, LoadMetrics, Override, DatesOf

LEMMA WrittenDated ==
  ASSUME NEW dir, DirDated(dir), NEW date \in Days, NEW rows, NEW written,
         written = [combined |-> dir.combined, daily |-> Written(dir.daily, date, DaySnapshot(rows, date))]
  PROVE  DirDated(written)
<1>1. RowsOn(DaySnapshot(rows, date), {date})
  <2>. DEFINE p == DaySnapshot(rows, date)
  <2>1. /\ p.metrics = {Row(r, date, r.status, Blank) : r \in rows}
        /\ p.leaders = {Row(r, date, "lead", "lead") : r \in {q \in rows : q.status = "lead"}}
    BY DEF DaySnapshot
  <2>2. ASSUME NEW r \in p.metrics PROVE r.date = date
    <3>1. PICK q : r = Row(q, date, q.status, Blank)
      BY <2>1
    <3>. QED  BY <3>1 DEF Row
  <2>3. ASSUME NEW r \in p.leaders PROVE r.date = date
    <3>1. PICK q : r = Row(q, date, "lead", "lead")
      BY <2>1
    <3>. QED  BY <3>1 DEF Row
  <2>. QED  BY <2>2, <2>3 DEF RowsOn, DatesOf
<1>. QED  BY <1>1 DEF DirDated, Written

-----------------------------------------------------------------------------
(* The steps of a run, as far as its record and its directory go.          *)

\* The directory after a day was written to it.
WithDay(dir, rows, date) ==
  [combined |-> dir.combined, daily |-> Written(dir.daily, date, DaySnapshot(rows, date))]
Unknown(market, mode, found, failed, symbols) ==
  IF InvestorEnabled
  THEN MissingInvestor(symbols, InvestorOf(MarketOf[market], mode, found.targets, failed[1], failed[2]), MarketOf[market].noTrade)
  ELSE {}

\* A run that goes on to publish.
Reports(found, market, mode, failed, date) ==
  /\ date # 0 /\ (Strict => Unknown(market, mode, found, failed, found.targets) = {})
  /\ job' = [job EXCEPT !.phase = "publish",
                        !.dir = IF job.host = "ci" THEN WithDay(Dir, found.rows, date) ELSE @,
                        !.overview = job'.overview]
  /\ job'.overview =
       [date |-> date, rows |-> {Scored(r, Limit(LoadMetrics(Dir), MaxDays), date) : r \in found.rows},
        report |-> Report(Limit(LoadMetrics(Dir), MaxDays), Limit(LoadLeaders(Dir, CollectedLeaders), MaxDays), found.rows, date),
        unknown |-> Unknown(market, mode, found, failed, UNION {r.top : r \in found.rows})]
  /\ local' = IF job.host = "local" THEN WithDay(Dir, found.rows, date) ELSE local
  /\ led' = led \cup {Led(r, date) : r \in {q \in found.rows : q.status = "lead"}}

LEMMA CollectIs ==
  ASSUME JobShaped, Collect
  PROVE  \/ job' = NoJob /\ UNCHANGED <<local, led>>
         \/ \E market \in Markets, lost \in Losses, failed \in Rounds, date \in TradingDates,
               mode \in IF Strict THEN {"top"} ELSE Modes :
              Reports(Evaluation[<<updated, market, mode, lost>>], market, mode, failed, date)
<1>1. PICK market \in Markets, lost \in Losses, failed \in Rounds, date \in TradingDates,
           mode \in IF Strict THEN {"top"} ELSE Modes :
        Evaluate(Evaluation[<<updated, market, mode, lost>>], market, mode, failed[1], failed[2], date)
  BY DEF Collect
<1>. DEFINE found == Evaluation[<<updated, market, mode, lost>>]
<1>2. ASSUME NEW f, Evaluate(f, market, mode, failed[1], failed[2], date), ~(job' = NoJob /\ UNCHANGED <<local, led>>)
      PROVE  Reports(f, market, mode, failed, date)
  <2>1. date # 0 /\ (Strict => Unknown(market, mode, f, failed, f.targets) = {})
    BY <1>2 DEF Evaluate, Unknown
  <2>2. job' = [job EXCEPT !.phase = "publish",
                  !.dir = IF job.host = "ci" THEN WithDay(Dir, f.rows, date) ELSE @,
                  !.overview =
                     [date |-> date, rows |-> {Scored(r, Limit(LoadMetrics(Dir), MaxDays), date) : r \in f.rows},
                      report |-> Report(Limit(LoadMetrics(Dir), MaxDays),
                                        Limit(LoadLeaders(Dir, CollectedLeaders), MaxDays), f.rows, date),
                      unknown |-> Unknown(market, mode, f, failed, UNION {r.top : r \in f.rows})]]
    BY <1>2 DEF Evaluate, Unknown, WithDay
  <2>3. local' = IF job.host = "local" THEN WithDay(Dir, f.rows, date) ELSE local
    BY <1>2 DEF Evaluate, WithDay
  <2>4. led' = led \cup {Led(r, date) : r \in {q \in f.rows : q.status = "lead"}}
    BY <1>2 DEF Evaluate
  <2>5. job'.overview =
          [date |-> date, rows |-> {Scored(r, Limit(LoadMetrics(Dir), MaxDays), date) : r \in f.rows},
           report |-> Report(Limit(LoadMetrics(Dir), MaxDays),
                             Limit(LoadLeaders(Dir, CollectedLeaders), MaxDays), f.rows, date),
           unknown |-> Unknown(market, mode, f, failed, UNION {r.top : r \in f.rows})]
    BY <2>2 DEF JobShaped
  <2>. QED  BY <2>1, <2>2, <2>3, <2>4, <2>5 DEF Reports
<1>. QED  BY <1>1, <1>2

LEMMA TradingIsDay ==
  ASSUME today \in FirstDay .. MaxDay, NEW date \in TradingDates
  PROVE  date \in Days
<1>1. today \in Nat /\ today <= MaxDay /\ MaxDay \in Nat
  BY ThemeAssumption
<1>2. ASSUME NEW day \in {today, today - 1} PROVE LastSession(day) \in Days
  <2>. DEFINE T == {0} \cup {d \in Sessions : d <= day}
  <2>1. T \subseteq 0 .. today
    BY <1>1, ThemeAssumption
  <2>2. IsFiniteSet(T)
    <3>1. IsFiniteSet(0 .. today)
      BY <1>1, FS_Interval
    <3>. QED  BY <2>1, <3>1, FS_Subset
  <2>5. T \in SUBSET Nat /\ T # {}
    BY <1>1, <2>1
  <2>3. Max(T) \in T
    <3>. HIDE DEF T
    <3>. QED  BY <2>2, <2>5, LargestIn
  <2>. HIDE DEF T
  <2>4. LastSession(day) = Max(T)
    BY DEF LastSession, T
  <2>6. Max(T) \in 0 .. today
    BY <2>1, <2>3
  <2>. QED  BY <1>1, <2>4, <2>6 DEF Days
<1>. QED  BY <1>1, <1>2 DEF TradingDates, Days

\* The directory a run goes on with when it has synchronised.
Merged(fetched) == [combined |-> Combined(Dir, fetched), daily |-> Dir.daily]

LEMMA MergedDated ==
  ASSUME ThemeInv, NEW fetched \in {Synced(EmptyDir, job.host), EmptyDir}
  PROVE  DirDated(fetched) /\ DirDated(Merged(fetched))
<1>1. DirDated(Dir)
  BY DEF ThemeInv, Dated, Dir
<1>2. DirDated(fetched)
  BY EmptyDated, SyncedDated DEF ThemeInv
<1>3. RowsOn(Combined(Dir, fetched), Days)
  BY <1>1, <1>2, CombinedDated
<1>4. DirDated(Merged(fetched))
  BY <1>1, <1>3 DEF Merged, DirDated
<1>. QED  BY <1>2, <1>4

LEMMA SnapshotDated ==
  ASSUME ThemeInv
  PROVE  Snapshot # None /\ RowsOn(Snapshot, Days)
<1>1. DirDated(Dir)
  BY DEF ThemeInv, Dated, Dir
<1>2. Snapshot = [metrics |-> LoadMetrics(Dir), leaders |-> LoadLeaders(Dir, PublishedLeaders)]
  BY DEF Snapshot
<1>3. DatesOf(LoadMetrics(Dir)) \subseteq Days /\ DatesOf(LoadLeaders(Dir, PublishedLeaders)) \subseteq Days
  BY <1>1, LoadDated
<1>4. RowsOn(Snapshot, Days)
  BY <1>2, <1>3 DEF RowsOn, DatesOf
<1>5. Snapshot # None
  <2>1. DOMAIN Snapshot # {} /\ DOMAIN None = {}
    BY <1>2 DEF None
  <2>. QED  BY <2>1
<1>. QED  BY <1>4, <1>5

LEMMA DaysBounded == FirstDay \in Nat /\ MaxDay \in Nat /\ FirstDay <= MaxDay
BY ThemeAssumption

LEMMA ShapedAtStart == ThemeInit => ThemeInv
<1>. SUFFICES ASSUME ThemeInit PROVE ThemeInv
  OBVIOUS
<1>1. ASSUME NEW t \in DOMAIN Archive
      PROVE  /\ t \in Tags /\ Archive[t].by \in Archive[t].hosts
             /\ Archive[t] = [snapshot |-> Archive[t].snapshot, overview |-> Archive[t].overview,
                              by |-> Archive[t].by, hosts |-> Archive[t].hosts]
             /\ Archive[t].snapshot # None /\ Archive[t].overview # None
             /\ RowsOn(Archive[t].snapshot, Days) /\ OverviewDated(Archive[t].overview)
  <2>1. t \in [form : {0, 1}, day : 0 .. FirstDay - 1] /\ WellPublished(Archive[t])
    BY ArchiveAssumption
  <2>2. FirstDay \in Nat /\ MaxDay \in Nat /\ FirstDay <= MaxDay
    BY DaysBounded
  <2>3. t \in Tags
    BY <2>1, <2>2 DEF Tags
  <2>4. DatesOf(Archive[t].snapshot.leaders \cup Archive[t].snapshot.metrics) \cup {Archive[t].overview.date} \subseteq Days
    <3>1. DatesOf(Archive[t].snapshot.leaders \cup Archive[t].snapshot.metrics) \cup {Archive[t].overview.date}
            \subseteq 0 .. FirstDay
      BY <2>1 DEF WellPublished
    <3>2. 0 .. FirstDay \subseteq Days
      BY <2>2 DEF Days
    <3>. QED  BY <3>1, <3>2
  <2>. QED  BY <2>1, <2>3, <2>4 DEF WellPublished, RowsOn, OverviewDated
<1>2. JobShaped
  BY DEF ThemeInit, JobShaped, NoJob, Idle
<1>3. ReleasesShaped
  BY <1>1, ArchiveAssumption DEF ThemeInit, ReleasesShaped
<1>4. UploadOnItsWay
  BY DEF ThemeInit, UploadOnItsWay, NoJob
<1>5. Dated
  <2>1. today \in FirstDay .. MaxDay /\ updated \in BOOLEAN
    <3>1. today = FirstDay /\ updated = FALSE
      BY DEF ThemeInit
    <3>2. today \in FirstDay .. MaxDay
      BY <3>1, DaysBounded
    <3>. QED  BY <3>1, <3>2, Zenon
  <2>2. DirDated(local) /\ DirDated(job.dir) /\ job.phase = "idle"
    BY EmptyDated DEF ThemeInit, NoJob
  <2>. QED  BY <1>1, <2>1, <2>2 DEF ThemeInit, Dated
<1>. QED  BY <1>2, <1>3, <1>4, <1>5 DEF ThemeInv

\* A run that ends, and what happens between runs.
LEMMA IdleShaped ==
  ASSUME ThemeInv, job' = NoJob, UNCHANGED releases, torn' = torn, DirDated(local'),
         today' \in FirstDay .. MaxDay, updated' \in BOOLEAN
  PROVE  ThemeInv'
<1>1. JobShaped'
  BY DEF JobShaped, NoJob, Idle
<1>2. ReleasesShaped'
  BY DEF ThemeInv, ReleasesShaped
<1>3. UploadOnItsWay'
  BY DEF UploadOnItsWay, NoJob
<1>4. Dated'
  BY EmptyDated DEF ThemeInv, Dated, NoJob
<1>. QED  BY <1>1, <1>2, <1>3, <1>4 DEF ThemeInv

LEMMA BeginShaped ==
  ASSUME ThemeInv, NEW host \in Hosts, NEW tag \in Tags, tag.day >= FirstDay, NEW closed, Begin(host, tag, closed)
  PROVE  ThemeInv'
<1>1. job' = [host |-> host, phase |-> "sync", tag |-> tag, closed |-> closed, dir |-> EmptyDir,
              overview |-> None, left |-> 0]
  BY DEF Begin, NoJob
<1>2. JobShaped'
  BY <1>1 DEF JobShaped, Idle
<1>3. ReleasesShaped'
  BY DEF ThemeInv, ReleasesShaped, Begin
<1>4. UploadOnItsWay'
  BY <1>1 DEF UploadOnItsWay
<1>5. Dated'
  <2>1. DirDated(job'.dir) /\ job'.phase = "sync"
    BY <1>1, EmptyDated
  <2>2. UNCHANGED <<today, updated, releases, local>>
    BY DEF Begin
  <2>. QED  BY <2>1, <2>2 DEF ThemeInv, Dated
<1>. QED  BY <1>2, <1>3, <1>4, <1>5 DEF ThemeInv

LEMMA SyncShaped ==
  ASSUME ThemeInv, Sync
  PROVE  ThemeInv'
<1>1. JobShaped /\ Dated /\ job.phase = "sync"
  BY DEF ThemeInv, Sync
<1>2. PICK fetched \in {Synced(EmptyDir, job.host), EmptyDir} :
        \/ job' = [job EXCEPT !.phase = "collect", !.dir = Merged(fetched)] /\ local' = local
        \/ job' = NoJob /\ local' = local
        \/ job' = [job EXCEPT !.phase = "collect"] /\ local' \in {Merged(fetched), local}
  BY DEF Sync, Merged
<1>3. DirDated(Merged(fetched)) /\ DirDated(local) /\ DirDated(job.dir)
  BY <1>1, MergedDated DEF Dated
<1>4. CASE job' = NoJob
  <2>1. DirDated(local')
    BY <1>2, <1>3
  <2>. QED  BY <1>1, <1>4, <2>1, IdleShaped DEF Dated, Sync
<1>5. CASE job' # NoJob
  <2>1. /\ job'.phase = "collect" /\ job'.host = job.host /\ job'.tag = job.tag
        /\ job'.dir \in {job.dir, Merged(fetched)} /\ local' \in {Merged(fetched), local}
    BY <1>1, <1>2, <1>5 DEF JobShaped
  <2>2. JobShaped'
    BY <1>1, <1>2, <1>5 DEF JobShaped, Idle
  <2>3. ReleasesShaped'
    BY DEF ThemeInv, ReleasesShaped, Sync
  <2>4. UploadOnItsWay'
    BY <2>1 DEF UploadOnItsWay
  <2>5. Dated'
    BY <1>1, <1>3, <2>1 DEF Dated, Sync
  <2>. QED  BY <2>2, <2>3, <2>4, <2>5 DEF ThemeInv
<1>. QED  BY <1>4, <1>5

LEMMA CollectShaped ==
  ASSUME ThemeInv, Collect
  PROVE  ThemeInv'
<1>1. JobShaped /\ Dated /\ job.phase = "collect"
  BY DEF ThemeInv, Collect
<1>2. CASE job' = NoJob /\ UNCHANGED <<local, led>>
  BY <1>1, <1>2, IdleShaped DEF Dated, Collect
<1>3. ASSUME NEW market, NEW failed, NEW date \in TradingDates, NEW mode, NEW found,
             Reports(found, market, mode, failed, date)
      PROVE  ThemeInv'
  <2>. DEFINE kept == WithDay(Dir, found.rows, date)
  <2>1. date \in Days /\ DirDated(Dir)
    BY <1>1, TradingIsDay DEF Dated, Dir
  <2>2. DirDated(kept)
    BY <2>1, WrittenDated DEF WithDay
  <2>3. /\ job'.phase = "publish" /\ job'.host = job.host /\ job'.tag = job.tag
        /\ job'.dir \in {job.dir, kept} /\ local' \in {kept, local}
        /\ job'.overview.date = date /\ job'.overview # None
    <3>1. job'.overview.date = date /\ DOMAIN job'.overview # {} /\ DOMAIN None = {}
      BY <1>3 DEF Reports, None
    <3>2. job'.overview # None
      BY <3>1
    <3>3. /\ job'.phase = "publish" /\ job'.host = job.host /\ job'.tag = job.tag
          /\ job'.dir \in {job.dir, kept} /\ local' \in {kept, local}
      BY <1>1, <1>3 DEF Reports, JobShaped
    <3>. QED  BY <3>1, <3>2, <3>3
  <2>4. JobShaped'
    BY <1>1, <1>3 DEF Reports, JobShaped, Idle, NoJob
  <2>5. ReleasesShaped'
    BY DEF ThemeInv, ReleasesShaped, Collect
  <2>6. UploadOnItsWay'
    BY <2>3 DEF UploadOnItsWay
  <2>7. Dated'
    <3>. HIDE DEF kept
    <3>. QED  BY <1>1, <2>1, <2>2, <2>3 DEF Dated, Collect
  <2>. QED  BY <2>4, <2>5, <2>6, <2>7 DEF ThemeInv
<1>. QED  BY <1>1, <1>2, <1>3, CollectIs

LEMMA CreateShaped ==
  ASSUME ThemeInv, Create
  PROVE  ThemeInv'
<1>1. JobShaped /\ ReleasesShaped /\ Dated /\ job.phase = "publish" /\ job.tag \notin DOMAIN releases /\ job' = NoJob
  BY DEF ThemeInv, Create, Publishable
<1>2. DOMAIN releases' = DOMAIN releases \cup {job.tag} /\ job.tag \in Tags
  BY <1>1 DEF Create, Written, JobShaped
<1>3. releases'[job.tag] = [snapshot |-> Snapshot, overview |-> job.overview, by |-> job.host, hosts |-> {job.host}]
  BY DEF Create, Written
<1>4. \A t \in DOMAIN releases : releases'[t] = releases[t]
  BY <1>1 DEF Create, Written
<1>5. Snapshot # None /\ RowsOn(Snapshot, Days) /\ job.overview # None /\ OverviewDated(job.overview)
  BY <1>1, SnapshotDated DEF Create, Publishable, Dated, OverviewDated
<1>6. JobShaped' /\ UploadOnItsWay'
  BY <1>1 DEF JobShaped, Idle, NoJob, UploadOnItsWay
<1>7. ReleasesShaped'
  <2>1. IsFiniteSet(DOMAIN releases') /\ DOMAIN releases' \subseteq Tags /\ DOMAIN Archive \subseteq DOMAIN releases'
    BY <1>1, <1>2, FS_AddElement DEF ReleasesShaped
  <2>2. torn' = torn
    BY DEF Create
  <2>3. ASSUME NEW t \in DOMAIN releases'
        PROVE  /\ releases'[t] = [snapshot |-> releases'[t].snapshot, overview |-> releases'[t].overview,
                                  by |-> releases'[t].by, hosts |-> releases'[t].hosts]
               /\ releases'[t].by \in releases'[t].hosts
               /\ t \notin torn' => releases'[t].snapshot # None /\ releases'[t].overview # None
    <3>1. CASE t = job.tag
      BY <1>3, <1>5, <3>1
    <3>2. CASE t \in DOMAIN releases
      BY <1>1, <1>4, <2>2, <3>2 DEF ReleasesShaped
    <3>. QED  BY <1>2, <3>1, <3>2
  <2>4. \A t \in DOMAIN Archive : releases'[t] = Archive[t]
    BY <1>1, <1>4 DEF ReleasesShaped
  <2>. QED  BY <2>1, <2>3, <2>4 DEF ReleasesShaped
<1>8. Dated'
  <2>1. DirDated(job'.dir) /\ job'.phase = "idle"
    BY <1>1, EmptyDated DEF NoJob
  <2>2. ASSUME NEW t \in DOMAIN releases'
        PROVE  /\ releases'[t].snapshot # None => RowsOn(releases'[t].snapshot, Days)
               /\ releases'[t].overview # None => OverviewDated(releases'[t].overview)
    <3>1. CASE t = job.tag
      BY <1>3, <1>5, <3>1
    <3>2. CASE t \in DOMAIN releases
      BY <1>1, <1>4, <3>2 DEF Dated
    <3>. QED  BY <1>2, <3>1, <3>2
  <2>3. UNCHANGED <<today, updated, local>>
    BY DEF Create
  <2>. QED  BY <1>1, <2>1, <2>2, <2>3 DEF Dated
<1>. QED  BY <1>6, <1>7, <1>8 DEF ThemeInv

LEMMA BeginUploadShaped ==
  ASSUME ThemeInv, BeginUpload
  PROVE  ThemeInv' /\ Snapshot' = Snapshot
<1>1. JobShaped /\ ReleasesShaped /\ Dated /\ job.phase = "publish" /\ job.tag \in DOMAIN releases
  BY DEF ThemeInv, BeginUpload, Publishable
<1>2. job' = [job EXCEPT !.phase = "upload", !.left = 4] /\ torn' = torn \cup {job.tag}
  BY DEF BeginUpload, Uploads
<1>3. UNCHANGED <<today, updated, releases, local, led>>
  BY DEF BeginUpload
<1>4. /\ job'.phase = "upload" /\ job'.left = 4 /\ job'.host = job.host /\ job'.tag = job.tag
      /\ job'.dir = job.dir /\ job'.overview = job.overview
  BY <1>1, <1>2 DEF JobShaped
<1>5. JobShaped'
  BY <1>1, <1>2 DEF JobShaped, Idle
<1>6. ReleasesShaped'
  <2>1. job.tag \notin DOMAIN Archive
    <3>1. job.tag.day >= FirstDay /\ FirstDay \in Nat
      BY <1>1, DaysBounded DEF JobShaped
    <3>. QED  BY <3>1, ArchiveAssumption
  <2>. QED  BY <1>1, <1>2, <1>3, <2>1 DEF ReleasesShaped
<1>7. UploadOnItsWay'
  BY <1>1, <1>2, <1>3, <1>4 DEF UploadOnItsWay
<1>8. Dated'
  BY <1>1, <1>3, <1>4 DEF Dated, BeginUpload, Publishable
<1>9. Snapshot' = Snapshot
  BY <1>3, <1>4 DEF Snapshot, Dir
<1>. QED  BY <1>5, <1>6, <1>7, <1>8, <1>9 DEF ThemeInv

LEMMA AssetReplaced ==
  ASSUME NEW r, r = [snapshot |-> r.snapshot, overview |-> r.overview, by |-> r.by, hosts |-> r.hosts],
         NEW k \in {"snapshot", "overview"}, NEW x, NEW host, NEW q,
         q = [r EXCEPT ![k] = x, !.by = host, !.hosts = @ \cup {host}]
  PROVE  q = [snapshot |-> IF k = "snapshot" THEN x ELSE r.snapshot,
              overview |-> IF k = "overview" THEN x ELSE r.overview, by |-> host, hosts |-> r.hosts \cup {host}]
<1>1. q.snapshot = (IF k = "snapshot" THEN x ELSE r.snapshot) /\ q.overview = IF k = "overview" THEN x ELSE r.overview
  OBVIOUS
<1>2. q.by = host /\ q.hosts = r.hosts \cup {host}
  OBVIOUS
<1>3. q = [snapshot |-> q.snapshot, overview |-> q.overview, by |-> q.by, hosts |-> q.hosts]
  OBVIOUS
<1>. QED  BY <1>1, <1>2, <1>3

\* What an upload leaves of a release at each of its steps.
LEMMA UploadIs ==
  ASSUME ThemeInv, Upload
  PROVE  /\ job.tag \in DOMAIN releases \cap torn /\ job.left \in 1 .. 4 /\ job.tag \notin DOMAIN Archive
         /\ DOMAIN releases' = DOMAIN releases
         /\ \A t \in DOMAIN releases : t # job.tag => releases'[t] = releases[t]
         /\ releases'[job.tag] =
              [snapshot |-> IF job.left = 4 THEN None ELSE IF job.left = 3 THEN Snapshot ELSE releases[job.tag].snapshot,
               overview |-> IF job.left = 2 THEN None ELSE IF job.left = 1 THEN job.overview ELSE releases[job.tag].overview,
               by |-> job.host, hosts |-> releases[job.tag].hosts \cup {job.host}]
         /\ IF job.left = 1 THEN job' = NoJob /\ torn' = torn \ {job.tag}
            ELSE job' = [job EXCEPT !.left = @ - 1] /\ torn' = torn
<1>1. job.phase = "upload" /\ job.tag \in DOMAIN releases \cap torn /\ job.left \in 1 .. 4
  BY DEF ThemeInv, Upload, UploadOnItsWay
<1>2. job.tag \notin DOMAIN Archive
  <2>1. job.tag.day >= FirstDay /\ FirstDay \in Nat
    BY <1>1, DaysBounded DEF ThemeInv, JobShaped
  <2>. QED  BY <2>1, ArchiveAssumption
<1>. DEFINE R == releases[job.tag]
<1>3. R = [snapshot |-> R.snapshot, overview |-> R.overview, by |-> R.by, hosts |-> R.hosts]
  BY <1>1 DEF ThemeInv, ReleasesShaped
<1>4. /\ DOMAIN releases' = DOMAIN releases
      /\ \A t \in DOMAIN releases : t # job.tag => releases'[t] = releases[t]
      /\ releases'[job.tag] = [R EXCEPT ![Uploads[job.left][1]] = Uploads[job.left][2], !.by = job.host,
                                        !.hosts = @ \cup {job.host}]
  BY <1>1, <1>3 DEF Upload
<1>5. /\ Uploads[4] = <<"snapshot", None>> /\ Uploads[3] = <<"snapshot", Snapshot>>
      /\ Uploads[2] = <<"overview", None>> /\ Uploads[1] = <<"overview", job.overview>>
  BY DEF Uploads
<1>6. releases'[job.tag] =
        [snapshot |-> IF job.left = 4 THEN None ELSE IF job.left = 3 THEN Snapshot ELSE R.snapshot,
         overview |-> IF job.left = 2 THEN None ELSE IF job.left = 1 THEN job.overview ELSE R.overview,
         by |-> job.host, hosts |-> R.hosts \cup {job.host}]
  <2>. DEFINE asset == Uploads[job.left][1]
              file == Uploads[job.left][2]
              r == releases'[job.tag]
  <2>1. asset = (IF job.left >= 3 THEN "snapshot" ELSE "overview")
    BY <1>1, <1>5
  <2>2. /\ job.left = 4 => file = None
        /\ job.left = 3 => file = Snapshot
        /\ job.left = 2 => file = None
        /\ job.left = 1 => file = job.overview
    BY <1>5
  <2>3. r = [R EXCEPT ![asset] = file, !.by = job.host, !.hosts = @ \cup {job.host}]
    BY <1>4
  <2>. HIDE DEF R, asset, file, r
  <2>4. r = [snapshot |-> IF asset = "snapshot" THEN file ELSE R.snapshot,
             overview |-> IF asset = "overview" THEN file ELSE R.overview, by |-> job.host, hosts |-> R.hosts \cup {job.host}]
    <3>1. asset \in {"snapshot", "overview"}
      BY <2>1
    <3>. QED  BY <1>3, <2>3, <3>1, AssetReplaced
  <2>5. r = [snapshot |-> IF job.left = 4 THEN None ELSE IF job.left = 3 THEN Snapshot ELSE R.snapshot,
             overview |-> IF job.left = 2 THEN None ELSE IF job.left = 1 THEN job.overview ELSE R.overview,
             by |-> job.host, hosts |-> R.hosts \cup {job.host}]
    BY <1>1, <2>1, <2>2, <2>4
  <2>. QED  BY <2>5 DEF r
<1>7. IF job.left = 1 THEN job' = NoJob /\ torn' = torn \ {job.tag}
      ELSE job' = [job EXCEPT !.left = @ - 1] /\ torn' = torn
  BY DEF Upload
<1>. QED  BY <1>1, <1>2, <1>4, <1>6, <1>7

LEMMA UploadShaped ==
  ASSUME ThemeInv, Upload
  PROVE  ThemeInv' /\ (job.left # 1 => Snapshot' = Snapshot)
<1>. DEFINE tag == job.tag
            R == releases[tag]
            S == IF job.left = 4 THEN None ELSE IF job.left = 3 THEN Snapshot ELSE R.snapshot
            O == IF job.left = 2 THEN None ELSE IF job.left = 1 THEN job.overview ELSE R.overview
<1>1. JobShaped /\ ReleasesShaped /\ Dated /\ UploadOnItsWay /\ job.phase = "upload"
  BY DEF ThemeInv, Upload
<1>2. /\ tag \in DOMAIN releases \cap torn /\ job.left \in 1 .. 4 /\ tag \notin DOMAIN Archive
      /\ DOMAIN releases' = DOMAIN releases
      /\ \A t \in DOMAIN releases : t # tag => releases'[t] = releases[t]
  BY UploadIs
<1>3. releases'[tag] = [snapshot |-> S, overview |-> O, by |-> job.host, hosts |-> R.hosts \cup {job.host}]
  BY UploadIs
<1>4. IF job.left = 1 THEN job' = NoJob /\ torn' = torn \ {tag}
      ELSE job' = [job EXCEPT !.left = @ - 1] /\ torn' = torn
  BY UploadIs
<1>5. UNCHANGED <<today, runs, updated, local, led>>
  BY DEF Upload
<1>6. Snapshot # None /\ RowsOn(Snapshot, Days) /\ job.overview # None /\ OverviewDated(job.overview)
  BY <1>1, SnapshotDated DEF Dated, OverviewDated
<1>7. job.left <= 2 => R.snapshot = Snapshot
  BY <1>1 DEF UploadOnItsWay
<1>. HIDE DEF R, S, O
<1>8. (S # None => RowsOn(S, Days)) /\ (O # None => OverviewDated(O))
  <2>1. (R.snapshot # None => RowsOn(R.snapshot, Days)) /\ (R.overview # None => OverviewDated(R.overview))
    BY <1>1, <1>2 DEF Dated, R
  <2>. QED  BY <1>6, <2>1 DEF S, O
<1>9. ReleasesShaped'
  <2>1. ASSUME NEW t \in DOMAIN releases'
        PROVE  /\ releases'[t] = [snapshot |-> releases'[t].snapshot, overview |-> releases'[t].overview,
                                  by |-> releases'[t].by, hosts |-> releases'[t].hosts]
               /\ releases'[t].by \in releases'[t].hosts
               /\ t \notin torn' => releases'[t].snapshot # None /\ releases'[t].overview # None
    <3>1. CASE t = tag
      <4>1. job.left = 1 => S = Snapshot /\ O = job.overview
        BY <1>7 DEF S, O
      <4>2. releases'[t].snapshot = S /\ releases'[t].overview = O
        BY <1>3, <3>1
      <4>3. t \notin torn' => releases'[t].snapshot # None /\ releases'[t].overview # None
        BY <1>2, <1>4, <1>6, <3>1, <4>1, <4>2
      <4>. QED  BY <1>3, <3>1, <4>3
    <3>2. CASE t # tag
      BY <1>1, <1>2, <1>4, <3>2 DEF ReleasesShaped
    <3>. QED  BY <3>1, <3>2
  <2>2. IsFiniteSet(DOMAIN releases') /\ DOMAIN releases' \subseteq Tags /\ DOMAIN Archive \subseteq DOMAIN releases'
    BY <1>1, <1>2 DEF ReleasesShaped
  <2>3. \A t \in DOMAIN Archive : releases'[t] = Archive[t]
    BY <1>1, <1>2 DEF ReleasesShaped
  <2>. QED  BY <2>1, <2>2, <2>3 DEF ReleasesShaped
<1>10. ASSUME NEW t \in DOMAIN releases'
       PROVE  /\ releases'[t].snapshot # None => RowsOn(releases'[t].snapshot, Days)
              /\ releases'[t].overview # None => OverviewDated(releases'[t].overview)
  <2>1. CASE t = tag
    BY <1>3, <1>8, <2>1
  <2>2. CASE t # tag
    BY <1>1, <1>2, <2>2 DEF Dated
  <2>. QED  BY <2>1, <2>2
<1>11. CASE job.left = 1
  <2>1. JobShaped' /\ UploadOnItsWay' /\ job'.phase = "idle" /\ DirDated(job'.dir)
    BY <1>4, <1>11, EmptyDated DEF JobShaped, Idle, NoJob, UploadOnItsWay
  <2>2. Dated'
    BY <1>1, <1>5, <1>10, <2>1 DEF Dated
  <2>. QED  BY <1>9, <1>11, <2>1, <2>2 DEF ThemeInv
<1>12. CASE job.left # 1
  <2>1. /\ job'.phase = "upload" /\ job'.left = job.left - 1 /\ job'.host = job.host /\ job'.tag = tag
        /\ job'.dir = job.dir /\ job'.overview = job.overview /\ torn' = torn
    BY <1>1, <1>4, <1>12 DEF JobShaped
  <2>2. JobShaped'
    BY <1>1, <1>4, <1>12 DEF JobShaped, Idle
  <2>3. Snapshot' = Snapshot
    BY <1>5, <2>1 DEF Snapshot, Dir
  <2>4. UploadOnItsWay'
    <3>1. job'.left \in 1 .. 4
      BY <1>2, <1>12, <2>1
    <3>2. job'.left <= 2 => S = Snapshot
      BY <1>2, <1>7, <1>12, <2>1 DEF S
    <3>3. releases'[job'.tag].snapshot = S
      BY <1>3, <2>1
    <3>4. job'.tag \in DOMAIN releases' \cap torn'
      BY <1>2, <2>1
    <3>. QED  BY <2>3, <3>1, <3>2, <3>3, <3>4 DEF UploadOnItsWay
  <2>5. Dated'
    BY <1>1, <1>5, <1>10, <2>1 DEF Dated
  <2>. QED  BY <1>9, <2>2, <2>3, <2>4, <2>5 DEF ThemeInv
<1>. QED  BY <1>11, <1>12

LEMMA RunsBegin ==
  ASSUME ThemeInv, Schedule \/ Dispatch \/ LocalRun
  PROVE  \E host \in Hosts, tag \in Tags, closed \in BOOLEAN : tag.day >= FirstDay /\ Begin(host, tag, closed)
<1>1. today \in Nat /\ today >= FirstDay /\ FirstDay \in Nat
  BY DaysBounded DEF ThemeInv, Dated
<1>2. \A form \in {0, 1} : [form |-> form, day |-> today] \in Tags /\ [form |-> form, day |-> today].day >= FirstDay
  BY <1>1 DEF Tags
<1>3. DayTag \in Tags /\ DayTag.day >= FirstDay
  BY <1>2 DEF DayTag
<1>4. CASE Schedule
  BY <1>3, <1>4 DEF Schedule, Hosts
<1>5. CASE Dispatch
  BY <1>3, <1>5 DEF Dispatch, Hosts
<1>6. CASE LocalRun
  BY <1>2, <1>6 DEF LocalRun, Hosts
<1>. QED  BY <1>4, <1>5, <1>6

LEMMA ShapedKept ==
  ASSUME ThemeInv, [ThemeNext]_vars
  PROVE  ThemeInv'
<1>1. CASE Schedule \/ Dispatch \/ LocalRun
  BY <1>1, RunsBegin, BeginShaped
<1>2. CASE Sync
  BY <1>2, SyncShaped
<1>3. CASE Collect
  BY <1>3, CollectShaped
<1>4. CASE Create
  BY <1>4, CreateShaped
<1>5. CASE BeginUpload
  BY <1>5, BeginUploadShaped
<1>6. CASE Upload
  BY <1>6, UploadShaped
<1>7. CASE Abort
  BY <1>7, IdleShaped DEF Abort, ThemeInv, Dated
<1>8. CASE ManualSync
  <2>1. job' = NoJob /\ UNCHANGED <<releases, torn, today, updated>> /\ local' = Synced(local, "local")
    BY <1>8 DEF ManualSync, Idle
  <2>2. DirDated(local')
    BY <2>1, SyncedDated DEF ThemeInv, Dated
  <2>. QED  BY <2>1, <2>2, IdleShaped DEF ThemeInv, Dated
<1>9. CASE Reclassify
  <2>1. job' = NoJob /\ UNCHANGED <<releases, torn, today, local>> /\ updated' = TRUE
    BY <1>9 DEF Reclassify, Idle
  <2>2. DirDated(local') /\ today' \in FirstDay .. MaxDay
    BY <2>1 DEF ThemeInv, Dated
  <2>. QED  BY <2>1, <2>2, IdleShaped
<1>10. CASE Midnight
  <2>1. job' = NoJob /\ UNCHANGED <<releases, torn, local, updated>> /\ today' = today + 1 /\ today < MaxDay
    BY <1>10 DEF Midnight, Idle
  <2>2. DirDated(local') /\ updated' \in BOOLEAN
    BY <2>1 DEF ThemeInv, Dated
  <2>3. today' \in FirstDay .. MaxDay
    BY <2>1, DaysBounded DEF ThemeInv, Dated
  <2>. QED  BY <2>1, <2>2, <2>3, IdleShaped
<1>11. CASE Ended \/ UNCHANGED vars
  <2>1. UNCHANGED vars
    BY <1>11 DEF Ended
  <2>. QED  BY <2>1 DEF vars, ThemeInv, JobShaped, ReleasesShaped, UploadOnItsWay, Dated, Idle, Snapshot, Dir
<1>. QED  BY <1>1, <1>2, <1>3, <1>4, <1>5, <1>6, <1>7, <1>8, <1>9, <1>10, <1>11 DEF ThemeNext

\* What every property of the reports rests on: a run in progress has what its
\* step needs, a release that no upload was cut short on is whole, an upload has
\* written what its run publishes, and files of single days hold that day.
THEOREM ReportsInOrder == ThemeSpec => []ThemeInv
<1>. QED  BY ShapedAtStart, ShapedKept, PTL DEF ThemeSpec

-----------------------------------------------------------------------------
(* Investor flows. *)

LEMMA EvaluationIs ==
  ASSUME NEW u \in BOOLEAN, NEW market \in Markets, NEW mode \in Modes, NEW lost \in Losses
  PROVE  Evaluation[<<u, market, mode, lost>>] = EvaluationOf(u, MarketOf[market], mode, lost)
<1>. DEFINE f == [run \in BOOLEAN \X Markets \X Modes \X Losses |-> EvaluationOf(run[1], MarketOf[run[2]], run[3], run[4])]
<1>1. Evaluation = f
  <2>1. Evaluation = Computed(f)
    BY DEF Evaluation
  <2>. HIDE DEF f
  <2>. QED  BY <2>1, ComputedIs
<1>. QED  BY <1>1

\* A group that is evaluated shows the best of its members, and its status is one
\* of those a group can have.
LEMMA GroupRowIs ==
  ASSUME NEW groups, NEW quotes, NEW rankings, NEW r \in GroupRows(groups, quotes, rankings)
  PROVE  /\ \E g \in groups : r.top = SymbolsOf(Top(ScoredMembers(g, quotes, rankings)))
         /\ r.status \in {"lead", "watch", "neutral", "weak", "sample"}
         /\ "breadth" \in DOMAIN r
<1>. DEFINE scored == {<<g, ScoredMembers(g, quotes, rankings)>> : g \in groups}
            rows == {Metrics(s[1], s[2], quotes, rankings) : s \in scored}
<1>1. r \in Ranked(rows)
  BY DEF GroupRows
<1>2. PICK q \in rows : \E rs, rank, signals : r = Judged(q, rs, rank, signals)
  <2>. DEFINE score == Computed([x \in rows |-> GroupScore(rows, x)])
              rank(x) == 1 + Cardinality({y \in rows :
                           score[y] > score[x] \/ (score[y] = score[x] /\ PathBefore(y.path, x.path))})
              rs(x) == Round(score[x], 1000)
  <2>. HIDE DEF rows
  <2>1. r \in {Judged(x, rs(x), rank(x), Signals(rows, x)) : x \in rows}
    BY <1>1 DEF Ranked
  <2>. HIDE DEF rs, rank, score
  <2>2. PICK q \in rows : r = Judged(q, rs(q), rank(q), Signals(rows, q))
    BY <2>1
  <2>. QED  BY <2>2
<1>3. PICK g \in groups : q = Metrics(g, ScoredMembers(g, quotes, rankings), quotes, rankings)
  BY <1>2 DEF rows, scored
<1>4. /\ q.top = SymbolsOf(Top(ScoredMembers(g, quotes, rankings)))
      /\ {"top", "rs", "rank", "status", "breadth"} \subseteq DOMAIN q
  BY <1>3, Zenon DEF Metrics
<1>5. r.top = q.top /\ DOMAIN r = DOMAIN q /\ r.status \in {"lead", "watch", "neutral", "weak", "sample"}
  BY <1>2, <1>4 DEF Judged, Status
<1>. QED  BY <1>4, <1>5

\* A run that is not meant to quote every member asks for the stocks it shows.
LEMMA ShownAreAsked ==
  ASSUME NEW u, NEW market, NEW lost
  PROVE  UNION {r.top : r \in EvaluationOf(u, market, "top", lost).rows} \subseteq EvaluationOf(u, market, "top", lost).targets
<1>. DEFINE found == EvaluationOf(u, market, "top", lost)
            quotes == QuotesOf(market, "top", lost)
<1>1. found.targets = UNION {SymbolsOf(Top(ScoredMembers(g, quotes, market.rankings))) : g \in GroupsOf[u]}
  BY DEF EvaluationOf, QuoteTargets
<1>2. ASSUME NEW r \in found.rows
      PROVE  \E g \in GroupsOf[u] : r.top = SymbolsOf(Top(ScoredMembers(g, quotes, market.rankings)))
  <2>1. PICK type, b, q : q \in GroupRows(OfType(GroupsOf[u], type), quotes, market.rankings) /\ r = [q EXCEPT !.breadth = b]
    BY DEF EvaluationOf
  <2>2. r.top = q.top
    BY <2>1
  <2>3. PICK g \in OfType(GroupsOf[u], type) : q.top = SymbolsOf(Top(ScoredMembers(g, quotes, market.rankings)))
    BY <2>1, GroupRowIs
  <2>. QED  BY <2>2, <2>3 DEF OfType
<1>. QED  BY <1>1, <1>2

-----------------------------------------------------------------------------
(* The steps by what they do to the releases and to the run. *)

\* Between runs, at the start and at the end of one.
Rest == UNCHANGED <<releases, torn, led>> /\ (job'.phase \in {"idle", "sync"} \/ UNCHANGED <<job, local>>)

LEMMA StepKinds ==
  ASSUME ThemeInv, [ThemeNext]_vars
  PROVE  Rest \/ Sync \/ Collect \/ Create \/ BeginUpload \/ Upload
<1>1. CASE Schedule \/ Dispatch \/ LocalRun
  <2>1. PICK host \in Hosts, tag \in Tags, closed \in BOOLEAN : Begin(host, tag, closed)
    BY <1>1, RunsBegin
  <2>2. job'.phase = "sync" /\ UNCHANGED <<releases, torn, led>>
    BY <2>1 DEF Begin, NoJob
  <2>. QED  BY <2>2 DEF Rest
<1>2. CASE Abort
  BY <1>2 DEF Abort, NoJob, Rest
<1>3. CASE ManualSync \/ Reclassify \/ Midnight
  BY <1>3 DEF ManualSync, Reclassify, Midnight, Idle, NoJob, Rest
<1>4. CASE Ended \/ UNCHANGED vars
  BY <1>4 DEF Ended, vars, Rest
<1>. QED  BY <1>1, <1>2, <1>3, <1>4 DEF ThemeNext

LEMMA SyncIs ==
  ASSUME ThemeInv, Sync
  PROVE  /\ UNCHANGED <<releases, torn, led>> /\ job.phase = "sync"
         /\ \/ job' = NoJob
            \/ /\ job'.phase = "collect" /\ job'.host = job.host /\ job'.tag = job.tag /\ job.host \in Hosts
               /\ job.host = "ci" =>
                    \E fetched \in {Synced(EmptyDir, "ci"), EmptyDir} :
                      /\ Restored(DatesOf(LoadMetrics(fetched)))
                      /\ job'.dir = Merged(fetched)
<1>1. JobShaped /\ job.phase = "sync" /\ UNCHANGED <<releases, torn, led>>
  BY DEF ThemeInv, Sync
<1>2. PICK fetched \in {Synced(EmptyDir, job.host), EmptyDir} :
        \/ job' = NoJob
        \/ /\ job.host = "ci" /\ Restored(DatesOf(LoadMetrics(fetched)))
           /\ job' = [job EXCEPT !.phase = "collect", !.dir = Merged(fetched)]
        \/ job.host = "local" /\ job' = [job EXCEPT !.phase = "collect"]
  BY DEF Sync, Merged
<1>3. CASE job' = NoJob
  BY <1>1, <1>3
<1>4. CASE job' # NoJob
  BY <1>1, <1>2, <1>4 DEF JobShaped, Hosts
<1>. QED  BY <1>3, <1>4

\* The run after it found something to report.
LEMMA ReportsIs ==
  ASSUME JobShaped, NEW found, NEW market, NEW mode, NEW failed, NEW date, Reports(found, market, mode, failed, date)
  PROVE  /\ job'.phase = "publish" /\ job'.host = job.host /\ job'.tag = job.tag
         /\ job'.dir = IF job.host = "ci" THEN WithDay(Dir, found.rows, date) ELSE job.dir
         /\ Dir' = IF job.host \in Hosts THEN WithDay(Dir, found.rows, date) ELSE job.dir
<1>1. /\ job'.phase = "publish" /\ job'.host = job.host /\ job'.tag = job.tag
      /\ job'.dir = IF job.host = "ci" THEN WithDay(Dir, found.rows, date) ELSE job.dir
      /\ local' = IF job.host = "local" THEN WithDay(Dir, found.rows, date) ELSE local
  BY DEF Reports, JobShaped
<1>2. Dir' = IF job.host \in Hosts THEN WithDay(Dir, found.rows, date) ELSE job.dir
  <2>1. Dir' = IF job'.host = "local" THEN local' ELSE job'.dir
    BY DEF Dir
  <2>. QED  BY <1>1, <2>1 DEF Hosts
<1>. QED  BY <1>1, <1>2

\* What the run publishes when it creates its release or begins an upload.
LEMMA CreateIs ==
  ASSUME ThemeInv, Create
  PROVE  /\ job.phase = "publish" /\ job.overview.rows # {} /\ job.tag \notin DOMAIN releases /\ job' = NoJob
         /\ UNCHANGED <<torn, led>> /\ DOMAIN releases' = DOMAIN releases \cup {job.tag}
         /\ \A t \in DOMAIN releases : releases'[t] = releases[t]
         /\ releases'[job.tag] = [snapshot |-> Snapshot, overview |-> job.overview, by |-> job.host, hosts |-> {job.host}]
         /\ job.tag \notin DOMAIN Archive
BY DEF ThemeInv, ReleasesShaped, Create, Publishable, Written

LEMMA BeginUploadIs ==
  ASSUME ThemeInv, BeginUpload
  PROVE  /\ job.phase = "publish" /\ job.overview.rows # {} /\ UNCHANGED <<releases, led>> /\ torn' = torn \cup {job.tag}
         /\ job.tag \in DOMAIN releases
         /\ job'.phase = "upload" /\ job'.host = job.host /\ job'.tag = job.tag /\ job'.dir = job.dir
         /\ job'.overview = job.overview /\ Snapshot' = Snapshot
BY BeginUploadShaped DEF ThemeInv, JobShaped, BeginUpload, Publishable

LEMMA UploadUntouched ==
  ASSUME Upload
  PROVE  job.phase = "upload" /\ led' = led /\ local' = local
BY Zenon DEF Upload

LEMMA UploadGoesOn ==
  ASSUME ThemeInv, Upload, job.left # 1
  PROVE  /\ job'.phase = "upload" /\ job'.host = job.host /\ job'.tag = job.tag /\ job'.dir = job.dir
         /\ job'.overview = job.overview /\ Snapshot' = Snapshot /\ torn' = torn /\ led' = led /\ job.tag \in torn
<1>1. job' = [job EXCEPT !.left = @ - 1] /\ torn' = torn /\ job.tag \in torn
  BY UploadIs
<1>2. job.phase = "upload" /\ led' = led
  BY UploadUntouched
<1>3. Snapshot' = Snapshot
  BY UploadShaped
<1>. QED  BY <1>1, <1>2, <1>3 DEF ThemeInv, JobShaped

\* What the last step of an upload leaves is what the run publishes.
LEMMA UploadEnds ==
  ASSUME ThemeInv, Upload, job.left = 1
  PROVE  /\ job' = NoJob /\ torn' = torn \ {job.tag} /\ led' = led
         /\ releases'[job.tag].snapshot = Snapshot /\ releases'[job.tag].overview = job.overview
         /\ releases'[job.tag].by = job.host
<1>1. job.phase = "upload" /\ led' = led
  BY UploadUntouched
<1>2. releases[job.tag].snapshot = Snapshot
  BY <1>1 DEF ThemeInv, UploadOnItsWay
<1>3. /\ releases'[job.tag] =
           [snapshot |-> IF job.left = 4 THEN None ELSE IF job.left = 3 THEN Snapshot ELSE releases[job.tag].snapshot,
            overview |-> IF job.left = 2 THEN None ELSE IF job.left = 1 THEN job.overview ELSE releases[job.tag].overview,
            by |-> job.host, hosts |-> releases[job.tag].hosts \cup {job.host}]
      /\ IF job.left = 1 THEN job' = NoJob /\ torn' = torn \ {job.tag}
         ELSE job' = [job EXCEPT !.left = @ - 1] /\ torn' = torn
  BY UploadIs
<1>. HIDE DEF Upload
<1>4. job' = NoJob /\ torn' = torn \ {job.tag}
  BY <1>3
<1>. DEFINE r == releases'[job.tag]
<1>5. r.snapshot = releases[job.tag].snapshot /\ r.overview = job.overview /\ r.by = job.host
  BY <1>3
<1>. QED  BY <1>1, <1>2, <1>4, <1>5

-----------------------------------------------------------------------------
(* Investor flows: what is shown was asked for, and what a strict run asked for it has. *)

LEMMA UnknownFewer ==
  ASSUME NEW market, NEW mode, NEW found, NEW failed, NEW S, NEW T, S \subseteq T,
         Unknown(market, mode, found, failed, T) = {}
  PROVE  Unknown(market, mode, found, failed, S) = {}
<1>. DEFINE inv == InvestorOf(MarketOf[market], mode, found.targets, failed[1], failed[2])
            noTrade == MarketOf[market].noTrade
<1>1. MissingInvestor(S, inv, noTrade) \subseteq MissingInvestor(T, inv, noTrade)
  BY DEF MissingInvestor
<1>. HIDE DEF inv, noTrade
<1>. QED  BY <1>1 DEF Unknown, inv, noTrade

LEMMA CollectComplete ==
  ASSUME ThemeInv, CompleteInv, Collect
  PROVE  CompleteInv'
<1>1. JobShaped /\ Dated /\ UNCHANGED <<releases, torn>>
  BY DEF ThemeInv, Collect
<1>2. DisplayedComplete'
  BY <1>1 DEF CompleteInv, DisplayedComplete, WholeByCI, Whole
<1>3. CASE job' = NoJob
  BY <1>2, <1>3 DEF CompleteInv, NoJob
<1>4. ASSUME NEW market \in Markets, NEW lost \in Losses, NEW failed, NEW date,
             NEW mode \in IF Strict THEN {"top"} ELSE Modes,
             Reports(Evaluation[<<updated, market, mode, lost>>], market, mode, failed, date)
      PROVE  CompleteInv'
  <2>. DEFINE found == Evaluation[<<updated, market, mode, lost>>]
              shown == UNION {r.top : r \in found.rows}
  <2>1. job'.host = "ci" => Strict
    BY <1>1, <1>4, ReportsIs DEF Strict
  <2>2. job'.overview.unknown = Unknown(market, mode, found, failed, shown)
    BY <1>4 DEF Reports
  <2>3. ASSUME Strict PROVE Unknown(market, mode, found, failed, shown) = {}
    <3>1. mode = "top"
      BY <2>3
    <3>2. found = EvaluationOf(updated, MarketOf[market], "top", lost)
      BY <1>1, <3>1, EvaluationIs DEF Dated, Modes
    <3>3. shown \subseteq found.targets
      <4>. HIDE DEF found
      <4>. QED  BY <3>2, ShownAreAsked
    <3>4. Unknown(market, mode, found, failed, found.targets) = {}
      BY <1>4, <2>3 DEF Reports
    <3>. HIDE DEF found, shown
    <3>. QED  BY <3>3, <3>4, UnknownFewer
  <2>. HIDE DEF shown
  <2>. QED  BY <1>2, <2>1, <2>2, <2>3 DEF CompleteInv
<1>. QED  BY <1>1, <1>3, <1>4, CollectIs

LEMMA CompleteKept ==
  ASSUME ThemeInv, CompleteInv, [ThemeNext]_vars
  PROVE  CompleteInv'
<1>1. CASE Rest
  BY <1>1 DEF Rest, CompleteInv, DisplayedComplete, WholeByCI, Whole
<1>2. CASE Sync
  BY <1>2, SyncIs DEF CompleteInv, DisplayedComplete, WholeByCI, Whole, NoJob
<1>3. CASE Collect
  BY <1>3, CollectComplete
<1>4. CASE Create
  <2>1. DisplayedComplete'
    BY <1>4, CreateIs DEF CompleteInv, DisplayedComplete, WholeByCI, Whole
  <2>2. job'.host = "none"
    BY <1>4, CreateIs DEF NoJob
  <2>. QED  BY <2>1, <2>2 DEF CompleteInv
<1>5. CASE BeginUpload
  BY <1>5, BeginUploadIs DEF CompleteInv, DisplayedComplete, WholeByCI, Whole
<1>6. CASE Upload
  <2>1. /\ DOMAIN releases' = DOMAIN releases
        /\ \A t \in DOMAIN releases : t # job.tag => releases'[t] = releases[t]
    BY <1>6, UploadIs
  <2>2. job.phase = "upload"
    BY <1>6, UploadUntouched
  <2>3. CASE job.left = 1
    <3>1. DisplayedComplete'
      BY <1>6, <2>1, <2>2, <2>3, UploadEnds DEF CompleteInv, DisplayedComplete, WholeByCI, Whole
    <3>2. job'.host = "none"
      BY <1>6, <2>3, UploadEnds DEF NoJob
    <3>. QED  BY <3>1, <3>2 DEF CompleteInv
  <2>4. CASE job.left # 1
    <3>1. DisplayedComplete'
      BY <1>6, <2>1, <2>4, UploadGoesOn DEF CompleteInv, DisplayedComplete, WholeByCI, Whole
    <3>. QED  BY <1>6, <2>2, <2>4, <3>1, UploadGoesOn DEF CompleteInv
  <2>. QED  BY <2>3, <2>4
<1>. QED  BY <1>1, <1>2, <1>3, <1>4, <1>5, <1>6, StepKinds

\* A strict release displays no traded stock without its investor flow: the probe
\* ranks the stocks it asks for as the report ranks those it shows, so the check
\* of the stocks asked for covers every stock displayed, whatever was lost.
THEOREM ReleasesComplete == ThemeSpec => []DisplayedComplete
<1>1. ThemeInit => CompleteInv
  <2>. SUFFICES ASSUME ThemeInit PROVE CompleteInv
    OBVIOUS
  <2>1. releases = Archive /\ job.host = "none"
    BY DEF ThemeInit, NoJob
  <2>2. \A t \in DOMAIN Archive : Archive[t].by = "ci" => Archive[t].overview.unknown = {}
    <3>1. ASSUME NEW release, WellPublished(release), release.by = "ci" PROVE release.overview.unknown = {}
      BY <3>1, Zenon DEF WellPublished
    <3>2. \A t \in DOMAIN Archive : WellPublished(Archive[t])
      BY ArchiveAssumption
    <3>. QED  BY <3>1, <3>2
  <2>. QED  BY <2>1, <2>2 DEF CompleteInv, DisplayedComplete, WholeByCI, Whole
<1>2. CompleteInv => DisplayedComplete
  BY DEF CompleteInv
<1>. QED  BY <1>1, <1>2, CompleteKept, ReportsInOrder, PTL DEF ThemeSpec

-----------------------------------------------------------------------------
(* Leaders: what the files of a directory and of the releases take for one. *)

LEMMA SoundGrows ==
  ASSUME NEW A, NEW B, A \subseteq B
  PROVE  /\ \A p : FileSound(p, A) => FileSound(p, B)
         /\ \A dir : DirSound(dir, A) => DirSound(dir, B)
         /\ \A o : (RowsSound(o, A) => RowsSound(o, B)) /\ (ReportSound(o, A) => ReportSound(o, B))
         /\ \A release : ReleaseSound(release, A) => ReleaseSound(release, B)
<1>1. \A p : FileSound(p, A) => FileSound(p, B)
  BY DEF FileSound, AllLed
<1>2. \A o : (RowsSound(o, A) => RowsSound(o, B)) /\ (ReportSound(o, A) => ReportSound(o, B))
  <2>1. ASSUME NEW o, RowsSound(o, A) PROVE RowsSound(o, B)
    BY <2>1, Zenon DEF RowsSound
  <2>2. ASSUME NEW o, ReportSound(o, A) PROVE ReportSound(o, B)
    BY <2>2 DEF ReportSound
  <2>. QED  BY <2>1, <2>2
<1>3. \A dir : DirSound(dir, A) => DirSound(dir, B)
  BY <1>1 DEF DirSound
<1>4. \A release : ReleaseSound(release, A) => ReleaseSound(release, B)
  BY <1>1, <1>2 DEF ReleaseSound
<1>. QED  BY <1>1, <1>2, <1>3, <1>4

LEMMA FileIsPayload ==
  ASSUME NEW p, NEW known, FileSound(p, known)
  PROVE  PayloadSound(p, known)
BY DEF FileSound, PayloadSound, AllLed

\* A file without metric rows is read by its leaders.
LEMMA MetricsInSound ==
  ASSUME NEW p, NEW known, PayloadSound(p, known)
  PROVE  LedIn(MetricsIn(p)) \subseteq known
<1>. SUFFICES ASSUME NEW m \in MetricsIn(p), m.status = "lead" PROVE Led(m, m.date) \in known
  BY DEF LedIn
<1>1. PICK r \in (IF p.metrics # {} THEN p.metrics ELSE p.leaders) : m = Plain(r)
  BY DEF MetricsIn
<1>2. r.status = "lead" /\ Led(m, m.date) = Led(r, r.date)
  BY <1>1, PlainIs
<1>3. CASE p.metrics # {}
  BY <1>1, <1>2, <1>3 DEF PayloadSound, LedIn
<1>4. CASE p.metrics = {}
  BY <1>1, <1>2, <1>4 DEF PayloadSound, AllLed
<1>. QED  BY <1>3, <1>4

LEMMA NormalSound ==
  ASSUME NEW p, NEW known
  PROVE  /\ PayloadSound(p, known) => AllLed(CollectedLeaders(p.leaders), known)
         /\ FileSound(p, known) => AllLed(PublishedLeaders(p.leaders), known)
<1>1. ASSUME PayloadSound(p, known), NEW q \in CollectedLeaders(p.leaders) PROVE Led(q, q.date) \in known
  <2>1. PICK r \in p.leaders : StrictLeader(r) /\ q = Plain(r)
    BY DEF CollectedLeaders
  <2>. QED  BY <1>1, <2>1, PlainIs DEF PayloadSound, AllLed
<1>2. ASSUME FileSound(p, known), NEW q \in PublishedLeaders(p.leaders) PROVE Led(q, q.date) \in known
  <2>1. PICK r \in p.leaders : q = Plain(r)
    BY DEF PublishedLeaders
  <2>. QED  BY <1>2, <2>1, PlainIs DEF FileSound, AllLed
<1>. QED  BY <1>1, <1>2 DEF AllLed

LEMMA OverrideSound ==
  ASSUME NEW rows, NEW newer, NEW known
  PROVE  /\ LedIn(rows) \cup LedIn(newer) \subseteq known => LedIn(Override(rows, newer)) \subseteq known
         /\ AllLed(rows, known) /\ AllLed(newer, known) => AllLed(Override(rows, newer), known)
BY OverrideIs DEF LedIn, AllLed

LEMMA PartSound ==
  ASSUME NEW rows, NEW part \in SUBSET rows, NEW known
  PROVE  /\ LedIn(rows) \subseteq known => LedIn(part) \subseteq known
         /\ AllLed(rows, known) => AllLed(part, known)
BY DEF LedIn, AllLed

\* A directory of such files is read without a leader that was not found.
LEMMA LoadSound ==
  ASSUME NEW dir, NEW known, dir.combined # NoFile => PayloadSound(dir.combined, known),
         \A d \in DOMAIN dir.daily : PayloadSound(dir.daily[d], known)
  PROVE  LedIn(LoadMetrics(dir)) \subseteq known /\ AllLed(LoadLeaders(dir, CollectedLeaders), known)
<1>1. LedIn(LoadMetrics(dir)) \subseteq known
  <2>. DEFINE old == IF dir.combined = NoFile THEN {} ELSE MetricsIn(dir.combined)
              new == UNION {MetricsIn(dir.daily[d]) : d \in DOMAIN dir.daily}
  <2>1. LedIn(old) \subseteq known
    <3>1. CASE dir.combined = NoFile
      BY <3>1 DEF LedIn
    <3>2. CASE dir.combined # NoFile
      BY <3>2, MetricsInSound
    <3>. QED  BY <3>1, <3>2
  <2>2. LedIn(new) \subseteq known
    <3>1. \A d \in DOMAIN dir.daily : LedIn(MetricsIn(dir.daily[d])) \subseteq known
      BY MetricsInSound
    <3>. QED  BY <3>1 DEF LedIn
  <2>3. LoadMetrics(dir) = Override(old, new)
    BY DEF LoadMetrics
  <2>. HIDE DEF old, new
  <2>. QED  BY <2>1, <2>2, <2>3, OverrideSound
<1>2. AllLed(LoadLeaders(dir, CollectedLeaders), known)
  <2>. DEFINE old == IF dir.combined = NoFile THEN {} ELSE CollectedLeaders(dir.combined.leaders)
              new == UNION {CollectedLeaders(dir.daily[d].leaders) : d \in DOMAIN dir.daily}
  <2>1. AllLed(old, known)
    <3>1. CASE dir.combined = NoFile
      BY <3>1 DEF AllLed
    <3>2. CASE dir.combined # NoFile
      BY <3>2, NormalSound
    <3>. QED  BY <3>1, <3>2
  <2>2. AllLed(new, known)
    <3>1. \A d \in DOMAIN dir.daily : AllLed(CollectedLeaders(dir.daily[d].leaders), known)
      BY NormalSound
    <3>. QED  BY <3>1 DEF AllLed
  <2>3. LoadLeaders(dir, CollectedLeaders) = Override(old, new)
    BY DEF LoadLeaders
  <2>. HIDE DEF old, new
  <2>. QED  BY <2>1, <2>2, <2>3, OverrideSound
<1>. QED  BY <1>1, <1>2

LEMMA PublishedSound ==
  ASSUME NEW dir, NEW known, DirSound(dir, known)
  PROVE  AllLed(LoadLeaders(dir, PublishedLeaders), known)
<1>. DEFINE old == IF dir.combined = NoFile THEN {} ELSE PublishedLeaders(dir.combined.leaders)
            new == UNION {PublishedLeaders(dir.daily[d].leaders) : d \in DOMAIN dir.daily}
<1>1. AllLed(old, known)
  <2>1. CASE dir.combined = NoFile
    BY <2>1 DEF AllLed
  <2>2. CASE dir.combined # NoFile
    BY <2>2, NormalSound DEF DirSound
  <2>. QED  BY <2>1, <2>2
<1>2. AllLed(new, known)
  <2>1. \A d \in DOMAIN dir.daily : AllLed(PublishedLeaders(dir.daily[d].leaders), known)
    BY NormalSound DEF DirSound
  <2>. QED  BY <2>1 DEF AllLed
<1>3. LoadLeaders(dir, PublishedLeaders) = Override(old, new)
  BY DEF LoadLeaders
<1>. HIDE DEF old, new
<1>. QED  BY <1>1, <1>2, <1>3, OverrideSound

\* What the restored history is merged to.
LEMMA CombinedSound ==
  ASSUME NEW first, NEW second, NEW known,
         first.combined # NoFile => PayloadSound(first.combined, known),
         \A d \in DOMAIN first.daily : PayloadSound(first.daily[d], known),
         second.combined # NoFile => PayloadSound(second.combined, known),
         \A d \in DOMAIN second.daily : PayloadSound(second.daily[d], known)
  PROVE  FileSound(Combined(first, second), known)
<1>. DEFINE L == Override(LoadLeaders(first, CollectedLeaders), LoadLeaders(second, CollectedLeaders))
            M == Override(LoadMetrics(first), LoadMetrics(second))
<1>1. /\ LedIn(LoadMetrics(first)) \subseteq known /\ AllLed(LoadLeaders(first, CollectedLeaders), known)
      /\ LedIn(LoadMetrics(second)) \subseteq known /\ AllLed(LoadLeaders(second, CollectedLeaders), known)
  BY LoadSound
<1>2. LedIn(M) \subseteq known
  BY <1>1, OverrideSound
<1>3. AllLed(L, known)
  BY <1>1, OverrideSound
<1>4. Combined(first, second) = [leaders |-> Limit(L, MaxDays), metrics |-> Limit(M, MaxDays)]
  BY DEF Combined
<1>. HIDE DEF L, M
<1>5. Limit(L, MaxDays) \in SUBSET L /\ Limit(M, MaxDays) \in SUBSET M
  BY LimitIs
<1>6. LedIn(Limit(M, MaxDays)) \subseteq known
  BY <1>2, <1>5, PartSound
<1>7. AllLed(Limit(L, MaxDays), known)
  BY <1>3, <1>5, PartSound
<1>. QED  BY <1>4, <1>6, <1>7 DEF FileSound

\* The first groups of a day without leaders are rebuilt as leaders that name
\* the status they had.
LEMMA RebuiltSound ==
  ASSUME NEW o, NEW known, RowsSound(o, known)
  PROVE  PayloadSound(Rebuilt(o), known)
<1>. DEFINE p == Rebuilt(o)
            date == o.date
<1>1. \A r \in o.rows : r.status # Blank
  BY Zenon DEF RowsSound
<1>2. \A r \in o.rows : r.status = "lead" => Led(r, date) \in known
  BY Zenon DEF RowsSound
<1>3. p.metrics = {Row(r, date, r.status, Blank) : r \in o.rows}
  BY DEF Rebuilt
<1>10. p.leaders \subseteq {Row(r, date, "lead", r.status) : r \in o.rows}
  BY DEF Rebuilt
<1>. HIDE DEF p, date
<1>4. ASSUME NEW m \in p.metrics, m.status = "lead" PROVE Led(m, m.date) \in known
  <2>1. PICK r \in o.rows : m = Row(r, date, r.status, Blank)
    BY <1>3
  <2>2. m.status = r.status /\ Led(m, m.date) = Led(r, date)
    BY <2>1 DEF Row, Led
  <2>. QED  BY <1>2, <1>4, <2>2
<1>5. ASSUME NEW m \in p.leaders, StrictLeader(m) PROVE Led(m, m.date) \in known
  <2>1. PICK r \in o.rows : m = Row(r, date, "lead", r.status)
    BY <1>10
  <2>2. m.source = r.status /\ Led(m, m.date) = Led(r, date)
    BY <2>1 DEF Row, Led
  <2>3. r.status = "lead"
    BY <1>1, <1>5, <2>2 DEF StrictLeader
  <2>. QED  BY <1>2, <2>2, <2>3
<1>6. p.metrics = {} => p.leaders = {}
  <2>. SUFFICES ASSUME NEW m \in p.leaders PROVE p.metrics # {}
    OBVIOUS
  <2>1. PICK r \in o.rows : m = Row(r, date, "lead", r.status)
    BY <1>10
  <2>2. Row(r, date, r.status, Blank) \in p.metrics
    BY <1>3
  <2>. QED  BY <2>2
<1>7. LedIn(p.metrics) \subseteq known
  BY <1>4 DEF LedIn
<1>8. AllLed({r \in p.leaders : StrictLeader(r)}, known)
  BY <1>5 DEF AllLed
<1>9. p.metrics = {} => AllLed(p.leaders, known)
  BY <1>6 DEF AllLed
<1>. QED  BY <1>7, <1>8, <1>9 DEF PayloadSound, p

LEMMA DayInSound ==
  ASSUME NEW release, NEW d \in DaysIn(release), NEW known, ReleaseSound(release, known)
  PROVE  PayloadSound(DayIn(release, d), known)
<1>1. release.snapshot # None
  BY DEF DaysIn
<1>2. CASE release.overview # None /\ release.overview.date = d
  BY <1>2, RebuiltSound DEF DayIn, ReleaseSound
<1>3. CASE ~(release.overview # None /\ release.overview.date = d)
  <2>. DEFINE s == release.snapshot
              p == Expanded(s, d)
  <2>1. FileSound(s, known)
    BY <1>1 DEF ReleaseSound
  <2>2. p.metrics \in SUBSET s.metrics /\ p.leaders \in SUBSET s.leaders
    BY DEF Expanded
  <2>. HIDE DEF s, p
  <2>3. LedIn(p.metrics) \subseteq known
    BY <2>1, <2>2, PartSound DEF FileSound
  <2>4. AllLed(p.leaders, known)
    BY <2>1, <2>2, PartSound DEF FileSound
  <2>5. PayloadSound(p, known)
    BY <2>3, <2>4, FileIsPayload DEF FileSound
  <2>. QED  BY <1>3, <2>5 DEF DayIn, p, s
<1>. QED  BY <1>2, <1>3

\* The files a sync writes to an empty directory.
LEMMA SyncedSound ==
  ASSUME ReleasesShaped, NEW host, NEW known, \A t \in DOMAIN releases : ReleaseSound(releases[t], known)
  PROVE  /\ Synced(EmptyDir, host).combined = NoFile
         /\ \A d \in DOMAIN Synced(EmptyDir, host).daily : PayloadSound(Synced(EmptyDir, host).daily[d], known)
<1>1. Synced(EmptyDir, host).combined = NoFile
  BY DEF Synced, EmptyDir
<1>2. ASSUME NEW d \in DOMAIN Synced(EmptyDir, host).daily
      PROVE  PayloadSound(Synced(EmptyDir, host).daily[d], known)
  <2>1. PICK t \in DOMAIN releases :
          d \in DaysIn(releases[t]) /\ Synced(EmptyDir, host).daily[d] = DayIn(releases[t], d)
    BY SyncedFrom, EmptyDated
  <2>. QED  BY <2>1, DayInSound
<1>. QED  BY <1>1, <1>2

LEMMA WithDaySound ==
  ASSUME NEW dir, NEW rows, NEW date, NEW known, DirSound(dir, known),
         \A r \in rows : r.status = "lead" => Led(r, date) \in known
  PROVE  DirSound(WithDay(dir, rows, date), known)
<1>. DEFINE p == DaySnapshot(rows, date)
<1>1. /\ p.metrics = {Row(r, date, r.status, Blank) : r \in rows}
      /\ p.leaders = {Row(r, date, "lead", "lead") : r \in {q \in rows : q.status = "lead"}}
  BY DEF DaySnapshot
<1>. HIDE DEF p
<1>2. ASSUME NEW m \in p.metrics, m.status = "lead" PROVE Led(m, m.date) \in known
  <2>1. PICK r \in rows : m = Row(r, date, r.status, Blank)
    BY <1>1
  <2>. QED  BY <1>2, <2>1, RowIs
<1>3. ASSUME NEW m \in p.leaders PROVE Led(m, m.date) \in known
  <2>1. PICK r \in rows : r.status = "lead" /\ m = Row(r, date, "lead", "lead")
    BY <1>1
  <2>. QED  BY <2>1, RowIs
<1>4. FileSound(p, known)
  BY <1>2, <1>3 DEF FileSound, LedIn, AllLed
<1>5. /\ WithDay(dir, rows, date).combined = dir.combined
      /\ DOMAIN WithDay(dir, rows, date).daily = DOMAIN dir.daily \cup {date}
      /\ \A d \in DOMAIN dir.daily \cup {date} :
           WithDay(dir, rows, date).daily[d] = IF d = date THEN p ELSE dir.daily[d]
  BY DEF WithDay, Written, p
<1>. QED  BY <1>4, <1>5 DEF DirSound

LEMMA ReportIsSound ==
  ASSUME NEW metrics, NEW leaders, NEW rows, NEW date, NEW known,
         LedIn(metrics) \subseteq known, AllLed(leaders, known),
         \A r \in rows : r.status = "lead" => Led(r, date) \in known
  PROVE  LedIn(Report(metrics, leaders, rows, date)) \subseteq known
<1>. DEFINE past == Override(Shown(metrics), leaders)
            live == {Row(r, date, r.status, Blank) : r \in Shown(rows)}
<1>1. LedIn(past) \subseteq known
  <2>1. LedIn(Shown(metrics)) \subseteq known
    BY PartSound DEF Shown
  <2>2. LedIn(leaders) \subseteq known
    BY DEF AllLed, LedIn
  <2>. QED  BY <2>1, <2>2, OverrideSound
<1>2. LedIn(live) \subseteq known
  <2>. SUFFICES ASSUME NEW m \in live, m.status = "lead" PROVE Led(m, m.date) \in known
    BY DEF LedIn
  <2>1. PICK r \in rows : m = Row(r, date, r.status, Blank)
    BY DEF Shown
  <2>. QED  BY <2>1, RowIs
<1>3. Report(metrics, leaders, rows, date) \subseteq past \cup live
  BY DEF Report
<1>. HIDE DEF past, live
<1>. QED  BY <1>1, <1>2, <1>3 DEF LedIn

\* The overview of a run shows the groups as the run found them.
LEMMA FoundRows ==
  ASSUME NEW u, NEW market, NEW mode, NEW lost, NEW r \in EvaluationOf(u, market, mode, lost).rows
  PROVE  r.status \in {"lead", "watch", "neutral", "weak", "sample"}
<1>1. PICK type, b, q :
        q \in GroupRows(OfType(GroupsOf[u], type), QuotesOf(market, mode, lost), market.rankings) /\ r = [q EXCEPT !.breadth = b]
  BY DEF EvaluationOf
<1>2. r.status = q.status
  BY <1>1
<1>3. q.status \in {"lead", "watch", "neutral", "weak", "sample"}
  BY <1>1, GroupRowIs
<1>. QED  BY <1>2, <1>3

LEMMA ScoredIs ==
  ASSUME NEW r, NEW history, NEW date
  PROVE  /\ Scored(r, history, date).status = r.status /\ Scored(r, history, date).path = r.path
         /\ Led(Scored(r, history, date), date) = Led(r, date)
         /\ Scored(r, history, date).persistence = Persistence(Observations(history, Row(r, date, r.status, Blank)))
         /\ \A status, src : Row(Scored(r, history, date), date, status, src) = Row(r, date, status, src)
BY DEF Scored, Led, Row

\* A release that the workflow alone has written was so before.
LEMMA OnlyBefore ==
  ASSUME ThemeInv, OnlyWorkflow'
  PROVE  /\ UNCHANGED releases => OnlyWorkflow
         /\ Create => OnlyWorkflow /\ job.host = "ci"
         /\ Upload => OnlyWorkflow /\ job.host = "ci" /\ releases[job.tag].by = "ci"
<1>1. UNCHANGED releases => OnlyWorkflow
  BY DEF OnlyWorkflow
<1>2. ASSUME Create PROVE OnlyWorkflow /\ job.host = "ci"
  <2>1. /\ DOMAIN releases' = DOMAIN releases \cup {job.tag} /\ job.tag \notin DOMAIN Archive
        /\ \A t \in DOMAIN releases : releases'[t] = releases[t]
        /\ releases'[job.tag].hosts = {job.host}
    BY <1>2, CreateIs
  <2>. QED  BY <2>1 DEF OnlyWorkflow
<1>3. ASSUME Upload PROVE OnlyWorkflow /\ job.host = "ci" /\ releases[job.tag].by = "ci"
  <2>1. /\ DOMAIN releases' = DOMAIN releases /\ job.tag \in DOMAIN releases /\ job.tag \notin DOMAIN Archive
        /\ \A t \in DOMAIN releases : t # job.tag => releases'[t] = releases[t]
        /\ releases'[job.tag].hosts = releases[job.tag].hosts \cup {job.host}
    BY <1>3, UploadIs
  <2>2. releases[job.tag].by \in releases[job.tag].hosts
    BY <2>1 DEF ThemeInv, ReleasesShaped
  <2>3. releases[job.tag].hosts \cup {job.host} = {"ci"}
    BY <2>1 DEF OnlyWorkflow
  <2>4. releases[job.tag].hosts = {"ci"} /\ job.host = "ci" /\ releases[job.tag].by = "ci"
    BY <2>2, <2>3
  <2>. QED  BY <2>1, <2>4 DEF OnlyWorkflow
<1>. QED  BY <1>1, <1>2, <1>3

LEMMA SnapshotSound ==
  ASSUME NEW known, DirSound(Dir, known)
  PROVE  FileSound(Snapshot, known)
<1>1. LedIn(LoadMetrics(Dir)) \subseteq known
  BY LoadSound, FileIsPayload DEF DirSound
<1>2. AllLed(LoadLeaders(Dir, PublishedLeaders), known)
  BY PublishedSound
<1>. QED  BY <1>1, <1>2 DEF FileSound, Snapshot

LEMMA SyncSound ==
  ASSUME ThemeInv, SoundInv, Sync, OnlyWorkflow, job'.host = "ci", job'.phase = "collect"
  PROVE  DirSound(job'.dir, led)
<1>1. JobShaped /\ ReleasesShaped
  BY DEF ThemeInv
<1>2. job.phase = "sync" /\ job.host = "ci" /\ job.dir = EmptyDir /\ Dir = EmptyDir
  <2>1. job.phase = "sync" /\ job'.host = job.host
    BY SyncIs DEF NoJob
  <2>. QED  BY <1>1, <2>1 DEF JobShaped, Dir
<1>3. PICK fetched \in {Synced(EmptyDir, "ci"), EmptyDir} : job'.dir = Merged(fetched)
  BY <1>2, SyncIs DEF NoJob
<1>4. fetched.combined = NoFile /\ \A d \in DOMAIN fetched.daily : PayloadSound(fetched.daily[d], led)
  <2>1. CASE fetched = EmptyDir
    BY <2>1, EmptyDated
  <2>2. CASE fetched = Synced(EmptyDir, "ci")
    BY <1>1, <2>2, SyncedSound DEF SoundInv
  <2>. QED  BY <2>1, <2>2
<1>5. EmptyDir.combined = NoFile /\ DOMAIN EmptyDir.daily = {}
  BY EmptyDated
<1>6. FileSound(Combined(EmptyDir, fetched), led)
  BY <1>4, <1>5, CombinedSound
<1>7. job'.dir.combined = Combined(EmptyDir, fetched) /\ job'.dir.daily = EmptyDir.daily
  BY <1>2, <1>3 DEF Merged
<1>. QED  BY <1>5, <1>6, <1>7 DEF DirSound

LEMMA CollectSound ==
  ASSUME ThemeInv, SoundInv, Collect, OnlyWorkflow, job'.host = "ci"
  PROVE  /\ led \subseteq led' /\ DirSound(job'.dir, led')
         /\ RowsSound(job'.overview, led') /\ ReportSound(job'.overview, led')
<1>1. JobShaped /\ Dated
  BY DEF ThemeInv
<1>2. job' # NoJob
  BY DEF NoJob
<1>3. ASSUME NEW market \in Markets, NEW mode \in Modes, NEW lost \in Losses, NEW failed, NEW date, NEW found,
             found = EvaluationOf(updated, MarketOf[market], mode, lost), Reports(found, market, mode, failed, date)
      PROVE  /\ led \subseteq led' /\ DirSound(job'.dir, led')
             /\ RowsSound(job'.overview, led') /\ ReportSound(job'.overview, led')
  <2>. DEFINE history == Limit(LoadMetrics(Dir), MaxDays)
              leaders == Limit(LoadLeaders(Dir, CollectedLeaders), MaxDays)
              o == job'.overview
  <2>1. job.host = "ci" /\ Dir = job.dir
    BY <1>1, <1>3, ReportsIs DEF Dir
  <2>2. led' = led \cup {Led(r, date) : r \in {q \in found.rows : q.status = "lead"}}
    BY <1>3 DEF Reports
  <2>3. \A r \in found.rows : r.status = "lead" => Led(r, date) \in led'
    BY <2>2
  <2>4. DirSound(Dir, led')
    BY <2>1, <2>2, SoundGrows DEF SoundInv, RunSound
  <2>5. DirSound(job'.dir, led')
    <3>1. job'.dir = WithDay(Dir, found.rows, date)
      BY <1>1, <1>3, <2>1, ReportsIs
    <3>. QED  BY <2>3, <2>4, <3>1, WithDaySound
  <2>6. /\ o.date = date /\ o.rows = {Scored(r, history, date) : r \in found.rows}
        /\ o.report = Report(history, leaders, found.rows, date)
    BY <1>3 DEF Reports
  <2>. HIDE DEF history, o
  <2>7. RowsSound(o, led')
    <3>. SUFFICES ASSUME NEW r \in o.rows
                  PROVE  r.status # Blank /\ (r.status = "lead" => Led(r, o.date) \in led')
      BY Zenon DEF RowsSound
    <3>1. PICK q \in found.rows : r = Scored(q, history, date)
      BY <2>6
    <3>2. r.status = q.status /\ Led(r, date) = Led(q, date)
      BY <3>1, ScoredIs
    <3>3. q.status \in {"lead", "watch", "neutral", "weak", "sample"}
      BY <1>3, FoundRows
    <3>. QED  BY <2>3, <2>6, <3>2, <3>3, BlankIs
  <2>8. ReportSound(o, led')
    <3>1. LedIn(LoadMetrics(Dir)) \subseteq led' /\ AllLed(LoadLeaders(Dir, CollectedLeaders), led')
      BY <2>4, LoadSound, FileIsPayload DEF DirSound
    <3>2. LedIn(history) \subseteq led'
      BY <3>1, LimitIs, PartSound DEF history
    <3>3. AllLed(leaders, led')
      <4>1. leaders \in SUBSET LoadLeaders(Dir, CollectedLeaders)
        BY LimitIs
      <4>. QED  BY <3>1, <4>1, PartSound
    <3>. HIDE DEF leaders
    <3>4. LedIn(Report(history, leaders, found.rows, date)) \subseteq led'
      BY <2>3, <3>2, <3>3, ReportIsSound
    <3>. QED  BY <2>6, <3>4 DEF ReportSound
  <2>. QED  BY <2>2, <2>5, <2>7, <2>8 DEF o
<1>4. PICK market \in Markets, lost \in Losses, failed \in Rounds, date \in TradingDates,
           mode \in IF Strict THEN {"top"} ELSE Modes :
        Reports(Evaluation[<<updated, market, mode, lost>>], market, mode, failed, date)
  BY <1>1, <1>2, CollectIs
<1>5. Evaluation[<<updated, market, mode, lost>>] = EvaluationOf(updated, MarketOf[market], mode, lost) /\ mode \in Modes
  BY <1>1, EvaluationIs DEF Dated, Modes
<1>. QED  BY <1>3, <1>4, <1>5

LEMMA SoundKept ==
  ASSUME ThemeInv, SoundInv, [ThemeNext]_vars
  PROVE  SoundInv'
<1>. SUFFICES ASSUME OnlyWorkflow'
              PROVE  RunSound' /\ \A t \in DOMAIN releases' : ReleaseSound(releases'[t], led')
  BY DEF SoundInv
<1>1. ASSUME UNCHANGED releases, led \subseteq led'
      PROVE  OnlyWorkflow /\ \A t \in DOMAIN releases' : ReleaseSound(releases'[t], led')
  <2>1. OnlyWorkflow
    BY <1>1, OnlyBefore
  <2>2. \A t \in DOMAIN releases : ReleaseSound(releases[t], led')
    BY <1>1, <2>1, SoundGrows DEF SoundInv
  <2>. QED  BY <1>1, <2>1, <2>2
<1>2. CASE Rest
  <2>1. UNCHANGED releases /\ led' = led
    BY <1>2 DEF Rest
  <2>2. CASE job'.phase = "idle"
    <3>1. job'.host = "none"
      BY <2>2, ShapedKept DEF ThemeInv, JobShaped, Idle, NoJob
    <3>. QED  BY <1>1, <2>1, <3>1 DEF RunSound
  <2>3. CASE job'.phase = "sync"
    <3>1. job'.dir = EmptyDir
      BY <2>3, ShapedKept DEF ThemeInv, JobShaped
    <3>. QED  BY <1>1, <2>1, <2>3, <3>1, EmptyDated DEF RunSound, DirSound
  <2>4. CASE UNCHANGED job
    BY <1>1, <2>1, <2>4 DEF RunSound, SoundInv
  <2>. QED  BY <1>2, <2>2, <2>3, <2>4 DEF Rest
<1>3. CASE Sync
  <2>1. UNCHANGED releases /\ led' = led
    BY <1>3, SyncIs
  <2>2. CASE job' = NoJob
    BY <1>1, <2>1, <2>2 DEF RunSound, NoJob
  <2>3. CASE job' # NoJob
    <3>1. job'.phase = "collect"
      BY <1>3, <2>3, SyncIs
    <3>2. job'.host = "ci" => DirSound(job'.dir, led')
      BY <1>1, <1>3, <2>1, <3>1, SyncSound
    <3>. QED  BY <1>1, <2>1, <3>1, <3>2 DEF RunSound
  <2>. QED  BY <2>2, <2>3
<1>4. CASE Collect
  <2>1. UNCHANGED releases
    BY <1>4 DEF Collect
  <2>2. OnlyWorkflow
    BY <2>1, OnlyBefore
  <2>3. led \subseteq led'
    <3>1. ASSUME NEW f, NEW market, NEW mode, NEW failed, NEW date, Reports(f, market, mode, failed, date)
          PROVE  led \subseteq led'
      BY <3>1 DEF Reports
    <3>2. JobShaped
      BY DEF ThemeInv
    <3>. QED  BY <1>4, <3>1, <3>2, CollectIs
  <2>4. RunSound'
    BY <1>4, <2>2, CollectSound DEF RunSound
  <2>. QED  BY <1>1, <2>1, <2>3, <2>4
<1>5. CASE Create
  <2>1. OnlyWorkflow /\ job.host = "ci"
    BY <1>5, OnlyBefore
  <2>2. job.phase = "publish" /\ job' = NoJob /\ led' = led
    BY <1>5, CreateIs
  <2>3. DirSound(Dir, led) /\ RowsSound(job.overview, led) /\ ReportSound(job.overview, led)
    BY <2>1, <2>2 DEF SoundInv, RunSound, Dir
  <2>4. releases'[job.tag] = [snapshot |-> Snapshot, overview |-> job.overview, by |-> job.host, hosts |-> {job.host}]
    BY <1>5, CreateIs
  <2>5. ReleaseSound(releases'[job.tag], led')
    BY <2>2, <2>3, <2>4, SnapshotSound DEF ReleaseSound
  <2>6. DOMAIN releases' = DOMAIN releases \cup {job.tag} /\ \A t \in DOMAIN releases : releases'[t] = releases[t]
    BY <1>5, CreateIs
  <2>7. \A t \in DOMAIN releases : ReleaseSound(releases[t], led)
    BY <2>1 DEF SoundInv
  <2>8. RunSound'
    BY <2>2 DEF RunSound, NoJob
  <2>. QED  BY <2>2, <2>5, <2>6, <2>7, <2>8
<1>6. CASE BeginUpload
  BY <1>1, <1>6, BeginUploadIs DEF RunSound, SoundInv
<1>7. CASE Upload
  <2>1. OnlyWorkflow /\ job.host = "ci" /\ releases[job.tag].by = "ci"
    BY <1>7, OnlyBefore
  <2>2. job.phase = "upload" /\ led' = led
    BY <1>7, UploadUntouched
  <2>3. DirSound(Dir, led) /\ RowsSound(job.overview, led) /\ ReportSound(job.overview, led)
    BY <2>1, <2>2 DEF SoundInv, RunSound, Dir
  <2>4. FileSound(Snapshot, led)
    BY <2>3, SnapshotSound
  <2>5. ReleaseSound(releases[job.tag], led)
    BY <1>7, <2>1, UploadIs DEF SoundInv
  <2>6. /\ releases'[job.tag].snapshot \in {None, Snapshot, releases[job.tag].snapshot}
        /\ releases'[job.tag].overview \in {None, job.overview, releases[job.tag].overview}
    BY <1>7, UploadIs
  <2>7. ReleaseSound(releases'[job.tag], led')
    BY <2>1, <2>2, <2>3, <2>4, <2>5, <2>6 DEF ReleaseSound
  <2>8. DOMAIN releases' = DOMAIN releases /\ \A t \in DOMAIN releases : t # job.tag => releases'[t] = releases[t]
    BY <1>7, UploadIs
  <2>9. \A t \in DOMAIN releases' : ReleaseSound(releases'[t], led')
    BY <2>1, <2>2, <2>7, <2>8 DEF SoundInv
  <2>10. RunSound'
    <3>1. CASE job.left = 1
      BY <1>7, <3>1, UploadEnds DEF RunSound, NoJob
    <3>2. CASE job.left # 1
      <4>1. job'.dir = job.dir /\ job'.overview = job.overview /\ Dir = job.dir
        BY <1>7, <2>1, <3>2, UploadGoesOn DEF Dir
      <4>. QED  BY <2>2, <2>3, <4>1 DEF RunSound
    <3>. QED  BY <3>1, <3>2
  <2>. QED  BY <2>9, <2>10
<1>. QED  BY <1>2, <1>3, <1>4, <1>5, <1>6, <1>7, StepKinds

LEMMA SoundAtStart == ThemeInit => SoundInv
<1>. SUFFICES ASSUME ThemeInit PROVE SoundInv
  OBVIOUS
<1>1. releases = Archive /\ led = UNION {{Led(r, r.date) : r \in Archive[t].snapshot.leaders} : t \in DOMAIN Archive}
  BY DEF ThemeInit
<1>2. job.host = "none"
  BY DEF ThemeInit, NoJob
<1>3. ASSUME NEW t \in DOMAIN Archive PROVE ReleaseSound(Archive[t], led)
  <2>. DEFINE s == Archive[t].snapshot
              o == Archive[t].overview
  <2>1. WellPublished(Archive[t])
    BY ArchiveAssumption
  <2>2. /\ \A r \in o.rows : r.status # Blank
        /\ LedIn(s.metrics) \cup {Led(r, o.date) : r \in {q \in o.rows : q.status = "lead"}}
             \subseteq {Led(r, r.date) : r \in s.leaders}
        /\ Archive[t].by = "ci" => LedIn(o.report) \subseteq {Led(r, r.date) : r \in s.leaders}
    BY <2>1, Zenon DEF WellPublished
  <2>3. {Led(r, r.date) : r \in s.leaders} \subseteq led
    BY <1>1
  <2>. HIDE DEF s, o
  <2>4. FileSound(s, led)
    BY <2>2, <2>3 DEF FileSound, AllLed
  <2>5. RowsSound(o, led)
    <3>. SUFFICES ASSUME NEW r \in o.rows
                  PROVE  r.status # Blank /\ (r.status = "lead" => Led(r, o.date) \in led)
      BY Zenon DEF RowsSound
    <3>. QED  BY <2>2, <2>3
  <2>6. Archive[t].by = "ci" => ReportSound(o, led)
    BY <2>2, <2>3 DEF ReportSound
  <2>. QED  BY <2>4, <2>5, <2>6 DEF ReleaseSound, s, o
<1>. QED  BY <1>1, <1>2, <1>3 DEF SoundInv, RunSound

\* While the workflow alone has published, every group its releases hold or show
\* as leading was found leading for that date: what is rebuilt for a day without
\* leaders names its source, a run keeps the rows that name none or "lead" only,
\* and metric rows are written wherever there are leaders.
THEOREM LeadersFound == ThemeSpec => []LeadersWereFound
<1>1. ThemeInv /\ SoundInv => LeadersWereFound
  <2>. SUFFICES ASSUME ThemeInv, SoundInv, OnlyWorkflow, NEW t \in WholeByCI
                PROVE  {Led(r, r.date) : r \in releases[t].snapshot.leaders} \cup LedIn(releases[t].overview.report) \subseteq led
    BY DEF LeadersWereFound, OnlyWorkflow
  <2>1. t \in DOMAIN releases /\ t \notin torn /\ releases[t].by = "ci"
    BY DEF WholeByCI, Whole
  <2>2. releases[t].snapshot # None /\ releases[t].overview # None
    BY <2>1 DEF ThemeInv, ReleasesShaped
  <2>3. FileSound(releases[t].snapshot, led) /\ ReportSound(releases[t].overview, led)
    BY <2>1, <2>2 DEF SoundInv, ReleaseSound
  <2>. QED  BY <2>3 DEF FileSound, AllLed, ReportSound
<1>. QED  BY <1>1, SoundAtStart, SoundKept, ReportsInOrder, PTL DEF ThemeSpec

-----------------------------------------------------------------------------
(* Scores: what a run observes of the days before is what it publishes of them. *)

\* Only the rows of the group on other days count.
LEMMA ObservedSame ==
  ASSUME NEW A, NEW B, NEW x,
         {r \in A : r.path = x.path /\ r.date # x.date} = {r \in B : r.path = x.path /\ r.date # x.date}
  PROVE  Observations(A, x) = Observations(B, x)
<1>. DEFINE Listed(older) == <<x>> \o [i \in 1 .. Cardinality(older) |->
                               CHOOSE r \in older : Cardinality({q \in older : q.date > r.date}) = i - 1]
            Older(S) == {r \in S : r.path = x.path /\ r.date # x.date}
<1>1. Observations(A, x) = Listed(Older(A)) /\ Observations(B, x) = Listed(Older(B))
  BY DEF Observations
<1>2. Older(A) = Older(B)
  OBVIOUS
<1>. HIDE DEF Listed, Older
<1>. QED  BY <1>1, <1>2

Elsewhere(rows, date) == {r \in rows : r.date # date}

LEMMA OverrideElsewhere ==
  ASSUME NEW rows, NEW newer, NEW later, NEW date, Elsewhere(newer, date) = Elsewhere(later, date)
  PROVE  Elsewhere(Override(rows, newer), date) = Elsewhere(Override(rows, later), date)
<1>1. ASSUME NEW A, NEW B, Elsewhere(A, date) = Elsewhere(B, date), NEW r \in Elsewhere(Override(rows, A), date)
      PROVE  r \in Elsewhere(Override(rows, B), date)
  <2>1. r.date # date
    BY DEF Elsewhere
  <2>2. CASE r \in A
    BY <1>1, <2>1, <2>2 DEF Elsewhere, Override
  <2>3. CASE r \notin A
    <3>1. r \in rows /\ \A q \in A : Key(q) # Key(r)
      BY <1>1, <2>3 DEF Elsewhere, Override
    <3>2. ASSUME NEW q \in B PROVE Key(q) # Key(r)
      <4>1. CASE q.date = date
        BY <2>1, <4>1 DEF Key
      <4>2. CASE q.date # date
        BY <1>1, <3>1, <4>2 DEF Elsewhere
      <4>. QED  BY <4>1, <4>2
    <3>. QED  BY <2>1, <3>1, <3>2 DEF Elsewhere, Override
  <2>. QED  BY <2>2, <2>3
<1>2. Elsewhere(Override(rows, newer), date) \subseteq Elsewhere(Override(rows, later), date)
  BY <1>1
<1>3. Elsewhere(Override(rows, later), date) \subseteq Elsewhere(Override(rows, newer), date)
  BY <1>1
<1>. QED  BY <1>2, <1>3

\* The file of a day leaves the rows of the others alone.
LEMMA WithDayElsewhere ==
  ASSUME NEW dir, DirDated(dir), NEW rows, NEW date
  PROVE  /\ Elsewhere(LoadMetrics(WithDay(dir, rows, date)), date) = Elsewhere(LoadMetrics(dir), date)
         /\ rows # {} => date \in DatesOf(LoadMetrics(WithDay(dir, rows, date)))
<1>. DEFINE p == DaySnapshot(rows, date)
            dir2 == WithDay(dir, rows, date)
            old == IF dir.combined = NoFile THEN {} ELSE MetricsIn(dir.combined)
            new == UNION {MetricsIn(dir.daily[d]) : d \in DOMAIN dir.daily}
            new2 == UNION {MetricsIn(dir2.daily[d]) : d \in DOMAIN dir2.daily}
<1>1. /\ dir2.combined = dir.combined /\ DOMAIN dir2.daily = DOMAIN dir.daily \cup {date}
      /\ \A d \in DOMAIN dir.daily \cup {date} : dir2.daily[d] = IF d = date THEN p ELSE dir.daily[d]
  BY DEF WithDay, Written
<1>2. LoadMetrics(dir) = Override(old, new) /\ LoadMetrics(dir2) = Override(old, new2)
  BY <1>1 DEF LoadMetrics
<1>3. /\ p.metrics = {Row(r, date, r.status, Blank) : r \in rows}
      /\ p.leaders = {Row(r, date, "lead", "lead") : r \in {q \in rows : q.status = "lead"}}
  BY DEF DaySnapshot
<1>4. RowsOn(p, {date})
  <2>. HIDE DEF p
  <2>1. ASSUME NEW m \in p.metrics PROVE m.date = date
    <3>1. PICK r \in rows : m = Row(r, date, r.status, Blank)
      BY <1>3
    <3>. QED  BY <3>1, RowIs
  <2>2. ASSUME NEW m \in p.leaders PROVE m.date = date
    <3>1. PICK r \in rows : m = Row(r, date, "lead", "lead")
      BY <1>3
    <3>. QED  BY <3>1, RowIs
  <2>. QED  BY <2>1, <2>2 DEF RowsOn, DatesOf
<1>5. ASSUME NEW m \in MetricsIn(p) PROVE m.date = date
  <2>. HIDE DEF p
  <2>. QED  BY <1>4, MetricsInDated DEF DatesOf
<1>6. ASSUME NEW d \in DOMAIN dir.daily, NEW m \in MetricsIn(dir.daily[d]) PROVE m.date = d
  <2>1. DatesOf(MetricsIn(dir.daily[d])) \subseteq {d}
    BY MetricsInDated DEF DirDated
  <2>. QED  BY <2>1 DEF DatesOf
<1>. HIDE DEF p, dir2
<1>7. Elsewhere(new, date) = Elsewhere(new2, date)
  <2>1. ASSUME NEW m \in new, m.date # date PROVE m \in new2
    <3>1. PICK d \in DOMAIN dir.daily : m \in MetricsIn(dir.daily[d])
      OBVIOUS
    <3>2. d # date
      BY <1>6, <2>1, <3>1
    <3>. QED  BY <1>1, <3>1, <3>2
  <2>2. ASSUME NEW m \in new2, m.date # date PROVE m \in new
    <3>1. PICK d \in DOMAIN dir2.daily : m \in MetricsIn(dir2.daily[d])
      OBVIOUS
    <3>2. d # date
      BY <1>1, <1>5, <2>2, <3>1
    <3>. QED  BY <1>1, <3>1, <3>2
  <2>. HIDE DEF new, new2
  <2>. QED  BY <2>1, <2>2 DEF Elsewhere
<1>8. rows # {} => date \in DatesOf(new2)
  <2>. SUFFICES ASSUME rows # {} PROVE date \in DatesOf(new2)
    OBVIOUS
  <2>1. PICK r \in rows : TRUE
    OBVIOUS
  <2>2. PICK m \in p.metrics : TRUE
    BY <1>3, <2>1
  <2>3. Plain(m) \in MetricsIn(p)
    BY <2>2 DEF MetricsIn
  <2>4. Plain(m) \in new2 /\ Plain(m).date = date
    BY <1>1, <1>5, <2>3
  <2>. HIDE DEF new2
  <2>. QED  BY <2>4 DEF DatesOf
<1>. HIDE DEF old, new, new2
<1>9. Elsewhere(LoadMetrics(dir2), date) = Elsewhere(LoadMetrics(dir), date)
  BY <1>2, <1>7, OverrideElsewhere
<1>10. DatesOf(new2) \subseteq DatesOf(LoadMetrics(dir2))
  BY <1>2, OverrideIs
<1>. QED  BY <1>8, <1>9, <1>10 DEF dir2

\* The history a run publishes with its overview is the one it observed.
LEMMA DayMatches ==
  ASSUME NEW dir, DirDated(dir), NEW rows, NEW date \in Days, NEW overview, NEW snapshot,
         \/ Cardinality(DatesOf(LoadMetrics(dir))) <= MaxDays
         \/ Cardinality(DatesOf(LoadMetrics(WithDay(dir, rows, date)))) <= MaxDays,
         overview.date = date,
         overview.rows = {Scored(r, Limit(LoadMetrics(dir), MaxDays), date) : r \in rows},
         snapshot.metrics = LoadMetrics(WithDay(dir, rows, date)), DirDated(WithDay(dir, rows, date))
  PROVE  Matches(snapshot, overview)
<1>. DEFINE M == LoadMetrics(dir)
            N == LoadMetrics(WithDay(dir, rows, date))
            history == Limit(M, MaxDays)
<1>. SUFFICES ASSUME NEW r \in overview.rows
              PROVE  r.persistence =
                       Persistence(Observations({q \in N : q.date # date}, Row(r, date, r.status, Blank)))
  BY DEF Matches
<1>1. PICK q \in rows : r = Scored(q, history, date)
  OBVIOUS
<1>2. DatesOf(M) \in SUBSET Days /\ DatesOf(N) \in SUBSET Days
  BY LoadDated
<1>3. Elsewhere(N, date) = Elsewhere(M, date) /\ date \in DatesOf(N)
  BY <1>1, WithDayElsewhere
<1>. HIDE DEF M, N
<1>4. MaxDays \in Nat
  BY ThemeAssumption
<1>5. Cardinality(DatesOf(M)) <= MaxDays
  <2>1. DatesOf(M) \subseteq DatesOf(N)
    BY <1>3 DEF Elsewhere, DatesOf
  <2>2. Cardinality(DatesOf(M)) <= Cardinality(DatesOf(N)) /\ Cardinality(DatesOf(M)) \in Nat /\ Cardinality(DatesOf(N)) \in Nat
    BY <1>2, <2>1, DatesFinite
  <2>. QED  BY <1>4, <2>2 DEF M, N
<1>6. history = M
  <2>1. Recent(DatesOf(M), MaxDays) = DatesOf(M)
    BY <1>2, <1>4, <1>5, RecentAll
  <2>. QED  BY <2>1, LimitAll
<1>. HIDE DEF history
<1>7. /\ r.status = q.status /\ Row(r, date, r.status, Blank) = Row(q, date, q.status, Blank)
      /\ r.persistence = Persistence(Observations(M, Row(q, date, q.status, Blank)))
  BY <1>1, <1>6, ScoredIs
<1>8. Observations(M, Row(q, date, q.status, Blank)) = Observations({n \in N : n.date # date}, Row(q, date, q.status, Blank))
  <2>. DEFINE x == Row(q, date, q.status, Blank)
              E == {n \in N : n.date # date}
  <2>1. x.date = date
    BY RowIs
  <2>. HIDE DEF x
  <2>2. {m \in M : m.path = x.path /\ m.date # x.date} = {m \in E : m.path = x.path /\ m.date # x.date}
    BY <1>3, <2>1 DEF Elsewhere
  <2>. HIDE DEF E
  <2>3. Observations(M, x) = Observations(E, x)
    BY <2>2, ObservedSame
  <2>. QED  BY <2>3 DEF x, E
<1>. QED  BY <1>7, <1>8

\* What a combined file holds is within the limit.
LEMMA CombinedLimited ==
  ASSUME NEW first, NEW second, DirDated(first), DirDated(second)
  PROVE  Cardinality(DatesOf(MetricsIn(Combined(first, second)))) <= MaxDays
<1>. DEFINE L == Override(LoadLeaders(first, CollectedLeaders), LoadLeaders(second, CollectedLeaders))
            M == Override(LoadMetrics(first), LoadMetrics(second))
            c == Combined(first, second)
            read == IF c.metrics # {} THEN c.metrics ELSE c.leaders
<1>1. DatesOf(L) \in SUBSET Days /\ DatesOf(M) \in SUBSET Days
  BY LoadDated, OverrideIs
<1>2. c.leaders = Limit(L, MaxDays) /\ c.metrics = Limit(M, MaxDays)
  BY DEF Combined
<1>3. MaxDays \in Nat
  BY ThemeAssumption
<1>. HIDE DEF L, M, c
<1>4. Cardinality(DatesOf(c.leaders)) <= MaxDays
  BY <1>1, <1>2, <1>3, LimitIs, RecentFew
<1>5. Cardinality(DatesOf(c.metrics)) <= MaxDays
  BY <1>1, <1>2, <1>3, LimitIs, RecentFew
<1>6. MetricsIn(c) = {Plain(r) : r \in read}
  BY DEF MetricsIn
<1>. HIDE DEF read
<1>7. DatesOf(MetricsIn(c)) = DatesOf(read)
  BY <1>6, PlainIs DEF DatesOf
<1>. QED  BY <1>4, <1>5, <1>7 DEF read, c

LEMMA SyncLimited ==
  ASSUME ThemeInv, Sync
  PROVE  HistoryLimited'
<1>. SUFFICES ASSUME job'.host = "ci", job'.phase = "collect"
              PROVE  DOMAIN job'.dir.daily = {} /\ Cardinality(DatesOf(LoadMetrics(job'.dir))) <= MaxDays
  BY DEF HistoryLimited
<1>1. job.phase = "sync" /\ job'.host = job.host
  BY SyncIs DEF NoJob
<1>2. job.host = "ci" /\ Dir = EmptyDir
  BY <1>1 DEF ThemeInv, JobShaped, Dir
<1>3. PICK fetched \in {Synced(EmptyDir, "ci"), EmptyDir} : job'.dir = Merged(fetched)
  BY <1>2, SyncIs DEF NoJob
<1>. DEFINE c == Combined(EmptyDir, fetched)
<1>4. job'.dir.combined = c /\ job'.dir.daily = EmptyDir.daily
  BY <1>2, <1>3 DEF Merged
<1>5. DirDated(EmptyDir) /\ DirDated(fetched) /\ DOMAIN EmptyDir.daily = {}
  BY <1>2, EmptyDated, MergedDated
<1>6. Cardinality(DatesOf(MetricsIn(c))) <= MaxDays
  BY <1>5, CombinedLimited
<1>7. c # NoFile
  <2>1. DOMAIN c # {} /\ DOMAIN NoFile = {}
    BY DEF Combined, NoFile
  <2>. QED  BY <2>1
<1>. HIDE DEF c
<1>8. LoadMetrics(job'.dir) = Override(MetricsIn(c), {})
  BY <1>4, <1>5, <1>7 DEF LoadMetrics
<1>9. DatesOf(LoadMetrics(job'.dir)) = DatesOf(MetricsIn(c))
  BY <1>8, OverrideIs DEF DatesOf
<1>. QED  BY <1>4, <1>5, <1>6, <1>9

LEMMA CollectMatches ==
  ASSUME ThemeInv, ScoresInv, Collect
  PROVE  RunMatches'
<1>1. JobShaped /\ Dated /\ job.phase = "collect"
  BY DEF ThemeInv, Collect
<1>. SUFFICES ASSUME job'.phase \in {"publish", "upload"},
                     job'.host = "ci" \/ Cardinality(DatesOf(Snapshot'.metrics)) <= MaxDays
              PROVE  Matches(Snapshot', job'.overview)
  BY DEF RunMatches
<1>2. ASSUME NEW market, NEW mode, NEW failed, NEW date \in TradingDates, NEW found,
             Reports(found, market, mode, failed, date)
      PROVE  Matches(Snapshot', job'.overview)
  <2>. DEFINE rows == found.rows
              history == Limit(LoadMetrics(Dir), MaxDays)
              o == job'.overview
              s == Snapshot'
  <2>1. job.host \in Hosts /\ date \in Days /\ DirDated(Dir)
    BY <1>1, TradingIsDay DEF JobShaped, Dated, Dir
  <2>2. job'.host = job.host /\ Dir' = WithDay(Dir, rows, date)
    BY <1>1, <1>2, <2>1, ReportsIs
  <2>3. s.metrics = LoadMetrics(WithDay(Dir, rows, date))
    BY <2>2 DEF Snapshot
  <2>4. DirDated(WithDay(Dir, rows, date))
    BY <2>1, WrittenDated DEF WithDay
  <2>5. o.date = date /\ o.rows = {Scored(r, history, date) : r \in rows}
    BY <1>2 DEF Reports
  <2>6. \/ Cardinality(DatesOf(LoadMetrics(Dir))) <= MaxDays
        \/ Cardinality(DatesOf(LoadMetrics(WithDay(Dir, rows, date)))) <= MaxDays
    BY <1>1, <2>2, <2>3 DEF ScoresInv, HistoryLimited, Dir
  <2>. HIDE DEF rows, o, s
  <2>7. Matches(s, o)
    BY <2>1, <2>3, <2>4, <2>5, <2>6, DayMatches
  <2>. QED  BY <2>7 DEF o, s
<1>3. job' # NoJob
  BY DEF NoJob
<1>. QED  BY <1>1, <1>2, <1>3, CollectIs

LEMMA ScoresKept ==
  ASSUME ThemeInv, ScoresInv, [ThemeNext]_vars
  PROVE  ScoresInv'
<1>1. CASE Rest
  <2>1. UNCHANGED <<releases, torn>>
    BY <1>1 DEF Rest
  <2>2. ScoresMatchHistory'
    BY <2>1 DEF ScoresInv, ScoresMatchHistory, Whole
  <2>3. CASE job'.phase \in {"idle", "sync"}
    BY <2>2, <2>3 DEF ScoresInv, HistoryLimited, RunMatches
  <2>4. CASE UNCHANGED <<job, local>>
    <3>1. Snapshot' = Snapshot
      BY <2>4 DEF Snapshot, Dir
    <3>. QED  BY <2>2, <2>4, <3>1 DEF ScoresInv, HistoryLimited, RunMatches
  <2>. QED  BY <1>1, <2>3, <2>4 DEF Rest
<1>2. CASE Sync
  <2>1. UNCHANGED <<releases, torn>> /\ (job'.phase = "collect" \/ job' = NoJob)
    BY <1>2, SyncIs
  <2>2. ScoresMatchHistory'
    BY <2>1 DEF ScoresInv, ScoresMatchHistory, Whole
  <2>3. RunMatches'
    BY <2>1 DEF RunMatches, NoJob
  <2>. QED  BY <1>2, <2>2, <2>3, SyncLimited DEF ScoresInv
<1>3. CASE Collect
  <2>1. UNCHANGED <<releases, torn>>
    BY <1>3 DEF Collect
  <2>2. ScoresMatchHistory'
    BY <2>1 DEF ScoresInv, ScoresMatchHistory, Whole
  <2>3. HistoryLimited'
    <3>1. ASSUME NEW f, NEW market, NEW mode, NEW failed, NEW date, Reports(f, market, mode, failed, date)
          PROVE  job'.phase = "publish"
      BY <3>1, ReportsIs DEF ThemeInv
    <3>2. job' = NoJob \/ job'.phase = "publish"
      BY <1>3, <3>1, CollectIs DEF ThemeInv
    <3>. QED  BY <3>2 DEF HistoryLimited, NoJob
  <2>. QED  BY <1>3, <2>2, <2>3, CollectMatches DEF ScoresInv
<1>4. CASE Create
  <2>1. job.phase = "publish" /\ job' = NoJob /\ torn' = torn
    BY <1>4, CreateIs
  <2>2. /\ DOMAIN releases' = DOMAIN releases \cup {job.tag}
        /\ \A t \in DOMAIN releases : releases'[t] = releases[t]
        /\ releases'[job.tag] = [snapshot |-> Snapshot, overview |-> job.overview, by |-> job.host, hosts |-> {job.host}]
    BY <1>4, CreateIs
  <2>3. ScoresAll(releases'[job.tag]) => Matches(releases'[job.tag].snapshot, releases'[job.tag].overview)
    BY <2>1, <2>2 DEF ScoresInv, RunMatches, ScoresAll
  <2>4. ScoresMatchHistory'
    BY <2>1, <2>2, <2>3 DEF ScoresInv, ScoresMatchHistory, Whole
  <2>. QED  BY <2>1, <2>4 DEF ScoresInv, HistoryLimited, RunMatches, NoJob
<1>5. CASE BeginUpload
  <2>1. /\ job.phase = "publish" /\ UNCHANGED releases /\ torn' = torn \cup {job.tag}
        /\ job'.phase = "upload" /\ job'.host = job.host /\ job'.overview = job.overview /\ Snapshot' = Snapshot
    BY <1>5, BeginUploadIs
  <2>2. ScoresMatchHistory'
    BY <2>1 DEF ScoresInv, ScoresMatchHistory, Whole
  <2>3. RunMatches'
    BY <2>1 DEF ScoresInv, RunMatches
  <2>. QED  BY <2>1, <2>2, <2>3 DEF ScoresInv, HistoryLimited
<1>6. CASE Upload
  <2>1. /\ DOMAIN releases' = DOMAIN releases
        /\ \A t \in DOMAIN releases : t # job.tag => releases'[t] = releases[t]
    BY <1>6, UploadIs
  <2>2. job.phase = "upload"
    BY <1>6, UploadUntouched
  <2>3. CASE job.left = 1
    <3>1. /\ job' = NoJob /\ torn' = torn \ {job.tag}
          /\ releases'[job.tag].snapshot = Snapshot /\ releases'[job.tag].overview = job.overview
          /\ releases'[job.tag].by = job.host
      BY <1>6, <2>3, UploadEnds
    <3>2. ScoresAll(releases'[job.tag]) => Matches(releases'[job.tag].snapshot, releases'[job.tag].overview)
      BY <2>2, <3>1 DEF ScoresInv, RunMatches, ScoresAll
    <3>3. ScoresMatchHistory'
      BY <2>1, <3>1, <3>2 DEF ScoresInv, ScoresMatchHistory, Whole
    <3>. QED  BY <3>1, <3>3 DEF ScoresInv, HistoryLimited, RunMatches, NoJob
  <2>4. CASE job.left # 1
    <3>1. /\ job'.phase = "upload" /\ job'.host = job.host /\ job'.overview = job.overview
          /\ Snapshot' = Snapshot /\ torn' = torn /\ job.tag \in torn
      BY <1>6, <2>4, UploadGoesOn
    <3>2. ScoresMatchHistory'
      BY <2>1, <3>1 DEF ScoresInv, ScoresMatchHistory, Whole
    <3>3. RunMatches'
      BY <2>2, <3>1 DEF ScoresInv, RunMatches
    <3>. QED  BY <3>1, <3>2, <3>3 DEF ScoresInv, HistoryLimited
  <2>. QED  BY <2>3, <2>4
<1>. QED  BY <1>1, <1>2, <1>3, <1>4, <1>5, <1>6, StepKinds

LEMMA ScoresAtStart == ThemeInit => ScoresInv
<1>. SUFFICES ASSUME ThemeInit PROVE ScoresInv
  OBVIOUS
<1>1. releases = Archive /\ job.host = "none" /\ job.phase = "idle"
  BY DEF ThemeInit, NoJob
<1>2. ASSUME NEW release, WellPublished(release), ScoresAll(release)
      PROVE  Matches(release.snapshot, release.overview)
  BY <1>2, Zenon DEF WellPublished
<1>3. ScoresMatchHistory
  BY <1>1, <1>2, ArchiveAssumption DEF ScoresMatchHistory, Whole
<1>. QED  BY <1>1, <1>3 DEF ScoresInv, HistoryLimited, RunMatches

\* The persistence a release reports is that of the history published beside it:
\* the workflow starts within the limit of dates, the file of the day replaces the
\* rows of that day alone, and an observation of the day itself never counts.
THEOREM ScoresAreOfHistory == ThemeSpec => []ScoresMatchHistory
<1>1. ScoresInv => ScoresMatchHistory
  BY DEF ScoresInv
<1>. QED  BY <1>1, ScoresAtStart, ScoresKept, ReportsInOrder, PTL DEF ThemeSpec

-----------------------------------------------------------------------------
(* History: a run starts from the newest release that has one. *)

\* With few releases that lack a snapshot the newest one that has it is taken.
LEMMA NewestIsTaken ==
  ASSUME ReleasesShaped, FewBare, NEW tag, Named(releases) \ {tag} # {}
  PROVE  LET n == Newest(Named(releases) \ {tag})
         IN  n \in Taken("ci") /\ releases[n].snapshot # None /\ n # tag
<1>. DEFINE T == Named(releases) \ {tag}
            n == Newest(T)
            Newer == {u \in DOMAIN releases : TagBefore(n, u)}
<1>1. T \in SUBSET Tags /\ T # {} /\ T \subseteq DOMAIN releases /\ IsFiniteSet(T) /\ IsFiniteSet(Bare) /\ IsFiniteSet(Newer)
  BY FS_Subset DEF ReleasesShaped, Named, Bare
<1>2. n \in T /\ \A u \in T : ~TagBefore(n, u)
  <2>. HIDE DEF T
  <2>. QED  BY <1>1, NewestIs
<1>3. Newer \subseteq Bare \cup {tag}
  BY <1>2 DEF Named, Bare
<1>. HIDE DEF Newer, n
<1>4. Cardinality(Newer) <= Cardinality(Bare) + 1 /\ Cardinality(Newer) \in Nat /\ Cardinality(Bare) \in Nat
  <2>1. IsFiniteSet(Bare \cup {tag}) /\ Cardinality(Bare \cup {tag}) <= Cardinality(Bare) + 1 /\ Cardinality(Bare) \in Nat
    <3>1. CASE tag \in Bare
      <4>1. Bare \cup {tag} = Bare /\ Cardinality(Bare) \in Nat
        BY <1>1, <3>1, FS_CardinalityType
      <4>. QED  BY <1>1, <4>1
    <3>2. CASE tag \notin Bare
      <4>1. Cardinality(Bare) \in Nat
        BY <1>1, FS_CardinalityType
      <4>2. IsFiniteSet(Bare \cup {tag}) /\ Cardinality(Bare \cup {tag}) = Cardinality(Bare) + 1
        BY <1>1, <3>2, FS_AddElement
      <4>. QED  BY <4>1, <4>2
    <3>. QED  BY <3>1, <3>2
  <2>2. Cardinality(Newer) <= Cardinality(Bare \cup {tag}) /\ Cardinality(Bare \cup {tag}) \in Nat
    BY <1>3, <2>1, FS_Subset, FS_CardinalityType
  <2>. QED  BY <1>1, <2>1, <2>2, FS_CardinalityType
<1>5. MaxReleases["ci"] \in Nat
  BY ThemeAssumption DEF Hosts
<1>6. Cardinality(Newer) < MaxReleases["ci"]
  BY <1>4, <1>5 DEF FewBare
<1>. QED  BY <1>2, <1>6 DEF Taken, Named, Newer, n

\* Every day a release that is taken has metric rows of is a day of the history.
LEMMA SyncedHistory ==
  ASSUME ThemeInv, NEW host, NEW t \in Taken(host), releases[t].snapshot # None
  PROVE  DatesOf(releases[t].snapshot.metrics) \subseteq DatesOf(LoadMetrics(Synced(EmptyDir, host)))
<1>. DEFINE F == Synced(EmptyDir, host)
<1>1. ReleasesShaped /\ Dated /\ t \in DOMAIN releases
  BY DEF ThemeInv, Taken
<1>. SUFFICES ASSUME NEW d \in DatesOf(releases[t].snapshot.metrics) PROVE d \in DatesOf(LoadMetrics(F))
  OBVIOUS
<1>2. d \in DaysIn(releases[t])
  BY DEF DaysIn, DatesOf
<1>. DEFINE B == Bringing(host, d)
<1>3. B \in SUBSET Tags /\ IsFiniteSet(B) /\ B # {}
  BY <1>1, <1>2, FS_Subset DEF Bringing, Taken, ReleasesShaped
<1>4. Newest(B) \in B
  <2>. HIDE DEF B
  <2>. QED  BY <1>3, NewestIs
<1>5. Newest(B) \in DOMAIN releases /\ d \in DaysIn(releases[Newest(B)])
  BY <1>4 DEF Bringing, Taken
<1>6. d \in DOMAIN F.daily /\ F.daily[d] = DayIn(releases[Newest(B)], d)
  BY <1>2, <1>3 DEF Synced
<1>7. d \in DatesOf(MetricsIn(F.daily[d]))
  BY <1>1, <1>5, <1>6, DayInDated DEF Dated
<1>. DEFINE old == IF F.combined = NoFile THEN {} ELSE MetricsIn(F.combined)
            new == UNION {MetricsIn(F.daily[e]) : e \in DOMAIN F.daily}
<1>. HIDE DEF F
<1>8. d \in DatesOf(new)
  BY <1>6, <1>7 DEF DatesOf
<1>9. LoadMetrics(F) = Override(old, new)
  BY DEF LoadMetrics
<1>. HIDE DEF old, new
<1>. QED  BY <1>8, <1>9, OverrideIs

LEMMA CarriedOn ==
  ASSUME NEW old, NEW new \in SUBSET Days, NEW later \in SUBSET Days, new \subseteq later, Carried(old, new)
  PROVE  Carried(old, later)
<1>. SUFFICES ASSUME NEW d \in old, d \notin later PROVE MaxDays <= Cardinality({x \in later : x > d})
  BY DEF Carried
<1>. DEFINE A == {x \in new : x > d}
            B == {x \in later : x > d}
<1>1. MaxDays <= Cardinality(A)
  BY DEF Carried
<1>2. A \subseteq B /\ A \in SUBSET new /\ B \in SUBSET later
  OBVIOUS
<1>3. IsFiniteSet(B) /\ Cardinality(B) \in Nat
  BY <1>2, DatesFinite
<1>. HIDE DEF A, B
<1>4. Cardinality(A) <= Cardinality(B) /\ Cardinality(A) \in Nat
  BY <1>2, <1>3, FS_Subset, FS_CardinalityType
<1>5. MaxDays \in Nat
  BY ThemeAssumption
<1>. QED  BY <1>1, <1>3, <1>4, <1>5 DEF B

\* What a run goes on with has the dates of the history it fetched, up to the limit.
LEMMA CombinedHistory ==
  ASSUME NEW fetched, DirDated(fetched), DatesOf(LoadMetrics(fetched)) # {}
  PROVE  DatesOf(MetricsIn(Combined(EmptyDir, fetched))) = Recent(DatesOf(LoadMetrics(fetched)), MaxDays)
<1>. DEFINE c == Combined(EmptyDir, fetched)
            M == Override(LoadMetrics(EmptyDir), LoadMetrics(fetched))
            D == DatesOf(LoadMetrics(fetched))
<1>1. c.metrics = Limit(M, MaxDays)
  BY DEF Combined
<1>2. DatesOf(M) = D
  BY EmptyDated, OverrideIs
<1>. HIDE DEF c, M
<1>3. DatesOf(c.metrics) = Recent(D, MaxDays)
  BY <1>1, <1>2, LimitIs
<1>4. D \in SUBSET Days
  BY LoadDated
<1>. HIDE DEF D
<1>5. Recent(D, MaxDays) # {}
  <2>. SUFFICES ASSUME Recent(D, MaxDays) = {} PROVE FALSE
    OBVIOUS
  <2>1. PICK d \in D : TRUE
    BY DEF D
  <2>2. MaxDays \in Nat /\ MaxDays # 0
    BY ThemeAssumption
  <2>3. MaxDays <= Cardinality({x \in Recent(D, MaxDays) : x > d})
    BY <1>4, <2>1, <2>2, RecentCarries
  <2>4. {x \in Recent(D, MaxDays) : x > d} = {}
    OBVIOUS
  <2>. QED  BY <2>2, <2>3, <2>4, FS_EmptySet
<1>6. c.metrics # {}
  BY <1>3, <1>5 DEF DatesOf
<1>7. MetricsIn(c) = {Plain(r) : r \in c.metrics}
  BY <1>6 DEF MetricsIn
<1>8. DatesOf(MetricsIn(c)) = DatesOf(c.metrics)
  BY <1>7, PlainIs DEF DatesOf
<1>. QED  BY <1>3, <1>8 DEF c, D

LEMMA SyncCarries ==
  ASSUME ThemeInv, FewBare, Sync
  PROVE  CarriedInv'
<1>. SUFFICES ASSUME job'.host = "ci", job'.phase = "collect", Before' # {}
              PROVE  Carried(DatesOf(releases'[Newest(Before')].snapshot.metrics), DatesOf(LoadMetrics(job'.dir)))
  <2>1. job' = NoJob \/ job'.phase = "collect"
    BY SyncIs
  <2>. QED  BY <2>1 DEF CarriedInv, NoJob
<1>1. job.phase = "sync" /\ job'.host = job.host /\ job'.tag = job.tag /\ UNCHANGED releases
  BY SyncIs DEF NoJob
<1>2. job.host = "ci" /\ Dir = EmptyDir /\ Before' = Before
  BY <1>1 DEF ThemeInv, JobShaped, Dir, Before, Named
<1>3. PICK fetched \in {Synced(EmptyDir, "ci"), EmptyDir} :
        Restored(DatesOf(LoadMetrics(fetched))) /\ job'.dir = Merged(fetched)
  BY <1>2, SyncIs DEF NoJob
<1>. DEFINE n == Newest(Before)
            old == DatesOf(releases[n].snapshot.metrics)
            D == DatesOf(LoadMetrics(fetched))
            c == Combined(EmptyDir, fetched)
<1>4. D # {}
  <2>1. MinDays \in Nat \ {0} /\ Cardinality(D) >= MinDays
    BY <1>3, ThemeAssumption DEF Restored
  <2>. QED  BY <2>1, FS_EmptySet
<1>5. fetched = Synced(EmptyDir, "ci")
  BY <1>3, <1>4, EmptyDated
<1>6. DirDated(EmptyDir) /\ DirDated(fetched) /\ DOMAIN EmptyDir.daily = {}
  BY <1>2, EmptyDated, MergedDated
<1>7. old \subseteq D
  <2>1. n \in Taken("ci") /\ releases[n].snapshot # None
    BY <1>2, NewestIsTaken DEF ThemeInv, Before
  <2>. HIDE DEF n
  <2>. QED  BY <1>5, <2>1, SyncedHistory
<1>8. D \in SUBSET Days /\ MaxDays \in Nat
  BY <1>6, LoadDated, ThemeAssumption
<1>9. DatesOf(MetricsIn(c)) = Recent(D, MaxDays)
  BY <1>4, <1>6, CombinedHistory
<1>10. DatesOf(LoadMetrics(job'.dir)) = Recent(D, MaxDays)
  <2>1. job'.dir.combined = c /\ job'.dir.daily = EmptyDir.daily
    BY <1>2, <1>3 DEF Merged
  <2>2. c # NoFile
    <3>1. DOMAIN c # {} /\ DOMAIN NoFile = {}
      BY DEF Combined, NoFile
    <3>. QED  BY <3>1
  <2>. HIDE DEF c, D
  <2>3. LoadMetrics(job'.dir) = Override(MetricsIn(c), {})
    BY <1>6, <2>1, <2>2 DEF LoadMetrics
  <2>. QED  BY <1>9, <2>3, OverrideIs DEF DatesOf
<1>. HIDE DEF n, old, D
<1>11. Carried(old, Recent(D, MaxDays))
  BY <1>7, <1>8, RecentCarries DEF Carried
<1>. QED  BY <1>1, <1>2, <1>10, <1>11 DEF n, old

\* The file of a day takes no date from a history without such files.
LEMMA CollectCarries ==
  ASSUME ThemeInv, HistoryLimited, CarriedInv, Collect
  PROVE  CarriedInv'
<1>1. JobShaped /\ Dated /\ job.phase = "collect" /\ UNCHANGED releases
  BY DEF ThemeInv, Collect
<1>. SUFFICES ASSUME job'.host = "ci", Before' # {}
              PROVE  Carried(DatesOf(releases'[Newest(Before')].snapshot.metrics), DatesOf(LoadMetrics(job'.dir)))
  BY DEF CarriedInv
<1>2. ASSUME NEW market, NEW mode, NEW failed, NEW date \in TradingDates, NEW found,
             Reports(found, market, mode, failed, date)
      PROVE  Carried(DatesOf(releases'[Newest(Before')].snapshot.metrics), DatesOf(LoadMetrics(job'.dir)))
  <2>. DEFINE dir == job.dir
              dir2 == WithDay(dir, found.rows, date)
              kept == IF dir.combined = NoFile THEN {} ELSE MetricsIn(dir.combined)
              new == UNION {MetricsIn(dir.daily[d]) : d \in DOMAIN dir.daily}
              new2 == UNION {MetricsIn(dir2.daily[d]) : d \in DOMAIN dir2.daily}
              old == DatesOf(releases[Newest(Before)].snapshot.metrics)
  <2>1. job.host = "ci" /\ job'.tag = job.tag /\ job'.dir = dir2 /\ Before' = Before
    BY <1>1, <1>2, ReportsIs DEF Before, Named, Dir
  <2>2. Carried(old, DatesOf(LoadMetrics(dir)))
    BY <1>1, <2>1 DEF CarriedInv
  <2>3. date \in Days /\ DirDated(dir)
    BY <1>1, TradingIsDay DEF Dated
  <2>4. DirDated(dir2)
    BY <2>3, WrittenDated DEF WithDay
  <2>5. LoadMetrics(dir) = Override(kept, new) /\ LoadMetrics(dir2) = Override(kept, new2)
    <3>1. dir2.combined = dir.combined
      BY DEF WithDay
    <3>. QED  BY <3>1 DEF LoadMetrics
  <2>6. new = {}
    BY <1>1, <2>1 DEF HistoryLimited
  <2>. HIDE DEF dir, dir2, kept, new2, new
  <2>7. DatesOf(LoadMetrics(dir)) \subseteq DatesOf(LoadMetrics(dir2))
    <3>1. DatesOf(Override(kept, {})) = DatesOf(kept)
      <4>1. DatesOf({}) = {}
        BY DEF DatesOf
      <4>. QED  BY <4>1, OverrideIs
    <3>2. DatesOf(kept) \subseteq DatesOf(Override(kept, new2))
      BY OverrideIs
    <3>. QED  BY <2>5, <2>6, <3>1, <3>2
  <2>8. DatesOf(LoadMetrics(dir)) \in SUBSET Days /\ DatesOf(LoadMetrics(dir2)) \in SUBSET Days
    BY <2>3, <2>4, LoadDated
  <2>. HIDE DEF old
  <2>9. Carried(old, DatesOf(LoadMetrics(dir2)))
    BY <2>2, <2>7, <2>8, CarriedOn
  <2>. QED  BY <1>1, <2>1, <2>9 DEF old
<1>3. job' # NoJob
  BY DEF NoJob
<1>. QED  BY <1>1, <1>2, <1>3, CollectIs

\* Another release is as it was while a run writes its own.
LEMMA BeforeKept ==
  ASSUME ThemeInv, Upload, Before # {}
  PROVE  Named(releases') \ {job.tag} = Before /\ releases'[Newest(Before)] = releases[Newest(Before)]
<1>1. /\ DOMAIN releases' = DOMAIN releases
      /\ \A t \in DOMAIN releases : t # job.tag => releases'[t] = releases[t]
  BY UploadIs
<1>2. Newest(Before) \in Before
  <2>1. Before \in SUBSET Tags /\ IsFiniteSet(Before)
    BY FS_Subset DEF ThemeInv, ReleasesShaped, Before, Named
  <2>. QED  BY <2>1, NewestIs
<1>. QED  BY <1>1, <1>2 DEF Before, Named

LEMMA CarriedKept ==
  ASSUME ThemeInv, HistoryLimited, CarriedInv, FewBare, [ThemeNext]_vars
  PROVE  CarriedInv'
<1>1. CASE Rest
  BY <1>1 DEF Rest, CarriedInv, Before, Named
<1>2. CASE Sync
  BY <1>2, SyncCarries
<1>3. CASE Collect
  BY <1>3, CollectCarries
<1>4. CASE Create
  BY <1>4, CreateIs DEF CarriedInv, NoJob
<1>5. CASE BeginUpload
  BY <1>5, BeginUploadIs DEF CarriedInv, Before, Named
<1>6. CASE Upload
  <2>1. CASE job.left = 1
    BY <1>6, <2>1, UploadEnds DEF CarriedInv, NoJob
  <2>2. CASE job.left # 1
    <3>1. job'.host = job.host /\ job'.tag = job.tag /\ job'.dir = job.dir /\ job.phase = "upload"
      BY <1>6, <2>2, UploadGoesOn, UploadUntouched
    <3>2. Before' = Named(releases') \ {job.tag}
      BY <3>1 DEF Before, Named
    <3>3. CASE Before = {}
      <4>1. Before' = {}
        BY <1>6, <3>2, <3>3, UploadIs DEF Before, Named
      <4>. QED  BY <4>1 DEF CarriedInv
    <3>4. CASE Before # {}
      <4>1. Before' = Before /\ releases'[Newest(Before)] = releases[Newest(Before)]
        BY <1>6, <3>2, <3>4, BeforeKept
      <4>. QED  BY <3>1, <4>1 DEF CarriedInv
    <3>. QED  BY <3>3, <3>4
  <2>. QED  BY <2>1, <2>2
<1>. QED  BY <1>1, <1>2, <1>3, <1>4, <1>5, <1>6, StepKinds

\* What a step does to the history of the release it writes.
CarriesOn(t) ==
  LET before == Named(releases) \ {t}
      old == DatesOf(releases[Newest(before)].snapshot.metrics)
      new == DatesOf(releases'[t].snapshot.metrics)
  IN  /\ releases'[t].by = "ci" /\ releases'[t].snapshot # None /\ before # {}
      /\ t \notin DOMAIN releases \/ releases[t].snapshot # releases'[t].snapshot
      => old \cap Recent(old \cup new, MaxDays) \subseteq new

LEMMA CarriedIsRecent ==
  ASSUME NEW old \in SUBSET Days, NEW new \in SUBSET Days, Carried(old, new)
  PROVE  old \cap Recent(old \cup new, MaxDays) \subseteq new
<1>. SUFFICES ASSUME NEW d \in old, d \in Recent(old \cup new, MaxDays), d \notin new PROVE FALSE
  OBVIOUS
<1>. DEFINE A == {x \in new : x > d}
            B == {x \in old \cup new : x > d}
<1>1. MaxDays <= Cardinality(A) /\ Cardinality(B) < MaxDays
  BY DEF Carried, Recent
<1>2. A \subseteq B /\ B \in SUBSET (old \cup new) /\ old \cup new \in SUBSET Days
  OBVIOUS
<1>3. IsFiniteSet(B) /\ Cardinality(B) \in Nat
  BY <1>2, DatesFinite
<1>. HIDE DEF A, B
<1>4. Cardinality(A) <= Cardinality(B) /\ Cardinality(A) \in Nat
  BY <1>2, <1>3, FS_Subset, FS_CardinalityType
<1>5. MaxDays \in Nat
  BY ThemeAssumption
<1>. QED  BY <1>1, <1>3, <1>4, <1>5

\* The release a run writes, from the history it goes on with.
LEMMA OwnCarriesOn ==
  ASSUME ThemeInv, CarriedInv, job.phase \in {"publish", "upload"},
         releases'[job.tag].by = "ci" => job.host = "ci", releases'[job.tag].snapshot = Snapshot
  PROVE  CarriesOn(job.tag)
<1>. SUFFICES ASSUME job.host = "ci", Before # {}
              PROVE  LET old == DatesOf(releases[Newest(Before)].snapshot.metrics)
                         new == DatesOf(Snapshot.metrics)
                     IN  old \cap Recent(old \cup new, MaxDays) \subseteq new
  BY DEF CarriesOn, Before
<1>. DEFINE old == DatesOf(releases[Newest(Before)].snapshot.metrics)
            new == DatesOf(Snapshot.metrics)
<1>1. new = DatesOf(LoadMetrics(job.dir))
  BY DEF Snapshot, Dir
<1>2. Carried(old, new)
  BY <1>1 DEF CarriedInv
<1>3. new \in SUBSET Days
  BY <1>1, LoadDated DEF ThemeInv, Dated
<1>4. old \in SUBSET Days
  <2>1. Before \in SUBSET Tags /\ IsFiniteSet(Before) /\ Before # {}
    BY FS_Subset DEF ThemeInv, ReleasesShaped, Before, Named
  <2>2. Newest(Before) \in Before
    BY <2>1, NewestIs
  <2>3. Newest(Before) \in DOMAIN releases /\ releases[Newest(Before)].snapshot # None
    BY <2>2 DEF Before, Named
  <2>4. RowsOn(releases[Newest(Before)].snapshot, Days)
    BY <2>3 DEF ThemeInv, Dated
  <2>. QED  BY <2>4 DEF RowsOn, DatesOf
<1>. HIDE DEF old, new
<1>5. old \cap Recent(old \cup new, MaxDays) \subseteq new
  BY <1>2, <1>3, <1>4, CarriedIsRecent
<1>. QED  BY <1>5 DEF old, new

LEMMA StepCarriesOn ==
  ASSUME ThemeInv, CarriedInv, [ThemeNext]_vars, NEW t \in DOMAIN releases'
  PROVE  CarriesOn(t)
<1>1. CASE UNCHANGED releases
  BY <1>1 DEF CarriesOn
<1>2. CASE Create
  <2>1. CASE t = job.tag
    <3>1. /\ job.phase = "publish"
          /\ releases'[job.tag] = [snapshot |-> Snapshot, overview |-> job.overview, by |-> job.host, hosts |-> {job.host}]
      BY <1>2, CreateIs
    <3>. QED  BY <2>1, <3>1, OwnCarriesOn
  <2>2. CASE t # job.tag
    <3>1. t \in DOMAIN releases /\ releases'[t] = releases[t]
      BY <1>2, <2>2, CreateIs
    <3>. QED  BY <3>1 DEF CarriesOn
  <2>. QED  BY <2>1, <2>2
<1>3. CASE Upload
  <2>1. CASE t = job.tag
    <3>1. /\ job.phase = "upload" /\ job.tag \in DOMAIN releases /\ releases'[job.tag].by = job.host
          /\ releases'[job.tag].snapshot \in {None, Snapshot, releases[job.tag].snapshot}
      BY <1>3, UploadIs, UploadUntouched
    <3>2. CASE releases'[job.tag].snapshot = Snapshot
      BY <2>1, <3>1, <3>2, OwnCarriesOn
    <3>3. CASE releases'[job.tag].snapshot # Snapshot
      BY <2>1, <3>1, <3>3 DEF CarriesOn
    <3>. QED  BY <3>2, <3>3
  <2>2. CASE t # job.tag
    <3>1. t \in DOMAIN releases /\ releases'[t] = releases[t]
      BY <1>3, <2>2, UploadIs
    <3>. QED  BY <3>1 DEF CarriesOn
  <2>. QED  BY <2>1, <2>2
<1>4. Rest \/ Sync \/ Collect \/ BeginUpload => UNCHANGED releases
  BY SyncIs, BeginUploadIs DEF Rest, Collect
<1>. QED  BY <1>1, <1>2, <1>3, <1>4, StepKinds

\* A release of the workflow carries on the history of the newest one before it:
\* the run that fetched any history fetched that one, as long as fewer releases
\* lack their snapshot than a run looks at, and from then on only the limit of
\* dates takes one away.
THEOREM HistoriesCarriedOn == ThemeSpec /\ []FewBare => HistoryCarriedOn
<1>1. ThemeInit => CarriedInv
  BY DEF ThemeInit, NoJob, CarriedInv
<1>2. ThemeInv /\ CarriedInv /\ [ThemeNext]_vars => [\A t \in DOMAIN releases' : CarriesOn(t)]_vars
  BY StepCarriesOn
<1>3. ScoresInv => HistoryLimited
  BY DEF ScoresInv
<1>4. [][\A t \in DOMAIN releases' : CarriesOn(t)]_vars => HistoryCarriedOn
  BY PTL DEF HistoryCarriedOn, CarriesOn
<1>5. ThemeSpec => []ScoresInv
  BY ScoresAtStart, ScoresKept, ReportsInOrder, PTL DEF ThemeSpec
<1>6. ThemeSpec /\ []FewBare => []CarriedInv
  BY <1>1, <1>3, <1>5, CarriedKept, ReportsInOrder, PTL DEF ThemeSpec
<1>. QED  BY <1>2, <1>4, <1>6, ReportsInOrder, PTL DEF ThemeSpec

=============================================================================
