--------------------------- MODULE DatasetRelease ---------------------------
(***************************************************************************)
(* The publication of the dataset: the workflows of .github/workflows that *)
(* share the concurrency group dataset-release, the scripts they call, and *)
(* what the host of the README stages and dispatches, over the GitHub      *)
(* releases and data_manifest.json on the main branch.                     *)
(*                                                                         *)
(* A workflow run reads data_manifest.json from its checkout, which is the *)
(* main branch as it was when the run was triggered, and pushes it last;   *)
(* it may fail at any step.  One run executes, at most one waits, and a    *)
(* newer one takes the place of the one that waits.                        *)
(*                                                                         *)
(* A parquet file is abstracted to the days it has bars of; 0 stands for   *)
(* the rows of the files beside it, which are no bars.  A hash is what was *)
(* hashed.  The tag of a release is abstracted to its place in time.       *)
(***************************************************************************)
EXTENDS Integers, FiniteSets, FiniteSetsExt

CONSTANTS
  LastDay,      \* bound: the trading days are 1 .. LastDay
  MaxTags,      \* bound: tags 1 .. MaxTags are ever made; the history keeps 120
  Workflows,    \* the kinds of run that are triggered
  AuditDays,    \* days the weekly audit looks back (7)
  AllUrls       \* whether every dispatch gives the URLs of all staged files

Days  == 1 .. LastDay
Rows  == 0 .. LastDay
Tags  == 1 .. MaxTags
Kinds == {"refresh", "from_latest", "bootstrap", "delta"}

ASSUME ReleaseAssumption ==
  /\ LastDay \in Nat \ {0} /\ MaxTags \in 1 .. 120
  /\ Workflows \subseteq Kinds
  /\ AuditDays \in Nat \ {0} /\ AllUrls \in BOOLEAN

VARIABLES
  today,      \* the latest trading day that has closed
  minted,     \* the latest tag that was made
  releases,   \* the releases by tag
  newest,     \* the tag that heads the list of releases
  manifest,   \* data_manifest.json on the main branch
  job, queue, \* the run that executes and the one that waits
  failed      \* the last publication that failed, for its operator to repeat

worldVars == <<today, minted>>
siteVars  == <<releases, newest>>
vars == <<worldVars, siteVars, manifest, job, queue, failed>>

Assets    == {"output1", "main", "sha256"}
Parquets  == {"output1", "main"}
Bundles   == [Assets -> SUBSET Rows]
NoFiles   == [f \in Assets |-> {}]
Releases  == [type : {"none", "snapshot", "delta"}, files : Bundles]
Entries   == [tag : 0 .. MaxTags, sha : SUBSET Rows]
NoEntry   == [tag |-> 0, sha |-> {}]
Manifests == [current : Entries, delta : Entries, history : SUBSET Tags]
Steps     == {"none", "sync", "collect", "fetch", "create", "upload"}
Runs == [kind : Kinds \cup {"none"}, tag : 0 .. MaxTags,
         base : Manifests, stale : BOOLEAN, step : Steps,
         silver : SUBSET Rows, files : Bundles, left : SUBSET Assets]
-----------------------------------------------------------------------------
(***************************************************************************)
(* Files.                                                                  *)
(***************************************************************************)
Present(files) == {f \in Assets : files[f] # {}}
Main(t)        == releases[t].files["main"]
Exists(t)      == releases[t].type # "none"
Published      == {t \in Tags : Exists(t)}
TypeOf(kind)   == IF kind = "delta" THEN "delta" ELSE "snapshot"

\* write_snapshot_bundle; output1 stands for ticker-state too, and TAG.json
\* repeats the others.
Bundle(days) == [output1 |-> {0}, main |-> days, sha256 |-> days]

\* make_delta, of which publish-delta uploads the parquet alone.
DeltaFiles(days) == [NoFiles EXCEPT !["main"] = days]

\* The release that every sha256_url of publish-snapshot refers to by default.
DefaultFiles == Bundle({1})

\* The files a bootstrap run finds at the URLs it is given.
StagedFiles(days) ==
  {Bundle(days)} \cup
  (IF AllUrls THEN {} ELSE {[Bundle(days) EXCEPT !["sha256"] = DefaultFiles["sha256"]]})

\* The sha256 of a download, where the release has one.
Intact(files) == files["sha256"] \in {{}, files["main"]}

\* The files of a bundle are uploaded in the order of their names.
Place == [output1 |-> 1, main |-> 2, sha256 |-> 3]
FirstByName(left) == {f \in left : \A g \in left : Place[f] <= Place[g]}
-----------------------------------------------------------------------------
(***************************************************************************)
(* Runs.                                                                   *)
(***************************************************************************)
NoRun == [kind |-> "none", tag |-> 0,
          base |-> [current |-> NoEntry, delta |-> NoEntry, history |-> {}],
          stale |-> FALSE, step |-> "none", silver |-> {}, files |-> NoFiles, left |-> {}]

FirstStep(kind) == CASE kind = "refresh"                 -> "sync"
                     [] kind = "from_latest"            -> "fetch"
                     [] kind \in {"bootstrap", "delta"} -> "create"

NewRun(kind, tag, files) ==
  [kind |-> kind, tag |-> tag, base |-> manifest, stale |-> FALSE,
   step |-> FirstStep(kind), silver |-> {}, files |-> files, left |-> Present(files)]

\* The concurrency group, cancel-in-progress: false.
Submit(run) == IF job = NoRun THEN job' = run /\ UNCHANGED queue
                              ELSE queue' = run /\ UNCHANGED job

\* The checkout of a run that is under way or waits falls behind main.
Behind(run) == [run EXCEPT !.stale = run # NoRun]
Hand(run)   == job' = run /\ queue' = NoRun

Init ==
  /\ today = 1 /\ minted = 1 /\ newest = 1
  /\ releases = [t \in Tags |->
       IF t = 1 THEN [type |-> "snapshot", files |-> DefaultFiles]
                ELSE [type |-> "none", files |-> NoFiles]]
  /\ manifest = [current |-> [tag |-> 1, sha |-> DefaultFiles["main"]],
                 delta |-> NoEntry, history |-> {1}]
  /\ job = NoRun /\ queue = NoRun /\ failed = NoRun

\* Another trading day closes.
Tick ==
  /\ today < LastDay /\ today' = today + 1
  /\ UNCHANGED <<minted, siteVars, manifest, job, queue, failed>>

\* The schedule, or an operator: the refresh or the weekly audit.
Trigger ==
  /\ "refresh" \in Workflows /\ Submit(NewRun("refresh", 0, NoFiles))
  /\ UNCHANGED <<worldVars, siteVars, manifest, failed>>

\* An operator makes a tag; from_latest takes the files of the newest release,
\* the other two what the host has staged of the days in its silver.
Dispatch ==
  /\ minted < MaxTags /\ minted' = minted + 1
  /\ \/ "from_latest" \in Workflows /\ Submit(NewRun("from_latest", minted', NoFiles))
     \/ /\ "bootstrap" \in Workflows
        /\ \E d \in 1 .. today : \E files \in StagedFiles(1 .. d) :
             Submit(NewRun("bootstrap", minted', files))
     \/ /\ "delta" \in Workflows
        /\ \E d \in 1 .. today : Submit(NewRun("delta", minted', DeltaFiles(d .. today)))
  /\ UNCHANGED <<today, siteVars, manifest, failed>>

\* The operator dispatches a failed publication again, under the same tag.
Redispatch ==
  /\ failed # NoRun
  /\ Submit(NewRun(failed.kind, failed.tag, failed.files))
  /\ failed' = NoRun
  /\ UNCHANGED <<worldVars, siteVars, manifest>>
-----------------------------------------------------------------------------
(***************************************************************************)
(* The steps of a run.                                                     *)
(***************************************************************************)
\* resolve_default_tag: the newer of the manifest's and the newest release.
DefaultTag(base) == IF newest > base.current.tag THEN newest ELSE base.current.tag

\* sync_silver_from_github_release, into the empty silver of the runner.  An
\* operator may have named another release.
SyncBase ==
  /\ job.step = "sync"
  /\ \E t \in {DefaultTag(job.base)} \cup Published :
       /\ Main(t) # {} /\ Intact(releases[t].files)
       /\ job' = [job EXCEPT !.silver = Main(t), !.step = "collect"]
  /\ UNCHANGED <<worldVars, siteVars, manifest, queue, failed>>

\* Slip: the window starts a day late.
DailyStartLate(silver) == IF Max(silver) < today THEN Max(silver) + 2 ELSE today

\* The first day that is collected: DailyCollection has both jobs in detail.
DailyStart(silver) == IF Max(silver) < today THEN Max(silver) + 1 ELSE today
AuditStart         == today - AuditDays + 1

\* The collection of the refresh or of the audit, full_snapshot_job, which makes
\* the tag, and validate_snapshot.
CollectAndBuild ==
  /\ job.step = "collect" /\ minted < MaxTags
  /\ \E start \in {DailyStart(job.silver), AuditStart} :
       LET silver == job.silver \cup {d \in 1 .. today : start <= d} IN
         /\ Max(silver) = today
         /\ job' = [job EXCEPT !.silver = silver, !.tag = minted + 1, !.files = Bundle(silver),
                               !.left = Assets, !.step = "create"]
  /\ minted' = minted + 1
  /\ UNCHANGED <<today, siteVars, manifest, queue, failed>>

\* from_latest: without a sha256 file the manifest's hash is expected.
Expected(files, base) ==
  IF files["sha256"] # {} THEN files["sha256"] ELSE base.current.sha

FetchLatest ==
  /\ job.step = "fetch"
  /\ LET files == releases[newest].files IN
       /\ files["main"] # {} /\ files["main"] = Expected(files, job.base)
       /\ job' = [job EXCEPT !.files = files, !.left = Present(files), !.step = "create"]
  /\ UNCHANGED <<worldVars, siteVars, manifest, queue, failed>>

\* gh release create, unless the tag has one; it is visible at once.
CreateRelease ==
  /\ job.step = "create"
  /\ IF Exists(job.tag) THEN UNCHANGED siteVars
     ELSE /\ releases' = [releases EXCEPT ![job.tag] = [type |-> TypeOf(job.kind), files |-> NoFiles]]
          /\ newest' = job.tag
  /\ job' = [job EXCEPT !.step = "upload"]
  /\ UNCHANGED <<worldVars, manifest, queue, failed>>

Put(t, f, rows) == [releases EXCEPT ![t].files[f] = rows]

\* gh release upload --clobber, one file after the other.
UploadAsset ==
  /\ job.step = "upload"
  /\ \E f \in FirstByName(job.left) :
       /\ releases' = Put(job.tag, f, job.files[f])
       /\ job' = [job EXCEPT !.left = job.left \ {f}]
  /\ UNCHANGED <<worldVars, newest, manifest, queue, failed>>

\* update_manifest_payload.
Updated(base, run) ==
  LET entry == [tag |-> run.tag, sha |-> run.files["main"]]
      named == [base EXCEPT !.history = base.history \cup {run.tag}]
  IN IF TypeOf(run.kind) = "delta" THEN [named EXCEPT !.delta = entry]
                                   ELSE [named EXCEPT !.current = entry]

\* Slips: git push --force, and a manifest that is pushed before the sha256.
PushForced(run)    == TRUE
AlmostUploaded(run) == run.left \subseteq {"main", "sha256"}

FastForward(run) == ~run.stale
Uploaded(run)    == run.left = {}

\* The manifest is written, committed and pushed.
PushManifest ==
  /\ job.step = "upload" /\ Uploaded(job) /\ FastForward(job)
  /\ manifest' = Updated(job.base, job)
  /\ Hand(Behind(queue))
  /\ UNCHANGED <<worldVars, siteVars, failed>>

\* What an operator has to give again.
Repeatable(run) ==
  IF run.kind \in {"from_latest", "bootstrap", "delta"}
  THEN [NoRun EXCEPT !.kind = run.kind, !.tag = run.tag,
                     !.files = IF run.kind = "from_latest" THEN NoFiles ELSE run.files]
  ELSE failed

\* A step fails, or the push is refused.  In the middle of an upload the file
\* that was to be replaced may be gone.
Fail ==
  /\ job # NoRun
  /\ \/ UNCHANGED releases
     \/ /\ job.step = "upload"
        /\ \E f \in FirstByName(job.left) : releases' = Put(job.tag, f, {})
  /\ failed' = Repeatable(job)
  /\ Hand(queue)
  /\ UNCHANGED <<worldVars, newest, manifest>>

RunStep == SyncBase \/ CollectAndBuild \/ FetchLatest \/ CreateRelease \/ UploadAsset \/ PushManifest
Next == Tick \/ Trigger \/ Dispatch \/ Redispatch \/ RunStep \/ Fail
Spec == Init /\ [][Next]_vars
-----------------------------------------------------------------------------
TypeOK ==
  /\ today \in Days /\ minted \in Tags /\ newest \in Tags
  /\ releases \in [Tags -> Releases]
  /\ manifest \in Manifests
  /\ job \in Runs /\ queue \in Runs /\ failed \in Runs

Named == {manifest.current, manifest.delta} \ {NoEntry}

\* What the manifest names as current, or as the latest delta, is a release
\* whose parquet is there and has the recorded hash: whatever failed before or
\* fails later, in whatever order runs were triggered, and when they repeat.
ManifestBacked == \A e \in Named : Exists(e.tag) /\ e.sha # {} /\ Main(e.tag) = e.sha

\* The current release is one a base synchronisation and a consumer accept: the
\* sha256 file beside its parquet is of that parquet.
CurrentVerifies == Intact(releases[manifest.current.tag].files)

\* No push undoes another: a tag the manifest has recorded stays recorded.
HistoryKept == [][manifest.history \subseteq manifest'.history]_vars

\* As long as no delta was published, and the audit looks back as far as any
\* outage lasts, every snapshot has all days up to its last: after failed
\* runs, refused pushes and half uploaded releases too.
NoDelta == \A t \in Tags : releases[t].type # "delta"
SnapshotsWhole ==
  NoDelta /\ AuditDays >= LastDay =>
    \A t \in Published : Main(t) = {} \/ Main(t) = 1 .. Max(Main(t))
=============================================================================
