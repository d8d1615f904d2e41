------------------------- MODULE ConsumerSync_proofs -------------------------
(***************************************************************************)
(* What holds of the publication of the dataset and of its consumers for   *)
(* every calendar, every number of tags and every set of workflows.        *)
(*                                                                         *)
(* First the releases: type correctness, that the manifest names only what *)
(* was uploaded, that no push undoes another, and that snapshots have no   *)
(* hole while no delta is published.  Then a consumer, wherever it dies:   *)
(* its bars are those of recorded releases, and the release it has         *)
(* recorded is stored.                                                     *)
(***************************************************************************)
EXTENDS ConsumerSync, TLAPS

AllRuns == {job, queue, failed}

\* Tags are made once: what has a tag came before the next one is made.
TagsMinted ==
  /\ \A t \in Tags : Exists(t) => t <= minted
  /\ \A run \in AllRuns : run.tag <= minted

\* A run under way, one that waits and one that failed are publications of
\* different tags, none of which the manifest has recorded.
TagsApart ==
  /\ \A run \in AllRuns : run.tag \notin manifest.history
  /\ job.tag # 0 => job.tag # queue.tag /\ job.tag # failed.tag
  /\ queue.tag # 0 => queue.tag # failed.tag

\* The checkout of a run is main, unless it knows that it is behind.
CheckoutsKnown ==
  \A run \in {job, queue} : run.kind # "none" /\ ~run.stale => run.base = manifest

\* A publication that can be started has a tag and something to publish.
Prepared(run) ==
  /\ run.kind \in {"from_latest", "bootstrap", "delta"} => run.tag # 0
  /\ run.kind \in {"bootstrap", "delta"} => run.files["main"] # {}

NotStarted(run) ==
  /\ Prepared(run)
  /\ run.kind \in {"bootstrap", "delta"} => run.left = Present(run.files)
  /\ run.step = IF run.kind = "none" THEN "none" ELSE FirstStep(run.kind)

WaitingPrepared ==
  /\ NotStarted(queue)
  /\ Prepared(failed) /\ failed.kind # "refresh" /\ (failed.kind = "none" => failed = NoRun)

\* How far the run under way has come.
JobOnItsWay ==
  /\ Prepared(job)
  /\ job.kind = "none" => job.step = "none"
  /\ job.step = "collect" => job.silver # {}
  /\ job.step = "fetch" => job.kind = "from_latest"
  /\ job.step \in {"create", "upload"} => job.tag # 0 /\ job.files["main"] # {}
  /\ job.step = "create" => "main" \in job.left
  /\ job.step = "upload" => /\ Exists(job.tag)
                            /\ "main" \notin job.left => Main(job.tag) = job.files["main"]

\* What the manifest has recorded is there.
RecordsBacked ==
  /\ manifest.current.tag # 0
  /\ manifest.delta.tag = 0 => manifest.delta = NoEntry
  /\ \A e \in {manifest.current, manifest.delta} :
       e.tag # 0 => e.tag \in manifest.history /\ e.sha # {} /\ Main(e.tag) = e.sha
  /\ \A t \in manifest.history : Exists(t) /\ Main(t) # {}

ReleaseInv ==
  /\ TypeOK
  /\ TagsMinted /\ TagsApart /\ CheckoutsKnown /\ WaitingPrepared /\ JobOnItsWay
  /\ RecordsBacked
-----------------------------------------------------------------------------
(***************************************************************************)
(* Files and runs.                                                         *)
(***************************************************************************)
\* Days are rows, and the days of a range are.
LEMMA DaysAreRows == Days \subseteq Rows /\ 0 \in Rows /\ 1 \in Days /\ 1 \in Tags
BY ReleaseAssumption DEF Days, Rows, Tags

\* A bundle is a set of files whose main file has the days.
LEMMA BundleTyped ==
  ASSUME NEW days \in SUBSET Rows
  PROVE  /\ Bundle(days) \in Bundles
         /\ Bundle(days)["main"] = days /\ Bundle(days)["output1"] = {0}
         /\ Bundle(days)["sha256"] = days
BY DaysAreRows DEF Bundle, Bundles, Assets

LEMMA NoFilesTyped == NoFiles \in Bundles /\ \A f \in Assets : NoFiles[f] = {}
BY DEF NoFiles, Bundles

LEMMA DeltaTyped ==
  ASSUME NEW days \in SUBSET Rows
  PROVE  DeltaFiles(days) \in Bundles /\ DeltaFiles(days)["main"] = days
BY NoFilesTyped DEF DeltaFiles, Bundles, Assets

\* What a bootstrap finds is a bundle with the days staged.
LEMMA StagedTyped ==
  ASSUME NEW days \in SUBSET Rows, NEW files \in StagedFiles(days)
  PROVE  files \in Bundles /\ files["main"] = days /\ files["output1"] = {0}
<1>1. Bundle({1}) \in Bundles
  BY BundleTyped, DaysAreRows
<1>2. DefaultFiles["sha256"] \in SUBSET Rows
  BY <1>1 DEF DefaultFiles, Bundles, Assets
<1>3. CASE files = Bundle(days)
  BY <1>3, BundleTyped
<1>4. CASE files = [Bundle(days) EXCEPT !["sha256"] = DefaultFiles["sha256"]]
  BY <1>2, <1>4, BundleTyped DEF Bundles, Assets
<1>. QED  BY <1>3, <1>4 DEF StagedFiles

LEMMA NoRunTyped ==
  /\ NoRun \in Runs /\ NoRun.kind = "none" /\ NoRun.tag = 0 /\ NotStarted(NoRun)
  /\ NoRun.files = NoFiles
BY NoFilesTyped, ReleaseAssumption
DEF NoRun, Runs, Manifests, Entries, NoEntry, Steps, NotStarted, Prepared

\* A new run has the manifest of main and has not started.
LEMMA NewRunTyped ==
  ASSUME manifest \in Manifests, NEW kind \in Kinds, NEW tag \in 0 .. MaxTags, NEW files \in Bundles
  PROVE  /\ NewRun(kind, tag, files) \in Runs
         /\ NewRun(kind, tag, files).kind = kind /\ NewRun(kind, tag, files).tag = tag
         /\ NewRun(kind, tag, files).files = files /\ NewRun(kind, tag, files).base = manifest
         /\ NewRun(kind, tag, files).left = Present(files)
         /\ NewRun(kind, tag, files).step = FirstStep(kind)
<1>1. FirstStep(kind) \in Steps
  BY DEF FirstStep, Kinds, Steps
<1>2. Present(files) \in SUBSET Assets
  BY DEF Present
<1>. QED  BY <1>1, <1>2 DEF NewRun, Runs, Kinds
-----------------------------------------------------------------------------
(***************************************************************************)
(* Types.                                                                  *)
(***************************************************************************)
\* Submit changes one of the two runs, to the given one.
LEMMA SubmitTyped ==
  ASSUME job \in Runs, queue \in Runs, NEW run \in Runs, Submit(run)
  PROVE  job' \in Runs /\ queue' \in Runs
BY DEF Submit

LEMMA PutTyped ==
  ASSUME releases \in [Tags -> Releases], NEW t, NEW f \in Assets, NEW rows \in SUBSET Rows
  PROVE  Put(t, f, rows) \in [Tags -> Releases]
<1>1. ASSUME NEW u \in Tags
      PROVE  [releases[u] EXCEPT !.files[f] = rows] \in Releases
  BY DEF Releases, Bundles
<1>. QED  BY <1>1 DEF Put

\* What changes main: the entry of the run, and its tag in the history.
LEMMA UpdatedTyped ==
  ASSUME NEW base \in Manifests, NEW run \in Runs, run.tag # 0
  PROVE  /\ Updated(base, run) \in Manifests
         /\ Updated(base, run).history = base.history \cup {run.tag}
         /\ Updated(base, run).current
              \in {base.current, [tag |-> run.tag, sha |-> run.files["main"]]}
         /\ Updated(base, run).delta
              \in {base.delta, [tag |-> run.tag, sha |-> run.files["main"]]}
<1> DEFINE entry == [tag |-> run.tag, sha |-> run.files["main"]]
           named == [base EXCEPT !.history = base.history \cup {run.tag}]
<1>1. run.tag \in Tags /\ run.files["main"] \in SUBSET Rows
  BY ReleaseAssumption DEF Runs, Bundles, Assets, Tags
<1>2. entry \in Entries
  BY <1>1, ReleaseAssumption DEF Entries, Tags
<1>3. named \in Manifests /\ named.history = base.history \cup {run.tag}
      /\ named.current = base.current /\ named.delta = base.delta
  BY <1>1 DEF Manifests
<1>4. Updated(base, run) \in {[named EXCEPT !.delta = entry], [named EXCEPT !.current = entry]}
  BY DEF Updated
<1>. HIDE DEF entry, named
<1>5. CASE Updated(base, run) = [named EXCEPT !.delta = entry]
  BY <1>2, <1>3, <1>5 DEF Manifests, entry
<1>6. CASE Updated(base, run) = [named EXCEPT !.current = entry]
  BY <1>2, <1>3, <1>6 DEF Manifests, entry
<1>. QED  BY <1>4, <1>5, <1>6

LEMMA RepeatableTyped ==
  ASSUME failed \in Runs, NEW run \in Runs
  PROVE  /\ Repeatable(run) \in Runs
         /\ \/ Repeatable(run) = failed
            \/ /\ run.kind \in {"from_latest", "bootstrap", "delta"}
               /\ Repeatable(run).kind = run.kind /\ Repeatable(run).tag = run.tag
               /\ Repeatable(run).files
                    = IF run.kind = "from_latest" THEN NoFiles ELSE run.files
<1> DEFINE files == IF run.kind = "from_latest" THEN NoFiles ELSE run.files
<1>1. files \in Bundles /\ run.tag \in 0 .. MaxTags /\ run.kind \in Kinds \cup {"none"}
  BY NoFilesTyped DEF Runs
<1>. HIDE DEF files
<1>2. [NoRun EXCEPT !.kind = run.kind, !.tag = run.tag, !.files = files] \in Runs
  BY <1>1, NoRunTyped DEF Runs
<1>3. CASE run.kind \in {"from_latest", "bootstrap", "delta"}
  <2>1. Repeatable(run) = [NoRun EXCEPT !.kind = run.kind, !.tag = run.tag, !.files = files]
    BY <1>3 DEF Repeatable, files
  <2>2. /\ Repeatable(run).kind = run.kind /\ Repeatable(run).tag = run.tag
        /\ Repeatable(run).files = files
    BY <2>1, <1>1, NoRunTyped DEF Runs
  <2>. QED  BY <1>2, <1>3, <2>1, <2>2 DEF files
<1>4. CASE ~(run.kind \in {"from_latest", "bootstrap", "delta"})
  BY <1>4 DEF Repeatable
<1>. QED  BY <1>3, <1>4

LEMMA BehindTyped ==
  ASSUME NEW run \in Runs
  PROVE  /\ Behind(run) \in Runs
         /\ \A x \in {"kind", "tag", "base", "step", "silver", "files", "left"} :
              Behind(run)[x] = run[x]
         /\ Behind(run).stale = (run # NoRun)
BY DEF Behind, Runs

LEMMA InitTyped == Init => TypeOK
<1> SUFFICES ASSUME Init PROVE TypeOK
  OBVIOUS
<1>1. 1 \in Days /\ 1 \in Tags /\ {1} \in SUBSET Rows
  BY DaysAreRows
<1>2. DefaultFiles \in Bundles /\ NoFiles \in Bundles
  BY <1>1, BundleTyped, NoFilesTyped DEF DefaultFiles
<1>3. DefaultFiles["main"] \in SUBSET Rows
  BY <1>2 DEF Bundles, Assets
<1>4. manifest \in Manifests
  <2>1. [tag |-> 1, sha |-> DefaultFiles["main"]] \in Entries /\ NoEntry \in Entries
    BY <1>1, <1>3, ReleaseAssumption DEF Entries, NoEntry, Tags
  <2>. QED  BY <1>1, <2>1 DEF Init, Manifests
<1>5. releases \in [Tags -> Releases]
  BY <1>2 DEF Init, Releases
<1>. QED  BY <1>1, <1>4, <1>5, NoRunTyped DEF Init, TypeOK

\* A step under way changes its run in one or two of its parts.
LEMMA TypesKept ==
  ASSUME TypeOK, WaitingPrepared, JobOnItsWay, Next
  PROVE  TypeOK'
<1>1. job \in Runs /\ queue \in Runs /\ failed \in Runs /\ manifest \in Manifests
      /\ releases \in [Tags -> Releases] /\ today \in Days /\ minted \in Tags /\ newest \in Tags
  BY DEF TypeOK
<1>2. ASSUME NEW t \in Tags
      PROVE  releases[t].files \in Bundles /\ Main(t) \in SUBSET Rows
  BY <1>1 DEF Releases, Bundles, Main, Assets
<1>3. job.files \in Bundles /\ job.left \in SUBSET Assets /\ job.tag \in 0 .. MaxTags
  BY <1>1 DEF Runs
<1>4. CASE Tick
  BY <1>1, <1>4, ReleaseAssumption DEF Tick, TypeOK, siteVars, Days
<1>5. CASE Trigger
  <2>1. NewRun("refresh", 0, NoFiles) \in Runs
    BY <1>1, NewRunTyped, NoFilesTyped, ReleaseAssumption DEF Kinds
  <2>. QED  BY <1>1, <1>5, <2>1, SubmitTyped DEF Trigger, TypeOK, siteVars, worldVars
<1>6. CASE Dispatch
  <2>1. minted' \in Tags /\ minted' \in 0 .. MaxTags
    BY <1>1, <1>6, ReleaseAssumption DEF Dispatch, Tags
  <2>2. \E kind \in Kinds : \E files \in Bundles : Submit(NewRun(kind, minted', files))
    <3>1. CASE Submit(NewRun("from_latest", minted', NoFiles))
      BY <3>1, NoFilesTyped DEF Kinds
    <3>2. ASSUME NEW d \in 1 .. today, NEW files \in StagedFiles(1 .. d),
                 Submit(NewRun("bootstrap", minted', files))
          PROVE  files \in Bundles
      <4>1. 1 .. d \in SUBSET Rows
        BY <1>1, ReleaseAssumption DEF Days, Rows
      <4>. QED  BY <4>1, StagedTyped
    <3>3. ASSUME NEW d \in 1 .. today
          PROVE  DeltaFiles(d .. today) \in Bundles
      <4>1. d .. today \in SUBSET Rows
        BY <1>1, ReleaseAssumption DEF Days, Rows
      <4>. QED  BY <4>1, DeltaTyped
    <3>. QED  BY <1>6, <3>1, <3>2, <3>3 DEF Dispatch, Kinds
  <2>3. PICK kind \in Kinds : \E files \in Bundles : Submit(NewRun(kind, minted', files))
    BY <2>2
  <2>4. PICK files \in Bundles : Submit(NewRun(kind, minted', files))
    BY <2>3
  <2>5. NewRun(kind, minted', files) \in Runs
    BY <1>1, <2>1, NewRunTyped
  <2>. QED  BY <1>1, <1>6, <2>1, <2>4, <2>5, SubmitTyped DEF Dispatch, TypeOK, siteVars
<1>7. CASE Redispatch
  <2>1. failed.kind \in Kinds /\ failed.files \in Bundles /\ failed.tag \in 0 .. MaxTags
    BY <1>1, <1>7 DEF Redispatch, WaitingPrepared, Runs
  <2>2. NewRun(failed.kind, failed.tag, failed.files) \in Runs
    BY <1>1, <2>1, NewRunTyped
  <2>. QED
    BY <1>1, <1>7, <2>2, NoRunTyped, SubmitTyped DEF Redispatch, TypeOK, siteVars, worldVars
<1>8. CASE SyncBase
  <2>1. PICK t \in {DefaultTag(job.base)} \cup Published :
          /\ Main(t) # {}
          /\ job' = [job EXCEPT !.silver = Main(t), !.step = "collect"]
    BY <1>8 DEF SyncBase
  <2>2. t \in Tags
    <3>1. job.base.current.tag \in 0 .. MaxTags
      BY <1>1 DEF Runs, Manifests, Entries
    <3>2. job.base.current.tag # 0 \/ t \in Tags
      <4>1. newest > 0
        BY <1>1, ReleaseAssumption DEF Tags
      <4>. QED  BY <1>1, <4>1 DEF DefaultTag, Published
    <3>. QED  BY <1>1, <3>1, <3>2, ReleaseAssumption DEF DefaultTag, Published, Tags
  <2>3. job' \in Runs
    BY <1>1, <1>2, <2>1, <2>2 DEF Runs, Steps
  <2>. QED  BY <1>1, <1>8, <2>3 DEF SyncBase, TypeOK, siteVars, worldVars
<1>9. CASE CollectAndBuild
  <2>1. PICK start \in {DailyStart(job.silver), AuditStart} :
          job' = [job EXCEPT
                    !.silver = job.silver \cup {d \in 1 .. today : start <= d}, !.tag = minted + 1,
                    !.files = Bundle(job.silver \cup {d \in 1 .. today : start <= d}),
                    !.left = Assets, !.step = "create"]
    BY <1>9 DEF CollectAndBuild
  <2>2. minted' \in Tags /\ minted + 1 \in 0 .. MaxTags
    <3>1. minted < MaxTags /\ minted' = minted + 1
      BY <1>9 DEF CollectAndBuild
    <3>. QED  BY <1>1, <3>1, ReleaseAssumption DEF Tags
  <2> DEFINE silver == job.silver \cup {d \in 1 .. today : start <= d}
  <2>3. silver \in SUBSET Rows
    BY <1>1, ReleaseAssumption DEF Runs, Rows, Days
  <2>. HIDE DEF silver
  <2>4. Bundle(silver) \in Bundles
    BY <2>3, BundleTyped
  <2>5. job' = [job EXCEPT !.silver = silver, !.tag = minted + 1, !.files = Bundle(silver),
                           !.left = Assets, !.step = "create"]
    BY <2>1 DEF silver
  <2>6. job' \in Runs
    BY <1>1, <2>2, <2>3, <2>4, <2>5 DEF Runs, Steps
  <2>. QED  BY <1>1, <1>9, <2>2, <2>6 DEF CollectAndBuild, TypeOK, siteVars
<1>10. CASE FetchLatest
  <2>1. job' = [job EXCEPT !.files = releases[newest].files,
                           !.left = Present(releases[newest].files), !.step = "create"]
    BY <1>10 DEF FetchLatest
  <2>2. Present(releases[newest].files) \in SUBSET Assets
    BY DEF Present
  <2>3. job' \in Runs
    BY <1>1, <1>2, <2>1, <2>2 DEF Runs, Steps
  <2>. QED  BY <1>1, <1>10, <2>3 DEF FetchLatest, TypeOK, siteVars, worldVars
<1>11. CASE CreateRelease
  <2>1. job' \in Runs
    BY <1>1, <1>11 DEF CreateRelease, Runs, Steps
  <2>2. job.tag \in Tags
    BY <1>3, <1>11, ReleaseAssumption DEF CreateRelease, JobOnItsWay, Tags
  <2>3. releases' \in [Tags -> Releases] /\ newest' \in Tags
    <3>1. [type |-> TypeOf(job.kind), files |-> NoFiles] \in Releases
      BY NoFilesTyped DEF TypeOf, Releases
    <3>. QED  BY <1>1, <1>11, <2>2, <3>1 DEF CreateRelease, siteVars
  <2>. QED  BY <1>1, <1>11, <2>1, <2>3 DEF CreateRelease, TypeOK, worldVars
<1>12. CASE UploadAsset
  <2>1. PICK f \in FirstByName(job.left) : /\ releases' = Put(job.tag, f, job.files[f])
                                          /\ job' = [job EXCEPT !.left = job.left \ {f}]
    BY <1>12 DEF UploadAsset
  <2>2. f \in Assets /\ job.files[f] \in SUBSET Rows
    BY <1>3, <2>1 DEF FirstByName, Bundles
  <2>3. job' \in Runs
    BY <1>1, <2>1 DEF Runs
  <2>. QED  BY <1>1, <1>12, <2>1, <2>2, <2>3, PutTyped DEF UploadAsset, TypeOK, worldVars
<1>13. CASE PushManifest
  <2>1. job.tag # 0
    BY <1>13 DEF PushManifest, JobOnItsWay
  <2>2. manifest' \in Manifests
    BY <1>1, <1>13, <2>1, UpdatedTyped DEF PushManifest, Runs
  <2>. QED
    BY <1>1, <1>13, <2>2, BehindTyped, NoRunTyped DEF PushManifest, Hand, TypeOK, siteVars, worldVars
<1>14. CASE Fail
  <2>1. releases' \in [Tags -> Releases]
    <3>1. ASSUME NEW f \in FirstByName(job.left)  PROVE Put(job.tag, f, {}) \in [Tags -> Releases]
      <4>1. f \in Assets
        BY <1>3 DEF FirstByName
      <4>. QED  BY <1>1, <4>1, PutTyped
    <3>. QED  BY <1>1, <1>14, <3>1 DEF Fail
  <2>2. failed' \in Runs /\ job' \in Runs /\ queue' \in Runs
    BY <1>1, <1>14, RepeatableTyped, NoRunTyped DEF Fail, Hand
  <2>. QED  BY <1>1, <1>14, <2>1, <2>2 DEF Fail, TypeOK, worldVars
<1>. QED
  BY <1>4, <1>5, <1>6, <1>7, <1>8, <1>9, <1>10, <1>11, <1>12, <1>13, <1>14 DEF Next, RunStep
-----------------------------------------------------------------------------
(***************************************************************************)
(* The invariant of runs, releases and manifest.                           *)
(***************************************************************************)
LEMMA NewRunStarts ==
  ASSUME manifest \in Manifests, NEW kind \in Kinds, NEW tag \in 0 .. MaxTags, NEW files \in Bundles,
         kind \in {"from_latest", "bootstrap", "delta"} => tag # 0,
         kind \in {"bootstrap", "delta"} => files["main"] # {}
  PROVE  NotStarted(NewRun(kind, tag, files))
<1>1. kind # "none"
  BY DEF Kinds
<1>. QED  BY <1>1, NewRunTyped DEF NotStarted, Prepared

\* A run that has not started is on its way once it executes.
LEMMA StartsOnItsWay ==
  ASSUME NEW run \in Runs, NotStarted(run), job' = run
  PROVE  JobOnItsWay'
<1>1. run.kind \in Kinds \cup {"none"}
  BY DEF Runs
<1>2. run.step \in {"none", "sync", "fetch", "create"}
  BY <1>1 DEF NotStarted, FirstStep, Kinds
<1>3. /\ run.step = "fetch" => run.kind = "from_latest"
      /\ run.step = "create" => run.kind \in {"bootstrap", "delta"}
  BY <1>1 DEF NotStarted, FirstStep, Kinds
<1>4. run.step = "create" => run.tag # 0 /\ run.files["main"] # {} /\ "main" \in run.left
  BY <1>3 DEF NotStarted, Prepared, Present, Assets
<1>. QED  BY <1>2, <1>3, <1>4 DEF JobOnItsWay, NotStarted, Prepared

\* What no step but the writing of a release and of the manifest touches.
LEMMA RecordsUntouched ==
  ASSUME RecordsBacked, UNCHANGED <<releases, manifest>>
  PROVE  RecordsBacked'
BY DEF RecordsBacked, Exists, Main

\* A dispatch, of a new publication or of one that failed, keeps the invariant.
LEMMA Submitted ==
  ASSUME ReleaseInv, TypeOK', NEW run \in Runs, NotStarted(run), run.kind # "none",
         run.base = manifest, Submit(run), UNCHANGED <<siteVars, manifest>>,
         minted <= minted', run.tag <= minted', run.tag \notin manifest.history,
         failed' \in {failed, NoRun},
         run.tag # 0 => run.tag \notin {job.tag, queue.tag, failed'.tag}
  PROVE  ReleaseInv'
<1>1. TypeOK /\ minted \in Int /\ minted' \in Int /\ \A r \in AllRuns : r \in Runs /\ r.tag \in Int
  BY DEF ReleaseInv, TypeOK, AllRuns, Tags, Runs
<1>2. manifest \in Manifests /\ manifest.history \subseteq Tags /\ 0 \notin Tags
  BY <1>1, ReleaseAssumption DEF TypeOK, Manifests, Tags
<1>3. /\ \A t \in Tags : Exists(t)' => t <= minted'
      /\ \A r \in {run, job, queue, failed, NoRun} : r.tag <= minted'
  <2>1. \A t \in Tags : Exists(t)' = Exists(t) /\ t \in Int
    BY DEF siteVars, Exists, Tags
  <2>2. \A r \in {job, queue, failed} : r.tag <= minted
    BY DEF ReleaseInv, TagsMinted, AllRuns
  <2>3. 0 <= minted
    BY <1>1, ReleaseAssumption DEF TypeOK, Tags
  <2>. QED  BY <1>1, <2>1, <2>2, <2>3, NoRunTyped DEF ReleaseInv, TagsMinted, AllRuns
<1>4. CASE job = NoRun /\ job' = run /\ queue' = queue
  <2>1. TagsMinted'
    BY <1>1, <1>4, <1>3 DEF TagsMinted, AllRuns
  <2>2. TagsApart'
    BY <1>2, <1>4, NoRunTyped DEF ReleaseInv, TagsApart, AllRuns
  <2>3. CheckoutsKnown'
    BY <1>4 DEF ReleaseInv, CheckoutsKnown
  <2>4. WaitingPrepared'
    BY <1>4, NoRunTyped DEF ReleaseInv, WaitingPrepared, NotStarted, Prepared
  <2>5. JobOnItsWay'
    BY <1>4, StartsOnItsWay
  <2>. QED  BY <2>1, <2>2, <2>3, <2>4, <2>5, RecordsUntouched DEF ReleaseInv, siteVars
<1>5. CASE queue' = run /\ job' = job
  <2>1. TagsMinted'
    BY <1>1, <1>5, <1>3 DEF TagsMinted, AllRuns
  <2>2. TagsApart'
    BY <1>2, <1>5, NoRunTyped DEF ReleaseInv, TagsApart, AllRuns
  <2>3. CheckoutsKnown'
    BY <1>5 DEF ReleaseInv, CheckoutsKnown
  <2>4. WaitingPrepared'
    BY <1>5, NoRunTyped DEF ReleaseInv, WaitingPrepared, NotStarted, Prepared
  <2>5. JobOnItsWay'
    BY <1>5 DEF ReleaseInv, JobOnItsWay, Prepared, siteVars, Exists, Main
  <2>. QED  BY <2>1, <2>2, <2>3, <2>4, <2>5, RecordsUntouched DEF ReleaseInv, siteVars
<1>. QED  BY <1>4, <1>5 DEF Submit

\* Records stay backed while the releases they name are left alone.
LEMMA RecordsKept ==
  ASSUME RecordsBacked, manifest' = manifest, \A t \in manifest.history : releases'[t] = releases[t]
  PROVE  RecordsBacked'
<1>1. \A t \in manifest.history : Exists(t)' = Exists(t) /\ Main(t)' = Main(t)
  BY DEF Exists, Main
<1>. QED  BY <1>1 DEF RecordsBacked

\* A step of the run under way that leaves main alone keeps the invariant, if
\* the run stays on its way and writes to no release but its own.
LEMMA JobAdvances ==
  ASSUME ReleaseInv, TypeOK', UNCHANGED <<manifest, queue, failed>>, JobOnItsWay',
         job'.kind = job.kind, job'.base = job.base, job'.stale = job.stale,
         \/ minted' = minted /\ job'.tag = job.tag
         \/ minted' = minted + 1 /\ job'.tag = minted',
         \A t \in Tags : t # job.tag => releases'[t] = releases[t]
  PROVE  ReleaseInv'
<1>1. /\ minted \in Int /\ job.tag \in Int /\ queue.tag \in Int /\ failed.tag \in Int
      /\ manifest.history \subseteq Tags /\ 0 \notin Tags /\ Tags \subseteq Int
      /\ minted' \in Tags
  BY ReleaseAssumption DEF ReleaseInv, TypeOK, Runs, Manifests, Tags
<1>2. /\ job.tag <= minted /\ queue.tag <= minted /\ failed.tag <= minted
      /\ job.tag \notin manifest.history /\ queue.tag \notin manifest.history
      /\ failed.tag \notin manifest.history
  BY DEF ReleaseInv, TagsMinted, TagsApart, AllRuns
<1>3. \A t \in manifest.history : t <= minted
  BY <1>1 DEF ReleaseInv, RecordsBacked, TagsMinted
<1>4. TagsMinted'
  <2>1. ASSUME NEW t \in Tags, Exists(t)'  PROVE t <= minted'
    <3>1. CASE t = job.tag
      BY <1>1, <1>2, <3>1
    <3>2. CASE t # job.tag
      <4>1. Exists(t)
        BY <2>1, <3>2 DEF Exists
      <4>. QED  BY <1>1, <4>1 DEF ReleaseInv, TagsMinted
    <3>. QED  BY <3>1, <3>2
  <2>2. \A run \in {job', queue, failed} : run.tag <= minted'
    BY <1>1, <1>2
  <2>. QED  BY <2>1, <2>2 DEF TagsMinted, AllRuns
<1>5. TagsApart'
  <2>1. job'.tag \notin manifest.history
    BY <1>1, <1>2, <1>3
  <2>2. job'.tag # 0 => job'.tag # queue.tag /\ job'.tag # failed.tag
    BY <1>1, <1>2 DEF ReleaseInv, TagsApart
  <2>3. queue.tag # 0 => queue.tag # failed.tag
    BY DEF ReleaseInv, TagsApart
  <2>. QED  BY <1>2, <2>1, <2>2, <2>3 DEF TagsApart, AllRuns
<1>6. CheckoutsKnown' /\ WaitingPrepared'
  BY DEF ReleaseInv, CheckoutsKnown, WaitingPrepared, NotStarted, Prepared
<1>7. RecordsBacked'
  BY <1>1, <1>2, RecordsKept DEF ReleaseInv
<1>. QED  BY <1>4, <1>5, <1>6, <1>7 DEF ReleaseInv

\* When a run ends the one that waited takes its place.
LEMMA HandedOver ==
  ASSUME ReleaseInv, queue' = NoRun, job' \in {queue, Behind(queue)}
  PROVE  /\ JobOnItsWay'
         /\ job'.tag = queue.tag /\ job'.kind = queue.kind /\ job'.base = queue.base
         /\ NotStarted(queue')
<1>1. queue \in Runs /\ NotStarted(queue)
  BY DEF ReleaseInv, TypeOK, WaitingPrepared
<1>2. job' \in Runs
  BY <1>1, BehindTyped
<1>3. \A x \in {"kind", "tag", "base", "step", "silver", "files", "left"} : job'[x] = queue[x]
  BY <1>1, BehindTyped
<1>4. job'.tag = queue.tag /\ job'.kind = queue.kind /\ job'.base = queue.base
      /\ job'.step = queue.step /\ job'.files = queue.files /\ job'.left = queue.left
  BY <1>3
<1>5. NotStarted(job')
  BY <1>1, <1>4 DEF NotStarted, Prepared, Present
<1>. QED  BY <1>2, <1>4, <1>5, StartsOnItsWay, NoRunTyped

\* What is uploaded, or removed by an upload that fails, is a file of the run.
LEMMA OwnRelease ==
  ASSUME TypeOK, JobOnItsWay, NEW f \in FirstByName(job.left), NEW rows \in SUBSET Rows,
         releases' = Put(job.tag, f, rows), job.step = "upload"
  PROVE  /\ job.tag \in Tags /\ f \in Assets
         /\ \A t \in Tags : t # job.tag => releases'[t] = releases[t]
         /\ \A t \in Tags : releases'[t].type = releases[t].type
         /\ releases'[job.tag].files = [releases[job.tag].files EXCEPT ![f] = rows]
<1>1. job.tag \in Tags /\ f \in Assets
  BY ReleaseAssumption DEF TypeOK, Runs, Tags, JobOnItsWay, FirstByName
<1>2. releases \in [Tags -> Releases]
  BY DEF TypeOK
<1>3. releases' = [releases EXCEPT ![job.tag].files[f] = rows]
  BY DEF Put
<1>4. releases'[job.tag] = [releases[job.tag] EXCEPT !.files[f] = rows]
  BY <1>1, <1>2, <1>3
<1>5. releases'[job.tag].type = releases[job.tag].type
      /\ releases'[job.tag].files = [releases[job.tag].files EXCEPT ![f] = rows]
  BY <1>1, <1>2, <1>4 DEF Releases
<1>. QED  BY <1>1, <1>2, <1>3, <1>5

LEMMA InitInv == Init => ReleaseInv
<1> SUFFICES ASSUME Init PROVE ReleaseInv
  OBVIOUS
<1>1. /\ 1 \in Tags /\ 0 \notin Tags /\ Tags \subseteq Int /\ {1} \in SUBSET Rows
  BY DaysAreRows DEF Tags
<1>2. DefaultFiles["main"] = {1}
  BY <1>1, BundleTyped DEF DefaultFiles
<1>3. \A t \in Tags : (Exists(t) <=> t = 1) /\ (t = 1 => Main(t) = {1})
  BY <1>1, <1>2 DEF Init, Exists, Main
<1>4. /\ manifest.current = [tag |-> 1, sha |-> {1}] /\ manifest.delta = NoEntry
      /\ manifest.history = {1}
  BY <1>2 DEF Init
<1>5. RecordsBacked
  BY <1>1, <1>3, <1>4 DEF RecordsBacked, NoEntry
<1>6. TagsMinted /\ TagsApart /\ CheckoutsKnown /\ WaitingPrepared
  BY <1>1, <1>3, <1>4, NoRunTyped
  DEF Init, TagsMinted, TagsApart, CheckoutsKnown, WaitingPrepared, AllRuns, NotStarted
<1>7. JobOnItsWay
  BY NoRunTyped DEF Init, JobOnItsWay, NoRun, NotStarted, Prepared
<1>. QED  BY <1>5, <1>6, <1>7, InitTyped DEF ReleaseInv

\* Every step keeps the invariant.
LEMMA InvKept ==
  ASSUME ReleaseInv, Next
  PROVE  ReleaseInv'
<1>1. TypeOK /\ TypeOK'
  BY TypesKept DEF ReleaseInv
<1>2. /\ job \in Runs /\ queue \in Runs /\ failed \in Runs /\ manifest \in Manifests
      /\ job' \in Runs /\ minted \in Int /\ 0 \in 0 .. MaxTags /\ Tags \subseteq 0 .. MaxTags
      /\ 0 <= minted
  BY <1>1, ReleaseAssumption DEF TypeOK, Tags
<1>3. /\ \A run \in AllRuns : run.tag \in Int /\ run.tag <= minted /\ run.tag \notin manifest.history
      /\ manifest.history \subseteq Tags /\ 0 \notin Tags
      /\ \A t \in manifest.history : t <= minted
  BY <1>2, ReleaseAssumption
  DEF ReleaseInv, TagsMinted, TagsApart, AllRuns, Runs, Manifests, Tags, RecordsBacked
<1>4. CASE Tick
  BY <1>1, <1>4
  DEF Tick, siteVars, ReleaseInv, TagsMinted, TagsApart, CheckoutsKnown, WaitingPrepared, NotStarted,
      Prepared, JobOnItsWay, RecordsBacked, AllRuns, Exists, Main
<1>5. CASE Trigger
  <2> DEFINE run == NewRun("refresh", 0, NoFiles)
  <2>1. "refresh" \in Kinds /\ NoFiles \in Bundles
    BY NoFilesTyped DEF Kinds
  <2>2. run \in Runs /\ run.kind = "refresh" /\ run.tag = 0 /\ run.base = manifest /\ NotStarted(run)
    BY <1>2, <2>1, NewRunTyped, NewRunStarts
  <2>3. Submit(run) /\ UNCHANGED <<minted, siteVars, manifest, failed>>
    BY <1>5 DEF Trigger, worldVars
  <2>. HIDE DEF run
  <2>. QED  BY <1>1, <1>2, <1>3, <2>2, <2>3, Submitted
<1>6. CASE Dispatch
  <2>1. minted' = minted + 1 /\ minted' \in Tags /\ UNCHANGED <<siteVars, manifest, failed>>
    BY <1>1, <1>6 DEF Dispatch, TypeOK
  <2>2. PICK kind \in Kinds : \E files \in Bundles :
          /\ kind \in {"bootstrap", "delta"} => files["main"] # {}
          /\ Submit(NewRun(kind, minted', files))
    <3>1. ASSUME NEW d \in 1 .. today
          PROVE  /\ 1 .. d \in SUBSET Rows /\ 1 .. d # {}
                 /\ d .. today \in SUBSET Rows /\ d .. today # {}
      <4>1. today \in Days
        BY <1>1 DEF TypeOK
      <4>. QED  BY <4>1, ReleaseAssumption DEF Days, Rows
    <3>2. ASSUME NEW d \in 1 .. today, NEW files \in StagedFiles(1 .. d)
          PROVE  files \in Bundles /\ files["main"] # {}
      <4>1. 1 .. d \in SUBSET Rows
        BY <3>1
      <4>2. files \in Bundles /\ files["main"] = 1 .. d
        BY <4>1, StagedTyped
      <4>. QED  BY <3>1, <4>2
    <3>3. ASSUME NEW d \in 1 .. today
          PROVE  DeltaFiles(d .. today) \in Bundles /\ DeltaFiles(d .. today)["main"] # {}
      BY <3>1, DeltaTyped
    <3>4. CASE Submit(NewRun("from_latest", minted', NoFiles))
      BY <3>4, NoFilesTyped DEF Kinds
    <3>5. CASE \E d \in 1 .. today : \E files \in StagedFiles(1 .. d) :
                 Submit(NewRun("bootstrap", minted', files))
      BY <3>2, <3>5 DEF Kinds
    <3>6. CASE \E d \in 1 .. today : Submit(NewRun("delta", minted', DeltaFiles(d .. today)))
      BY <3>3, <3>6 DEF Kinds
    <3>. QED  BY <1>6, <3>4, <3>5, <3>6 DEF Dispatch
  <2>3. PICK files \in Bundles : /\ kind \in {"bootstrap", "delta"} => files["main"] # {}
                                 /\ Submit(NewRun(kind, minted', files))
    BY <2>2
  <2> DEFINE run == NewRun(kind, minted', files)
  <2>4. minted' \in 0 .. MaxTags /\ minted' # 0 /\ kind # "none"
    BY <1>2, <1>3, <2>1 DEF Kinds
  <2>5. run \in Runs /\ run.kind = kind /\ run.tag = minted' /\ run.base = manifest /\ NotStarted(run)
    BY <1>2, <2>3, <2>4, NewRunTyped, NewRunStarts
  <2>6. run.tag \notin manifest.history /\ run.tag \notin {job.tag, queue.tag, failed'.tag}
    BY <1>2, <1>3, <2>1, <2>5 DEF AllRuns
  <2>7. Submit(run)
    BY <2>3
  <2>. HIDE DEF run
  <2>8. minted <= minted' /\ run.tag <= minted'
    BY <1>2, <2>1, <2>5
  <2>. QED  BY <1>1, <2>1, <2>4, <2>5, <2>6, <2>7, <2>8, Submitted
<1>7. CASE Redispatch
  <2> DEFINE run == NewRun(failed.kind, failed.tag, failed.files)
  <2>1. failed.kind \in Kinds /\ failed.files \in Bundles /\ failed.tag \in 0 .. MaxTags
        /\ failed.kind # "none" /\ Prepared(failed)
    BY <1>2, <1>7 DEF Redispatch, ReleaseInv, WaitingPrepared, Runs, Kinds
  <2>2. run \in Runs /\ run.kind = failed.kind /\ run.tag = failed.tag /\ run.base = manifest
        /\ NotStarted(run)
    BY <1>2, <2>1, NewRunTyped, NewRunStarts DEF Prepared
  <2>3. Submit(run) /\ failed' = NoRun /\ UNCHANGED <<minted, siteVars, manifest>>
    BY <1>7 DEF Redispatch, worldVars
  <2>. HIDE DEF run
  <2>4. run.tag # 0 => run.tag \notin {job.tag, queue.tag, failed'.tag}
    BY <2>2, <2>3, NoRunTyped DEF ReleaseInv, TagsApart
  <2>. QED  BY <1>1, <1>2, <1>3, <2>1, <2>2, <2>3, <2>4, Submitted DEF AllRuns
<1>8. CASE SyncBase
  <2>1. PICK t \in {DefaultTag(job.base)} \cup Published :
          Main(t) # {} /\ job' = [job EXCEPT !.silver = Main(t), !.step = "collect"]
    BY <1>8 DEF SyncBase
  <2>2. /\ UNCHANGED <<minted, siteVars, manifest, queue, failed>>
        /\ job'.step = "collect" /\ job'.silver # {}
        /\ \A x \in {"kind", "tag", "base", "stale", "files"} : job'[x] = job[x]
    BY <1>2, <1>8, <2>1 DEF SyncBase, Runs, worldVars
  <2>3. JobOnItsWay'
    BY <2>2, <1>8 DEF JobOnItsWay, Prepared, ReleaseInv, SyncBase
  <2>. QED  BY <1>1, <2>2, <2>3, JobAdvances DEF siteVars
<1>9. CASE CollectAndBuild
  <2>1. PICK silver : /\ job.silver \subseteq silver
                      /\ job' = [job EXCEPT !.silver = silver, !.tag = minted + 1,
                                            !.files = Bundle(silver), !.left = Assets,
                                            !.step = "create"]
    BY <1>9 DEF CollectAndBuild
  <2>2. /\ UNCHANGED <<siteVars, manifest, queue, failed>> /\ minted' = minted + 1
        /\ job.silver # {} /\ job.step = "collect"
    BY <1>9 DEF CollectAndBuild, ReleaseInv, JobOnItsWay
  <2>3. /\ job'.step = "create" /\ job'.tag = minted + 1 /\ job'.left = Assets
        /\ job'.silver = silver /\ job'.files = Bundle(silver)
        /\ \A x \in {"kind", "base", "stale"} : job'[x] = job[x]
    BY <1>2, <2>1 DEF Runs
  <2>4. silver \in SUBSET Rows
    BY <1>2, <2>3 DEF Runs
  <2>5. job'.files["main"] # {} /\ job'.tag # 0
    BY <1>2, <2>1, <2>2, <2>3, <2>4, BundleTyped
  <2>6. job.kind # "none"
    BY <2>2 DEF ReleaseInv, JobOnItsWay
  <2>7. JobOnItsWay'
    BY <2>3, <2>5, <2>6 DEF JobOnItsWay, Prepared, Assets
  <2>. QED  BY <1>1, <2>2, <2>3, <2>7, JobAdvances DEF siteVars
<1>10. CASE FetchLatest
  <2> DEFINE files == releases[newest].files
  <2>1. /\ UNCHANGED <<minted, siteVars, manifest, queue, failed>>
        /\ job.step = "fetch" /\ files["main"] # {}
        /\ job' = [job EXCEPT !.files = files, !.left = Present(files), !.step = "create"]
    BY <1>10 DEF FetchLatest, worldVars
  <2>. HIDE DEF files
  <2>2. /\ job'.step = "create" /\ job'.files = files /\ job'.left = Present(files)
        /\ \A x \in {"kind", "tag", "base", "stale"} : job'[x] = job[x]
    BY <1>2, <2>1 DEF Runs
  <2>3. job.kind = "from_latest" /\ job.tag # 0
    BY <2>1 DEF ReleaseInv, JobOnItsWay, Prepared
  <2>4. JobOnItsWay'
    BY <2>1, <2>2, <2>3 DEF JobOnItsWay, Prepared, Present, Assets
  <2>. QED  BY <1>1, <2>1, <2>2, <2>4, JobAdvances DEF siteVars
<1>11. CASE CreateRelease
  <2>1. /\ UNCHANGED <<minted, manifest, queue, failed>>
        /\ job.step = "create" /\ job' = [job EXCEPT !.step = "upload"]
    BY <1>11 DEF CreateRelease, worldVars
  <2>2. /\ job'.step = "upload"
        /\ \A x \in {"kind", "tag", "base", "stale", "files", "left", "silver"} : job'[x] = job[x]
    BY <1>2, <2>1 DEF Runs
  <2>3. job.tag \in Tags /\ "main" \in job.left /\ releases \in [Tags -> Releases]
    BY <1>1, <1>2, <2>1, ReleaseAssumption DEF ReleaseInv, JobOnItsWay, Runs, Tags, TypeOK
  <2>4. /\ \A t \in Tags : t # job.tag => releases'[t] = releases[t]
        /\ releases'[job.tag].type # "none"
    <3>1. CASE Exists(job.tag)
      BY <1>11, <3>1 DEF CreateRelease, siteVars, Exists
    <3>2. CASE ~Exists(job.tag)
      BY <1>11, <2>3, <3>2 DEF CreateRelease, TypeOf
    <3>. QED  BY <3>1, <3>2
  <2>5. JobOnItsWay'
    BY <2>1, <2>2, <2>3, <2>4 DEF JobOnItsWay, Prepared, ReleaseInv, Exists
  <2>. QED  BY <1>1, <2>1, <2>2, <2>4, <2>5, JobAdvances
<1>12. CASE UploadAsset
  <2>1. PICK f \in FirstByName(job.left) : /\ releases' = Put(job.tag, f, job.files[f])
                                          /\ job' = [job EXCEPT !.left = job.left \ {f}]
    BY <1>12 DEF UploadAsset
  <2>2. UNCHANGED <<minted, manifest, queue, failed>> /\ job.step = "upload"
    BY <1>12 DEF UploadAsset, worldVars
  <2>3. f \in Assets /\ job.files[f] \in SUBSET Rows
    BY <1>2, <2>1 DEF FirstByName, Bundles, Runs
  <2>4. /\ job.tag \in Tags
        /\ \A t \in Tags : t # job.tag => releases'[t] = releases[t]
        /\ releases'[job.tag].type = releases[job.tag].type
        /\ releases'[job.tag].files = [releases[job.tag].files EXCEPT ![f] = job.files[f]]
    BY <1>1, <2>1, <2>2, <2>3, OwnRelease DEF ReleaseInv
  <2>5. /\ job'.left = job.left \ {f}
        /\ \A x \in {"kind", "tag", "base", "stale", "files", "step", "silver"} : job'[x] = job[x]
    BY <1>2, <2>1 DEF Runs
  <2>6. "main" \notin job'.left => releases'[job.tag].files["main"] = job.files["main"]
    <3>1. releases[job.tag].files \in Bundles
      BY <1>1, <2>4 DEF TypeOK, Releases
    <3>2. "main" \notin job.left => releases[job.tag].files["main"] = job.files["main"]
      BY <2>2 DEF ReleaseInv, JobOnItsWay, Main
    <3>. QED  BY <2>4, <2>5, <3>1, <3>2 DEF Bundles, Assets
  <2>7. JobOnItsWay'
    BY <2>2, <2>4, <2>5, <2>6 DEF JobOnItsWay, Prepared, ReleaseInv, Exists, Main
  <2>. QED  BY <1>1, <2>2, <2>4, <2>5, <2>7, JobAdvances
<1>13. CASE PushManifest
  <2>1. /\ UNCHANGED <<minted, siteVars, failed>> /\ queue' = NoRun /\ job' = Behind(queue)
        /\ job.step = "upload" /\ job.left = {} /\ ~job.stale
        /\ manifest' = Updated(job.base, job)
    BY <1>13 DEF PushManifest, Hand, Uploaded, FastForward, worldVars
  <2>2. /\ job.kind # "none" /\ job.tag # 0 /\ job.tag \in Tags
        /\ Exists(job.tag) /\ Main(job.tag) = job.files["main"] /\ job.files["main"] # {}
    BY <1>2, <2>1, ReleaseAssumption DEF ReleaseInv, JobOnItsWay, Runs, Tags
  <2>3. job.base = manifest
    BY <2>1, <2>2 DEF ReleaseInv, CheckoutsKnown
  <2> DEFINE entry == [tag |-> job.tag, sha |-> job.files["main"]]
  <2>4. /\ manifest'.history = manifest.history \cup {job.tag}
        /\ manifest'.current \in {manifest.current, entry}
        /\ manifest'.delta \in {manifest.delta, entry}
    BY <1>2, <2>1, <2>2, <2>3, UpdatedTyped
  <2>5. /\ JobOnItsWay' /\ NotStarted(queue')
        /\ job'.tag = queue.tag /\ job'.kind = queue.kind
    BY <2>1, HandedOver
  <2>6. TagsMinted'
    BY <2>1, <2>5, <1>3, <1>2, NoRunTyped DEF TagsMinted, ReleaseInv, AllRuns, siteVars, Exists
  <2>7. TagsApart'
    <3>1. job.tag # queue.tag /\ job.tag # failed.tag
      BY <2>2 DEF ReleaseInv, TagsApart
    <3>2. queue.tag # 0 => queue.tag # failed.tag
      BY DEF ReleaseInv, TagsApart
    <3>. QED  BY <1>3, <2>1, <2>2, <2>4, <2>5, <3>1, <3>2, NoRunTyped DEF TagsApart, AllRuns
  <2>8. CheckoutsKnown'
    BY <1>2, <2>1, <2>5, BehindTyped, NoRunTyped DEF CheckoutsKnown
  <2>9. WaitingPrepared'
    BY <2>1, <2>5 DEF ReleaseInv, WaitingPrepared, Prepared
  <2>10. RecordsBacked'
    <3>1. \A t \in Tags : Exists(t)' = Exists(t) /\ Main(t)' = Main(t)
      BY <2>1 DEF siteVars, Exists, Main
    <3>2. \A t \in manifest'.history : Exists(t)' /\ Main(t)' # {}
      BY <1>3, <2>2, <2>4, <3>1 DEF ReleaseInv, RecordsBacked
    <3>3. entry.tag = job.tag /\ entry.sha = job.files["main"]
      OBVIOUS
    <3>. HIDE DEF entry
    <3>4. \A e \in {manifest.current, manifest.delta, entry} : e.tag # 0 =>
            e.tag \in manifest'.history /\ e.sha # {} /\ Main(e.tag)' = e.sha
      BY <1>3, <2>2, <2>4, <3>1, <3>3 DEF ReleaseInv, RecordsBacked
    <3>5. manifest'.current.tag # 0 /\ (manifest'.delta.tag = 0 => manifest'.delta = NoEntry)
      BY <2>2, <2>4, <3>3 DEF ReleaseInv, RecordsBacked
    <3>. QED  BY <2>4, <3>2, <3>4, <3>5 DEF RecordsBacked
  <2>. QED  BY <1>1, <2>5, <2>6, <2>7, <2>8, <2>9, <2>10 DEF ReleaseInv
<1>14. CASE Fail
  <2>1. /\ UNCHANGED <<minted, manifest>> /\ queue' = NoRun /\ job' = queue
        /\ failed' = Repeatable(job)
    BY <1>14 DEF Fail, Hand, worldVars
  <2>2. JobOnItsWay' /\ NotStarted(queue')
    BY <2>1, HandedOver
  <2>3. /\ \A t \in Tags : t # job.tag => releases'[t] = releases[t]
        /\ \A t \in Tags : releases'[t].type = releases[t].type
    <3>1. ASSUME NEW f \in FirstByName(job.left), releases' = Put(job.tag, f, {}), job.step = "upload"
          PROVE  /\ \A t \in Tags : t # job.tag => releases'[t] = releases[t]
                 /\ \A t \in Tags : releases'[t].type = releases[t].type
      <4>1. {} \in SUBSET Rows /\ JobOnItsWay
        BY DEF ReleaseInv
      <4>. QED  BY <1>1, <3>1, <4>1, OwnRelease
    <3>. QED  BY <1>14, <3>1 DEF Fail
  <2>4. \/ failed' = failed
        \/ failed'.tag = job.tag /\ failed'.kind = job.kind
           /\ job.kind \in {"from_latest", "bootstrap", "delta"}
           /\ failed'.files = IF job.kind = "from_latest" THEN NoFiles ELSE job.files
    BY <1>2, <2>1, RepeatableTyped
  <2>5. TagsMinted'
    BY <1>3, <2>1, <2>3, <2>4, <1>2, NoRunTyped DEF TagsMinted, ReleaseInv, AllRuns, Exists
  <2>6. TagsApart'
    BY <1>3, <2>1, <2>4, NoRunTyped DEF TagsApart, ReleaseInv, AllRuns
  <2>7. CheckoutsKnown'
    BY <2>1, NoRunTyped DEF CheckoutsKnown, ReleaseInv
  <2>8. WaitingPrepared'
    BY <2>1, <2>2, <2>4 DEF ReleaseInv, WaitingPrepared, Prepared, JobOnItsWay
  <2>9. RecordsBacked'
    BY <1>3, <2>1, <2>3, RecordsKept DEF ReleaseInv, AllRuns
  <2>. QED  BY <1>1, <2>2, <2>5, <2>6, <2>7, <2>8, <2>9 DEF ReleaseInv
<1>. QED
  BY <1>4, <1>5, <1>6, <1>7, <1>8, <1>9, <1>10, <1>11, <1>12, <1>13, <1>14 DEF Next, RunStep
-----------------------------------------------------------------------------
(***************************************************************************)
(* Theorems on runs, releases and manifest.                                *)
(***************************************************************************)
LEMMA Stuttered == ASSUME ReleaseInv, UNCHANGED vars PROVE ReleaseInv'
BY DEF vars, worldVars, siteVars, ReleaseInv, TypeOK, TagsMinted, TagsApart, CheckoutsKnown,
       WaitingPrepared, NotStarted, Prepared, JobOnItsWay, RecordsBacked, AllRuns, Exists, Main

\* Releases, manifest and runs are in order at any time, whatever fails.
THEOREM ReleasesInOrder == Spec => []ReleaseInv
<1>1. ReleaseInv /\ [Next]_vars => ReleaseInv'
  BY InvKept, Stuttered
<1>. QED  BY <1>1, InitInv, PTL DEF Spec

\* Types of releases, manifest and runs.
THEOREM TypeCorrect == Spec => []TypeOK
<1>1. ReleaseInv => TypeOK
  BY DEF ReleaseInv
<1>. QED  BY <1>1, ReleasesInOrder, PTL

\* The manifest names only releases whose parquet is there, with its hash.
THEOREM ManifestIsBacked == Spec => []ManifestBacked
<1>1. ReleaseInv => ManifestBacked
  <2>1. ASSUME ReleaseInv, NEW e \in Named  PROVE e.tag # 0
    BY <2>1 DEF ReleaseInv, RecordsBacked, Named
  <2>. QED  BY <2>1 DEF ReleaseInv, RecordsBacked, Named, ManifestBacked
<1>. QED  BY <1>1, ReleasesInOrder, PTL

\* What the manifest has recorded stays recorded: in a step of the workflows.
LEMMA StepKeepsHistory ==
  ASSUME ReleaseInv, Next
  PROVE  manifest.history \subseteq manifest'.history
<1>1. CASE PushManifest
  <2>1. job.base = manifest /\ job.tag # 0 /\ manifest' = Updated(job.base, job)
    BY <1>1
    DEF PushManifest, FastForward, ReleaseInv, JobOnItsWay, CheckoutsKnown
  <2>2. job \in Runs /\ manifest \in Manifests
    BY DEF ReleaseInv, TypeOK
  <2>. QED  BY <2>1, <2>2, UpdatedTyped
<1>2. CASE ~PushManifest
  BY <1>2 DEF Next, RunStep, Tick, Trigger, Dispatch, Redispatch, SyncBase, CollectAndBuild,
              FetchLatest, CreateRelease, UploadAsset, Fail
<1>. QED  BY <1>1, <1>2

\* No push undoes another.
THEOREM NothingUndone == Spec => HistoryKept
<1>1. ReleaseInv /\ [Next]_vars => [manifest.history \subseteq manifest'.history]_vars
  BY StepKeepsHistory
<1>. QED  BY <1>1, ReleasesInOrder, PTL DEF Spec, HistoryKept
-----------------------------------------------------------------------------
(***************************************************************************)
(* Snapshots have no hole: the days 1 .. d are what every base, every      *)
(* staged bundle and every release has, while no delta is published.       *)
(***************************************************************************)
Full(days) == \E d \in Days : days = 1 .. d

\* A tag is of one type, whichever of its runs creates the release.
TypesMatch ==
  \A run \in AllRuns :
    run.tag # 0 /\ Exists(run.tag) => releases[run.tag].type = TypeOf(run.kind)

FullRuns ==
  /\ job.step = "collect" => Full(job.silver)
  /\ job.step \in {"create", "upload"} /\ job.kind # "delta" => Full(job.files["main"])
  /\ \A run \in AllRuns : run.kind = "bootstrap" => Full(run.files["main"])

FullReleases == \A t \in Tags : Main(t) = {} \/ Full(Main(t))

WholeInv ==
  /\ TypesMatch
  /\ NoDelta /\ AuditDays >= LastDay => FullRuns /\ FullReleases

LEMMA MaxOfFirst ==
  ASSUME NEW d \in Days
  PROVE  Max(1 .. d) = d /\ 1 .. d # {} /\ 1 .. d \in SUBSET Rows
<1>1. d \in Int /\ 1 <= d /\ d <= LastDay
  BY ReleaseAssumption DEF Days
<1>2. d \in 1 .. d /\ \A y \in 1 .. d : d >= y
  BY <1>1
<1>3. Max(1 .. d) \in 1 .. d /\ \A y \in 1 .. d : Max(1 .. d) >= y
  BY <1>2 DEF Max
<1>. QED  BY <1>1, <1>2, <1>3, ReleaseAssumption DEF Rows

\* What the refresh or the audit collects upon a full base makes it full again.
LEMMA CollectedIsFull ==
  ASSUME today \in Days, AuditDays >= LastDay, NEW silver, Full(silver),
         NEW start \in {DailyStart(silver), AuditStart}
  PROVE  Full(silver \cup {d \in 1 .. today : start <= d})
<1>1. PICK e \in Days : silver = 1 .. e
  BY DEF Full
<1>2. e \in Int /\ 1 <= e /\ today \in Int /\ 1 <= today /\ today <= LastDay /\ LastDay \in Int
      /\ AuditDays \in Int
  BY ReleaseAssumption DEF Days
<1>3. start <= e + 1 /\ start \in Int /\ (e < today \/ start <= today)
  <2>1. Max(silver) = e
    BY <1>1, MaxOfFirst
  <2>. QED  BY <1>2, <2>1 DEF DailyStart, AuditStart
<1>4. CASE e < today
  <2>1. silver \cup {d \in 1 .. today : start <= d} = 1 .. today
    BY <1>1, <1>2, <1>3, <1>4
  <2>. QED  BY <2>1 DEF Full
<1>5. CASE ~(e < today)
  <2>1. silver \cup {d \in 1 .. today : start <= d} = 1 .. e
    BY <1>1, <1>2, <1>3, <1>5
  <2>. QED  BY <2>1 DEF Full
<1>. QED  BY <1>4, <1>5

\* A release keeps its type.
LEMMA TypesStay ==
  ASSUME ReleaseInv, Next, NEW t \in Tags, Exists(t)
  PROVE  releases'[t].type = releases[t].type
<1>1. TypeOK /\ JobOnItsWay
  BY DEF ReleaseInv
<1>2. CASE CreateRelease
  BY <1>1, <1>2 DEF CreateRelease, siteVars, TypeOK
<1>3. CASE UploadAsset
  <2>1. PICK f \in FirstByName(job.left) : releases' = Put(job.tag, f, job.files[f])
    BY <1>3 DEF UploadAsset
  <2>2. job.files[f] \in SUBSET Rows /\ job.step = "upload"
    BY <1>1, <1>3, <2>1 DEF UploadAsset, TypeOK, Runs, Bundles, FirstByName
  <2>. QED  BY <1>1, <2>1, <2>2, OwnRelease
<1>4. CASE Fail
  <2>1. CASE UNCHANGED releases
    BY <2>1
  <2>2. CASE job.step = "upload" /\ \E f \in FirstByName(job.left) : releases' = Put(job.tag, f, {})
    <3>1. {} \in SUBSET Rows
      OBVIOUS
    <3>. QED  BY <1>1, <2>2, <3>1, OwnRelease
  <2>. QED  BY <1>4, <2>1, <2>2 DEF Fail
<1>5. CASE ~(CreateRelease \/ UploadAsset \/ Fail)
  BY <1>5 DEF Next, RunStep, Tick, Trigger, Dispatch, Redispatch, SyncBase, CollectAndBuild,
              FetchLatest, PushManifest, siteVars
<1>. QED  BY <1>2, <1>3, <1>4, <1>5

\* So when there is no delta, there was none before.
LEMMA NoDeltaBefore ==
  ASSUME ReleaseInv, Next, NoDelta'
  PROVE  NoDelta
BY TypesStay DEF NoDelta, Exists

LEMMA WholeInit == Init => WholeInv
<1> SUFFICES ASSUME Init PROVE WholeInv
  OBVIOUS
<1>1. 1 \in Tags /\ 1 \in Days /\ {1} \in SUBSET Rows
  BY DaysAreRows
<1>2. DefaultFiles["main"] = {1} /\ 1 .. 1 = {1}
  BY <1>1, BundleTyped DEF DefaultFiles
<1>3. \A t \in Tags : Main(t) = IF t = 1 THEN {1} ELSE {}
  BY <1>1, <1>2, NoFilesTyped DEF Init, Main, Assets
<1>4. Full({1})
  BY <1>1, <1>2 DEF Full
<1>. QED
  BY <1>3, <1>4, NoRunTyped
  DEF Init, WholeInv, TypesMatch, FullRuns, FullReleases, AllRuns, NotStarted

\* A dispatch brings in a run of a tag of its own type, with a full bundle.
LEMMA WholeSubmitted ==
  ASSUME WholeInv, NEW run \in Runs, NotStarted(run), Submit(run), UNCHANGED siteVars,
         failed' \in {failed, NoRun},
         run.tag # 0 /\ Exists(run.tag) => releases[run.tag].type = TypeOf(run.kind),
         run.kind = "bootstrap" /\ NoDelta /\ AuditDays >= LastDay => Full(run.files["main"])
  PROVE  WholeInv'
<1>1. job' \in {run, job} /\ queue' \in {run, queue}
  BY DEF Submit
<1>2. \A r \in AllRuns' : r \in {run, NoRun} \cup AllRuns
  BY <1>1 DEF AllRuns
<1>3. /\ run.step \notin {"collect", "upload"}
      /\ run.step = "create" => run.kind \in {"bootstrap", "delta"}
  BY DEF NotStarted, FirstStep, Runs, Kinds
<1>4. TypesMatch'
  BY <1>2, NoRunTyped DEF WholeInv, TypesMatch, siteVars, Exists
<1>5. (NoDelta' <=> NoDelta) /\ (FullReleases' <=> FullReleases)
  BY DEF NoDelta, FullReleases, Main, siteVars
<1>6. NoDelta /\ AuditDays >= LastDay => FullRuns'
  BY <1>1, <1>2, <1>3, NoRunTyped DEF WholeInv, FullRuns
<1>. QED  BY <1>4, <1>5, <1>6 DEF WholeInv

LEMMA WholeKept ==
  ASSUME ReleaseInv, WholeInv, Next
  PROVE  WholeInv'
<1> DEFINE whole == NoDelta /\ AuditDays >= LastDay
<1>1. /\ TypeOK /\ job \in Runs /\ queue \in Runs /\ failed \in Runs /\ manifest \in Manifests
      /\ NotStarted(queue) /\ minted \in Int
      /\ \A run \in AllRuns : run.tag \in Int /\ run.tag <= minted
      /\ \A t \in Tags : Exists(t) => t <= minted
  BY ReleaseAssumption
  DEF ReleaseInv, TypeOK, WaitingPrepared, TagsMinted, AllRuns, Runs, Tags
<1>2. NoDelta' => NoDelta
  BY NoDeltaBefore
<1>3. TypesMatch /\ (whole => FullRuns /\ FullReleases)
  BY DEF WholeInv
<1>4. CASE Tick
  BY <1>4 DEF Tick, siteVars, WholeInv, TypesMatch, NoDelta, FullRuns, FullReleases, AllRuns, Exists, Main
<1>5. CASE Trigger
  <2> DEFINE run == NewRun("refresh", 0, NoFiles)
  <2>1. "refresh" \in Kinds /\ NoFiles \in Bundles /\ 0 \in 0 .. MaxTags
    BY NoFilesTyped, ReleaseAssumption DEF Kinds
  <2>2. run \in Runs /\ run.kind = "refresh" /\ run.tag = 0 /\ NotStarted(run)
    BY <1>1, <2>1, NewRunTyped, NewRunStarts
  <2>3. Submit(run) /\ UNCHANGED <<siteVars, failed>>
    BY <1>5 DEF Trigger
  <2>. HIDE DEF run
  <2>. QED  BY <2>2, <2>3, WholeSubmitted
<1>6. CASE Dispatch
  <2>1. minted' = minted + 1 /\ minted' \in Tags /\ UNCHANGED <<siteVars, failed>>
    BY <1>1, <1>6, TypesKept DEF Dispatch, TypeOK, ReleaseInv
  <2>2. minted' \in 0 .. MaxTags /\ minted' # 0 /\ ~Exists(minted')
    BY <1>1, <2>1, ReleaseAssumption DEF Tags
  <2>3. PICK kind \in {"from_latest", "bootstrap", "delta"} : \E files \in Bundles :
          /\ kind \in {"bootstrap", "delta"} => files["main"] # {}
          /\ kind = "bootstrap" => Full(files["main"])
          /\ Submit(NewRun(kind, minted', files))
    <3>1. ASSUME NEW d \in 1 .. today
          PROVE  d \in Days /\ 1 .. d \in SUBSET Rows /\ 1 .. d # {}
                 /\ d .. today \in SUBSET Rows /\ d .. today # {}
      <4>1. today \in Days
        BY <1>1 DEF TypeOK
      <4>. QED  BY <4>1, ReleaseAssumption DEF Days, Rows
    <3>2. ASSUME NEW d \in 1 .. today, NEW files \in StagedFiles(1 .. d)
          PROVE  files \in Bundles /\ files["main"] # {} /\ Full(files["main"])
      <4>1. 1 .. d \in SUBSET Rows
        BY <3>1
      <4>2. files \in Bundles /\ files["main"] = 1 .. d
        BY <4>1, StagedTyped
      <4>. QED  BY <3>1, <4>2 DEF Full
    <3>3. ASSUME NEW d \in 1 .. today
          PROVE  DeltaFiles(d .. today) \in Bundles /\ DeltaFiles(d .. today)["main"] # {}
      BY <3>1, DeltaTyped
    <3>4. CASE Submit(NewRun("from_latest", minted', NoFiles))
      BY <3>4, NoFilesTyped
    <3>5. CASE \E d \in 1 .. today : \E files \in StagedFiles(1 .. d) :
                 Submit(NewRun("bootstrap", minted', files))
      BY <3>2, <3>5
    <3>6. CASE \E d \in 1 .. today : Submit(NewRun("delta", minted', DeltaFiles(d .. today)))
      BY <3>3, <3>6
    <3>. QED  BY <1>6, <3>4, <3>5, <3>6 DEF Dispatch
  <2>4. PICK files \in Bundles : /\ kind \in {"bootstrap", "delta"} => files["main"] # {}
                                 /\ kind = "bootstrap" => Full(files["main"])
                                 /\ Submit(NewRun(kind, minted', files))
    BY <2>3
  <2> DEFINE run == NewRun(kind, minted', files)
  <2>5. run \in Runs /\ run.kind = kind /\ run.tag = minted' /\ run.files = files /\ NotStarted(run)
    BY <1>1, <2>2, <2>4, NewRunTyped, NewRunStarts DEF Kinds
  <2>6. Submit(run)
    BY <2>4
  <2>. HIDE DEF run
  <2>. QED  BY <2>1, <2>2, <2>4, <2>5, <2>6, WholeSubmitted
<1>7. CASE Redispatch
  <2> DEFINE run == NewRun(failed.kind, failed.tag, failed.files)
  <2>1. failed.kind \in Kinds /\ failed.files \in Bundles /\ failed.tag \in 0 .. MaxTags
        /\ Prepared(failed)
    BY <1>1, <1>7 DEF Redispatch, ReleaseInv, WaitingPrepared, Runs, Kinds
  <2>2. run \in Runs /\ run.kind = failed.kind /\ run.tag = failed.tag /\ run.files = failed.files
        /\ NotStarted(run)
    BY <1>1, <2>1, NewRunTyped, NewRunStarts DEF Prepared
  <2>3. Submit(run) /\ failed' = NoRun /\ UNCHANGED siteVars
    BY <1>7 DEF Redispatch
  <2>4. run.tag # 0 /\ Exists(run.tag) => releases[run.tag].type = TypeOf(run.kind)
    BY <1>3, <2>2 DEF TypesMatch, AllRuns
  <2>5. run.kind = "bootstrap" /\ whole => Full(run.files["main"])
    BY <1>3, <2>2 DEF FullRuns, AllRuns
  <2>. HIDE DEF run
  <2>. QED  BY <2>2, <2>3, <2>4, <2>5, WholeSubmitted
<1>8. CASE SyncBase
  <2>1. PICK t \in {DefaultTag(job.base)} \cup Published :
          Main(t) # {} /\ job' = [job EXCEPT !.silver = Main(t), !.step = "collect"]
    BY <1>8 DEF SyncBase
  <2>2. /\ UNCHANGED <<siteVars, queue, failed>>
        /\ job'.step = "collect" /\ job'.silver = Main(t)
        /\ \A x \in {"kind", "tag", "files"} : job'[x] = job[x]
    BY <1>1, <1>8, <2>1 DEF SyncBase, Runs
  <2>3. t \in Tags
    <3>1. job.base.current.tag \in 0 .. MaxTags /\ newest \in Tags
      BY <1>1 DEF Runs, Manifests, Entries, TypeOK
    <3>. QED  BY <2>1, <3>1, ReleaseAssumption DEF DefaultTag, Published, Tags
  <2>4. TypesMatch' /\ (NoDelta' <=> NoDelta) /\ (FullReleases' <=> FullReleases)
    BY <1>3, <2>2 DEF TypesMatch, AllRuns, siteVars, Exists, NoDelta, FullReleases, Main
  <2>5. whole => FullRuns'
    BY <1>3, <2>1, <2>2, <2>3 DEF FullRuns, FullReleases, AllRuns
  <2>. QED  BY <1>3, <2>4, <2>5 DEF WholeInv
<1>9. CASE CollectAndBuild
  <2>1. PICK start \in {DailyStart(job.silver), AuditStart} :
          job' = [job EXCEPT
                    !.silver = job.silver \cup {d \in 1 .. today : start <= d}, !.tag = minted + 1,
                    !.files = Bundle(job.silver \cup {d \in 1 .. today : start <= d}),
                    !.left = Assets, !.step = "create"]
    BY <1>9 DEF CollectAndBuild
  <2> DEFINE silver == job.silver \cup {d \in 1 .. today : start <= d}
  <2>2. UNCHANGED <<siteVars, queue, failed>> /\ job.step = "collect" /\ today \in Days
    BY <1>1, <1>9 DEF CollectAndBuild, TypeOK
  <2>3. whole => Full(silver)
    BY <1>3, <2>2, CollectedIsFull DEF FullRuns
  <2>4. silver \in SUBSET Rows
    BY <1>1, <2>2, ReleaseAssumption DEF Runs, Rows, Days
  <2>5. /\ job'.step = "create" /\ job'.tag = minted + 1 /\ job'.files = Bundle(silver)
        /\ job'.kind = job.kind
    BY <1>1, <2>1 DEF Runs
  <2>. HIDE DEF silver
  <2>6. job'.files["main"] = silver
    BY <2>4, <2>5, BundleTyped
  <2>7. TypesMatch' /\ (NoDelta' <=> NoDelta) /\ (FullReleases' <=> FullReleases)
    <3>1. (NoDelta' <=> NoDelta) /\ (FullReleases' <=> FullReleases)
      BY <2>2 DEF siteVars, NoDelta, FullReleases, Main
    <3>2. job'.tag \in Tags
      <4>1. job' \in Runs
        BY TypesKept DEF ReleaseInv, TypeOK
      <4>2. job'.tag \in 0 .. MaxTags /\ minted \in 1 .. MaxTags
        BY <1>1, <4>1 DEF Runs, TypeOK, Tags
      <4>. QED  BY <4>2, <2>5, ReleaseAssumption DEF Tags
    <3>3. ~Exists(job'.tag)
      BY <1>1, <2>5, <3>2
    <3>. QED  BY <1>3, <2>2, <3>1, <3>3 DEF TypesMatch, AllRuns, siteVars, Exists
  <2>8. whole => FullRuns'
    BY <1>3, <2>2, <2>3, <2>5, <2>6 DEF FullRuns, AllRuns
  <2>. QED  BY <1>3, <2>7, <2>8 DEF WholeInv
<1>10. CASE FetchLatest
  <2> DEFINE files == releases[newest].files
  <2>1. /\ UNCHANGED <<siteVars, queue, failed>> /\ job.step = "fetch" /\ files["main"] # {}
        /\ job' = [job EXCEPT !.files = files, !.left = Present(files), !.step = "create"]
    BY <1>10 DEF FetchLatest
  <2>2. newest \in Tags /\ files["main"] = Main(newest)
    BY <1>1 DEF TypeOK, Main
  <2>. HIDE DEF files
  <2>3. /\ job'.step = "create" /\ job'.files = files
        /\ job'.kind = job.kind /\ job'.tag = job.tag
    BY <1>1, <2>1 DEF Runs
  <2>4. TypesMatch' /\ (NoDelta' <=> NoDelta) /\ (FullReleases' <=> FullReleases)
    BY <1>3, <2>1, <2>3 DEF TypesMatch, AllRuns, siteVars, Exists, NoDelta, FullReleases, Main
  <2>5. whole => FullRuns'
    BY <1>3, <2>1, <2>2, <2>3 DEF FullRuns, FullReleases, AllRuns
  <2>. QED  BY <1>3, <2>4, <2>5 DEF WholeInv
<1>11. CASE CreateRelease
  <2>1. UNCHANGED <<queue, failed>> /\ job.step = "create" /\ job' = [job EXCEPT !.step = "upload"]
    BY <1>11 DEF CreateRelease
  <2>2. /\ job'.step = "upload"
        /\ \A x \in {"kind", "tag", "files"} : job'[x] = job[x]
    BY <1>1, <2>1 DEF Runs
  <2>3. whole => FullRuns'
    BY <1>3, <2>1, <2>2 DEF FullRuns, AllRuns
  <2>4. CASE Exists(job.tag)
    <3>1. UNCHANGED releases
      BY <1>11, <2>4 DEF CreateRelease, siteVars
    <3>2. TypesMatch' /\ (FullReleases' <=> FullReleases)
      BY <1>3, <2>1, <2>2, <3>1 DEF TypesMatch, AllRuns, Exists, FullReleases, Main
    <3>. QED  BY <1>2, <1>3, <2>3, <3>2 DEF WholeInv
  <2>5. CASE ~Exists(job.tag)
    <3>1. releases' = [releases EXCEPT ![job.tag] = [type |-> TypeOf(job.kind), files |-> NoFiles]]
      BY <1>11, <2>5 DEF CreateRelease
    <3>2. releases \in [Tags -> Releases] /\ job.tag \in Tags
      BY <1>1, <2>1, ReleaseAssumption DEF ReleaseInv, JobOnItsWay, Runs, Tags, TypeOK
    <3>3. /\ \A t \in Tags : t # job.tag => releases'[t] = releases[t]
          /\ releases'[job.tag].type = TypeOf(job.kind)
          /\ releases'[job.tag].files["main"] = {}
      BY <3>1, <3>2, NoFilesTyped DEF Assets
    <3>4. FullReleases => FullReleases'
      BY <3>3 DEF FullReleases, Main
    <3>5. TypesMatch'
      <4>1. ASSUME NEW run \in {queue, failed}, run.tag # 0, Exists(run.tag)'
            PROVE  releases'[run.tag].type = TypeOf(run.kind)
        <5>1. run.tag # job.tag
          BY <3>2, ReleaseAssumption DEF ReleaseInv, TagsApart, Tags
        <5>2. run.tag \in Tags
          BY <1>1, <4>1, ReleaseAssumption DEF Runs, Tags
        <5>. QED  BY <1>3, <3>3, <4>1, <5>1, <5>2 DEF TypesMatch, AllRuns, Exists
      <4>. QED  BY <2>1, <2>2, <3>3, <4>1 DEF TypesMatch, AllRuns
    <3>. QED  BY <1>2, <1>3, <2>3, <3>4, <3>5 DEF WholeInv
  <2>. QED  BY <2>4, <2>5
<1>12. CASE UploadAsset
  <2>1. PICK f \in FirstByName(job.left) : /\ releases' = Put(job.tag, f, job.files[f])
                                          /\ job' = [job EXCEPT !.left = job.left \ {f}]
    BY <1>12 DEF UploadAsset
  <2>2. UNCHANGED <<queue, failed>> /\ job.step = "upload"
    BY <1>12 DEF UploadAsset
  <2>3. job.files[f] \in SUBSET Rows /\ Exists(job.tag)
    BY <1>1, <2>1, <2>2 DEF FirstByName, Bundles, Runs, ReleaseInv, JobOnItsWay
  <2>4. /\ job.tag \in Tags /\ f \in Assets
        /\ \A t \in Tags : t # job.tag => releases'[t] = releases[t]
        /\ \A t \in Tags : releases'[t].type = releases[t].type
        /\ releases'[job.tag].files = [releases[job.tag].files EXCEPT ![f] = job.files[f]]
    BY <1>1, <2>1, <2>2, <2>3, OwnRelease DEF ReleaseInv
  <2>5. \A x \in {"kind", "tag", "files", "step"} : job'[x] = job[x]
    BY <1>1, <2>1 DEF Runs
  <2>6. whole => FullRuns'
    BY <1>3, <2>2, <2>5 DEF FullRuns, AllRuns
  <2>7. TypesMatch'
    <3>1. \A run \in AllRuns : run.tag # 0 => run.tag \in Tags
      BY <1>1, ReleaseAssumption DEF AllRuns, Runs, Tags
    <3>. QED  BY <1>3, <2>2, <2>4, <2>5, <3>1 DEF TypesMatch, AllRuns, Exists
  <2>8. whole => FullReleases'
    <3>1. releases[job.tag].files \in Bundles
      BY <1>1, <2>4 DEF TypeOK, Releases
    <3>2. releases'[job.tag].files["main"] \in {Main(job.tag), job.files["main"]}
      BY <2>4, <3>1 DEF Bundles, Assets, Main
    <3>3. whole => Full(job.files["main"])
      <4>1. NoDelta => job.kind # "delta"
        BY <1>3, <2>3, <2>4, ReleaseAssumption DEF TypesMatch, AllRuns, NoDelta, TypeOf, Tags
      <4>. QED  BY <1>3, <2>2, <4>1 DEF FullRuns
    <3>. QED  BY <1>3, <2>4, <3>2, <3>3 DEF FullReleases, Main
  <2>. QED  BY <1>2, <2>6, <2>7, <2>8 DEF WholeInv
<1>13. CASE job' \in {queue, Behind(queue)} /\ queue' = NoRun /\ (PushManifest \/ Fail)
  <2>1. \A x \in {"kind", "tag", "files", "step"} : job'[x] = queue[x]
    BY <1>1, <1>13, BehindTyped
  <2>2. /\ queue.step \notin {"collect", "upload"}
        /\ queue.step = "create" => queue.kind \in {"bootstrap", "delta"}
    BY <1>1 DEF NotStarted, FirstStep, Runs, Kinds
  <2>3. \/ failed' = failed
        \/ failed'.tag = job.tag /\ failed'.kind = job.kind
           /\ (job.kind = "bootstrap" => failed'.files = job.files)
    BY <1>1, <1>13, RepeatableTyped DEF PushManifest, Fail
  <2>4. whole => FullRuns'
    BY <1>3, <1>13, <2>1, <2>2, <2>3, NoRunTyped DEF FullRuns, AllRuns
  <2>5. TypesMatch' /\ (whole => FullReleases')
    <3>1. CASE UNCHANGED releases
      <4>1. TypesMatch'
        BY <1>3, <1>13, <2>1, <2>3, <3>1, NoRunTyped DEF TypesMatch, AllRuns, Exists
      <4>. QED  BY <1>3, <3>1, <4>1 DEF FullReleases, Main
    <3>2. CASE job.step = "upload" /\ \E f \in FirstByName(job.left) : releases' = Put(job.tag, f, {})
      <4>1. PICK f \in FirstByName(job.left) : releases' = Put(job.tag, f, {})
        BY <3>2
      <4>2. {} \in SUBSET Rows
        OBVIOUS
      <4>3. /\ job.tag \in Tags /\ f \in Assets
            /\ \A t \in Tags : t # job.tag => releases'[t] = releases[t]
            /\ \A t \in Tags : releases'[t].type = releases[t].type
            /\ releases'[job.tag].files = [releases[job.tag].files EXCEPT ![f] = {}]
        BY <1>1, <3>2, <4>1, <4>2, OwnRelease DEF ReleaseInv
      <4>4. releases'[job.tag].files["main"] \in {Main(job.tag), {}}
        <5>1. releases[job.tag].files \in Bundles
          BY <1>1, <4>3 DEF TypeOK, Releases
        <5>. QED  BY <4>3, <5>1 DEF Bundles, Assets, Main
      <4>5. \A run \in AllRuns : run.tag # 0 => run.tag \in Tags
        BY <1>1, ReleaseAssumption DEF AllRuns, Runs, Tags
      <4>6. TypesMatch'
        BY <1>3, <1>13, <2>1, <2>3, <4>3, <4>5, NoRunTyped DEF TypesMatch, AllRuns, Exists
      <4>. QED  BY <1>3, <4>3, <4>4, <4>6 DEF FullReleases, Main
    <3>3. UNCHANGED releases \/ (job.step = "upload" /\ \E f \in FirstByName(job.left) :
                                                           releases' = Put(job.tag, f, {}))
      BY <1>13 DEF PushManifest, Fail, siteVars
    <3>. QED  BY <3>1, <3>2, <3>3
  <2>. QED  BY <1>2, <2>4, <2>5 DEF WholeInv
<1>14. PushManifest \/ Fail => job' \in {queue, Behind(queue)} /\ queue' = NoRun
  BY DEF PushManifest, Fail, Hand
<1>. QED
  BY <1>4, <1>5, <1>6, <1>7, <1>8, <1>9, <1>10, <1>11, <1>12, <1>13, <1>14 DEF Next, RunStep

\* No snapshot has a hole, while no delta is published and the audit looks back
\* as far as an outage lasts.
THEOREM SnapshotsAreWhole == Spec => []SnapshotsWhole
<1>1. ReleaseInv /\ WholeInv /\ [Next]_vars => WholeInv'
  <2>1. ASSUME ReleaseInv, WholeInv, UNCHANGED vars  PROVE WholeInv'
    BY <2>1 DEF vars, worldVars, siteVars, WholeInv, TypesMatch, NoDelta, FullRuns, FullReleases,
                AllRuns, Exists, Main
  <2>. QED  BY <2>1, WholeKept
<1>2. WholeInv => SnapshotsWhole
  <2>1. ASSUME NEW days, Full(days)  PROVE days = 1 .. Max(days)
    BY <2>1, MaxOfFirst DEF Full
  <2>. QED  BY <2>1 DEF WholeInv, FullReleases, SnapshotsWhole, Published
<1>. QED  BY <1>1, <1>2, WholeInit, ReleasesInOrder, PTL DEF Spec
-----------------------------------------------------------------------------
(* The consumer. *)

\* Files beside the main one hold no bars.
Beside(files) == files["output1"] \subseteq {0}

CompanionsApart ==
  /\ \A t \in Tags : Beside(releases[t].files)
  /\ \A run \in AllRuns : Beside(run.files)

\* What is being applied comes from a recorded release, and is its main file if
\* it has bars.
FromRecord ==
  /\ applied # 0 => applied \in manifest.history
  /\ stage # "idle" => /\ fetched.tag \in manifest.history
                       /\ fetched.rows \in {Main(fetched.tag), {0}}
  /\ stage = "stored" => fetched.rows = Main(fetched.tag) /\ fetched.rows \subseteq bars

ConsumerInv ==
  /\ ReleaseInv /\ ConsumerTypeOK /\ CompanionsApart
  /\ FromRecord /\ AppliedIsStored /\ OnlyReleasedBars
-----------------------------------------------------------------------------
\* A file that is written is one of the run: companions stay what they are.
LEMMA PutApart ==
  ASSUME TypeOK, CompanionsApart, NEW t, NEW f \in Assets, NEW rows \in SUBSET Rows,
         f = "output1" => rows \subseteq {0}, releases' = Put(t, f, rows)
  PROVE  \A u \in Tags : Beside(releases'[u].files)
<1> SUFFICES ASSUME NEW u \in Tags PROVE Beside(releases'[u].files)
  OBVIOUS
<1>1. releases \in [Tags -> Releases] /\ Beside(releases[u].files)
  BY DEF TypeOK, CompanionsApart
<1>2. CASE u # t
  BY <1>1, <1>2 DEF Put
<1>3. CASE u = t
  <2>1. releases'[u] = [releases[u] EXCEPT !.files[f] = rows]
    BY <1>1, <1>3 DEF Put
  <2>2. releases'[u].files = [releases[u].files EXCEPT ![f] = rows]
    BY <1>1, <2>1 DEF Releases
  <2>. QED  BY <1>1, <2>2 DEF Releases, Bundles, Assets, Beside
<1>. QED  BY <1>2, <1>3

LEMMA SubmitApart ==
  ASSUME CompanionsApart, NEW run, Beside(run.files), Submit(run), UNCHANGED siteVars,
         failed' \in {failed, NoRun}
  PROVE  CompanionsApart'
<1>1. Beside(NoRun.files)
  BY NoRunTyped, NoFilesTyped DEF Beside, Assets
<1>2. job' \in {run, job} /\ queue' \in {run, queue}
  BY DEF Submit
<1>. QED  BY <1>1, <1>2 DEF CompanionsApart, AllRuns, siteVars

LEMMA ApartKept ==
  ASSUME ReleaseInv, CompanionsApart, Next
  PROVE  CompanionsApart'
<1>1. TypeOK /\ job \in Runs /\ queue \in Runs /\ failed \in Runs /\ manifest \in Manifests
      /\ Beside(NoRun.files) /\ Beside(NoFiles)
  BY NoRunTyped, NoFilesTyped DEF ReleaseInv, TypeOK, Beside, Assets
<1>2. \A run \in AllRuns : Beside(run.files)
  BY DEF CompanionsApart
<1>3. CASE Tick
  BY <1>3 DEF Tick, siteVars, CompanionsApart, AllRuns
<1>4. CASE Trigger
  <2>1. NewRun("refresh", 0, NoFiles).files = NoFiles
    BY DEF NewRun
  <2>2. Submit(NewRun("refresh", 0, NoFiles)) /\ UNCHANGED <<siteVars, failed>>
    BY <1>4 DEF Trigger
  <2>. QED  BY <1>1, <2>1, <2>2, SubmitApart
<1>5. CASE Dispatch
  <2>1. UNCHANGED <<siteVars, failed>>
    BY <1>5 DEF Dispatch
  <2>2. PICK kind \in Kinds : \E files \in Bundles :
          Beside(files) /\ Submit(NewRun(kind, minted', files))
    <3>1. ASSUME NEW d \in 1 .. today
          PROVE  1 .. d \in SUBSET Rows /\ d .. today \in SUBSET Rows
      <4>1. today \in Days
        BY <1>1 DEF TypeOK
      <4>. QED  BY <4>1, ReleaseAssumption DEF Days, Rows
    <3>2. ASSUME NEW d \in 1 .. today, NEW files \in StagedFiles(1 .. d)
          PROVE  files \in Bundles /\ Beside(files)
      <4>1. 1 .. d \in SUBSET Rows
        BY <3>1
      <4>2. files \in Bundles /\ files["output1"] = {0}
        BY <4>1, StagedTyped
      <4>. QED  BY <4>2 DEF Beside
    <3>3. ASSUME NEW d \in 1 .. today
          PROVE  DeltaFiles(d .. today) \in Bundles /\ Beside(DeltaFiles(d .. today))
      <4>1. DeltaFiles(d .. today)["output1"] = {}
        BY NoFilesTyped DEF DeltaFiles, Assets, NoFiles
      <4>. QED  BY <3>1, <4>1, DeltaTyped DEF Beside
    <3>4. CASE Submit(NewRun("from_latest", minted', NoFiles))
      BY <1>1, <3>4, NoFilesTyped DEF Kinds
    <3>5. CASE \E d \in 1 .. today : \E files \in StagedFiles(1 .. d) :
                 Submit(NewRun("bootstrap", minted', files))
      BY <3>2, <3>5 DEF Kinds
    <3>6. CASE \E d \in 1 .. today : Submit(NewRun("delta", minted', DeltaFiles(d .. today)))
      BY <3>3, <3>6 DEF Kinds
    <3>. QED  BY <1>5, <3>4, <3>5, <3>6 DEF Dispatch
  <2>3. PICK files \in Bundles : Beside(files) /\ Submit(NewRun(kind, minted', files))
    BY <2>2
  <2>4. NewRun(kind, minted', files).files = files
    BY DEF NewRun
  <2>. QED  BY <2>1, <2>3, <2>4, SubmitApart
<1>6. CASE Redispatch
  <2>1. NewRun(failed.kind, failed.tag, failed.files).files = failed.files /\ Beside(failed.files)
    BY <1>2 DEF NewRun, AllRuns
  <2>2. Submit(NewRun(failed.kind, failed.tag, failed.files)) /\ failed' = NoRun
        /\ UNCHANGED siteVars
    BY <1>6 DEF Redispatch
  <2>. QED  BY <2>1, <2>2, SubmitApart
<1>7. CASE SyncBase
  <2>1. UNCHANGED <<releases, queue, failed>> /\ job'.files = job.files
    BY <1>1, <1>7 DEF SyncBase, siteVars, Runs
  <2>. QED  BY <1>2, <2>1 DEF CompanionsApart, AllRuns
<1>8. CASE CollectAndBuild
  <2>1. PICK silver : job' = [job EXCEPT !.silver = silver, !.tag = minted + 1,
                                         !.files = Bundle(silver), !.left = Assets,
                                         !.step = "create"]
    BY <1>8 DEF CollectAndBuild
  <2>2. job'.files = Bundle(silver)
    BY <1>1, <2>1 DEF Runs
  <2>3. Beside(Bundle(silver))
    BY DEF Bundle, Beside
  <2>. QED  BY <1>2, <1>8, <2>2, <2>3 DEF CollectAndBuild, CompanionsApart, AllRuns, siteVars
<1>9. CASE FetchLatest
  <2>1. UNCHANGED <<releases, queue, failed>> /\ job'.files = releases[newest].files
    BY <1>1, <1>9 DEF FetchLatest, siteVars, Runs
  <2>2. newest \in Tags
    BY <1>1 DEF TypeOK
  <2>. QED  BY <1>2, <2>1, <2>2 DEF CompanionsApart, AllRuns
<1>10. CASE CreateRelease
  <2>1. UNCHANGED <<queue, failed>> /\ job'.files = job.files
    BY <1>1, <1>10 DEF CreateRelease, Runs
  <2>2. \A u \in Tags : releases'[u].files \in {releases[u].files, NoFiles}
    BY <1>1, <1>10 DEF CreateRelease, siteVars, TypeOK
  <2>. QED  BY <1>1, <2>1, <2>2 DEF CompanionsApart, AllRuns
<1>11. CASE UploadAsset
  <2>1. PICK f \in FirstByName(job.left) : /\ releases' = Put(job.tag, f, job.files[f])
                                          /\ job' = [job EXCEPT !.left = job.left \ {f}]
    BY <1>11 DEF UploadAsset
  <2>2. f \in Assets /\ job.files[f] \in SUBSET Rows
    BY <1>1, <2>1 DEF FirstByName, Runs, Bundles
  <2>3. f = "output1" => job.files[f] \subseteq {0}
    BY <1>2 DEF AllRuns, Beside
  <2>4. UNCHANGED <<queue, failed>> /\ job'.files = job.files
    BY <1>1, <1>11, <2>1 DEF UploadAsset, Runs
  <2>5. \A u \in Tags : Beside(releases'[u].files)
    BY <1>1, <2>1, <2>2, <2>3, PutApart
  <2>. QED  BY <1>2, <2>4, <2>5 DEF CompanionsApart, AllRuns
<1>12. CASE PushManifest
  <2>1. UNCHANGED <<releases, failed>> /\ queue' = NoRun /\ job'.files = queue.files
    BY <1>1, <1>12, BehindTyped DEF PushManifest, Hand, siteVars
  <2>. QED  BY <1>1, <1>2, <2>1 DEF CompanionsApart, AllRuns
<1>13. CASE Fail
  <2>1. queue' = NoRun /\ job' = queue /\ failed' = Repeatable(job)
    BY <1>13 DEF Fail, Hand
  <2>2. failed' = failed \/ failed'.files \in {NoFiles, job.files}
    BY <1>1, <2>1, RepeatableTyped
  <2>3. \A u \in Tags : Beside(releases'[u].files)
    <3>1. ASSUME NEW f \in FirstByName(job.left), releases' = Put(job.tag, f, {})
          PROVE  \A u \in Tags : Beside(releases'[u].files)
      <4>1. f \in Assets /\ {} \in SUBSET Rows
        BY <1>1 DEF FirstByName, Runs
      <4>. QED  BY <1>1, <3>1, <4>1, PutApart
    <3>. QED  BY <1>13, <3>1 DEF Fail, CompanionsApart
  <2>. QED  BY <1>1, <1>2, <2>1, <2>2, <2>3 DEF CompanionsApart, AllRuns
<1>. QED
  BY <1>3, <1>4, <1>5, <1>6, <1>7, <1>8, <1>9, <1>10, <1>11, <1>12, <1>13 DEF Next, RunStep
-----------------------------------------------------------------------------
\* What a run writes is its own release, which the manifest has not recorded.
LEMMA RecordedStay ==
  ASSUME ReleaseInv, Next
  PROVE  \A t \in manifest.history : t \in manifest'.history /\ Main(t)' = Main(t)
<1>1. TypeOK /\ JobOnItsWay /\ job.tag \notin manifest.history /\ manifest.history \subseteq Tags
  BY DEF ReleaseInv, TagsApart, AllRuns, TypeOK, Manifests
<1>2. manifest.history \subseteq manifest'.history
  BY StepKeepsHistory
<1>3. \A t \in manifest.history : releases'[t] = releases[t]
  <2>1. CASE CreateRelease
    BY <1>1, <2>1 DEF CreateRelease, siteVars, TypeOK
  <2>2. CASE UploadAsset
    <3>1. PICK f \in FirstByName(job.left) : releases' = Put(job.tag, f, job.files[f])
      BY <2>2 DEF UploadAsset
    <3>2. job.files[f] \in SUBSET Rows /\ job.step = "upload"
      BY <1>1, <2>2, <3>1 DEF UploadAsset, TypeOK, Runs, Bundles, FirstByName
    <3>. QED  BY <1>1, <3>1, <3>2, OwnRelease
  <2>3. CASE Fail
    <3>1. ASSUME NEW f \in FirstByName(job.left), releases' = Put(job.tag, f, {}), job.step = "upload"
          PROVE  \A t \in manifest.history : releases'[t] = releases[t]
      <4>1. {} \in SUBSET Rows
        OBVIOUS
      <4>. QED  BY <1>1, <3>1, <4>1, OwnRelease
    <3>. QED  BY <2>3, <3>1 DEF Fail
  <2>4. CASE ~(CreateRelease \/ UploadAsset \/ Fail)
    BY <2>4 DEF Next, RunStep, Tick, Trigger, Dispatch, Redispatch, SyncBase, CollectAndBuild,
                FetchLatest, PushManifest, siteVars
  <2>. QED  BY <2>1, <2>2, <2>3, <2>4
<1>. QED  BY <1>2, <1>3 DEF Main

\* The publisher leaves the consumer what it has.
LEMMA PublisherKeeps ==
  ASSUME ConsumerInv, PublisherStep
  PROVE  ConsumerInv'
<1>1. ReleaseInv /\ Next /\ UNCHANGED consumerVars
  BY DEF ConsumerInv, PublisherStep
<1>2. ReleaseInv' /\ CompanionsApart'
  BY <1>1, InvKept, ApartKept DEF ConsumerInv
<1>3. \A t \in manifest.history : t \in manifest'.history /\ Main(t)' = Main(t)
  BY <1>1, RecordedStay
<1>4. ConsumerTypeOK'
  BY <1>1, <1>2 DEF ConsumerInv, ConsumerTypeOK, ReleaseInv, consumerVars
<1>5. FromRecord' /\ AppliedIsStored'
  BY <1>1, <1>3 DEF ConsumerInv, FromRecord, AppliedIsStored, consumerVars
<1>6. OnlyReleasedBars'
  BY <1>1, <1>3 DEF ConsumerInv, OnlyReleasedBars, consumerVars
<1>. QED  BY <1>2, <1>4, <1>5, <1>6 DEF ConsumerInv

\* The manifest, the releases and the runs are not the consumer's.
LEMMA ConsumerLeaves ==
  ASSUME ConsumerInv, UNCHANGED vars
  PROVE  ReleaseInv' /\ CompanionsApart' /\ manifest' = manifest /\ \A t \in Tags : Main(t)' = Main(t)
BY Stuttered DEF ConsumerInv, CompanionsApart, AllRuns, vars, worldVars, siteVars, Main

LEMMA ConsumerKeeps ==
  ASSUME ConsumerInv, ConsumerStep
  PROVE  ConsumerInv'
<1>1. UNCHANGED vars
  BY DEF ConsumerStep, Fetch, Store, Record, Die
<1>2. ReleaseInv' /\ CompanionsApart' /\ manifest' = manifest /\ \A t \in Tags : Main(t)' = Main(t)
  BY <1>1, ConsumerLeaves
<1>3. /\ ReleaseInv /\ TypeOK /\ TypeOK' /\ manifest.history \subseteq Tags
      /\ Tags \subseteq 0 .. MaxTags /\ 0 \notin Tags /\ 0 \in 0 .. MaxTags
  BY <1>2, ReleaseAssumption DEF ConsumerInv, ReleaseInv, TypeOK, Manifests, Tags
<1>4. /\ applied \in 0 .. MaxTags /\ bars \subseteq Days
      /\ fetched \in [tag : 0 .. MaxTags, rows : SUBSET Rows]
      /\ FromRecord /\ AppliedIsStored /\ OnlyReleasedBars
  BY DEF ConsumerInv, ConsumerTypeOK
<1>5. 0 \notin Days
  BY DEF Days
<1>6. CASE Fetch
  <2> DEFINE t == TargetTag(manifest)
             files == releases[t].files
  <2>1. t \in manifest.history
    BY <1>3 DEF TargetTag, ReleaseInv, RecordsBacked
  <2>2. PICK f \in Parquets : files[f] # {} /\ fetched' = [tag |-> t, rows |-> files[f]]
    BY <1>6 DEF Fetch
  <2>3. files \in Bundles /\ files["output1"] \subseteq {0} /\ files["main"] = Main(t)
    BY <1>3, <2>1 DEF TypeOK, Releases, ConsumerInv, CompanionsApart, Beside, Main
  <2>4. stage' = "fetched" /\ UNCHANGED <<applied, bars>>
    BY <1>6 DEF Fetch
  <2>. HIDE DEF t, files
  <2>5. fetched'.tag = t /\ fetched'.rows \in {Main(t), {0}}
    BY <2>2, <2>3 DEF Parquets
  <2>6. fetched' \in [tag : 0 .. MaxTags, rows : SUBSET Rows]
    BY <1>3, <2>1, <2>2, <2>3 DEF Parquets, Bundles, Assets
  <2>7. ConsumerTypeOK'
    BY <1>3, <1>4, <2>4, <2>6 DEF ConsumerTypeOK
  <2>8. FromRecord' /\ AppliedIsStored' /\ OnlyReleasedBars'
    BY <1>2, <1>3, <1>4, <2>1, <2>4, <2>5 DEF FromRecord, AppliedIsStored, OnlyReleasedBars
  <2>. QED  BY <1>2, <2>7, <2>8 DEF ConsumerInv
<1>7. CASE Store
  <2>1. /\ stage = "fetched" /\ stage' = "stored" /\ UNCHANGED <<applied, fetched>>
        /\ fetched.rows \subseteq Days /\ bars' = bars \cup fetched.rows
    BY <1>7 DEF Store
  <2>2. fetched.tag \in manifest.history
    BY <1>4, <2>1 DEF FromRecord
  <2>3. fetched.rows = Main(fetched.tag)
    BY <1>4, <1>5, <2>1 DEF FromRecord
  <2>4. ConsumerTypeOK'
    BY <1>3, <1>4, <2>1 DEF ConsumerTypeOK
  <2>5. FromRecord'
    BY <1>2, <1>3, <1>4, <2>1, <2>2, <2>3 DEF FromRecord
  <2>6. AppliedIsStored' /\ OnlyReleasedBars'
    BY <1>2, <1>3, <1>4, <2>1, <2>2, <2>3 DEF AppliedIsStored, OnlyReleasedBars, FromRecord
  <2>. QED  BY <1>2, <2>4, <2>5, <2>6 DEF ConsumerInv
<1>8. CASE Record
  <2>1. /\ stage = "stored" /\ stage' = "idle" /\ applied' = fetched.tag /\ fetched' = NoDownload
        /\ bars' = bars
    BY <1>8 DEF Record
  <2>2. fetched.tag \in manifest.history /\ Main(fetched.tag) \subseteq bars
    BY <1>4, <2>1 DEF FromRecord
  <2>3. ConsumerTypeOK'
    BY <1>3, <1>4, <2>1 DEF ConsumerTypeOK, NoDownload
  <2>4. FromRecord' /\ AppliedIsStored' /\ OnlyReleasedBars'
    BY <1>2, <1>3, <1>4, <2>1, <2>2 DEF FromRecord, AppliedIsStored, OnlyReleasedBars
  <2>. QED  BY <1>2, <2>3, <2>4 DEF ConsumerInv
<1>9. CASE Die
  <2>1. PICK some \in SUBSET (fetched.rows \cap Days) :
          bars' = IF stage = "fetched" THEN bars \cup some ELSE bars
    BY <1>9 DEF Die
  <2>2. stage # "idle" /\ stage' = "idle" /\ fetched' = NoDownload /\ applied' = applied
    BY <1>9 DEF Die
  <2>3. fetched.tag \in manifest.history /\ some \subseteq Main(fetched.tag) /\ some \subseteq Days
    BY <1>4, <1>5, <2>1, <2>2 DEF FromRecord
  <2>4. bars \subseteq bars' /\ bars' \subseteq bars \cup some
    BY <2>1
  <2>5. ConsumerTypeOK'
    BY <1>3, <1>4, <2>2, <2>3, <2>4 DEF ConsumerTypeOK, NoDownload
  <2>6. FromRecord'
    BY <1>2, <1>4, <2>2 DEF FromRecord
  <2>7. AppliedIsStored'
    <3>1. applied # 0 => Main(applied)' = Main(applied)
      BY <1>2, <1>3, <1>4, <2>2 DEF FromRecord
    <3>. QED  BY <1>4, <2>2, <2>4, <3>1 DEF AppliedIsStored
  <2>8. OnlyReleasedBars'
    <3>1. \A t \in manifest.history : Main(t)' = Main(t)
      BY <1>2, <1>3
    <3>2. bars' \subseteq UNION {Main(t) : t \in manifest.history}
      BY <1>4, <2>3, <2>4 DEF OnlyReleasedBars
    <3>3. \A d \in bars' : \E t \in manifest'.history : d \in Main(t)'
      BY <1>2, <3>1, <3>2
    <3>. QED  BY <3>3 DEF OnlyReleasedBars
  <2>. QED  BY <1>2, <2>5, <2>6, <2>7, <2>8 DEF ConsumerInv
<1>. QED  BY <1>6, <1>7, <1>8, <1>9 DEF ConsumerStep

LEMMA ConsumerStarts == ConsumerInit => ConsumerInv
<1> SUFFICES ASSUME ConsumerInit PROVE ConsumerInv
  OBVIOUS
<1>1. Init /\ ReleaseInv
  BY InitInv DEF ConsumerInit
<1>2. CompanionsApart
  <2>1. Beside(NoFiles) /\ Beside(DefaultFiles) /\ Beside(NoRun.files)
    BY NoFilesTyped, NoRunTyped DEF Beside, DefaultFiles, Bundle, Assets
  <2>. QED  BY <1>1, <2>1 DEF Init, CompanionsApart, AllRuns
<1>. QED
  BY <1>1, <1>2, ReleaseAssumption
  DEF ConsumerInv, ConsumerInit, ConsumerTypeOK, FromRecord, AppliedIsStored, OnlyReleasedBars,
      ReleaseInv, NoDownload
-----------------------------------------------------------------------------
\* Publisher and consumer together are in order at any time.
THEOREM ConsumerInOrder == ConsumerSpec => []ConsumerInv
<1>1. ConsumerInv /\ [PublisherStep \/ ConsumerStep]_allVars => ConsumerInv'
  <2>1. ASSUME ConsumerInv, UNCHANGED allVars  PROVE ConsumerInv'
    <3>1. UNCHANGED vars /\ UNCHANGED consumerVars
      BY <2>1 DEF allVars
    <3>2. ReleaseInv' /\ CompanionsApart' /\ manifest' = manifest /\ \A t \in Tags : Main(t)' = Main(t)
      BY <2>1, <3>1, ConsumerLeaves
    <3>3. manifest.history \subseteq Tags
      BY <2>1 DEF ConsumerInv, ReleaseInv, TypeOK, Manifests
    <3>4. ConsumerTypeOK'
      BY <2>1, <3>1, <3>2 DEF ConsumerInv, ConsumerTypeOK, ReleaseInv, consumerVars
    <3>. QED
      BY <2>1, <3>1, <3>2, <3>3, <3>4
      DEF ConsumerInv, FromRecord, AppliedIsStored, OnlyReleasedBars, consumerVars
  <2>. QED  BY <2>1, PublisherKeeps, ConsumerKeeps
<1>. QED  BY <1>1, ConsumerStarts, PTL DEF ConsumerSpec

\* Types of the consumer: no row that is not a bar gets into its silver.
THEOREM ConsumerTypeCorrect == ConsumerSpec => []ConsumerTypeOK
<1>1. ConsumerInv => ConsumerTypeOK
  BY DEF ConsumerInv
<1>. QED  BY <1>1, ConsumerInOrder, PTL

\* The release a consumer has recorded is in its silver, wherever it died.
THEOREM AppliedStaysStored == ConsumerSpec => []AppliedIsStored
<1>1. ConsumerInv => AppliedIsStored
  BY DEF ConsumerInv
<1>. QED  BY <1>1, ConsumerInOrder, PTL

\* A consumer has only bars of releases the manifest has recorded.
THEOREM BarsAreReleased == ConsumerSpec => []OnlyReleasedBars
<1>1. ConsumerInv => OnlyReleasedBars
  BY DEF ConsumerInv
<1>. QED  BY <1>1, ConsumerInOrder, PTL
=============================================================================
