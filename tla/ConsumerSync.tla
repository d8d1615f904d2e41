---------------------------- MODULE ConsumerSync ----------------------------
(***************************************************************************)
(* A consumer of the dataset: src/sync/consumer_sync.py, over the manifest *)
(* it has pulled, applied_release_state.json and its own silver.  The      *)
(* process may die between any two writes.                                 *)
(***************************************************************************)
EXTENDS DatasetRelease

VARIABLES
  applied,  \* latest_applied_release, 0 for none
  bars,     \* the rows in the consumer's silver
  stage,    \* the step of the synchronisation
  fetched   \* the verified download

consumerVars == <<applied, bars, stage, fetched>>
allVars      == <<vars, consumerVars>>

NoDownload == [tag |-> 0, rows |-> {}]

ConsumerInit ==
  /\ Init
  /\ applied = 0 /\ bars = {} /\ stage = "idle" /\ fetched = NoDownload

\* Slip: the newest release is taken, not the one the manifest names.
TargetNewest(m) == newest

\* get_manifest_target_tag; latest_full is also a current release.  A manifest
\* that names none leaves the newest release.
TargetTag(m) == IF m.current.tag # 0 THEN m.current.tag
                ELSE IF m.delta.tag # 0 THEN m.delta.tag ELSE newest

\* read_expected_sha256 and verify_downloaded_sha256: without a sha256 file the
\* hash GitHub keeps of the asset counts.
Verified(files, rows) == files["sha256"] \in {{}, rows}

\* The first parquet of the release, in whatever order the backend lists them.
\* The manifest is pulled at any time before: nothing else happens in between
\* that the consumer could see.
Fetch ==
  /\ stage = "idle"
  /\ LET t == TargetTag(manifest)  files == releases[t].files IN
       /\ t # applied /\ Exists(t)
       /\ \E f \in Parquets :
            /\ files[f] # {} /\ Verified(files, files[f])
            /\ fetched' = [tag |-> t, rows |-> files[f]]
  /\ stage' = "fetched"
  /\ UNCHANGED <<vars, applied, bars>>

\* Slip: rows are not looked at before they are stored.
StoreAny ==
  /\ stage = "fetched"
  /\ bars' = bars \cup fetched.rows /\ stage' = "stored"
  /\ UNCHANGED <<vars, applied, fetched>>

\* upsert_ohlcv_from_df, which refuses rows without market or date.
Store ==
  /\ stage = "fetched" /\ fetched.rows \subseteq Days
  /\ bars' = bars \cup fetched.rows /\ stage' = "stored"
  /\ UNCHANGED <<vars, applied, fetched>>

\* Slip: the state is written before the bars.
RecordEarly ==
  /\ stage \in {"fetched", "stored"}
  /\ applied' = fetched.tag
  /\ UNCHANGED <<vars, bars, stage, fetched>>

Record ==
  /\ stage = "stored"
  /\ applied' = fetched.tag /\ stage' = "idle" /\ fetched' = NoDownload
  /\ UNCHANGED <<vars, bars>>

\* The process dies, or the upsert fails, with some of its files written.
Die ==
  /\ stage # "idle"
  /\ \E some \in SUBSET (fetched.rows \cap Days) :
       bars' = IF stage = "fetched" THEN bars \cup some ELSE bars
  /\ stage' = "idle" /\ fetched' = NoDownload
  /\ UNCHANGED <<vars, applied>>

ConsumerStep  == Fetch \/ Store \/ Record \/ Die
PublisherStep == Next /\ UNCHANGED consumerVars

ConsumerSpec == ConsumerInit /\ [][PublisherStep \/ ConsumerStep]_allVars
-----------------------------------------------------------------------------
ConsumerTypeOK ==
  /\ TypeOK
  /\ applied \in 0 .. MaxTags /\ bars \subseteq Days
  /\ stage \in {"idle", "fetched", "stored"}
  /\ fetched \in [tag : 0 .. MaxTags, rows : SUBSET Rows]

\* The release a consumer has recorded as applied is in its silver, bar by bar,
\* also when it died between the two writes.
AppliedIsStored == applied # 0 => Main(applied) \subseteq bars

\* A consumer has no bar that was not in a release the manifest has named.
OnlyReleasedBars == bars \subseteq UNION {Main(t) : t \in manifest.history}
=============================================================================
