--------------------------- MODULE DailyCollection ---------------------------
(***************************************************************************)
(* The collection of daily price bars: scripts/run_daily_collect.py,       *)
(* scripts/audit_repair_last_week.py, src/jobs/retry_failed_job.py and     *)
(* what they call, over meta.duckdb (universe, collect_state) and the      *)
(* silver parquet files.                                                   *)
(*                                                                         *)
(* OnRunner is TRUE in a GitHub Actions job, whose workspace is rebuilt    *)
(* from the published snapshot and whose last step publishes the validated *)
(* silver; FALSE on the host of the README, where everything is kept from  *)
(* one run to the next.  A run is one process: rows are collected one by   *)
(* one, a row's bars and its collect_state are two writes, time passes     *)
(* between any two steps, and the process may die there.                   *)
(*                                                                         *)
(* A bar is abstracted to whether it was taken while the market was open.  *)
(* A window fits one chunk of BACKFILL_CHUNK_DAYS.                         *)
(***************************************************************************)
EXTENDS Integers, FiniteSets, FiniteSetsExt

CONSTANTS
  Symbols, NoSymbol,
  LastDay,       \* bound: the calendar has the days 1 .. LastDay
  OpenDays,      \* the days the exchange is open
  NewYear,       \* the first of January
  MinRows,       \* rows a full year must have (min_rows_per_year)
  Listed,        \* the listing date of each symbol
  Troubled,      \* bound: the symbols that may be halted or delisted
  MaxAttempts,   \* passes of collect_rows (3 in the code)
  AuditDays,     \* calendar days the weekly audit looks back (7)
  OnRunner

Days     == 1 .. LastDay
Calendar == 0 .. LastDay  \* 0 stands for no date

ASSUME CollectionAssumption ==
  /\ IsFiniteSet(Symbols) /\ NoSymbol \notin Symbols
  /\ LastDay \in Nat \ {0} /\ OpenDays \subseteq Days
  /\ NewYear \in Int /\ MinRows \in Nat /\ Listed \in [Symbols -> Int]
  /\ Troubled \subseteq Symbols
  /\ MaxAttempts \in Nat \ {0} /\ AuditDays \in Nat \ {0}
  /\ OnRunner \in BOOLEAN

VARIABLES
  day, session,       \* the clock: before 09:00, while open, after the close
  delisted, halts,    \* what the exchange did to each symbol
  universe,           \* the flags of each row of the universe table
  state,              \* collect_state
  silver, published,  \* the bars on disk and in the latest release
  pc, job,            \* the step of the current run and which job it is
  start, target,      \* its date window
  todo, again,        \* rows left in this pass, rows that failed in it
  attempt,
  saved,              \* bars written, collect_state not yet
  repairs,            \* bars left to fetch again
  unresolved,         \* rows the run has given up on
  excluded            \* rows it has excluded on evidence

worldVars == <<day, session, delisted, halts>>
storeVars == <<universe, state, silver, published>>
frameVars == <<job, start, target>>
loopVars  == <<todo, again, attempt, saved, repairs>>
verdicts  == <<unresolved, excluded>>
vars == <<worldVars, storeVars, pc, frameVars, loopVars, verdicts>>

NoSave  == [symbol |-> NoSymbol, last |-> 0]
Errors  == {"none", "noRow", "other"}
Flags   == {"missing", "active", "inactive", "halted"}
Bars    == [Symbols -> [Days -> {"none", "intraday", "closing"}]]
Resting == {"idle", "done", "failed"}
Steps   == {"collect", "recover", "gapfill", "repair", "validate"}

Has(rows, s, d)   == rows[s][d] # "none"
DaysOf(rows, s)   == {d \in Days : Has(rows, s, d)}
Observed(rows)    == {d \in Days : \E s \in Symbols : Has(rows, s, d)}
Collectible(s)    == universe[s] = "active"
LatestOf(dates)   == IF dates = {} THEN 0 ELSE Max(dates)
-----------------------------------------------------------------------------
(***************************************************************************)
(* The market and what KIS answers about it.                               *)
(***************************************************************************)
HasBegun(d) == d < day \/ (d = day /\ session # "early")

\* Days for which KIS can hold a bar of s; of a halted day it may hold a
\* no-trade row or none, of a traded day it may not yet have one.
Quoted(s) == {d \in OpenDays : /\ HasBegun(d) /\ Listed[s] <= d
                               /\ delisted[s] = 0 \/ d < delisted[s]}

Quality(d) == IF d = day /\ session # "closed" THEN "intraday" ELSE "closing"

\* The bars that arrive and pass validate_ohlcv, and whether the bar of the
\* last day arrived but did not pass.
Replies(s, from, to) ==
  {r \in [valid : SUBSET (Quoted(s) \cap (from .. to)), bad : BOOLEAN] :
     r.bad => to \notin r.valid}

\* search-stock-info: of the same ISIN or not, a delisting date, the listing
\* date beside it, the trading-stop flag.  A code listed after day 1 may have
\* belonged to an older listing.
StockInfos(s) ==
  [same : {TRUE}, abol : {0, delisted[s]} \cup {d \in Days : d < Listed[s]},
   listed : {Listed[s]}, stop : {FALSE, (day \in halts[s])}]
  \cup [same : {FALSE}, abol : {1}, listed : {0}, stop : {TRUE}]

\* The flags a master refresh can give s: the master lags behind delistings
\* and halts, and never invents one.
MasterFlags(s) ==
  {"active"} \cup (IF delisted[s] # 0 THEN {"inactive"} ELSE {})
             \cup (IF halts[s] \cap {day - 1, day} # {} THEN {"halted"} ELSE {})
Masters == {u \in [Symbols -> Flags] : \A s \in Symbols : u[s] \in MasterFlags(s)}
-----------------------------------------------------------------------------
(***************************************************************************)
(* Helpers of the run.                                                     *)
(***************************************************************************)
\* Slips that the properties must notice: a year's file that replaces the old
\* one instead of joining it, and a loop that leaves after the first year.
UpsertReplacing(rows, s, dates) ==
  [rows EXCEPT ![s] = [d \in Days |-> IF d \in dates THEN Quality(d) ELSE "none"]]
UpsertFirstYear(rows, s, dates) ==
  [rows EXCEPT ![s] = [d \in Days |-> IF d \in dates /\ d < NewYear THEN Quality(d) ELSE rows[s][d]]]

\* upsert_ohlcv_from_df: the bars join those on disk, the newer one wins.
Upsert(rows, s, dates) ==
  [rows EXCEPT ![s] = [d \in Days |-> IF d \in dates THEN Quality(d) ELSE rows[s][d]]]

\* get_last_success_date, and get_last_silver_date when it finds nothing.
LastSuccess == LatestOf({state[s].last : s \in Symbols})
Baseline    == IF LastSuccess # 0 THEN LastSuccess ELSE LatestOf(Observed(silver))

\* resolve_collection_target_date: the latest open day, today from 09:00 on.
TargetDate == LatestOf({d \in OpenDays : HasBegun(d)})

Universe(t) == {s \in Symbols : Collectible(s) /\ Listed[s] <= t}

\* get_gaps: years short of rows.  Where a symbol's first year starts within
\* the year, only a year without any row counts.
YearOf(d)      == IF d < NewYear THEN 0 ELSE 1
FirstSeen(s)   == IF DaysOf(silver, s) = {} THEN {} ELSE {Min(DaysOf(silver, s))}
EffStart(s)    == Max({Listed[s], start} \cup FirstSeen(s))
RowsIn(s, y)   == {d \in DaysOf(silver, s) : start <= d /\ d <= target /\ YearOf(d) = y}
Partial(s, y)  == y = YearOf(EffStart(s)) /\ EffStart(s) # NewYear
ShortYears(s)  ==
  {y \in YearOf(start) .. YearOf(target) :
     /\ y >= YearOf(EffStart(s))
     /\ IF Partial(s, y) THEN RowsIn(s, y) = {} ELSE Cardinality(RowsIn(s, y)) < MinRows}
GapFrom(s, y)  == IF Partial(s, y) THEN EffStart(s)
                  ELSE IF y = YearOf(start) THEN start ELSE NewYear
GapTo(y)       == IF y = YearOf(target) THEN target ELSE NewYear - 1
\* get_gaps_merged: adjacent years make one interval.
Gap(s)         == [from |-> GapFrom(s, Min(ShortYears(s))), to |-> GapTo(Max(ShortYears(s)))]
Gaps           == {s \in Symbols : Collectible(s) /\ ShortYears(s) # {}}

\* fetch_ohlcv_chunked at gap fill's threshold of 0.95: what is there already
\* is used when it covers the interval's expected number of trading days.
Expected(n)    == Max({1, (n * 252) \div 365})
Covered(have, g) == have # {} /\ Cardinality(have) * 100 >= 95 * Expected(g.to - g.from + 1)
-----------------------------------------------------------------------------
Init ==
  /\ day = 1 /\ session = "closed"
  /\ delisted = [s \in Symbols |-> 0] /\ halts = [s \in Symbols |-> {}]
  /\ universe = [s \in Symbols |-> "active"]
  /\ silver \in {[s \in Symbols |-> [d \in Days |-> IF d \in past /\ Listed[s] <= d THEN "closing" ELSE "none"]] :
                   past \in {{}, OpenDays \cap {1}}}
  /\ state = [s \in Symbols |-> [last |-> LatestOf(DaysOf(silver, s)), error |-> "none"]]
  /\ published = silver
  /\ pc = "idle" /\ job = "daily" /\ start = 0 /\ target = 0
  /\ todo = {} /\ again = {} /\ attempt = 1 /\ saved = NoSave /\ repairs = {}
  /\ unresolved = {} /\ excluded = {}

Tradable == {s \in Troubled : delisted[s] = 0 /\ Listed[s] <= day + 1}

\* Time passes.  A new day may halt symbols and delist symbols.
NewDay ==
  /\ session = "closed" /\ day < LastDay
  /\ day' = day + 1 /\ session' = "early"
  /\ \E stopped \in SUBSET Tradable, gone \in SUBSET Tradable :
       /\ halts' = [s \in Symbols |-> IF s \in stopped THEN halts[s] \cup {day + 1} ELSE halts[s]]
       /\ delisted' = [s \in Symbols |-> IF s \in gone THEN day + 1 ELSE delisted[s]]
  /\ UNCHANGED <<storeVars, pc, frameVars, loopVars, verdicts>>

Bell ==
  /\ session # "closed"
  /\ session' = IF session = "early" THEN "open" ELSE "closed"
  /\ UNCHANGED <<day, delisted, halts, storeVars, pc, frameVars, loopVars, verdicts>>

\* A job on the runner starts from the release and a fresh meta.duckdb.
Prepare ==
  IF OnRunner
  THEN /\ silver' = published /\ universe' \in Masters
       /\ state' = [s \in Symbols |-> [last |-> 0, error |-> "none"]]
  ELSE UNCHANGED <<silver, universe, state>>

StartRun(kind, from, to, rows) ==
  /\ UNCHANGED <<worldVars, published>>
  /\ pc' = "collect" /\ job' = kind /\ start' = from /\ target' = to /\ todo' = rows
  /\ again' = {} /\ attempt' = 1 /\ saved' = NoSave /\ repairs' = {}
  /\ unresolved' = {} /\ excluded' = {}

\* run_daily_collect.main: from the day after the last success to the target,
\* or the target once more when that has been collected already.
BeginDaily ==
  /\ pc \in Resting /\ TargetDate # 0
  /\ Prepare
  /\ Baseline' # 0
  /\ StartRun("daily", Min({Baseline' + 1, TargetDate}), TargetDate, Universe(TargetDate)')

\* Neither collect_state nor silver holds anything: nothing to do.
NothingToDo ==
  /\ pc \in Resting /\ Prepare /\ Baseline' = 0
  /\ pc' = "idle"
  /\ UNCHANGED <<worldVars, published, frameVars, loopVars, verdicts>>

\* audit_repair_last_week.main with its defaults: no gap fill, and the bars of
\* every day of the window are candidates for repair.
BeginAudit ==
  /\ OnRunner /\ pc \in Resting /\ TargetDate # 0
  /\ Prepare
  /\ Observed(silver') # {}
  /\ StartRun("audit", TargetDate - AuditDays + 1, TargetDate, Universe(TargetDate)')

\* retry_failed_job.main: the rows with an error, over dates of the operator.
BeginRetry ==
  /\ ~OnRunner /\ pc \in Resting
  /\ \E from, to \in OpenDays :
       /\ from <= to /\ to <= day
       /\ StartRun("retry", from, to, {s \in Symbols : Collectible(s) /\ state[s].error # "none"})
  /\ todo' # {}
  /\ UNCHANGED <<silver, universe, state>>

\* replace_universe: DELETE, then INSERT, each committed on its own.
ClearUniverse ==
  /\ ~OnRunner /\ pc \in Resting
  /\ universe' = [s \in Symbols |-> "missing"] /\ pc' = "refresh"
  /\ UNCHANGED <<worldVars, state, silver, published, frameVars, loopVars, verdicts>>

FillUniverse ==
  /\ pc = "refresh"
  /\ universe' \in Masters /\ pc' = "idle"
  /\ UNCHANGED <<worldVars, state, silver, published, frameVars, loopVars, verdicts>>
-----------------------------------------------------------------------------
(***************************************************************************)
(* Fetching one symbol: _collect_row and collect_one.                      *)
(***************************************************************************)
\* Slip that the properties must notice: a failure nobody records.
RecordNothing(s, error) == UNCHANGED state

\* upsert_collect_state for a failure keeps last_success_date.
RecordFailure(s, error) == state' = [state EXCEPT ![s].error = error]

\* The bars are in the parquet files; collect_state is still to be written.
WriteBars(s, dates, last) ==
  /\ silver' = Upsert(silver, s, dates)
  /\ saved' = [symbol |-> s, last |-> last]
  /\ UNCHANGED state

\* The bars are written one year's file after the other; any of these writes,
\* or the success record after them, fails.
FailToWrite(s, dates) ==
  /\ \E written \in {{}, {d \in dates : YearOf(d) = 0}, dates} :
       silver' = Upsert(silver, s, written)
  /\ RecordFailure(s, "other")

\* _collect_row: the bar of the target day is required.
HasTarget(r) == target \in r.valid

Row(s) == pc = "collect" /\ saved = NoSave /\ s \in todo

CollectRow(s) ==
  /\ Row(s)
  /\ \E r \in Replies(s, start, target) :
       HasTarget(r) /\ WriteBars(s, r.valid, LatestOf(r.valid))
  /\ UNCHANGED <<worldVars, universe, published, pc, frameVars, todo, again, attempt, repairs, verdicts>>

MissRow(s) ==
  /\ Row(s)
  /\ \/ /\ \E r \in Replies(s, start, target) :
            /\ ~HasTarget(r)
            /\ RecordFailure(s, IF r.bad THEN "other" ELSE "noRow")
       /\ UNCHANGED silver
     \/ RecordFailure(s, "other") /\ UNCHANGED silver  \* the request fails
     \/ \E r \in Replies(s, start, target) : HasTarget(r) /\ FailToWrite(s, r.valid)
  /\ todo' = todo \ {s} /\ again' = again \cup {s}
  /\ UNCHANGED <<worldVars, universe, published, pc, frameVars, attempt, saved, repairs, verdicts>>

\* upsert_collect_state for a success.
RecordSuccess ==
  /\ saved # NoSave
  /\ state' = [state EXCEPT ![saved.symbol] = [last |-> saved.last, error |-> "none"]]
  /\ saved' = NoSave
  /\ todo' = todo \ {saved.symbol}
  /\ repairs' = {r \in repairs : r # <<saved.symbol, saved.last>>}
  /\ UNCHANGED <<worldVars, universe, silver, published, pc, frameVars, again, attempt, verdicts>>

PassOver == pc = "collect" /\ saved = NoSave /\ todo = {}

\* Slips: one pass too many, and a pass that is not counted.
MorePassesByOne == again # {} /\ attempt <= MaxAttempts
NextAttemptUncounted ==
  /\ PassOver /\ again # {} /\ attempt < MaxAttempts
  /\ todo' = again /\ again' = {}
  /\ UNCHANGED <<worldVars, storeVars, pc, frameVars, attempt, saved, repairs, verdicts>>

MorePasses == again # {} /\ attempt < MaxAttempts

NextAttempt ==
  /\ PassOver /\ MorePasses
  /\ todo' = again /\ again' = {} /\ attempt' = attempt + 1
  /\ UNCHANGED <<worldVars, storeVars, pc, frameVars, saved, repairs, verdicts>>

\* Only rows that were absent from KIS's answer are looked into.
Explainable == {s \in again : state[s].error = "noRow"}

\* Slip: the others are passed over.
RestForgotten == {}
Rest == again \ Explainable

GiveUp ==
  /\ PassOver /\ ~MorePasses
  /\ pc' = "recover"
  /\ todo' = Explainable /\ unresolved' = Rest
  /\ again' = {} /\ attempt' = 1
  /\ UNCHANGED <<worldVars, storeVars, frameVars, saved, repairs, excluded>>

\* Slip: a halt of today held against an earlier day.
ClassifyStopped(info) ==
  IF job = "retry" \/ ~info.same THEN "failed" ELSE IF info.stop THEN "halted" ELSE "failed"

\* classify_stock_status; a row without ISIN (retry_failed_job's) proves nothing.
Delisted(info) == info.abol # 0 /\ info.listed <= info.abol /\ info.abol <= target
Classify(info) ==
  IF job = "retry" \/ ~info.same THEN "failed"
  ELSE IF Delisted(info) THEN "inactive"
  ELSE IF target = day /\ info.stop THEN "halted" ELSE "failed"

\* persist_confirmed_status is one transaction; a lookup that fails leaves the
\* row unresolved.
Recover(s) ==
  /\ pc = "recover" /\ s \in todo
  /\ todo' = todo \ {s}
  /\ \E outcome \in {Classify(info) : info \in StockInfos(s)} \cup {"failed"} :
       IF outcome = "failed"
       THEN unresolved' = unresolved \cup {s} /\ UNCHANGED <<universe, state, excluded>>
       ELSE /\ universe' = [universe EXCEPT ![s] = outcome]
            /\ state' = [state EXCEPT ![s].error = "none"]
            /\ excluded' = excluded \cup {<<s, outcome>>}
            /\ UNCHANGED unresolved
  /\ UNCHANGED <<worldVars, silver, published, pc, frameVars, again, attempt, saved, repairs>>

\* The sets of bars whose volume the repair steps may find suspicious: in a
\* daily run those of the latest day, in an audit those of its window.
Suspects == SUBSET {r \in Symbols \X Days :
  /\ Collectible(r[1]) /\ Has(silver, r[1], r[2])
  /\ r[2] \in IF job = "audit" THEN start .. target ELSE {LatestOf(Observed(silver))}}

Decided == pc = "recover" /\ todo = {}

\* collect_daily.main ends in an error when a row is unresolved, and the run
\* with it.  retry_failed_job only logs the count.
CollectionFails ==
  /\ Decided /\ unresolved # {} /\ job # "retry"
  /\ pc' = "failed"
  /\ UNCHANGED <<worldVars, storeVars, frameVars, loopVars, verdicts>>

RetryEnds ==
  /\ Decided /\ job = "retry"
  /\ pc' = "idle"
  /\ UNCHANGED <<worldVars, storeVars, frameVars, loopVars, verdicts>>

BeginGapFill ==
  /\ Decided /\ unresolved = {} /\ job = "daily"
  /\ pc' = "gapfill" /\ todo' = Gaps
  /\ UNCHANGED <<worldVars, storeVars, frameVars, again, attempt, saved, repairs, verdicts>>

\* collect_one over the symbol's gap: no particular day is required, and what
\* the interval's latest bar is becomes last_success_date, nothing included.
Filling(s) == pc = "gapfill" /\ saved = NoSave /\ s \in todo

FillGap(s) ==
  /\ Filling(s)
  /\ LET gap  == Gap(s)
         have == {d \in DaysOf(silver, s) : gap.from <= d /\ d <= gap.to}
     IN IF Covered(have, gap)
        THEN UNCHANGED <<silver, state>> /\ saved' = [symbol |-> s, last |-> Max(have)]
        ELSE \E r \in Replies(s, gap.from, gap.to) : WriteBars(s, r.valid, LatestOf(r.valid))
  /\ UNCHANGED <<worldVars, universe, published, pc, frameVars, todo, again, attempt, repairs, verdicts>>

MissGap(s) ==
  /\ Filling(s)
  /\ \/ RecordFailure(s, "other") /\ UNCHANGED silver
     \/ \E r \in Replies(s, Gap(s).from, Gap(s).to) : FailToWrite(s, r.valid)
  /\ todo' = todo \ {s} /\ unresolved' = unresolved \cup {s}
  /\ UNCHANGED <<worldVars, universe, published, pc, frameVars, again, attempt, saved, repairs, excluded>>

Filled == pc = "gapfill" /\ saved = NoSave /\ todo = {}

\* run_incremental_and_gap_fill raises when an interval failed.
GapFillFails ==
  /\ Filled /\ unresolved # {}
  /\ pc' = "failed"
  /\ UNCHANGED <<worldVars, storeVars, frameVars, loopVars, verdicts>>

\* The run of the host is complete.
HostEnds ==
  /\ Filled /\ unresolved = {} /\ ~OnRunner
  /\ pc' = "done"
  /\ UNCHANGED <<worldVars, storeVars, frameVars, loopVars, verdicts>>

BeginRepair ==
  /\ OnRunner /\ unresolved = {}
  /\ Filled \/ (Decided /\ job = "audit")
  /\ pc' = "repair" /\ repairs' \in Suspects
  /\ UNCHANGED <<worldVars, storeVars, frameVars, todo, again, attempt, saved, verdicts>>

\* run_repair_loop: each bar fetched again, whatever is on disk.
RepairBar(s, d) ==
  /\ pc = "repair" /\ saved = NoSave /\ <<s, d>> \in repairs
  /\ \E r \in Replies(s, d, d) : d \in r.valid /\ WriteBars(s, {d}, d)
  /\ UNCHANGED <<worldVars, universe, published, pc, frameVars, todo, again, attempt, repairs, verdicts>>

MissBar(s, d) ==
  /\ pc = "repair" /\ saved = NoSave /\ <<s, d>> \in repairs
  /\ RecordFailure(s, "other")
  /\ repairs' = repairs \ {<<s, d>>} /\ unresolved' = unresolved \cup {s}
  /\ UNCHANGED <<worldVars, universe, silver, published, pc, frameVars, todo, again, attempt, saved, excluded>>

Repaired == pc = "repair" /\ saved = NoSave /\ repairs = {}

RepairFails ==
  /\ Repaired /\ unresolved # {}
  /\ pc' = "failed"
  /\ UNCHANGED <<worldVars, storeVars, frameVars, loopVars, verdicts>>

BuildSnapshot ==
  /\ Repaired /\ unresolved = {}
  /\ pc' = "validate"
  /\ UNCHANGED <<worldVars, storeVars, frameVars, loopVars, verdicts>>

\* Slip: only the latest day is looked at.
CompleteOnLatest(rows) ==
  LatestOf(Observed(rows)) = target /\ \A s \in Universe(target) : Has(rows, s, target)

\* validate_snapshot --strict: the latest day is the target, and every expected
\* symbol has a bar on it and on every day of the window anyone has a bar of.
Complete(rows) ==
  /\ LatestOf(Observed(rows)) = target
  /\ \A d \in Observed(rows) \cap (start .. target) : \A s \in Universe(d) : Has(rows, s, d)

Publish ==
  /\ pc = "validate" /\ Complete(silver)
  /\ published' = silver /\ pc' = "done"
  /\ UNCHANGED <<worldVars, universe, state, silver, frameVars, loopVars, verdicts>>

Refuse ==
  /\ pc = "validate" /\ ~Complete(silver)
  /\ pc' = "failed"
  /\ UNCHANGED <<worldVars, storeVars, frameVars, loopVars, verdicts>>

\* The process dies; what it wrote stays.
Crash ==
  /\ pc \notin Resting
  /\ pc' = "idle" /\ saved' = NoSave
  /\ todo' = {} /\ again' = {} /\ attempt' = 1 /\ repairs' = {}
  /\ unresolved' = {} /\ excluded' = {}
  /\ UNCHANGED <<worldVars, storeVars, frameVars>>
-----------------------------------------------------------------------------
Begin == BeginDaily \/ NothingToDo \/ BeginAudit \/ BeginRetry \/ ClearUniverse

RunStep ==
  \/ FillUniverse \/ RecordSuccess
  \/ \E s \in Symbols : CollectRow(s) \/ MissRow(s) \/ Recover(s) \/ FillGap(s) \/ MissGap(s)
  \/ \E s \in Symbols, d \in Days : RepairBar(s, d) \/ MissBar(s, d)
  \/ NextAttempt \/ GiveUp
  \/ CollectionFails \/ RetryEnds \/ BeginGapFill
  \/ GapFillFails \/ HostEnds \/ BeginRepair
  \/ RepairFails \/ BuildSnapshot \/ Publish \/ Refuse

Next == NewDay \/ Bell \/ Begin \/ RunStep \/ Crash

Spec     == Init /\ [][Next]_vars
\* A run, once started, is executed.
LiveSpec == Spec /\ WF_vars(RunStep)
-----------------------------------------------------------------------------
TypeOK ==
  /\ day \in Days /\ session \in {"early", "open", "closed"}
  /\ delisted \in [Symbols -> Calendar] /\ halts \in [Symbols -> SUBSET Days]
  /\ universe \in [Symbols -> Flags]
  /\ state \in [Symbols -> [last : Calendar, error : Errors]]
  /\ silver \in Bars /\ published \in Bars
  /\ pc \in Resting \cup Steps \cup {"refresh"} /\ job \in {"daily", "audit", "retry"}
  /\ start \in Int /\ target \in Calendar
  /\ todo \subseteq Symbols /\ again \subseteq Symbols
  /\ attempt \in 1 .. MaxAttempts
  /\ saved \in [symbol : Symbols \cup {NoSymbol}, last : Calendar]
  /\ repairs \subseteq Symbols \X Days
  /\ unresolved \subseteq Symbols /\ excluded \subseteq Symbols \X Flags

\* A run that ends well has, for every symbol that is still to be collected,
\* the bar of the target day: no failure of a row, a retry, the recovery, gap
\* fill or a repair is lost on the way (collect_rows, run_daily_collect.main).
RunComplete ==
  pc = "done" => \A s \in Universe(target) : Has(silver, s, target)

\* last_success_date names a bar that is in silver, wherever the process died:
\* the next window starts after it.
LastIsStored ==
  \A s \in Symbols : state[s].last # 0 => Has(silver, s, state[s].last)

\* A row is excluded only when that symbol, not an older listing of its code,
\* was delisted by the target day or halted on it; a halt of today says nothing
\* of an earlier day (classify_stock_status).
ExclusionsProven ==
  \A e \in excluded :
    IF e[2] = "inactive" THEN delisted[e[1]] \in 1 .. target ELSE target \in halts[e[1]]

\* Each row a failed run of the host left unresolved has its error in
\* collect_state, where retry_failed_job finds it.
FailuresQueued ==
  pc = "failed" /\ ~OnRunner => \A s \in unresolved : state[s].error # "none"

\* Of a symbol that was never halted or delisted the release has every day any
\* symbol has a bar of: a job that fails, however far it came, leaves no hole
\* that a later job's window does not reach back to.
NoHoleInPublished ==
  OnRunner =>
    \A s \in Symbols, d \in Observed(published) :
      Listed[s] <= d /\ halts[s] = {} /\ delisted[s] = 0 => Has(published, s, d)

\* Bars on the host's disk, and bars in the release, are never lost: not by an
\* answer with fewer rows, a failed write or an exclusion.
Kept(rows) == IF OnRunner THEN published[rows[1]][rows[2]] # "none" ELSE Has(silver, rows[1], rows[2])
BarsKept   == [][\A b \in Symbols \X Days : Kept(b) => Kept(b)']_vars

\* A run comes to its end.
RunEnds == (pc \notin Resting) ~> (pc \in Resting)

\* What refresh-snapshot-from-release.yml says of a bar taken while the market
\* was open: a later collection refreshes it.  The window of a later day starts
\* after it.
IntradayRefreshed ==
  \A s \in Symbols, d \in Days : d < LatestOf(Observed(published)) => published[s][d] # "intraday"
=============================================================================
