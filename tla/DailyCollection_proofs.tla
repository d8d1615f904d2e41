----------------------- MODULE DailyCollection_proofs -----------------------
(***************************************************************************)
(* Proofs about DailyCollection, for every value of the constants.         *)
(***************************************************************************)
EXTENDS DailyCollection, WellFoundedInduction, TLAPS

(***************************************************************************)
(* The latest and the earliest of a set of days.                           *)
(***************************************************************************)
\* A non-empty set of natural numbers has a least element.
LEMMA LeastExists ==
  ASSUME NEW T \in SUBSET Nat, T # {}
  PROVE  \E x \in T : \A y \in T : x <= y
<1> DEFINE R == OpToRel(<, Nat)
<1>1. IsWellFoundedOn(R, Nat)
  BY NatLessThanWellFounded
<1>2. \E x \in T : \A y \in T : ~ (<<y, x>> \in R)
  <2>. HIDE DEF R
  <2>. QED  BY <1>1, WFMin
<1>3. PICK x \in T : \A y \in T : ~ (<<y, x>> \in R)
  BY <1>2
<1>4. \A y \in T : ~ (y < x)
  BY <1>3 DEF OpToRel
<1>. QED  BY <1>4

\* Max of a non-empty set of days is one of them, and none is later.
LEMMA MaxOfDays ==
  ASSUME NEW T \in SUBSET Calendar, T # {}
  PROVE  Max(T) \in T /\ \A d \in T : d <= Max(T)
<1> DEFINE U == {LastDay - d : d \in T}
<1>1. LastDay \in Nat /\ \A d \in T : d \in Int /\ 0 <= d /\ d <= LastDay
  BY CollectionAssumption DEF Calendar
<1>2. U \in SUBSET Nat /\ U # {}
  BY <1>1
<1>3. PICK u \in U : \A v \in U : u <= v
  <2>. HIDE DEF U
  <2>. QED  BY <1>2, LeastExists
<1>4. PICK m \in T : u = LastDay - m
  BY <1>3
<1>5. \A d \in T : m >= d
  <2>1. SUFFICES ASSUME NEW d \in T PROVE m >= d
    OBVIOUS
  <2>2. LastDay - d \in U
    OBVIOUS
  <2>3. LastDay - m <= LastDay - d
    <3>. HIDE DEF U
    <3>. QED  BY <1>3, <1>4, <2>2
  <2>. QED  BY <1>1, <2>3
<1>6. Max(T) \in T /\ \A d \in T : Max(T) >= d
  BY <1>4, <1>5 DEF Max
<1>. QED  BY <1>1, <1>6

\* Min of a non-empty set of days is one of them.
LEMMA MinOfDays ==
  ASSUME NEW T \in SUBSET Days, T # {}
  PROVE  Min(T) \in T
<1>1. T \in SUBSET Nat
  BY CollectionAssumption DEF Days
<1>2. \E x \in T : \A y \in T : x <= y
  BY <1>1, LeastExists
<1>. QED  BY <1>2 DEF Min

\* LatestOf is a date of the set, or no date when the set is empty.
LEMMA LatestIsDate ==
  ASSUME NEW T \in SUBSET Calendar
  PROVE  /\ LatestOf(T) \in Calendar
         /\ LatestOf(T) # 0 => LatestOf(T) \in T
         /\ \A d \in T : d <= LatestOf(T)
<1>1. 0 \in Calendar
  BY CollectionAssumption DEF Calendar
<1>2. CASE T = {}
  BY <1>1, <1>2 DEF LatestOf
<1>3. CASE T # {}
  BY <1>3, MaxOfDays DEF LatestOf
<1>. QED  BY <1>2, <1>3

\* A day is a date, and dates are natural numbers.
LEMMA DaysInCalendar == Days \subseteq Calendar /\ Calendar \subseteq Nat /\ 0 \in Calendar
BY CollectionAssumption DEF Days, Calendar

\* Min of two integers is one of them.
LEMMA MinOfTwo ==
  ASSUME NEW a \in Int, NEW b \in Int
  PROVE  Min({a, b}) \in {a, b}
<1>1. \E x \in {a, b} : \A y \in {a, b} : x <= y
  <2>1. CASE a <= b
    BY <2>1
  <2>2. CASE b <= a
    BY <2>2
  <2>. QED  BY <2>1, <2>2
<1>. QED  BY <1>1 DEF Min

\* The target of a run is an open day or no date.
LEMMA TargetType == TargetDate \in Calendar
<1> DEFINE T == {d \in OpenDays : HasBegun(d)}
<1>1. OpenDays \subseteq Calendar
  BY DaysInCalendar, CollectionAssumption
<1>2. T \in SUBSET Calendar
  BY <1>1
<1>. QED  BY <1>2, LatestIsDate DEF TargetDate

\* An upsert keeps the type and every bar, adds the given days of the symbol
\* and nothing else.
LEMMA UpsertEffect ==
  ASSUME NEW rows \in Bars, NEW s \in Symbols, NEW dates
  PROVE  /\ Upsert(rows, s, dates) \in Bars
         /\ \A x \in Symbols, d \in Days :
              Has(Upsert(rows, s, dates), x, d) <=> Has(rows, x, d) \/ (x = s /\ d \in dates)
<1>1. \A d \in Days : Quality(d) \in {"intraday", "closing"}
  BY DEF Quality
<1>2. \A x \in Symbols, d \in Days :
        Upsert(rows, s, dates)[x][d] = IF x = s /\ d \in dates THEN Quality(d) ELSE rows[x][d]
  BY DEF Upsert, Bars
<1>3. Upsert(rows, s, dates) \in Bars
  BY <1>1 DEF Upsert, Bars
<1>. QED  BY <1>1, <1>2, <1>3 DEF Has

\* What arrives from KIS are bars of open days.
LEMMA RepliesAreDays ==
  ASSUME NEW s \in Symbols, NEW from, NEW to, NEW r \in Replies(s, from, to)
  PROVE  r.valid \in SUBSET Days /\ r.valid \subseteq from .. to
BY CollectionAssumption DEF Replies, Quoted

(***************************************************************************)
(* Types                                                                   *)
(***************************************************************************)
LEMMA InitType == Init => TypeOK
<1>. SUFFICES ASSUME Init PROVE TypeOK
  OBVIOUS
<1>1. silver \in Bars
  BY DEF Init, Bars
<1>2. \A s \in Symbols : LatestOf(DaysOf(silver, s)) \in Calendar
  BY DaysInCalendar, LatestIsDate DEF DaysOf
<1>3. state \in [Symbols -> [last : Calendar, error : Errors]]
  BY <1>2 DEF Init, Errors
<1>4. day \in Days /\ attempt \in 1 .. MaxAttempts /\ start \in Int
  BY CollectionAssumption DEF Init, Days
<1>5. saved \in [symbol : Symbols \cup {NoSymbol}, last : Calendar]
  BY DaysInCalendar DEF Init, NoSave
<1>6. universe \in [Symbols -> Flags] /\ delisted \in [Symbols -> Calendar] /\ halts \in [Symbols -> SUBSET Days]
  BY DaysInCalendar DEF Init, Flags
<1>. QED  BY <1>1, <1>3, <1>4, <1>5, <1>6, DaysInCalendar DEF Init, TypeOK, Resting

LEMMA NewDayType == TypeOK /\ NewDay => TypeOK'
<1>. SUFFICES ASSUME TypeOK, NewDay PROVE TypeOK'
  OBVIOUS
<1>1. day' \in Days /\ day + 1 \in Days
  BY CollectionAssumption DEF TypeOK, NewDay, Days
<1>2. halts' \in [Symbols -> SUBSET Days] /\ delisted' \in [Symbols -> Calendar]
  BY <1>1, DaysInCalendar DEF TypeOK, NewDay
<1>. QED  BY <1>1, <1>2 DEF TypeOK, NewDay, storeVars, frameVars, loopVars, verdicts

LEMMA BellType == TypeOK /\ Bell => TypeOK'
BY DEF TypeOK, Bell, storeVars, frameVars, loopVars, verdicts

\* What a job finds when it begins.
LEMMA PrepareType ==
  TypeOK /\ Prepare => /\ silver' \in Bars /\ universe' \in [Symbols -> Flags]
                      /\ state' \in [Symbols -> [last : Calendar, error : Errors]]
<1>. SUFFICES ASSUME TypeOK, Prepare
             PROVE  /\ silver' \in Bars /\ universe' \in [Symbols -> Flags]
                    /\ state' \in [Symbols -> [last : Calendar, error : Errors]]
  OBVIOUS
<1>1. CASE OnRunner
  BY <1>1, DaysInCalendar DEF TypeOK, Prepare, Masters, Errors
<1>2. CASE ~OnRunner
  BY <1>2 DEF TypeOK, Prepare
<1>. QED  BY <1>1, <1>2

\* The baseline of a daily run is a date.
LEMMA BaselineType ==
  state' \in [Symbols -> [last : Calendar, error : Errors]] => Baseline' \in Calendar
<1>. SUFFICES ASSUME state' \in [Symbols -> [last : Calendar, error : Errors]]
             PROVE  Baseline' \in Calendar
  OBVIOUS
<1> DEFINE T == {state'[s].last : s \in Symbols}
<1>1. T \in SUBSET Calendar
  OBVIOUS
<1>2. LastSuccess' \in Calendar
  BY <1>1, LatestIsDate DEF LastSuccess
<1>3. Observed(silver') \in SUBSET Calendar
  BY DaysInCalendar DEF Observed
<1>. QED  BY <1>2, <1>3, LatestIsDate DEF Baseline

\* The start of a run makes its own frame.
LEMMA StartRunType ==
  ASSUME TypeOK, NEW kind \in {"daily", "audit", "retry"}, NEW from \in Int,
         NEW to \in Calendar, NEW rows \in SUBSET Symbols,
         StartRun(kind, from, to, rows), silver' \in Bars,
         universe' \in [Symbols -> Flags],
         state' \in [Symbols -> [last : Calendar, error : Errors]]
  PROVE  TypeOK'
<1>1. 1 \in 1 .. MaxAttempts
  BY CollectionAssumption
<1>2. NoSave \in [symbol : Symbols \cup {NoSymbol}, last : Calendar]
  BY DaysInCalendar DEF NoSave
<1>. QED  BY <1>1, <1>2 DEF TypeOK, StartRun, worldVars, Steps

LEMMA BeginDailyType == TypeOK /\ BeginDaily => TypeOK'
<1>. SUFFICES ASSUME TypeOK, BeginDaily PROVE TypeOK'
  OBVIOUS
<1>1. /\ silver' \in Bars /\ universe' \in [Symbols -> Flags]
      /\ state' \in [Symbols -> [last : Calendar, error : Errors]]
  BY PrepareType DEF BeginDaily
<1>2. Baseline' \in Nat /\ TargetDate \in Calendar /\ TargetDate \in Nat
  BY <1>1, BaselineType, TargetType, DaysInCalendar
<1>3. Min({Baseline' + 1, TargetDate}) \in Int
  BY <1>2, MinOfTwo
<1>4. Universe(TargetDate)' \in SUBSET Symbols
  BY DEF Universe
<1>. QED  BY <1>1, <1>2, <1>3, <1>4, StartRunType DEF BeginDaily

LEMMA BeginAuditType == TypeOK /\ BeginAudit => TypeOK'
<1>. SUFFICES ASSUME TypeOK, BeginAudit PROVE TypeOK'
  OBVIOUS
<1>1. /\ silver' \in Bars /\ universe' \in [Symbols -> Flags]
      /\ state' \in [Symbols -> [last : Calendar, error : Errors]]
  BY PrepareType DEF BeginAudit
<1>2. TargetDate \in Calendar /\ TargetDate - AuditDays + 1 \in Int
  BY TargetType, DaysInCalendar, CollectionAssumption
<1>3. Universe(TargetDate)' \in SUBSET Symbols
  BY DEF Universe
<1>. QED  BY <1>1, <1>2, <1>3, StartRunType DEF BeginAudit

LEMMA BeginRetryType == TypeOK /\ BeginRetry => TypeOK'
<1>. SUFFICES ASSUME TypeOK, BeginRetry PROVE TypeOK'
  OBVIOUS
<1> DEFINE rows == {s \in Symbols : Collectible(s) /\ state[s].error # "none"}
<1>1. PICK from \in OpenDays, to \in OpenDays : StartRun("retry", from, to, rows)
  BY DEF BeginRetry
<1>2. from \in Int /\ to \in Calendar
  BY DaysInCalendar, CollectionAssumption
<1>3. rows \in SUBSET Symbols
  OBVIOUS
<1>4. /\ silver' \in Bars /\ universe' \in [Symbols -> Flags]
      /\ state' \in [Symbols -> [last : Calendar, error : Errors]]
  BY DEF BeginRetry, TypeOK
<1>. HIDE DEF rows
<1>. QED  BY <1>1, <1>2, <1>3, <1>4, StartRunType

LEMMA BeginType == TypeOK /\ Begin => TypeOK'
<1>. SUFFICES ASSUME TypeOK, Begin PROVE TypeOK'
  OBVIOUS
<1>1. CASE NothingToDo
  BY <1>1, PrepareType DEF NothingToDo, TypeOK, worldVars, frameVars, loopVars, verdicts, Resting
<1>2. CASE ClearUniverse
  BY <1>2 DEF ClearUniverse, TypeOK, worldVars, frameVars, loopVars, verdicts, Flags
<1>. QED  BY <1>1, <1>2, BeginDailyType, BeginAuditType, BeginRetryType DEF Begin

\* The writes of one symbol.
LEMMA WriteType ==
  ASSUME TypeOK, NEW s \in Symbols
  PROVE  /\ \A error \in Errors :
              RecordFailure(s, error) => state' \in [Symbols -> [last : Calendar, error : Errors]]
         /\ \A dates : \A last \in Calendar : WriteBars(s, dates, last) =>
              /\ silver' \in Bars /\ UNCHANGED state
              /\ saved' \in [symbol : Symbols \cup {NoSymbol}, last : Calendar]
         /\ \A dates : FailToWrite(s, dates) =>
              silver' \in Bars /\ state' \in [Symbols -> [last : Calendar, error : Errors]]
<1>1. \A error \in Errors :
        RecordFailure(s, error) => state' \in [Symbols -> [last : Calendar, error : Errors]]
  <2>1. state[s] \in [last : Calendar, error : Errors]
    BY DEF TypeOK
  <2>2. \A error \in Errors : [state[s] EXCEPT !.error = error] \in [last : Calendar, error : Errors]
    BY <2>1
  <2>. QED  BY <2>2 DEF TypeOK, RecordFailure
<1>2. silver \in Bars
  BY DEF TypeOK
<1>3. \A dates : \A last \in Calendar : WriteBars(s, dates, last) =>
              /\ silver' \in Bars /\ UNCHANGED state
              /\ saved' \in [symbol : Symbols \cup {NoSymbol}, last : Calendar]
  BY <1>2, UpsertEffect DEF WriteBars
<1>4. \A dates : FailToWrite(s, dates) => silver' \in Bars /\ RecordFailure(s, "other")
  BY <1>2, UpsertEffect DEF FailToWrite
<1>. QED  BY <1>1, <1>3, <1>4 DEF Errors

LEMMA CollectRowType == ASSUME NEW s \in Symbols PROVE TypeOK /\ CollectRow(s) => TypeOK'
<1>. SUFFICES ASSUME TypeOK, CollectRow(s) PROVE TypeOK'
  OBVIOUS
<1>1. PICK r \in Replies(s, start, target) : WriteBars(s, r.valid, LatestOf(r.valid))
  BY DEF CollectRow
<1>2. LatestOf(r.valid) \in Calendar
  BY RepliesAreDays, DaysInCalendar, LatestIsDate
<1>3. /\ silver' \in Bars /\ UNCHANGED state
      /\ saved' \in [symbol : Symbols \cup {NoSymbol}, last : Calendar]
  BY <1>1, <1>2, WriteType
<1>. QED  BY <1>3 DEF CollectRow, TypeOK, worldVars, frameVars, verdicts

LEMMA MissRowType == ASSUME NEW s \in Symbols PROVE TypeOK /\ MissRow(s) => TypeOK'
<1>. SUFFICES ASSUME TypeOK, MissRow(s) PROVE TypeOK'
  OBVIOUS
<1>1. silver' \in Bars /\ state' \in [Symbols -> [last : Calendar, error : Errors]]
  <2>1. "noRow" \in Errors /\ "other" \in Errors /\ silver \in Bars
    BY DEF Errors, TypeOK
  <2>. QED  BY <2>1, WriteType DEF MissRow
<1>. QED  BY <1>1 DEF MissRow, TypeOK, worldVars, frameVars, verdicts

LEMMA RecordSuccessType == TypeOK /\ RecordSuccess => TypeOK'
<1>. SUFFICES ASSUME TypeOK, RecordSuccess PROVE TypeOK'
  OBVIOUS
<1>1. [last |-> saved.last, error |-> "none"] \in [last : Calendar, error : Errors]
  BY DEF TypeOK, Errors
<1>2. state' \in [Symbols -> [last : Calendar, error : Errors]]
  BY <1>1 DEF TypeOK, RecordSuccess
<1>3. NoSave \in [symbol : Symbols \cup {NoSymbol}, last : Calendar]
  BY DaysInCalendar DEF NoSave
<1>. QED  BY <1>2, <1>3 DEF TypeOK, RecordSuccess, worldVars, frameVars, verdicts

LEMMA PassType == TypeOK /\ (NextAttempt \/ GiveUp) => TypeOK'
<1>. SUFFICES ASSUME TypeOK, NextAttempt \/ GiveUp PROVE TypeOK'
  OBVIOUS
<1>1. CASE NextAttempt
  BY <1>1, CollectionAssumption DEF TypeOK, NextAttempt, MorePasses, worldVars, storeVars, frameVars, verdicts
<1>2. CASE GiveUp
  <2>1. 1 \in 1 .. MaxAttempts
    BY CollectionAssumption
  <2>2. Explainable \subseteq Symbols /\ Rest \subseteq Symbols
    BY DEF TypeOK, Explainable, Rest
  <2>. QED  BY <1>2, <2>1, <2>2 DEF TypeOK, GiveUp, worldVars, storeVars, frameVars, Steps
<1>. QED  BY <1>1, <1>2

\* Steps between the stages of a run, which touch none of the data.
LEMMA StageType ==
  TypeOK /\ (\/ FillUniverse \/ CollectionFails \/ RetryEnds \/ BeginGapFill \/ GapFillFails
            \/ HostEnds \/ RepairFails \/ BuildSnapshot \/ Publish \/ Refuse) => TypeOK'
<1>. USE DEF worldVars, storeVars, frameVars, loopVars, verdicts, Resting, Steps
<1>. SUFFICES ASSUME TypeOK,
                    \/ FillUniverse \/ CollectionFails \/ RetryEnds \/ BeginGapFill \/ GapFillFails
                    \/ HostEnds \/ RepairFails \/ BuildSnapshot \/ Publish \/ Refuse
             PROVE  TypeOK'
  OBVIOUS
<1>1. CASE FillUniverse
  BY <1>1 DEF TypeOK, FillUniverse, Masters
<1>2. CASE CollectionFails
  BY <1>2 DEF TypeOK, CollectionFails
<1>3. CASE RetryEnds
  BY <1>3 DEF TypeOK, RetryEnds
<1>4. CASE BeginGapFill
  BY <1>4 DEF TypeOK, BeginGapFill, Gaps
<1>5. CASE GapFillFails
  BY <1>5 DEF TypeOK, GapFillFails
<1>6. CASE HostEnds
  BY <1>6 DEF TypeOK, HostEnds
<1>7. CASE RepairFails
  BY <1>7 DEF TypeOK, RepairFails
<1>8. CASE BuildSnapshot
  BY <1>8 DEF TypeOK, BuildSnapshot
<1>9. CASE Publish
  BY <1>9 DEF TypeOK, Publish
<1>10. CASE Refuse
  BY <1>10 DEF TypeOK, Refuse
<1>. QED  BY <1>1, <1>2, <1>3, <1>4, <1>5, <1>6, <1>7, <1>8, <1>9, <1>10

LEMMA RecoverType == ASSUME NEW s \in Symbols PROVE TypeOK /\ Recover(s) => TypeOK'
<1>. SUFFICES ASSUME TypeOK, Recover(s) PROVE TypeOK'
  OBVIOUS
<1>1. PICK outcome \in {Classify(info) : info \in StockInfos(s)} \cup {"failed"} :
        IF outcome = "failed"
        THEN unresolved' = unresolved \cup {s} /\ UNCHANGED <<universe, state, excluded>>
        ELSE /\ universe' = [universe EXCEPT ![s] = outcome]
             /\ state' = [state EXCEPT ![s].error = "none"]
             /\ excluded' = excluded \cup {<<s, outcome>>}
             /\ UNCHANGED unresolved
  BY DEF Recover
<1>2. outcome # "failed" => outcome \in Flags
  BY <1>1 DEF Classify, Flags
<1>3. "none" \in Errors
  BY DEF Errors
<1>4. outcome # "failed" => RecordFailure(s, "none")
  BY <1>1 DEF RecordFailure
<1>5. state' \in [Symbols -> [last : Calendar, error : Errors]]
  <2>1. CASE outcome = "failed"
    BY <1>1, <2>1 DEF TypeOK
  <2>2. CASE outcome # "failed"
    BY <1>3, <1>4, <2>2, WriteType
  <2>. QED  BY <2>1, <2>2
<1>6. /\ universe' \in [Symbols -> Flags]
      /\ unresolved' \subseteq Symbols /\ excluded' \subseteq Symbols \X Flags
  BY <1>1, <1>2 DEF TypeOK
<1>. QED  BY <1>5, <1>6 DEF Recover, TypeOK, worldVars, frameVars

LEMMA FillGapType == ASSUME NEW s \in Symbols PROVE TypeOK /\ FillGap(s) => TypeOK'
<1>. SUFFICES ASSUME TypeOK, FillGap(s) PROVE TypeOK'
  OBVIOUS
<1> DEFINE gap  == Gap(s)
           have == {d \in DaysOf(silver, s) : gap.from <= d /\ d <= gap.to}
<1>1. \/ Covered(have, gap) /\ UNCHANGED <<silver, state>> /\ saved' = [symbol |-> s, last |-> Max(have)]
      \/ \E r \in Replies(s, gap.from, gap.to) : WriteBars(s, r.valid, LatestOf(r.valid))
  BY DEF FillGap
<1>2. have \in SUBSET Calendar
  BY DaysInCalendar DEF DaysOf
<1>3. /\ silver' \in Bars /\ UNCHANGED state
      /\ saved' \in [symbol : Symbols \cup {NoSymbol}, last : Calendar]
  <2>1. CASE Covered(have, gap) /\ UNCHANGED <<silver, state>> /\ saved' = [symbol |-> s, last |-> Max(have)]
    <3>1. have # {}
      BY <2>1 DEF Covered
    <3>2. Max(have) \in Calendar
      <4>. HIDE DEF have
      <4>. QED  BY <1>2, <3>1, MaxOfDays
    <3>. HIDE DEF have, gap
    <3>. QED  BY <2>1, <3>2 DEF TypeOK
  <2>2. ASSUME NEW r \in Replies(s, gap.from, gap.to), WriteBars(s, r.valid, LatestOf(r.valid))
        PROVE  /\ silver' \in Bars /\ UNCHANGED state
               /\ saved' \in [symbol : Symbols \cup {NoSymbol}, last : Calendar]
    <3>. HIDE DEF gap
    <3>1. LatestOf(r.valid) \in Calendar
      BY RepliesAreDays, DaysInCalendar, LatestIsDate
    <3>. QED  BY <2>2, <3>1, WriteType
  <2>. HIDE DEF have, gap
  <2>. QED  BY <1>1, <2>1, <2>2
<1>. QED  BY <1>3 DEF FillGap, TypeOK, worldVars, frameVars, verdicts

LEMMA MissGapType == ASSUME NEW s \in Symbols PROVE TypeOK /\ MissGap(s) => TypeOK'
<1>. SUFFICES ASSUME TypeOK, MissGap(s) PROVE TypeOK'
  OBVIOUS
<1>1. silver' \in Bars /\ state' \in [Symbols -> [last : Calendar, error : Errors]]
  <2>1. "other" \in Errors /\ silver \in Bars
    BY DEF Errors, TypeOK
  <2>. QED  BY <2>1, WriteType DEF MissGap
<1>. QED  BY <1>1 DEF MissGap, Filling, TypeOK, worldVars, frameVars

LEMMA BeginRepairType == TypeOK /\ BeginRepair => TypeOK'
BY DEF TypeOK, BeginRepair, Suspects, Steps, worldVars, storeVars, frameVars, verdicts

LEMMA RepairBarType ==
  ASSUME NEW s \in Symbols, NEW d \in Days PROVE TypeOK /\ RepairBar(s, d) => TypeOK'
<1>. SUFFICES ASSUME TypeOK, RepairBar(s, d) PROVE TypeOK'
  OBVIOUS
<1>1. WriteBars(s, {d}, d) /\ d \in Calendar
  BY DaysInCalendar DEF RepairBar
<1>2. /\ silver' \in Bars /\ UNCHANGED state
      /\ saved' \in [symbol : Symbols \cup {NoSymbol}, last : Calendar]
  BY <1>1, WriteType
<1>. QED  BY <1>2 DEF RepairBar, TypeOK, worldVars, frameVars, verdicts

LEMMA MissBarType ==
  ASSUME NEW s \in Symbols, NEW d \in Days PROVE TypeOK /\ MissBar(s, d) => TypeOK'
<1>. SUFFICES ASSUME TypeOK, MissBar(s, d) PROVE TypeOK'
  OBVIOUS
<1>1. state' \in [Symbols -> [last : Calendar, error : Errors]]
  <2>1. "other" \in Errors
    BY DEF Errors
  <2>. QED  BY <2>1, WriteType DEF MissBar
<1>. QED  BY <1>1 DEF MissBar, TypeOK, worldVars, frameVars

LEMMA CrashType == TypeOK /\ Crash => TypeOK'
<1>1. NoSave \in [symbol : Symbols \cup {NoSymbol}, last : Calendar] /\ 1 \in 1 .. MaxAttempts
  BY DaysInCalendar, CollectionAssumption DEF NoSave
<1>. QED  BY <1>1 DEF TypeOK, Crash, worldVars, storeVars, frameVars, Resting

LEMMA NextType == TypeOK /\ [Next]_vars => TypeOK'
<1>. SUFFICES ASSUME TypeOK, [Next]_vars PROVE TypeOK'
  OBVIOUS
<1>1. CASE UNCHANGED vars
  BY <1>1 DEF TypeOK, vars, worldVars, storeVars, frameVars, loopVars, verdicts
<1>2. CASE RunStep
  BY <1>2, StageType, RecordSuccessType, CollectRowType, MissRowType, RecoverType, FillGapType,
     MissGapType, RepairBarType, MissBarType, PassType, BeginRepairType DEF RunStep
<1>. QED  BY <1>1, <1>2, NewDayType, BellType, BeginType, CrashType DEF Next

\* Every variable of a collection run keeps its type, whatever the calendar, the
\* symbols, the halts and the failures (run_daily_collect.main and the jobs
\* beside it).  In particular attempt never passes MaxAttempts.
THEOREM TypeCorrect == Spec => []TypeOK
<1>. QED  BY InitType, NextType, PTL DEF Spec

-----------------------------------------------------------------------------
(***************************************************************************)
(* Safety: what every run of the collection keeps, whatever fails and      *)
(* wherever it dies.  Exclusions have a reason, dates have a bar, no bar   *)
(* is lost, the release has no hole, success is complete and failure is on *)
(* record.                                                                 *)
(***************************************************************************)
Untouched(s) == halts[s] = {} /\ delisted[s] = 0

(***************************************************************************)
(* Inductive invariants                                                    *)
(***************************************************************************)
\* A date waiting to become last_success_date has its bar, and none waits
\* outside the steps that write bars.
SavedIsStored ==
  /\ saved.last # 0 => saved.symbol \in Symbols /\ Has(silver, saved.symbol, saved.last)
  /\ pc \notin {"collect", "gapfill", "repair"} => saved = NoSave

\* A job on the runner, between its start and its publication: symbols that the
\* exchange left alone stay collectible, nothing of the release is lost, nothing
\* is added before the window, and repairs and gaps are what they say.
ReleaseKept  == \A s \in Symbols, d \in Days : Has(published, s, d) => Has(silver, s, d)
PastAsIs     == \A s \in Symbols, d \in Days : d < start /\ Has(silver, s, d) => Has(published, s, d)
RepairsExist == \A r \in repairs : Has(silver, r[1], r[2])
GapsExist    == pc = "gapfill" => \A s \in todo : s = saved.symbol \/ ShortYears(s) # {}
RunnerInv ==
  OnRunner /\ pc \in Steps =>
    /\ \A s \in Symbols : Untouched(s) => Collectible(s)
    /\ ReleaseKept /\ PastAsIs /\ RepairsExist /\ GapsExist

\* Every row a run set out with is still to be fetched, has failed, is excluded,
\* or has its bar.
Open        == todo \cup (IF pc = "collect" THEN again ELSE unresolved)
RowsCovered ==
  pc \in {"collect", "recover"} /\ job # "retry" =>
    \A s \in Universe(target) : s \in Open \/ Has(silver, s, target)
JobsDone    ==
  pc \in {"gapfill", "repair", "validate", "done"} =>
    job # "retry" /\ \A s \in Universe(target) : Has(silver, s, target)
RunsInv ==
  /\ pc \in Steps \cup {"done"} => target \in Days
  /\ pc = "collect" /\ saved # NoSave => Has(silver, saved.symbol, target)
  /\ RowsCovered /\ JobsDone

\* A row that failed has its error, and is not fetched at the same time.
QueueInv ==
  ~OnRunner =>
    /\ pc \notin {"repair", "validate"}
    /\ IF pc = "collect" THEN unresolved = {} ELSE again = {}
    /\ \A s \in again \cup unresolved : state[s].error # "none"
    /\ pc = "recover" => \A s \in todo : state[s].error # "none"
    /\ todo \cap (again \cup unresolved) = {}
    /\ saved # NoSave => saved.symbol \in todo

\* The inductive invariant.
CollectInv ==
  /\ TypeOK
  /\ ExclusionsProven
  /\ LastIsStored /\ SavedIsStored
  /\ NoHoleInPublished /\ RunnerInv
  /\ RunsInv /\ QueueInv

(***************************************************************************)
(* What the steps of a run leave alone.                                    *)
(***************************************************************************)
\* No step of a run changes the market or the frame of the run.
LEMMA RunStepFrame == RunStep => UNCHANGED <<worldVars, frameVars>>
<1>. SUFFICES ASSUME RunStep PROVE UNCHANGED <<worldVars, frameVars>>
  OBVIOUS
<1>1. CASE \/ FillUniverse \/ RecordSuccess \/ NextAttempt \/ GiveUp \/ CollectionFails \/ RetryEnds
           \/ BeginGapFill \/ GapFillFails \/ HostEnds \/ BeginRepair \/ RepairFails
           \/ BuildSnapshot \/ Publish \/ Refuse
  BY <1>1 DEF FillUniverse, RecordSuccess, NextAttempt, GiveUp, CollectionFails, RetryEnds,
     BeginGapFill, GapFillFails, HostEnds, BeginRepair, RepairFails, BuildSnapshot, Publish, Refuse,
     frameVars
<1>2. CASE \E s \in Symbols : CollectRow(s) \/ MissRow(s) \/ Recover(s) \/ FillGap(s) \/ MissGap(s)
  BY <1>2 DEF CollectRow, MissRow, Recover, FillGap, MissGap
<1>3. CASE \E s \in Symbols, d \in Days : RepairBar(s, d) \/ MissBar(s, d)
  BY <1>3 DEF RepairBar, MissBar
<1>. QED  BY <1>1, <1>2, <1>3 DEF RunStep

\* Only a recovery adds to the exclusions.
LEMMA RunStepExcludes ==
  RunStep => UNCHANGED excluded \/ \E s \in Symbols : Recover(s)
<1>. SUFFICES ASSUME RunStep, ~ \E s \in Symbols : Recover(s) PROVE UNCHANGED excluded
  OBVIOUS
<1>1. CASE \/ FillUniverse \/ RecordSuccess \/ NextAttempt \/ GiveUp \/ CollectionFails \/ RetryEnds
           \/ BeginGapFill \/ GapFillFails \/ HostEnds \/ BeginRepair \/ RepairFails
           \/ BuildSnapshot \/ Publish \/ Refuse
  BY <1>1 DEF FillUniverse, RecordSuccess, NextAttempt, GiveUp, CollectionFails, RetryEnds,
     BeginGapFill, GapFillFails, HostEnds, BeginRepair, RepairFails, BuildSnapshot, Publish, Refuse,
     verdicts
<1>2. CASE \E s \in Symbols : CollectRow(s) \/ MissRow(s) \/ Recover(s) \/ FillGap(s) \/ MissGap(s)
  BY <1>2 DEF CollectRow, MissRow, FillGap, MissGap, verdicts
<1>3. CASE \E s \in Symbols, d \in Days : RepairBar(s, d) \/ MissBar(s, d)
  BY <1>3 DEF RepairBar, MissBar, verdicts
<1>. QED  BY <1>1, <1>2, <1>3 DEF RunStep

\* A job begins without exclusions, without a date in waiting and without
\* repairs, or does nothing.
LEMMA BeginFrame ==
  Begin => /\ UNCHANGED <<worldVars, published>>
           /\ \/ /\ UNCHANGED <<frameVars, loopVars, verdicts>> /\ pc' \notin Steps \cup {"failed", "done"}
                 /\ pc \in Resting
              \/ /\ pc' = "collect" /\ excluded' = {} /\ saved' = NoSave /\ repairs' = {}
<1>. SUFFICES ASSUME Begin
             PROVE  /\ UNCHANGED <<worldVars, published>>
                    /\ \/ /\ UNCHANGED <<frameVars, loopVars, verdicts>> /\ pc' \notin Steps \cup {"failed", "done"}
                          /\ pc \in Resting
                       \/ /\ pc' = "collect" /\ excluded' = {} /\ saved' = NoSave /\ repairs' = {}
  OBVIOUS
<1>1. CASE BeginDaily
  BY <1>1 DEF BeginDaily, StartRun
<1>2. CASE BeginAudit
  BY <1>2 DEF BeginAudit, StartRun
<1>3. CASE BeginRetry
  BY <1>3 DEF BeginRetry, StartRun
<1>4. CASE NothingToDo
  BY <1>4 DEF NothingToDo, Steps
<1>5. CASE ClearUniverse
  BY <1>5 DEF ClearUniverse, Steps
<1>. QED  BY <1>1, <1>2, <1>3, <1>4, <1>5 DEF Begin

(***************************************************************************)
(* Exclusions have a reason.                                               *)
(***************************************************************************)
\* The lifecycle lookup names a delisting by the target day, or a halt on it, of
\* this very symbol, or nothing.
LEMMA ClassifyTells ==
  ASSUME TypeOK, NEW s \in Symbols, NEW info \in StockInfos(s)
  PROVE  /\ Classify(info) \in {"failed", "inactive", "halted"}
         /\ Classify(info) = "inactive" => delisted[s] \in 1 .. target
         /\ Classify(info) = "halted" => target \in halts[s]
<1>1. info.same => /\ info.abol \in {0, delisted[s]} \cup {d \in Days : d < Listed[s]}
                   /\ info.listed = Listed[s] /\ (info.stop => day \in halts[s])
  BY DEF StockInfos
<1>2. Classify(info) \in {"failed", "inactive", "halted"}
  BY DEF Classify
<1>3. ASSUME Classify(info) = "inactive" PROVE delisted[s] \in 1 .. target
  <2>1. info.same /\ info.abol # 0 /\ info.listed <= info.abol /\ info.abol <= target
    BY <1>3 DEF Classify, Delisted
  <2>2. info.abol = delisted[s]
    BY <1>1, <2>1, CollectionAssumption DEF Days
  <2>3. delisted[s] \in Nat /\ target \in Nat
    BY DaysInCalendar DEF TypeOK
  <2>. QED  BY <2>1, <2>2, <2>3
<1>4. ASSUME Classify(info) = "halted" PROVE target \in halts[s]
  BY <1>1, <1>4 DEF Classify
<1>. QED  BY <1>2, <1>3, <1>4

LEMMA ExclusionsStep == TypeOK /\ ExclusionsProven /\ [Next]_vars => ExclusionsProven'
<1>. SUFFICES ASSUME TypeOK, ExclusionsProven, [Next]_vars PROVE ExclusionsProven'
  OBVIOUS
<1>1. ASSUME UNCHANGED <<excluded, target, delisted, halts>> PROVE ExclusionsProven'
  BY <1>1 DEF ExclusionsProven
<1>2. ASSUME excluded' = {} PROVE ExclusionsProven'
  BY <1>2 DEF ExclusionsProven
<1>3. CASE NewDay
  <2>1. UNCHANGED <<excluded, target>>
    BY <1>3 DEF NewDay, frameVars, verdicts
  <2>2. \A s \in Symbols : /\ halts[s] \subseteq halts'[s]
                           /\ delisted[s] # 0 => delisted'[s] = delisted[s]
    BY <1>3 DEF NewDay, Tradable, TypeOK
  <2>3. \A e \in excluded : e[1] \in Symbols
    BY DEF TypeOK
  <2>4. ASSUME NEW e \in excluded
        PROVE  IF e[2] = "inactive" THEN delisted'[e[1]] \in 1 .. target ELSE target \in halts'[e[1]]
    <3>1. CASE e[2] = "inactive"
      BY <2>2, <2>3, <3>1 DEF ExclusionsProven
    <3>2. CASE e[2] # "inactive"
      BY <2>2, <2>3, <3>2 DEF ExclusionsProven
    <3>. QED  BY <3>1, <3>2
  <2>. QED  BY <2>1, <2>4 DEF ExclusionsProven
<1>4. CASE Begin
  BY <1>1, <1>2, <1>4, BeginFrame DEF worldVars, frameVars, verdicts
<1>5. ASSUME NEW s \in Symbols, Recover(s) PROVE ExclusionsProven'
  <2>1. UNCHANGED <<target, delisted, halts>>
    BY <1>5 DEF Recover, worldVars, frameVars
  <2>2. PICK outcome \in {Classify(info) : info \in StockInfos(s)} \cup {"failed"} :
          IF outcome = "failed" THEN UNCHANGED excluded ELSE excluded' = excluded \cup {<<s, outcome>>}
    BY <1>5 DEF Recover
  <2>3. CASE outcome = "failed"
    BY <1>1, <2>1, <2>2, <2>3
  <2>4. CASE outcome # "failed"
    <3>1. IF outcome = "inactive" THEN delisted[s] \in 1 .. target ELSE target \in halts[s]
      BY <2>4, ClassifyTells
    <3>. QED  BY <2>1, <2>2, <2>4, <3>1 DEF ExclusionsProven
  <2>. QED  BY <2>3, <2>4
<1>6. CASE RunStep
  BY <1>1, <1>5, <1>6, RunStepFrame, RunStepExcludes DEF worldVars, frameVars
<1>7. CASE Bell \/ UNCHANGED vars
  BY <1>1, <1>7 DEF Bell, vars, worldVars, frameVars, verdicts
<1>8. CASE Crash
  BY <1>2, <1>8 DEF Crash
<1>. QED  BY <1>3, <1>4, <1>6, <1>7, <1>8 DEF Next

(***************************************************************************)
(* The bars on disk during a run.                                          *)
(***************************************************************************)
Grows == \A x \in Symbols, d \in Days : Has(silver, x, d) => Has(silver', x, d)

\* The writes of a symbol add bars of the given days and take none away.
AddsOnly(s, dates) ==
  \A x \in Symbols, d \in Days : Has(silver', x, d) => Has(silver, x, d) \/ (x = s /\ d \in dates)

\* A date in waiting has its bar.
LEMMA WriteEffect ==
  ASSUME TypeOK, NEW s \in Symbols, NEW dates \in SUBSET Days, NEW last \in {0} \cup dates,
         WriteBars(s, dates, last)
  PROVE  /\ Grows /\ AddsOnly(s, dates)
         /\ saved' = [symbol |-> s, last |-> last]
         /\ last # 0 => Has(silver', s, last)
<1>1. silver' = Upsert(silver, s, dates) /\ saved' = [symbol |-> s, last |-> last]
  BY DEF WriteBars
<1>2. silver \in Bars
  BY DEF TypeOK
<1>3. \A x \in Symbols, d \in Days :
        Has(silver', x, d) <=> Has(silver, x, d) \/ (x = s /\ d \in dates)
  BY <1>1, <1>2, UpsertEffect
<1>. QED  BY <1>1, <1>3 DEF Grows, AddsOnly

LEMMA FailedWriteEffect ==
  ASSUME TypeOK, NEW s \in Symbols, NEW dates \in SUBSET Days, FailToWrite(s, dates)
  PROVE  Grows /\ AddsOnly(s, dates)
<1>1. PICK written \in {{}, {d \in dates : YearOf(d) = 0}, dates} :
        silver' = Upsert(silver, s, written)
  BY DEF FailToWrite
<1>2. written \subseteq dates /\ silver \in Bars
  BY <1>1 DEF TypeOK
<1>3. \A x \in Symbols, d \in Days :
        Has(silver', x, d) <=> Has(silver, x, d) \/ (x = s /\ d \in written)
  BY <1>1, <1>2, UpsertEffect
<1>. QED  BY <1>2, <1>3 DEF Grows, AddsOnly

\* The interval of a gap does not begin before the window.
LEMMA GapInWindow ==
  ASSUME TypeOK, NEW s \in Symbols, ShortYears(s) # {}
  PROVE  Gap(s).from \in Int /\ start <= Gap(s).from
<1>1. start \in Int /\ target \in Int /\ NewYear \in Int /\ Listed[s] \in Int
  BY CollectionAssumption, DaysInCalendar DEF TypeOK
<1>2. ShortYears(s) \in SUBSET {0, 1}
  BY <1>1 DEF ShortYears, YearOf
<1>3. Min(ShortYears(s)) \in ShortYears(s)
  <2>1. \E x \in ShortYears(s) : \A y \in ShortYears(s) : x <= y
    <3>. HIDE DEF ShortYears
    <3>1. CASE 0 \in ShortYears(s)
      BY <1>2, <3>1
    <3>2. CASE 0 \notin ShortYears(s)
      BY <1>2, <3>2
    <3>. QED  BY <3>1, <3>2
  <2>. HIDE DEF ShortYears
  <2>. QED  BY <2>1 DEF Min
<1>4. EffStart(s) \in Int /\ start <= EffStart(s)
  <2>1. FirstSeen(s) = {} \/ \E m \in Int : FirstSeen(s) = {m}
    <3>1. DaysOf(silver, s) \in SUBSET Days /\ Days \subseteq Int
      BY DaysInCalendar DEF DaysOf
    <3>2. CASE DaysOf(silver, s) = {}
      BY <3>2 DEF FirstSeen
    <3>3. CASE DaysOf(silver, s) # {}
      <4>1. Min(DaysOf(silver, s)) \in Int
        BY <3>1, <3>3, MinOfDays
      <4>. QED  BY <3>3, <4>1 DEF FirstSeen
    <3>. QED  BY <3>2, <3>3
  <2> DEFINE T == {Listed[s], start} \cup FirstSeen(s)
  <2>2. \E x \in T : \A y \in T : x >= y
    <3>1. CASE FirstSeen(s) = {}
      <4>1. T = {Listed[s], start}
        BY <3>1
      <4>. HIDE DEF T
      <4>2. CASE start >= Listed[s]
        BY <1>1, <4>1, <4>2
      <4>3. CASE Listed[s] >= start
        BY <1>1, <4>1, <4>3
      <4>. QED  BY <1>1, <4>2, <4>3
    <3>2. ASSUME NEW m \in Int, FirstSeen(s) = {m} PROVE \E x \in T : \A y \in T : x >= y
      <4>1. T = {Listed[s], start, m}
        BY <3>2
      <4>. HIDE DEF T
      <4>2. CASE start >= Listed[s] /\ start >= m
        BY <1>1, <4>1, <4>2
      <4>3. CASE Listed[s] >= start /\ Listed[s] >= m
        BY <1>1, <4>1, <4>3
      <4>4. CASE m >= start /\ m >= Listed[s]
        BY <1>1, <4>1, <4>4
      <4>. QED  BY <1>1, <4>2, <4>3, <4>4
    <3>. QED  BY <2>1, <3>1, <3>2
  <2>3. T \subseteq Int
    BY <1>1, <2>1
  <2>4. Max(T) \in T /\ \A y \in T : Max(T) >= y
    <3>. HIDE DEF T
    <3>. QED  BY <2>2 DEF Max
  <2>5. EffStart(s) = Max(T) /\ start \in T
    BY DEF EffStart
  <2>. HIDE DEF T
  <2>. QED  BY <1>1, <2>3, <2>4, <2>5
<1> DEFINE y == Min(ShortYears(s))
<1>5. y \in {0, 1} /\ YearOf(start) <= y
  <2>1. \A z \in ShortYears(s) : z \in {0, 1} /\ YearOf(start) <= z
    BY <1>1, <1>2 DEF ShortYears, YearOf
  <2>. HIDE DEF ShortYears
  <2>. QED  BY <1>3, <2>1
<1>6. GapFrom(s, y) \in Int /\ start <= GapFrom(s, y)
  <2>. HIDE DEF y
  <2>1. CASE Partial(s, y)
    BY <1>4, <2>1 DEF GapFrom
  <2>2. CASE ~Partial(s, y) /\ y = YearOf(start)
    BY <1>1, <2>2 DEF GapFrom
  <2>3. CASE ~Partial(s, y) /\ y # YearOf(start)
    BY <1>1, <1>5, <2>3 DEF GapFrom, YearOf
  <2>. QED  BY <2>1, <2>2, <2>3
<1>. QED  BY <1>6 DEF Gap

\* A symbol's date in waiting has its bar after the step.
Waits(s) == saved'.symbol = s /\ (saved'.last # 0 => Has(silver', s, saved'.last))

LEMMA CollectRowEffect ==
  ASSUME TypeOK, NEW s \in Symbols, CollectRow(s)
  PROVE  Grows /\ AddsOnly(s, start .. target) /\ Waits(s)
<1>1. PICK r \in Replies(s, start, target) : WriteBars(s, r.valid, LatestOf(r.valid))
  BY DEF CollectRow
<1>2. r.valid \in SUBSET Days /\ r.valid \subseteq start .. target
  BY RepliesAreDays
<1>3. LatestOf(r.valid) \in {0} \cup r.valid
  BY <1>2, DaysInCalendar, LatestIsDate
<1>4. /\ Grows /\ AddsOnly(s, r.valid)
      /\ saved' = [symbol |-> s, last |-> LatestOf(r.valid)]
      /\ LatestOf(r.valid) # 0 => Has(silver', s, LatestOf(r.valid))
  BY <1>1, <1>2, <1>3, WriteEffect
<1>5. AddsOnly(s, start .. target)
  BY <1>2, <1>4 DEF AddsOnly
<1>. QED  BY <1>4, <1>5 DEF Waits

LEMMA MissRowEffect ==
  ASSUME TypeOK, NEW s \in Symbols, MissRow(s)
  PROVE  Grows /\ AddsOnly(s, start .. target)
<1>1. CASE UNCHANGED silver
  BY <1>1 DEF Grows, AddsOnly
<1>2. ASSUME NEW r \in Replies(s, start, target), FailToWrite(s, r.valid)
      PROVE  Grows /\ AddsOnly(s, start .. target)
  BY <1>2, RepliesAreDays, FailedWriteEffect DEF AddsOnly
<1>. QED  BY <1>1, <1>2 DEF MissRow

LEMMA FillGapEffect ==
  ASSUME TypeOK, NEW s \in Symbols, FillGap(s)
  PROVE  Grows /\ AddsOnly(s, Gap(s).from .. Gap(s).to) /\ Waits(s)
<1> DEFINE gap  == Gap(s)
           have == {d \in DaysOf(silver, s) : gap.from <= d /\ d <= gap.to}
<1>1. CASE Covered(have, gap) /\ UNCHANGED <<silver, state>> /\ saved' = [symbol |-> s, last |-> Max(have)]
  <2>1. have # {} /\ have \in SUBSET Calendar
    BY <1>1, DaysInCalendar DEF Covered, DaysOf
  <2>2. Max(have) \in have
    <3>. HIDE DEF have
    <3>. QED  BY <2>1, MaxOfDays
  <2>3. Has(silver, s, Max(have))
    BY <2>2 DEF DaysOf
  <2>. HIDE DEF have, gap
  <2>. QED  BY <1>1, <2>3 DEF Grows, AddsOnly, Waits
<1>2. ASSUME NEW r \in Replies(s, gap.from, gap.to), WriteBars(s, r.valid, LatestOf(r.valid))
      PROVE  Grows /\ AddsOnly(s, gap.from .. gap.to) /\ Waits(s)
  <2>. HIDE DEF gap
  <2>1. r.valid \in SUBSET Days /\ r.valid \subseteq gap.from .. gap.to
    BY RepliesAreDays
  <2>2. LatestOf(r.valid) \in {0} \cup r.valid
    BY <2>1, DaysInCalendar, LatestIsDate
  <2>3. /\ Grows /\ AddsOnly(s, r.valid)
        /\ saved' = [symbol |-> s, last |-> LatestOf(r.valid)]
        /\ LatestOf(r.valid) # 0 => Has(silver', s, LatestOf(r.valid))
    BY <1>2, <2>1, <2>2, WriteEffect
  <2>4. AddsOnly(s, gap.from .. gap.to)
    BY <2>1, <2>3 DEF AddsOnly
  <2>. QED  BY <2>3, <2>4 DEF Waits
<1>3. \/ Covered(have, gap) /\ UNCHANGED <<silver, state>> /\ saved' = [symbol |-> s, last |-> Max(have)]
      \/ \E r \in Replies(s, gap.from, gap.to) : WriteBars(s, r.valid, LatestOf(r.valid))
  BY DEF FillGap
<1>. HIDE DEF have
<1>. QED  BY <1>1, <1>2, <1>3

LEMMA MissGapEffect ==
  ASSUME TypeOK, NEW s \in Symbols, MissGap(s)
  PROVE  Grows /\ AddsOnly(s, Gap(s).from .. Gap(s).to)
<1>1. CASE UNCHANGED silver
  BY <1>1 DEF Grows, AddsOnly
<1>2. ASSUME NEW r \in Replies(s, Gap(s).from, Gap(s).to), FailToWrite(s, r.valid)
      PROVE  Grows /\ AddsOnly(s, Gap(s).from .. Gap(s).to)
  <2>1. r.valid \in SUBSET Days /\ r.valid \subseteq Gap(s).from .. Gap(s).to
    BY RepliesAreDays
  <2>2. Grows /\ AddsOnly(s, r.valid)
    BY <1>2, <2>1, FailedWriteEffect
  <2>. QED  BY <2>1, <2>2 DEF AddsOnly
<1>. QED  BY <1>1, <1>2 DEF MissGap

LEMMA RepairBarEffect ==
  ASSUME TypeOK, NEW s \in Symbols, NEW d \in Days, RepairBar(s, d)
  PROVE  Grows /\ AddsOnly(s, {d}) /\ Waits(s)
<1>1. WriteBars(s, {d}, d)
  BY DEF RepairBar
<1>2. /\ Grows /\ AddsOnly(s, {d})
      /\ saved' = [symbol |-> s, last |-> d]
      /\ d # 0 => Has(silver', s, d)
  BY <1>1, WriteEffect
<1>. QED  BY <1>2 DEF Waits

\* Steps that touch no bar: all but those above and the start of a job.
LEMMA OtherSteps ==
  RunStep => \/ UNCHANGED silver
             \/ \E s \in Symbols : CollectRow(s) \/ MissRow(s) \/ FillGap(s) \/ MissGap(s)
             \/ \E s \in Symbols, d \in Days : RepairBar(s, d)
<1>. USE DEF storeVars
<1>1. (\/ FillUniverse \/ RecordSuccess \/ NextAttempt \/ GiveUp \/ CollectionFails \/ RetryEnds
       \/ BeginGapFill \/ GapFillFails \/ HostEnds \/ BeginRepair \/ RepairFails
       \/ BuildSnapshot \/ Publish \/ Refuse) => UNCHANGED silver
  BY DEF FillUniverse, RecordSuccess, NextAttempt, GiveUp, CollectionFails, RetryEnds,
     BeginGapFill, GapFillFails, HostEnds, BeginRepair, RepairFails, BuildSnapshot, Publish, Refuse
<1>2. \A s \in Symbols : Recover(s) => UNCHANGED silver
  BY DEF Recover
<1>3. \A s \in Symbols, d \in Days : MissBar(s, d) => UNCHANGED silver
  BY DEF MissBar
<1>. QED  BY <1>1, <1>2, <1>3 DEF RunStep

\* No step of a run takes a bar away.
LEMMA RunStepGrows == TypeOK /\ RunStep => Grows
<1>1. UNCHANGED silver => Grows
  BY DEF Grows
<1>. QED  BY <1>1, OtherSteps, CollectRowEffect, MissRowEffect, FillGapEffect, MissGapEffect, RepairBarEffect

(***************************************************************************)
(* last_success_date is backed by a bar.                                   *)
(***************************************************************************)
LastsKept == \A x \in Symbols : state'[x].last \in {0, state[x].last}

\* A failure, or the end of one, changes no last_success_date.
LEMMA ErrorKeepsLasts ==
  ASSUME TypeOK, NEW s \in Symbols, NEW error, state' = [state EXCEPT ![s].error = error]
  PROVE  LastsKept
<1>1. state \in [Symbols -> [last : Calendar, error : Errors]]
  BY DEF TypeOK
<1>2. [state[s] EXCEPT !.error = error].last = state[s].last
  BY <1>1
<1>3. \A x \in Symbols : x # s => state'[x] = state[x]
  BY <1>1
<1>4. state'[s] = [state[s] EXCEPT !.error = error]
  BY <1>1
<1>. QED  BY <1>2, <1>3, <1>4 DEF LastsKept

\* Dates that stay, over bars that stay, are backed.
LEMMA StaysStored ==
  ASSUME TypeOK, LastIsStored, SavedIsStored, Grows, LastsKept
  PROVE  /\ LastIsStored'
         /\ UNCHANGED saved => (saved'.last # 0 => saved'.symbol \in Symbols /\ Has(silver', saved'.symbol, saved'.last))
<1>1. LastIsStored'
  <2>1. SUFFICES ASSUME NEW s \in Symbols, state'[s].last # 0 PROVE Has(silver', s, state'[s].last)
    BY DEF LastIsStored
  <2>2. state'[s].last = state[s].last /\ Has(silver, s, state[s].last)
    BY <2>1 DEF LastIsStored, LastsKept
  <2>3. state[s].last \in Days
    BY <2>1, <2>2, CollectionAssumption DEF TypeOK, Calendar, Days
  <2>. QED  BY <2>2, <2>3 DEF Grows
<1>2. saved.last # 0 => saved.last \in Days
  BY CollectionAssumption DEF TypeOK, Calendar, Days
<1>. QED  BY <1>1, <1>2 DEF SavedIsStored, Grows

LEMMA InitStored == Init => LastIsStored /\ SavedIsStored
<1>. SUFFICES ASSUME Init PROVE LastIsStored /\ SavedIsStored
  OBVIOUS
<1>1. ASSUME NEW s \in Symbols, state[s].last # 0 PROVE Has(silver, s, state[s].last)
  <2>1. state[s].last = LatestOf(DaysOf(silver, s))
    BY DEF Init
  <2>2. DaysOf(silver, s) \in SUBSET Calendar
    BY DaysInCalendar DEF DaysOf
  <2>3. state[s].last \in DaysOf(silver, s)
    BY <1>1, <2>1, <2>2, LatestIsDate
  <2>. QED  BY <2>3 DEF DaysOf
<1>. QED  BY <1>1 DEF Init, LastIsStored, SavedIsStored, NoSave

LEMMA StoredStep ==
  TypeOK /\ LastIsStored /\ SavedIsStored /\ [Next]_vars => LastIsStored' /\ SavedIsStored'
<1>. SUFFICES ASSUME TypeOK, LastIsStored, SavedIsStored, [Next]_vars
             PROVE  LastIsStored' /\ SavedIsStored'
  OBVIOUS
<1> DEFINE Writing == {"collect", "gapfill", "repair"}
<1>1. ASSUME UNCHANGED <<silver, state, saved>>, pc' \notin Writing => saved = NoSave
      PROVE  LastIsStored' /\ SavedIsStored'
  BY <1>1 DEF LastIsStored, SavedIsStored
<1>2. ASSUME Grows, LastsKept, UNCHANGED <<saved, pc>> PROVE LastIsStored' /\ SavedIsStored'
  BY <1>2, StaysStored DEF SavedIsStored
<1>3. ASSUME NEW s \in Symbols, Grows, UNCHANGED <<state, pc>>, pc \in Writing, Waits(s)
      PROVE  LastIsStored' /\ SavedIsStored'
  <2>1. LastsKept
    BY <1>3 DEF LastsKept
  <2>2. LastIsStored'
    BY <1>3, <2>1, StaysStored
  <2>. QED  BY <1>3, <2>2 DEF SavedIsStored, Waits
<1>4. UNCHANGED silver => Grows
  BY DEF Grows
<1>5. UNCHANGED state => LastsKept
  BY DEF LastsKept
<1>6. CASE NewDay \/ Bell \/ UNCHANGED vars
  BY <1>1, <1>6 DEF NewDay, Bell, vars, storeVars, loopVars, SavedIsStored
<1>7. CASE Begin
  <2>1. ASSUME Prepare, saved' = NoSave PROVE LastIsStored' /\ SavedIsStored'
    BY <2>1 DEF Prepare, LastIsStored, SavedIsStored, NoSave
  <2>2. CASE BeginDaily
    BY <2>1, <2>2 DEF BeginDaily, StartRun
  <2>3. CASE BeginAudit
    BY <2>1, <2>3 DEF BeginAudit, StartRun
  <2>4. CASE BeginRetry
    <3>1. saved' = NoSave /\ UNCHANGED <<silver, state>>
      BY <2>4 DEF BeginRetry, StartRun
    <3>. QED  BY <3>1 DEF LastIsStored, SavedIsStored, NoSave
  <2>5. CASE NothingToDo
    BY <2>1, <2>5 DEF NothingToDo, loopVars, SavedIsStored, Resting
  <2>6. CASE ClearUniverse
    BY <1>1, <2>6 DEF ClearUniverse, loopVars, SavedIsStored, Resting
  <2>. QED  BY <1>7, <2>2, <2>3, <2>4, <2>5, <2>6 DEF Begin
<1>8. CASE Crash
  <2>1. saved' = NoSave /\ UNCHANGED <<silver, state>>
    BY <1>8 DEF Crash, storeVars
  <2>. QED  BY <2>1 DEF LastIsStored, SavedIsStored, NoSave
<1>9. ASSUME NEW s \in Symbols, CollectRow(s) PROVE LastIsStored' /\ SavedIsStored'
  BY <1>3, <1>9, CollectRowEffect DEF CollectRow, Row, WriteBars
<1>10. ASSUME NEW s \in Symbols, MissRow(s) PROVE LastIsStored' /\ SavedIsStored'
  BY <1>2, <1>10, MissRowEffect, ErrorKeepsLasts DEF MissRow, RecordFailure, FailToWrite
<1>11. ASSUME NEW s \in Symbols, FillGap(s) PROVE LastIsStored' /\ SavedIsStored'
  BY <1>3, <1>11, FillGapEffect DEF FillGap, Filling, WriteBars
<1>12. ASSUME NEW s \in Symbols, MissGap(s) PROVE LastIsStored' /\ SavedIsStored'
  BY <1>2, <1>12, MissGapEffect, ErrorKeepsLasts DEF MissGap, RecordFailure, FailToWrite
<1>13. ASSUME NEW s \in Symbols, NEW d \in Days, RepairBar(s, d) PROVE LastIsStored' /\ SavedIsStored'
  BY <1>3, <1>13, RepairBarEffect DEF RepairBar, WriteBars
<1>14. ASSUME NEW s \in Symbols, NEW d \in Days, MissBar(s, d) PROVE LastIsStored' /\ SavedIsStored'
  BY <1>2, <1>4, <1>14, ErrorKeepsLasts DEF MissBar, RecordFailure
<1>15. ASSUME NEW s \in Symbols, Recover(s) PROVE LastIsStored' /\ SavedIsStored'
  BY <1>2, <1>4, <1>5, <1>15, ErrorKeepsLasts DEF Recover
<1>16. CASE RecordSuccess
  <2>1. saved' = NoSave /\ UNCHANGED silver
    BY <1>16 DEF RecordSuccess
  <2>2. \A x \in Symbols : state'[x] = IF x = saved.symbol THEN [last |-> saved.last, error |-> "none"] ELSE state[x]
    BY <1>16 DEF RecordSuccess, TypeOK
  <2>3. LastIsStored'
    BY <2>1, <2>2 DEF LastIsStored, SavedIsStored
  <2>. QED  BY <2>1, <2>3 DEF SavedIsStored, NoSave
<1>17. CASE \/ FillUniverse \/ NextAttempt \/ GiveUp \/ CollectionFails \/ RetryEnds \/ BeginGapFill
            \/ GapFillFails \/ HostEnds \/ BeginRepair \/ RepairFails \/ BuildSnapshot
            \/ Publish \/ Refuse
  <2>1. UNCHANGED <<silver, state, saved>>
    BY <1>17 DEF FillUniverse, NextAttempt, GiveUp, CollectionFails, RetryEnds,
       BeginGapFill, GapFillFails, HostEnds, BeginRepair, RepairFails, BuildSnapshot, Publish, Refuse,
       storeVars, loopVars
  <2>2. pc' \notin Writing => saved = NoSave
    BY <1>17 DEF FillUniverse, NextAttempt, GiveUp, CollectionFails, RetryEnds,
       BeginGapFill, GapFillFails, HostEnds, BeginRepair, RepairFails, BuildSnapshot, Publish, Refuse,
       PassOver, Decided, Filled, Repaired, SavedIsStored
  <2>. QED  BY <1>1, <2>1, <2>2
<1>. QED  BY <1>6, <1>7, <1>8, <1>9, <1>10, <1>11, <1>12, <1>13, <1>14, <1>15, <1>16, <1>17 DEF Next, RunStep

(***************************************************************************)
(* The release has no hole.                                                *)
(***************************************************************************)
\* What the exchange does to a symbol is never undone.
LEMMA TouchedStays == TypeOK /\ [Next]_vars => \A s \in Symbols : Untouched(s)' => Untouched(s)
<1>. SUFFICES ASSUME TypeOK, [Next]_vars PROVE \A s \in Symbols : Untouched(s)' => Untouched(s)
  OBVIOUS
<1>1. ASSUME UNCHANGED worldVars PROVE \A s \in Symbols : Untouched(s)' => Untouched(s)
  BY <1>1 DEF worldVars, Untouched
<1>2. CASE NewDay
  BY <1>2, CollectionAssumption DEF NewDay, Untouched, Tradable, TypeOK, Days
<1>3. CASE Bell
  BY <1>3 DEF Bell, Untouched
<1>4. CASE Begin
  BY <1>1, <1>4, BeginFrame
<1>5. CASE RunStep
  BY <1>1, <1>5, RunStepFrame
<1>6. CASE Crash \/ UNCHANGED vars
  BY <1>1, <1>6 DEF Crash, vars
<1>. QED  BY <1>2, <1>3, <1>4, <1>5, <1>6 DEF Next

\* The short years of a symbol depend on its own bars and the window.
LEMMA ShortYearsStay ==
  ASSUME NEW s \in Symbols, UNCHANGED <<start, target>>,
         \A d \in Days : Has(silver', s, d) <=> Has(silver, s, d)
  PROVE  ShortYears(s)' = ShortYears(s)
<1>1. DaysOf(silver', s) = DaysOf(silver, s)
  BY DEF DaysOf
<1>2. FirstSeen(s)' = FirstSeen(s)
  BY <1>1 DEF FirstSeen
<1>3. EffStart(s)' = EffStart(s)
  BY <1>2 DEF EffStart
<1>4. \A y : RowsIn(s, y)' = RowsIn(s, y) /\ Partial(s, y)' = Partial(s, y)
  BY <1>1, <1>3 DEF RowsIn, Partial
<1>5. YearOf(start)' = YearOf(start) /\ YearOf(target)' = YearOf(target) /\ YearOf(EffStart(s))' = YearOf(EffStart(s))
  BY <1>3 DEF YearOf
<1>. QED  BY <1>4, <1>5 DEF ShortYears

\* A master refresh leaves a symbol that the exchange left alone collectible.
LEMMA PreparedRunner ==
  ASSUME TypeOK, OnRunner, Prepare, UNCHANGED <<worldVars, published>>, pc' = "collect", repairs' = {}
  PROVE  RunnerInv'
<1>1. silver' = published' /\ universe' \in Masters
  BY DEF Prepare
<1>2. \A s \in Symbols : Untouched(s)' => Collectible(s)'
  <2>1. SUFFICES ASSUME NEW s \in Symbols, Untouched(s)' PROVE universe'[s] = "active"
    BY DEF Collectible
  <2>2. halts[s] = {} /\ delisted[s] = 0
    BY <2>1 DEF Untouched, worldVars
  <2>3. MasterFlags(s) = {"active"}
    BY <2>2 DEF MasterFlags
  <2>. QED  BY <1>1, <2>3 DEF Masters
<1>. QED  BY <1>1, <1>2 DEF RunnerInv, ReleaseKept, PastAsIs, RepairsExist, GapsExist, Has

\* A step that adds bars inside the window only.
LEMMA RunnerFrame ==
  ASSUME TypeOK, OnRunner, RunnerInv, pc \in Steps, Grows,
         UNCHANGED <<published, start, universe, worldVars>>,
         \A x \in Symbols, d \in Days : Has(silver', x, d) => Has(silver, x, d) \/ start <= d,
         \A r \in repairs' : r \in repairs,
         GapsExist'
  PROVE  RunnerInv'
<1>1. ReleaseKept' /\ \A s \in Symbols : Untouched(s)' => Collectible(s)'
  BY DEF RunnerInv, ReleaseKept, Grows, Has, Untouched, Collectible, worldVars
<1>2. PastAsIs'
  <2>1. SUFFICES ASSUME NEW s \in Symbols, NEW d \in Days, d < start, Has(silver', s, d) PROVE Has(published, s, d)
    BY DEF PastAsIs, Has
  <2>2. d \in Int /\ start \in Int
    BY CollectionAssumption DEF Days, TypeOK
  <2>3. Has(silver, s, d)
    BY <2>1, <2>2
  <2>. QED  BY <2>1, <2>3 DEF RunnerInv, PastAsIs
<1>3. RepairsExist'
  BY DEF RunnerInv, RepairsExist, Grows, Has, TypeOK
<1>. QED  BY <1>1, <1>2, <1>3 DEF RunnerInv

\* A lookup proves nothing against a symbol that the exchange left alone.
LEMMA UntouchedIsUnproven ==
  ASSUME TypeOK, NEW s \in Symbols, Untouched(s), NEW info \in StockInfos(s)
  PROVE  Classify(info) = "failed"
<1>1. delisted[s] = 0 /\ halts[s] = {}
  BY DEF Untouched
<1>2. delisted[s] \notin 1 .. target /\ target \notin halts[s]
  BY <1>1
<1>. QED  BY <1>2, ClassifyTells

\* The steps of a run that write bars.
LEMMA RunnerWrites ==
  ASSUME TypeOK, OnRunner, SavedIsStored, RunnerInv, NEW s \in Symbols,
         CollectRow(s) \/ MissRow(s) \/ FillGap(s) \/ MissGap(s)
  PROVE  RunnerInv'
<1>1. UNCHANGED <<published, start, target, universe, worldVars, repairs, pc>>
  BY DEF CollectRow, MissRow, FillGap, MissGap, frameVars
<1>2. start \in Int /\ \A d \in Days : d \in Int
  BY CollectionAssumption DEF TypeOK, Days
<1>3. CASE CollectRow(s) \/ MissRow(s)
  <2>1. pc = "collect"
    BY <1>3 DEF CollectRow, MissRow, Row
  <2>2. Grows /\ AddsOnly(s, start .. target)
    BY <1>3, CollectRowEffect, MissRowEffect
  <2>3. \A x \in Symbols, d \in Days : Has(silver', x, d) => Has(silver, x, d) \/ start <= d
    BY <1>2, <2>2 DEF AddsOnly
  <2>4. GapsExist' /\ pc \in Steps
    BY <1>1, <2>1 DEF GapsExist, Steps
  <2>. QED  BY <1>1, <2>2, <2>3, <2>4, RunnerFrame
<1>4. CASE FillGap(s) \/ MissGap(s)
  <2>1. pc = "gapfill" /\ saved = NoSave /\ s \in todo /\ pc \in Steps
    BY <1>4 DEF FillGap, MissGap, Filling, Steps
  <2>2. \A x \in todo : ShortYears(x) # {}
    BY <2>1, CollectionAssumption DEF RunnerInv, GapsExist, NoSave, TypeOK
  <2>3. Grows /\ AddsOnly(s, Gap(s).from .. Gap(s).to)
    BY <1>4, FillGapEffect, MissGapEffect
  <2>4. Gap(s).from \in Int /\ start <= Gap(s).from
    BY <2>1, <2>2, GapInWindow
  <2>5. \A x \in Symbols, d \in Days : Has(silver', x, d) => Has(silver, x, d) \/ start <= d
    BY <1>2, <2>3, <2>4 DEF AddsOnly
  <2>6. GapsExist'
    <3>1. SUFFICES ASSUME NEW x \in todo', x # saved'.symbol PROVE ShortYears(x)' # {}
      BY DEF GapsExist
    <3>2. x \in todo /\ x \in Symbols
      BY <1>4, <3>1 DEF FillGap, MissGap, TypeOK
    <3>3. x # s
      BY <1>4, <3>1, FillGapEffect DEF Waits, MissGap
    <3>4. \A d \in Days : Has(silver', x, d) <=> Has(silver, x, d)
      BY <2>3, <3>2, <3>3 DEF Grows, AddsOnly
    <3>5. ShortYears(x)' = ShortYears(x)
      BY <1>1, <3>2, <3>4, ShortYearsStay
    <3>. QED  BY <2>2, <3>2, <3>5
  <2>. QED  BY <1>1, <2>1, <2>3, <2>5, <2>6, RunnerFrame
<1>. QED  BY <1>3, <1>4

\* A repair writes a bar that is there already.
LEMMA RunnerRepairs ==
  ASSUME TypeOK, OnRunner, RunnerInv, NEW s \in Symbols, NEW d \in Days,
         RepairBar(s, d)
  PROVE  RunnerInv'
<1>1. pc = "repair" /\ pc \in Steps /\ <<s, d>> \in repairs
  BY DEF RepairBar, Steps
<1>2. UNCHANGED <<published, start, universe, worldVars, repairs, pc>>
  BY DEF RepairBar, frameVars
<1>3. Has(silver, s, d)
  BY <1>1 DEF RunnerInv, RepairsExist
<1>4. Grows /\ AddsOnly(s, {d})
  BY RepairBarEffect
<1>5. \A x \in Symbols, y \in Days : Has(silver', x, y) => Has(silver, x, y) \/ start <= y
  BY <1>3, <1>4 DEF AddsOnly
<1>6. GapsExist'
  BY <1>1, <1>2 DEF GapsExist
<1>. QED  BY <1>1, <1>2, <1>4, <1>5, <1>6, RunnerFrame

\* A recovery excludes no symbol that the exchange left alone.
LEMMA RunnerRecovers ==
  ASSUME TypeOK, OnRunner, RunnerInv, NEW s \in Symbols, Recover(s)
  PROVE  RunnerInv'
<1>1. pc = "recover" /\ UNCHANGED <<worldVars, silver, published, pc, start, repairs>>
  BY DEF Recover, frameVars
<1>2. \A x \in Symbols : Untouched(x)' => Collectible(x)'
  <2>1. SUFFICES ASSUME NEW x \in Symbols, Untouched(x) PROVE universe'[x] = "active"
    BY <1>1 DEF Untouched, Collectible, worldVars
  <2>2. universe[x] = "active"
    BY <1>1, <2>1 DEF RunnerInv, Collectible, Steps
  <2>3. \/ UNCHANGED universe
        \/ \E info \in StockInfos(s) : Classify(info) # "failed" /\ universe' = [universe EXCEPT ![s] = Classify(info)]
    BY DEF Recover
  <2>4. CASE UNCHANGED universe
    BY <2>2, <2>4
  <2>5. ASSUME NEW info \in StockInfos(s), Classify(info) # "failed", universe' = [universe EXCEPT ![s] = Classify(info)]
        PROVE  universe'[x] = "active"
    <3>1. x # s
      BY <2>1, <2>5, UntouchedIsUnproven
    <3>. QED  BY <2>2, <2>5, <3>1 DEF TypeOK
  <2>. QED  BY <2>3, <2>4, <2>5
<1>. QED  BY <1>1, <1>2 DEF RunnerInv, ReleaseKept, PastAsIs, RepairsExist, GapsExist, Steps

\* The other steps of a run.
LEMMA RunnerStages ==
  ASSUME TypeOK, OnRunner, SavedIsStored, RunnerInv,
         \/ FillUniverse \/ RecordSuccess \/ NextAttempt \/ GiveUp \/ CollectionFails \/ RetryEnds
         \/ BeginGapFill \/ GapFillFails \/ HostEnds \/ BeginRepair \/ RepairFails
         \/ BuildSnapshot \/ Publish \/ Refuse
         \/ \E s \in Symbols, d \in Days : MissBar(s, d)
  PROVE  RunnerInv'
<1>1. ASSUME pc' \notin Steps PROVE RunnerInv'
  BY <1>1 DEF RunnerInv
<1>2. ASSUME UNCHANGED <<published, start, universe, silver>>, UNCHANGED worldVars, pc \in Steps,
             \A r \in repairs' : r \in repairs, GapsExist'
      PROVE  RunnerInv'
  <2>1. Grows /\ \A x \in Symbols, d \in Days : Has(silver', x, d) => Has(silver, x, d) \/ start <= d
    BY <1>2 DEF Grows
  <2>. QED  BY <1>2, <2>1, RunnerFrame
<1>3. CASE \/ FillUniverse \/ CollectionFails \/ RetryEnds \/ GapFillFails \/ HostEnds
           \/ RepairFails \/ Publish \/ Refuse
  BY <1>1, <1>3 DEF FillUniverse, CollectionFails, RetryEnds, GapFillFails, HostEnds, RepairFails,
     Publish, Refuse, Steps
<1>4. CASE NextAttempt \/ GiveUp \/ BuildSnapshot
  <2>1. /\ UNCHANGED <<published, start, universe, silver>> /\ UNCHANGED worldVars
        /\ UNCHANGED repairs /\ pc \in Steps /\ pc' # "gapfill"
    BY <1>4 DEF NextAttempt, GiveUp, BuildSnapshot, PassOver, Repaired, storeVars, frameVars, loopVars, Steps
  <2>. QED  BY <1>2, <2>1 DEF GapsExist
<1>5. ASSUME NEW s \in Symbols, NEW d \in Days, MissBar(s, d) PROVE RunnerInv'
  BY <1>2, <1>5 DEF MissBar, frameVars, Steps, GapsExist
<1>6. CASE RecordSuccess
  <2>1. /\ UNCHANGED <<published, start, target, universe, silver, pc>> /\ UNCHANGED worldVars
        /\ \A r \in repairs' : r \in repairs
        /\ todo' = todo \ {saved.symbol}
    BY <1>6 DEF RecordSuccess, frameVars
  <2>2. pc \in Steps
    BY <1>6 DEF RecordSuccess, SavedIsStored, Steps
  <2>3. \A x \in Symbols : ShortYears(x)' = ShortYears(x)
    BY <2>1, ShortYearsStay
  <2>4. GapsExist'
    BY <2>1, <2>2, <2>3 DEF RunnerInv, GapsExist, TypeOK
  <2>. QED  BY <1>2, <2>1, <2>2, <2>4
<1>7. CASE BeginGapFill
  <2>1. /\ UNCHANGED <<published, start, target, universe, silver, repairs>> /\ UNCHANGED worldVars
        /\ todo' = Gaps /\ pc = "recover"
    BY <1>7 DEF BeginGapFill, Decided, storeVars, frameVars
  <2>2. \A x \in Symbols : ShortYears(x)' = ShortYears(x)
    BY <2>1, ShortYearsStay
  <2>3. GapsExist'
    BY <2>1, <2>2 DEF Gaps, GapsExist
  <2>. QED  BY <1>2, <2>1, <2>3 DEF Steps
<1>8. CASE BeginRepair
  <2>1. /\ UNCHANGED <<published, start, universe, silver>> /\ UNCHANGED worldVars
        /\ pc \in Steps /\ pc' = "repair" /\ repairs' \in Suspects
    BY <1>8 DEF BeginRepair, Decided, Filled, storeVars, frameVars, Steps
  <2>2. RepairsExist'
    BY <2>1 DEF RepairsExist, Suspects
  <2>. QED  BY <2>1, <2>2 DEF RunnerInv, ReleaseKept, PastAsIs, GapsExist, Collectible, Untouched, worldVars
<1>. QED  BY <1>3, <1>4, <1>5, <1>6, <1>7, <1>8

LEMMA RunnerStep ==
  TypeOK /\ SavedIsStored /\ RunnerInv /\ [Next]_vars => RunnerInv'
<1>. SUFFICES ASSUME TypeOK, SavedIsStored, RunnerInv, [Next]_vars, OnRunner PROVE RunnerInv'
  BY DEF RunnerInv
<1>1. CASE NewDay \/ Bell \/ UNCHANGED vars
  <2>1. UNCHANGED <<storeVars, pc, frameVars, loopVars>>
    BY <1>1 DEF NewDay, Bell, vars
  <2>2. \A s \in Symbols : ShortYears(s)' = ShortYears(s)
    BY <2>1, ShortYearsStay DEF storeVars, frameVars
  <2>. QED  BY <2>1, <2>2, TouchedStays DEF RunnerInv, ReleaseKept, PastAsIs, RepairsExist, GapsExist,
            Collectible, Has, TypeOK, storeVars, frameVars, loopVars
<1>2. CASE Begin
  <2>1. ASSUME pc' \notin Steps PROVE RunnerInv'
    BY <2>1 DEF RunnerInv
  <2>2. CASE BeginDaily
    BY <2>2, PreparedRunner DEF BeginDaily, StartRun
  <2>3. CASE BeginAudit
    BY <2>3, PreparedRunner DEF BeginAudit, StartRun
  <2>. QED  BY <1>2, <2>1, <2>2, <2>3 DEF Begin, BeginRetry, NothingToDo, ClearUniverse, Steps
<1>3. CASE RunStep
  BY <1>3, RunnerWrites, RunnerRepairs, RunnerRecovers, RunnerStages DEF RunStep
<1>4. CASE Crash
  BY <1>4 DEF Crash, RunnerInv, Steps
<1>. QED  BY <1>1, <1>2, <1>3, <1>4 DEF Next

\* Only Publish changes the release, and it takes what is on disk.
LEMMA ReleaseFrame == [Next]_vars => UNCHANGED published \/ Publish
<1>1. RunStep => UNCHANGED published \/ Publish
  <2>. USE DEF storeVars
  <2>1. (\/ FillUniverse \/ RecordSuccess \/ NextAttempt \/ GiveUp \/ CollectionFails \/ RetryEnds
         \/ BeginGapFill \/ GapFillFails \/ HostEnds \/ BeginRepair \/ RepairFails
         \/ BuildSnapshot \/ Refuse) => UNCHANGED published
    BY DEF FillUniverse, RecordSuccess, NextAttempt, GiveUp, CollectionFails, RetryEnds,
       BeginGapFill, GapFillFails, HostEnds, BeginRepair, RepairFails, BuildSnapshot, Refuse
  <2>2. \A s \in Symbols : CollectRow(s) \/ MissRow(s) \/ Recover(s) \/ FillGap(s) \/ MissGap(s) => UNCHANGED published
    BY DEF CollectRow, MissRow, Recover, FillGap, MissGap
  <2>3. \A s \in Symbols, d \in Days : RepairBar(s, d) \/ MissBar(s, d) => UNCHANGED published
    BY DEF RepairBar, MissBar
  <2>. QED  BY <2>1, <2>2, <2>3 DEF RunStep
<1>. QED  BY <1>1, BeginFrame DEF Next, NewDay, Bell, Crash, vars, storeVars

\* What passes the gate has no hole: in the window because the gate looks at each
\* of its days, before it because the last release had none.
LEMMA PublishedIsWhole ==
  ASSUME TypeOK, OnRunner, NoHoleInPublished, RunnerInv, Publish
  PROVE  NoHoleInPublished'
<1>1. SUFFICES ASSUME NEW s \in Symbols, NEW d \in Days, d \in Observed(silver), Listed[s] <= d, Untouched(s)
              PROVE  Has(silver, s, d)
  BY DEF Publish, NoHoleInPublished, Untouched, Observed, Has, worldVars
<1>2. pc \in Steps /\ Complete(silver)
  BY DEF Publish, Steps
<1>3. d \in Nat /\ target \in Nat /\ start \in Int
  BY DaysInCalendar DEF TypeOK
<1>4. d <= target
  <2>1. Observed(silver) \in SUBSET Calendar
    BY DaysInCalendar DEF Observed
  <2>2. d <= LatestOf(Observed(silver))
    BY <1>1, <2>1, LatestIsDate
  <2>. QED  BY <1>2, <2>2 DEF Complete
<1>5. CASE start <= d
  <2>1. s \in Universe(d)
    BY <1>1, <1>2 DEF RunnerInv, Universe
  <2>2. d \in Observed(silver) \cap (start .. target)
    BY <1>1, <1>3, <1>4, <1>5
  <2>. QED  BY <1>2, <2>1, <2>2 DEF Complete
<1>6. CASE d < start
  <2>1. PICK x \in Symbols : Has(silver, x, d)
    BY <1>1 DEF Observed
  <2>2. Has(published, x, d)
    BY <1>2, <1>6, <2>1 DEF RunnerInv, PastAsIs
  <2>3. d \in Observed(published)
    BY <2>2 DEF Observed
  <2>4. Has(published, s, d)
    BY <1>1, <2>3 DEF NoHoleInPublished, Untouched
  <2>. QED  BY <1>2, <2>4 DEF RunnerInv, ReleaseKept
<1>. QED  BY <1>3, <1>5, <1>6

LEMMA NoHoleStep ==
  TypeOK /\ NoHoleInPublished /\ RunnerInv /\ [Next]_vars => NoHoleInPublished'
<1>. SUFFICES ASSUME TypeOK, NoHoleInPublished, RunnerInv, [Next]_vars, OnRunner PROVE NoHoleInPublished'
  BY DEF NoHoleInPublished
<1>1. CASE UNCHANGED published
  BY <1>1, TouchedStays DEF NoHoleInPublished, Untouched, Observed, Has
<1>. QED  BY <1>1, ReleaseFrame, PublishedIsWhole

(***************************************************************************)
(* A run that ends well is complete.                                       *)
(***************************************************************************)
\* The rows of a job that begins are the universe of its target day.
LEMMA BeginRuns == TypeOK /\ Begin => RunsInv'
<1>. SUFFICES ASSUME TypeOK, Begin PROVE RunsInv'
  OBVIOUS
<1>1. ASSUME TargetDate # 0, NEW kind, NEW from, StartRun(kind, from, TargetDate, Universe(TargetDate)')
      PROVE  RunsInv'
  <2>1. target' = TargetDate /\ target' \in Days
    BY <1>1, TargetType, CollectionAssumption DEF StartRun, Calendar, Days
  <2>2. Universe(TargetDate)' = Universe(target)'
    <3>1. UNCHANGED <<day, session>>
      BY <1>1 DEF StartRun, worldVars
    <3>2. TargetDate' = TargetDate
      BY <3>1 DEF TargetDate, HasBegun
    <3>. QED  BY <2>1, <3>2 DEF Universe
  <2>3. pc' = "collect" /\ todo' = Universe(TargetDate)' /\ saved' = NoSave
    BY <1>1 DEF StartRun
  <2>. QED  BY <2>1, <2>2, <2>3 DEF RunsInv, RowsCovered, JobsDone, Open
<1>2. CASE BeginDaily
  BY <1>1, <1>2 DEF BeginDaily
<1>3. CASE BeginAudit
  BY <1>1, <1>3 DEF BeginAudit
<1>4. CASE BeginRetry
  <2>1. pc' = "collect" /\ job' = "retry" /\ saved' = NoSave /\ target' \in Days
    BY <1>4, CollectionAssumption DEF BeginRetry, StartRun
  <2>. QED  BY <2>1 DEF RunsInv, RowsCovered, JobsDone
<1>5. CASE NothingToDo \/ ClearUniverse
  BY <1>5 DEF NothingToDo, ClearUniverse, RunsInv, RowsCovered, JobsDone, Steps
<1>. QED  BY <1>2, <1>3, <1>4, <1>5 DEF Begin

\* A date in waiting belongs to a symbol.
LEMMA SavedSymbol == TypeOK /\ SavedIsStored /\ saved # NoSave => saved.symbol \in Symbols
<1>. SUFFICES ASSUME TypeOK, SavedIsStored, saved.symbol \notin Symbols PROVE saved = NoSave
  OBVIOUS
<1>1. saved \in [symbol : Symbols \cup {NoSymbol}, last : Calendar]
  BY DEF TypeOK
<1>2. saved.last = 0 /\ saved.symbol = NoSymbol
  BY <1>1 DEF SavedIsStored
<1>3. saved = [symbol |-> saved.symbol, last |-> saved.last]
  BY <1>1
<1>. QED  BY <1>2, <1>3 DEF NoSave

\* Bars that stay keep what was there, when the rows at work stay.
LEMMA RunsFrame ==
  ASSUME TypeOK, SavedIsStored, RunsInv, UNCHANGED <<universe, target, job, pc>>, Grows,
         Open \subseteq Open',
         pc = "collect" /\ saved' # NoSave => UNCHANGED saved \/ Has(silver', saved'.symbol, target)
  PROVE  RunsInv'
<1>1. Universe(target)' = Universe(target)
  BY DEF Universe, Collectible
<1>2. pc \in Steps \cup {"done"} => \A s \in Symbols : Has(silver, s, target) => Has(silver', s, target)
  BY DEF RunsInv, Grows
<1>3. pc = "collect" /\ saved' # NoSave => Has(silver', saved'.symbol, target)
  BY <1>2, SavedSymbol DEF RunsInv, Steps
<1>4. \A s \in Universe(target) : s \in Symbols
  BY DEF Universe
<1>5. RowsCovered' /\ JobsDone'
  BY <1>1, <1>2, <1>4 DEF RunsInv, RowsCovered, JobsDone, Steps, Has
<1>. QED  BY <1>3, <1>5 DEF RunsInv, Has

\* The row that was fetched has the bar of the target day.
LEMMA CollectedTarget ==
  ASSUME TypeOK, NEW s \in Symbols, CollectRow(s)
  PROVE  Has(silver', s, target)
<1>1. PICK r \in Replies(s, start, target) : HasTarget(r) /\ WriteBars(s, r.valid, LatestOf(r.valid))
  BY DEF CollectRow
<1>2. r.valid \in SUBSET Days /\ target \in r.valid
  BY <1>1, RepliesAreDays DEF HasTarget
<1>3. silver' = Upsert(silver, s, r.valid) /\ silver \in Bars
  BY <1>1 DEF WriteBars, TypeOK
<1>. QED  BY <1>2, <1>3, UpsertEffect

LEMMA RunsStep ==
  TypeOK /\ SavedIsStored /\ RunsInv /\ [Next]_vars => RunsInv'
<1>. SUFFICES ASSUME TypeOK, SavedIsStored, RunsInv, [Next]_vars PROVE RunsInv'
  OBVIOUS
<1>1. UNCHANGED silver => Grows
  BY DEF Grows
<1>2. ASSUME pc' \notin Steps \cup {"done"} PROVE RunsInv'
  BY <1>2 DEF RunsInv, RowsCovered, JobsDone, Steps
<1>3. CASE NewDay \/ Bell \/ UNCHANGED vars
  BY <1>1, <1>3, RunsFrame DEF NewDay, Bell, vars, storeVars, frameVars, loopVars, verdicts, Open
<1>4. CASE Crash
  BY <1>2, <1>4 DEF Crash, Steps
<1>5. ASSUME NEW s \in Symbols, CollectRow(s) PROVE RunsInv'
  <2>1. Grows /\ saved'.symbol = s /\ Has(silver', s, target)
    BY <1>5, CollectRowEffect, CollectedTarget DEF Waits
  <2>. QED  BY <1>5, <2>1, RunsFrame DEF CollectRow, frameVars, verdicts, Open
<1>6. ASSUME NEW s \in Symbols, MissRow(s) PROVE RunsInv'
  <2>1. Grows
    BY <1>6, MissRowEffect
  <2>2. /\ UNCHANGED <<universe, target, job, pc, saved>> /\ pc = "collect"
        /\ todo' = todo \ {s} /\ again' = again \cup {s}
    BY <1>6 DEF MissRow, Row, frameVars
  <2>3. Open \subseteq Open'
    BY <2>2 DEF Open
  <2>. QED  BY <2>1, <2>2, <2>3, RunsFrame
<1>7. ASSUME NEW s \in Symbols, FillGap(s) \/ MissGap(s) PROVE RunsInv'
  <2>1. Grows /\ pc = "gapfill"
    BY <1>7, FillGapEffect, MissGapEffect DEF FillGap, MissGap, Filling
  <2>2. UNCHANGED <<universe, target, job, pc>>
    BY <1>7 DEF FillGap, MissGap, frameVars
  <2>3. Universe(target)' = Universe(target) /\ Universe(target) \subseteq Symbols
    BY <2>2 DEF Universe, Collectible
  <2>. QED  BY <2>1, <2>2, <2>3 DEF RunsInv, RowsCovered, JobsDone, Grows, Steps, Has
<1>8. ASSUME NEW s \in Symbols, NEW d \in Days, RepairBar(s, d) \/ MissBar(s, d) PROVE RunsInv'
  <2>1. Grows /\ pc = "repair"
    BY <1>1, <1>8, RepairBarEffect DEF RepairBar, MissBar
  <2>2. UNCHANGED <<universe, target, job, pc>>
    BY <1>8 DEF RepairBar, MissBar, frameVars
  <2>3. Universe(target)' = Universe(target) /\ Universe(target) \subseteq Symbols
    BY <2>2 DEF Universe, Collectible
  <2>. QED  BY <2>1, <2>2, <2>3 DEF RunsInv, RowsCovered, JobsDone, Grows, Steps, Has
<1>9. ASSUME NEW s \in Symbols, Recover(s) PROVE RunsInv'
  <2>1. UNCHANGED <<target, job, pc, silver, again>> /\ pc = "recover" /\ todo' = todo \ {s}
    BY <1>9 DEF Recover, frameVars
  <2>2. \/ unresolved' = unresolved \cup {s} /\ UNCHANGED universe
        \/ /\ UNCHANGED unresolved
           /\ \E info \in StockInfos(s) : Classify(info) # "failed" /\ universe' = [universe EXCEPT ![s] = Classify(info)]
    BY <1>9 DEF Recover
  <2>3. \A x \in Universe(target)' : x \in Universe(target) /\ (x \in Open => x \in Open')
    <3>1. CASE unresolved' = unresolved \cup {s} /\ UNCHANGED universe
      BY <2>1, <3>1 DEF Universe, Collectible, Open
    <3>2. ASSUME NEW info \in StockInfos(s), Classify(info) # "failed",
                 universe' = [universe EXCEPT ![s] = Classify(info)], UNCHANGED unresolved
          PROVE  \A x \in Universe(target)' : x \in Universe(target) /\ (x \in Open => x \in Open')
      <4>1. Classify(info) # "active"
        BY DEF Classify
      <4>2. \A x \in Symbols : universe'[x] = "active" => x # s /\ universe[x] = "active"
        BY <3>2, <4>1 DEF TypeOK
      <4>. QED  BY <2>1, <3>2, <4>2 DEF Universe, Collectible, Open
    <3>. QED  BY <2>2, <3>1, <3>2
  <2>4. RowsCovered'
    BY <2>1, <2>3 DEF RunsInv, RowsCovered, Has
  <2>. QED  BY <2>1, <2>4 DEF RunsInv, JobsDone, Steps
<1>10. CASE RecordSuccess
  <2>1. /\ UNCHANGED <<universe, target, job, pc, silver, again, unresolved>> /\ saved' = NoSave /\ saved # NoSave
        /\ todo' = todo \ {saved.symbol}
    BY <1>10 DEF RecordSuccess, frameVars, verdicts
  <2>2. Universe(target)' = Universe(target)
    BY <2>1 DEF Universe, Collectible
  <2>3. pc # "recover"
    BY <2>1 DEF SavedIsStored
  <2>4. RowsCovered'
    BY <2>1, <2>2, <2>3 DEF RunsInv, RowsCovered, Open, Has
  <2>. QED  BY <2>1, <2>2, <2>4 DEF RunsInv, JobsDone, Has
<1>11. CASE NextAttempt
  <2>1. UNCHANGED <<universe, target, job, pc, silver, saved>> /\ Open \subseteq Open'
    BY <1>11 DEF NextAttempt, PassOver, storeVars, frameVars, verdicts, Open
  <2>. QED  BY <1>1, <2>1, RunsFrame
<1>12. CASE GiveUp
  <2>1. /\ UNCHANGED <<universe, target, job, silver, saved>> /\ pc = "collect" /\ pc' = "recover"
        /\ todo = {} /\ todo' = Explainable /\ unresolved' = again \ Explainable
    BY <1>12 DEF GiveUp, PassOver, Rest, storeVars, frameVars
  <2>2. Universe(target)' = Universe(target)
    BY <2>1 DEF Universe, Collectible
  <2>3. Open \subseteq Open'
    BY <2>1 DEF Open
  <2>4. RowsCovered'
    BY <2>1, <2>2, <2>3 DEF RunsInv, RowsCovered, Has
  <2>. QED  BY <2>1, <2>4 DEF RunsInv, JobsDone, Steps
<1>13. CASE BeginGapFill \/ BeginRepair
  <2>1. UNCHANGED <<universe, target, job, silver>> /\ pc' \in {"gapfill", "repair"}
    BY <1>13 DEF BeginGapFill, BeginRepair, storeVars, frameVars
  <2>2. Universe(target)' = Universe(target)
    BY <2>1 DEF Universe, Collectible
  <2>3. \/ pc = "gapfill"
        \/ pc = "recover" /\ todo = {} /\ unresolved = {} /\ job # "retry"
    BY <1>13 DEF BeginGapFill, BeginRepair, Decided, Filled
  <2>4. job # "retry" /\ target \in Days /\ \A s \in Universe(target) : Has(silver, s, target)
    BY <2>3 DEF RunsInv, RowsCovered, JobsDone, Open, Steps
  <2>. QED  BY <2>1, <2>2, <2>4 DEF RunsInv, RowsCovered, JobsDone, Has
<1>14. CASE HostEnds \/ BuildSnapshot \/ Publish
  <2>1. UNCHANGED <<universe, target, job, silver>> /\ pc' \in {"validate", "done"} /\ pc \in {"gapfill", "repair", "validate"}
    BY <1>14 DEF HostEnds, BuildSnapshot, Publish, Filled, Repaired, storeVars, frameVars
  <2>2. Universe(target)' = Universe(target)
    BY <2>1 DEF Universe, Collectible
  <2>. QED  BY <2>1, <2>2 DEF RunsInv, RowsCovered, JobsDone, Has, Steps
<1>15. CASE FillUniverse \/ CollectionFails \/ RetryEnds \/ GapFillFails \/ RepairFails \/ Refuse
  BY <1>2, <1>15 DEF FillUniverse, CollectionFails, RetryEnds, GapFillFails, RepairFails, Refuse, Steps
<1>. QED  BY <1>3, <1>4, <1>5, <1>6, <1>7, <1>8, <1>9, <1>10, <1>11, <1>12, <1>13, <1>14, <1>15, BeginRuns
          DEF Next, RunStep

(***************************************************************************)
(* A run that fails leaves its failures in collect_state.                  *)
(***************************************************************************)
\* The error of one row.
LEMMA ErrorSet ==
  ASSUME TypeOK, NEW s \in Symbols, NEW error, state' = [state EXCEPT ![s].error = error]
  PROVE  state'[s].error = error /\ \A x \in Symbols : x # s => state'[x] = state[x]
<1>1. state \in [Symbols -> [last : Calendar, error : Errors]]
  BY DEF TypeOK
<1>2. [state[s] EXCEPT !.error = error].error = error
  BY <1>1
<1>3. state'[s] = [state[s] EXCEPT !.error = error]
  BY <1>1
<1>. QED  BY <1>1, <1>2, <1>3

LEMMA QueueStep == TypeOK /\ SavedIsStored /\ QueueInv /\ [Next]_vars => QueueInv'
<1>. SUFFICES ASSUME TypeOK, SavedIsStored, QueueInv, [Next]_vars, ~OnRunner PROVE QueueInv'
  BY DEF QueueInv
<1>0. todo \subseteq Symbols /\ again \subseteq Symbols /\ unresolved \subseteq Symbols
  BY DEF TypeOK
<1>1. CASE NewDay \/ Bell \/ UNCHANGED vars
  BY <1>1 DEF NewDay, Bell, vars, storeVars, loopVars, verdicts, QueueInv
<1>2. CASE Crash
  BY <1>2 DEF Crash, QueueInv
<1>3. CASE Begin
  <2>1. ASSUME NEW kind, NEW from, NEW to, NEW rows, StartRun(kind, from, to, rows) PROVE QueueInv'
    BY <2>1 DEF StartRun, QueueInv
  <2>2. CASE NothingToDo \/ ClearUniverse
    BY <2>2 DEF NothingToDo, ClearUniverse, Prepare, storeVars, loopVars, verdicts, Resting, QueueInv
  <2>. QED  BY <1>3, <2>1, <2>2 DEF Begin, BeginDaily, BeginAudit, BeginRetry
<1>4. ASSUME NEW s \in Symbols, CollectRow(s) \/ FillGap(s) PROVE QueueInv'
  <2>1. UNCHANGED <<state, pc, todo, again, unresolved>> /\ s \in todo
    BY <1>4 DEF CollectRow, FillGap, Row, Filling, WriteBars, verdicts
  <2>2. saved'.symbol = s
    BY <1>4, CollectRowEffect, FillGapEffect DEF Waits
  <2>. QED  BY <2>1, <2>2 DEF QueueInv
<1>5. ASSUME NEW s \in Symbols, MissRow(s) \/ MissGap(s) PROVE QueueInv'
  <2>1. /\ pc \in {"collect", "gapfill"} /\ saved = NoSave /\ s \in todo
        /\ UNCHANGED <<saved, pc>> /\ todo' = todo \ {s}
        /\ IF pc = "collect" THEN again' = again \cup {s} /\ UNCHANGED unresolved
                             ELSE unresolved' = unresolved \cup {s} /\ UNCHANGED again
    BY <1>5 DEF MissRow, MissGap, Row, Filling, verdicts
  <2>2. PICK error \in {"noRow", "other"} : state' = [state EXCEPT ![s].error = error]
    BY <1>5 DEF MissRow, MissGap, RecordFailure, FailToWrite
  <2>3. state'[s].error # "none" /\ \A x \in Symbols : x # s => state'[x] = state[x]
    BY <2>2, ErrorSet
  <2>4. again' \cup unresolved' = again \cup unresolved \cup {s} /\ saved' = NoSave /\ pc' # "recover"
    BY <2>1
  <2>5. \A x \in again' \cup unresolved' : state'[x].error # "none"
    BY <1>0, <2>3, <2>4 DEF QueueInv
  <2>6. todo' \cap (again' \cup unresolved') = {}
    BY <2>1, <2>4 DEF QueueInv
  <2>. QED  BY <2>1, <2>4, <2>5, <2>6 DEF QueueInv
<1>6. ASSUME NEW s \in Symbols, NEW d \in Days, RepairBar(s, d) \/ MissBar(s, d) PROVE QueueInv'
  BY <1>6 DEF RepairBar, MissBar, QueueInv
<1>7. ASSUME NEW s \in Symbols, Recover(s) PROVE QueueInv'
  <2>1. /\ pc = "recover" /\ s \in todo /\ todo' = todo \ {s}
        /\ UNCHANGED <<pc, again, saved>>
    BY <1>7 DEF Recover
  <2>2. saved = NoSave
    BY <2>1 DEF SavedIsStored
  <2>3. CASE unresolved' = unresolved \cup {s} /\ UNCHANGED state
    BY <1>0, <2>1, <2>2, <2>3 DEF QueueInv
  <2>4. CASE UNCHANGED unresolved /\ state' = [state EXCEPT ![s].error = "none"]
    BY <1>0, <2>1, <2>2, <2>4, ErrorSet DEF QueueInv
  <2>. QED  BY <1>7, <2>3, <2>4 DEF Recover
<1>8. CASE RecordSuccess
  <2>1. /\ saved' = NoSave /\ saved.symbol \in todo /\ todo' = todo \ {saved.symbol}
        /\ UNCHANGED <<pc, again, unresolved>>
        /\ saved.symbol \notin again \cup unresolved
    BY <1>8 DEF RecordSuccess, QueueInv, verdicts
  <2>2. \A x \in Symbols : x # saved.symbol => state'[x] = state[x]
    BY <1>8 DEF RecordSuccess, TypeOK
  <2>. QED  BY <1>0, <2>1, <2>2 DEF QueueInv
<1>9. CASE NextAttempt
  <2>1. UNCHANGED <<state, pc, saved, unresolved>> /\ saved = NoSave /\ pc = "collect" /\ todo' = again /\ again' = {}
    BY <1>9 DEF NextAttempt, PassOver, storeVars, verdicts
  <2>. QED  BY <2>1 DEF QueueInv
<1>10. CASE GiveUp
  <2>1. /\ UNCHANGED <<state, saved>> /\ saved = NoSave /\ pc = "collect" /\ pc' = "recover" /\ again' = {}
        /\ todo' = Explainable /\ unresolved' = again \ Explainable
    BY <1>10 DEF GiveUp, PassOver, Rest, storeVars
  <2>2. Explainable \subseteq again
    BY DEF Explainable
  <2>. QED  BY <2>1, <2>2 DEF QueueInv
<1>11. CASE BeginGapFill
  <2>1. /\ UNCHANGED <<state, saved, again, unresolved>> /\ unresolved = {} /\ pc = "recover" /\ pc' = "gapfill"
    BY <1>11 DEF BeginGapFill, Decided, storeVars, verdicts
  <2>. QED  BY <2>1 DEF QueueInv, SavedIsStored
<1>12. CASE FillUniverse \/ CollectionFails \/ RetryEnds \/ GapFillFails \/ HostEnds \/ RepairFails
            \/ BuildSnapshot \/ Publish \/ Refuse
  <2>1. UNCHANGED <<state, saved, todo, again, unresolved>> /\ pc' \notin {"collect", "recover", "repair"}
    BY <1>12 DEF FillUniverse, CollectionFails, RetryEnds, GapFillFails, HostEnds, RepairFails,
       BuildSnapshot, Publish, Refuse, storeVars, loopVars, verdicts
  <2>2. pc' # "validate" /\ pc # "collect"
    BY <1>12 DEF FillUniverse, CollectionFails, RetryEnds, GapFillFails, HostEnds, RepairFails,
       BuildSnapshot, Publish, Refuse, Decided, Filled, Repaired, QueueInv
  <2>. QED  BY <2>1, <2>2 DEF QueueInv
<1>13. CASE BeginRepair
  BY <1>13 DEF BeginRepair
<1>. QED  BY <1>1, <1>2, <1>3, <1>4, <1>5, <1>6, <1>7, <1>8, <1>9, <1>10, <1>11, <1>12, <1>13
          DEF Next, RunStep

(***************************************************************************)
(* The theorems                                                            *)
(***************************************************************************)
LEMMA InitInv == Init => CollectInv
<1>. SUFFICES ASSUME Init PROVE CollectInv
  OBVIOUS
<1>1. ExclusionsProven /\ RunnerInv /\ RunsInv /\ QueueInv
  BY DEF Init, ExclusionsProven, RunnerInv, RunsInv, RowsCovered, JobsDone, QueueInv, Steps
<1>2. NoHoleInPublished
  <2>1. PICK past \in {{}, OpenDays \cap {1}} :
          published = [s \in Symbols |-> [d \in Days |-> IF d \in past /\ Listed[s] <= d THEN "closing" ELSE "none"]]
    BY DEF Init
  <2>2. \A s \in Symbols, d \in Days : Has(published, s, d) <=> d \in past /\ Listed[s] <= d
    BY <2>1 DEF Has
  <2>. QED  BY <2>2 DEF NoHoleInPublished, Observed
<1>. QED  BY <1>1, <1>2, InitType, InitStored DEF CollectInv

LEMMA InvStep == CollectInv /\ [Next]_vars => CollectInv'
BY NextType, ExclusionsStep, StoredStep, RunnerStep, NoHoleStep, RunsStep, QueueStep DEF CollectInv

\* Every run of the collection keeps CollectInv, from which the theorems below
\* follow (run_daily_collect.main and the jobs beside it).
THEOREM CollectionInOrder == Spec => []CollectInv
<1>. QED  BY InitInv, InvStep, PTL DEF Spec

\* A row is excluded for a delisting or a halt of that symbol by the target day
\* only (classify_stock_status), for every calendar and every listing.
THEOREM ExclusionsHaveReason == Spec => []ExclusionsProven
<1>1. CollectInv => ExclusionsProven
  BY DEF CollectInv
<1>. QED  BY <1>1, CollectionInOrder, PTL

\* last_success_date always has its bar, wherever the process died between the
\* two writes of a row or between the files of two years (collect_one,
\* upsert_ohlcv_from_df, upsert_collect_state).
THEOREM DatesAreBacked == Spec => []LastIsStored
<1>1. CollectInv => LastIsStored
  BY DEF CollectInv
<1>. QED  BY <1>1, CollectionInOrder, PTL

\* The release has no hole, however many jobs failed, were refused or died
\* between two releases (run_daily_collect.main, validate_snapshot.main).
THEOREM ReleaseIsWhole == Spec => []NoHoleInPublished
<1>1. CollectInv => NoHoleInPublished
  BY DEF CollectInv
<1>. QED  BY <1>1, CollectionInOrder, PTL

\* A run that ends well has the target day's bar of every symbol that is still to
\* be collected, whatever passes, recoveries and gap fills it took
\* (collect_rows, run_incremental_and_gap_fill, validate_snapshot.main).
THEOREM SuccessIsComplete == Spec => []RunComplete
<1>1. CollectInv => RunComplete
  BY DEF CollectInv, RunsInv, JobsDone, RunComplete
<1>. QED  BY <1>1, CollectionInOrder, PTL

\* A run of the host that fails leaves the error of each row it gave up on in
\* collect_state (upsert_collect_state, load_failed_symbols).
THEOREM FailuresAreQueued == Spec => []FailuresQueued
<1>1. CollectInv => FailuresQueued
  BY DEF CollectInv, QueueInv, FailuresQueued
<1>. QED  BY <1>1, CollectionInOrder, PTL

\* No step takes a bar out of the host's files or out of the release
\* (upsert_ohlcv_from_df, the publication of silver).
THEOREM BarsAreKept == Spec => BarsKept
<1>1. CollectInv /\ [Next]_vars => [\A b \in Symbols \X Days : Kept(b) => Kept(b)']_vars
  <2>. SUFFICES ASSUME CollectInv, [Next]_vars, NEW b \in Symbols \X Days, Kept(b) PROVE Kept(b)'
    OBVIOUS
  <2>1. b[1] \in Symbols /\ b[2] \in Days /\ TypeOK
    BY DEF CollectInv
  <2>2. CASE OnRunner
    <3>1. CASE UNCHANGED published
      BY <2>2, <3>1 DEF Kept
    <3>2. CASE Publish
      <4>1. Has(silver, b[1], b[2])
        BY <2>1, <2>2, <3>2 DEF Kept, CollectInv, RunnerInv, ReleaseKept, Publish, Steps, Has
      <4>. QED  BY <2>2, <3>2, <4>1 DEF Kept, Publish, Has
    <3>. QED  BY <3>1, <3>2, ReleaseFrame
  <2>3. CASE ~OnRunner
    <3>1. Grows
      <4>1. UNCHANGED silver => Grows
        BY DEF Grows
      <4>2. Begin => UNCHANGED silver
        BY <2>3 DEF Begin, BeginDaily, NothingToDo, BeginAudit, BeginRetry, ClearUniverse, Prepare
      <4>. QED  BY <2>1, <4>1, <4>2, RunStepGrows DEF Next, NewDay, Bell, Crash, vars, storeVars
    <3>. QED  BY <2>1, <2>3, <3>1 DEF Kept, Grows, Has
  <2>. QED  BY <2>2, <2>3
<1>. QED  BY <1>1, CollectionInOrder, PTL DEF Spec, BarsKept
=============================================================================
