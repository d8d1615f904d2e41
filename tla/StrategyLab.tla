---------------------------- MODULE StrategyLab ----------------------------
(***************************************************************************)
(* run_strategy_lab.py: a grid of strategy parameters, each evaluated by a *)
(* run of the engine in this process or in a pool of workers, the ranking  *)
(* of the rows and the run of the winner that the reports are written of.  *)
(* Workers share nothing but the data, so their runs are taken one after   *)
(* the other, in any order.                                                *)
(***************************************************************************)
EXTENDS Backtest, Selection

CONSTANTS
  Grids,     \* DEFAULT_GRIDS: for each strategy, its parameters in order with their values
  Targets,   \* the strategies asked for, in order
  MaxCombos, \* --max-combos, 0 for no cap
  Budget,    \* TRUE when --max-seconds is given: the clock may run out at any task
  PoolSizes, \* jobs; 1 evaluates in this process
  TopK,      \* --top-k-per-strategy
  Start, End \* --start, --end

\* A row of the lake has a number in some of the columns.
Columns == {"day", "open", "high", "low", "close", "volume"}
LakeRow(b) == DOMAIN b \subseteq Columns /\ b \in [DOMAIN b -> Nat]
IsSequence(q) == q \in Seq({q[i] : i \in DOMAIN q})
Params == [key : STRING, values : Seq(Int)]
ASSUME LabAssumption ==
  /\ \A lake \in Markets :
       /\ IsSequence(lake)
       /\ \A i \in DOMAIN lake :
            IsSequence(lake[i]) /\ \A j \in DOMAIN lake[i] : LakeRow(lake[i][j])
  /\ Start \in Nat \ {0} /\ End \in Nat
  /\ \A ids \in Targets : ids \in Seq(DOMAIN Grids)
  /\ \A id \in DOMAIN Grids : id \in STRING /\ Grids[id] \in Seq(Params)
  /\ MaxCombos \in Nat /\ TopK \in Int /\ Budget \in BOOLEAN /\ PoolSizes \subseteq Nat \ {0}

VARIABLES
  jobs,
  phase,   \* "load", "plan", "evaluate", "report", "done", "failed"
  tasks,   \* those not evaluated yet, in the order of the plan
  rows,    \* one for each task, in the order of completion
  running, \* the task of this engine run
  best,    \* the row the report is about
  report   \* its summary

labVars == <<jobs, phase, tasks, rows, running, best, report>>
allVars == <<vars, labVars>>

Nothing == [id |-> "none"]

LabInit ==
  /\ ohlcv = <<>> /\ jobs \in PoolSizes
  /\ strategy = Nothing /\ day = 0 /\ cash = Money(InitialCapital)
  /\ positions = <<>> /\ trades = [s \in Symbols |-> <<>>] /\ equity = <<>>
  /\ phase = "load" /\ tasks = <<>> /\ rows = <<>>
  /\ running = Nothing /\ best = Nothing /\ report = Nothing

\* load_symbol_range_silver and to_backtest_ohlcv: the rows of the range that
\* have a number in every column.
Usable(bars) ==
  Kept(bars, {b \in Range(bars) : Columns \subseteq DOMAIN b /\ b.day \in Start .. End})
NotEmpty(loaded) == Kept(loaded, Range(loaded) \ {<<>>})

\* load_backtest_bundle: strict unless every symbol of the lake was asked for.
Load ==
  /\ phase = "load"
  /\ \E lake \in Markets, strict \in BOOLEAN :
       LET loaded == [i \in DOMAIN lake |-> Usable(lake[i])]
           kept   == NotEmpty(loaded)
           enough == kept # <<>> /\ (strict => kept = loaded)
       IN  /\ ohlcv' = IF enough THEN kept ELSE <<>>
           /\ phase' = IF enough THEN "plan" ELSE "failed"
  /\ UNCHANGED <<strategy, day, portfolio, jobs, tasks, rows, running, best, report>>

\* _grid_product: the last parameter varies fastest.
Extend(combos, param) ==
  FlattenSeq([i \in DOMAIN combos |->
    [j \in DOMAIN param.values |->
      [k \in DOMAIN combos[i] \cup {param.key} |->
         IF k = param.key THEN param.values[j] ELSE combos[i][k]]]])
GridProduct(id) ==
  LET all == FoldLeft(Extend, <<[id |-> id]>>, Grids[id])
  IN  IF MaxCombos = 0 THEN all ELSE SubSeq(all, 1, Min({MaxCombos, Len(all)}))
Planned(ids) == FlattenSeq([i \in DOMAIN ids |-> GridProduct(ids[i])])

\* The plan stops where the budget is spent.
Plan ==
  /\ phase = "plan"
  /\ \E ids \in Targets :
       LET all == Planned(ids) IN
         \E n \in IF Budget THEN 0 .. Len(all) ELSE {Len(all)} : tasks' = SubSeq(all, 1, n)
  /\ phase' = "evaluate"
  /\ UNCHANGED <<vars, jobs, rows, running, best, report>>

Idle == phase = "evaluate" /\ running = Nothing

\* run_once in this process, _worker_eval in the pool, which completes the
\* tasks in any order.
StartTask(i) ==
  /\ Idle /\ i \in DOMAIN tasks /\ (jobs = 1 => i = 1)
  /\ tasks[i].id \in Presets
  /\ StartRun(tasks[i]) /\ running' = tasks[i] /\ tasks' = RemoveAt(tasks, i)
  /\ UNCHANGED <<jobs, phase, rows, best, report>>

\* StrategyRegistry.create raises KeyError: the row keeps the error.
RejectTask(i) ==
  /\ Idle /\ i \in DOMAIN tasks /\ (jobs = 1 => i = 1)
  /\ tasks[i].id \notin Presets
  /\ rows' = Append(rows, [strategy |-> tasks[i], error |-> TRUE, cagr |-> 0])
  /\ tasks' = RemoveAt(tasks, i)
  /\ UNCHANGED <<vars, jobs, phase, running, best, report>>

RunDay == running # Nothing /\ NextDay /\ UNCHANGED labVars

FinishTask ==
  /\ phase = "evaluate" /\ running # Nothing /\ RunEnded
  /\ rows' = Append(rows, [strategy |-> running, error |-> FALSE, cagr |-> Summary.cagr])
  /\ running' = Nothing
  /\ UNCHANGED <<vars, jobs, phase, tasks, best, report>>

\* A worker dies: the executor fails every future that is not done, and their
\* rows say "UNKNOWN".
PoolBreaks ==
  /\ phase = "evaluate" /\ jobs > 1 /\ running # Nothing
  /\ rows' = rows \o [i \in 1 .. Len(tasks) + 1 |->
                        [strategy |-> Nothing, error |-> TRUE, cagr |-> 0]]
  /\ tasks' = <<>> /\ running' = Nothing
  /\ UNCHANGED <<vars, jobs, phase, best, report>>

\* The sequential loop looks at the clock before each task.
BudgetSpent ==
  /\ Idle /\ Budget /\ jobs = 1 /\ tasks # <<>>
  /\ tasks' = <<>>
  /\ UNCHANGED <<vars, jobs, phase, rows, running, best, report>>

\* Rows with an error take no part in a ranking.
Ok == {i \in DOMAIN rows : ~rows[i].error}
BestOf(S) == {i \in S : \A j \in S : rows[j].cagr <= rows[i].cagr}

\* Slip: the parameters of the row are not handed on.
ChosenDefault(i) == GridProduct(rows[i].strategy.id)[1]

\* StrategyRegistry.create(best_id, params): without a ranking the base
\* strategy, with its own parameters.
Chosen(i) == rows[i].strategy

\* sort_values by cagr, which leaves ties in no particular order.
PickBest ==
  /\ Idle /\ tasks = <<>>
  /\ \E st \in IF Ok = {} THEN {GridProduct("ma_volume")[1]}
               ELSE {Chosen(i) : i \in BestOf(Ok)} :
       best' = st /\ running' = st /\ StartRun(st)
  /\ phase' = "report"
  /\ UNCHANGED <<jobs, tasks, rows, report>>

WriteReport ==
  /\ phase = "report" /\ RunEnded
  /\ report' = Summary /\ running' = Nothing /\ phase' = "done"
  /\ UNCHANGED <<vars, jobs, tasks, rows, best>>

\* _top_k_per_strategy, at least one of each, and final_ranking_from_top_pool,
\* whose sort may leave equal returns in this order.
Beats(i, j) == rows[i].cagr > rows[j].cagr \/ (rows[i].cagr = rows[j].cagr /\ i < j)
TopPool ==
  {i \in Ok : Cardinality({j \in Ok : rows[j].strategy.id = rows[i].strategy.id /\ Beats(j, i)}) < Max({1, TopK})}
FinalRanking ==
  [n \in 1 .. Cardinality(TopPool) |->
     CHOOSE i \in TopPool : Cardinality({j \in TopPool : Beats(j, i)}) = n - 1]

\* The process ends with its reports written or without data; it stops nowhere
\* else, which the deadlock check shows.
Ended == phase \in {"done", "failed"} /\ UNCHANGED allVars

LabNext ==
  \/ Load \/ Plan \/ RunDay \/ FinishTask \/ PoolBreaks \/ BudgetSpent \/ PickBest \/ WriteReport \/ Ended
  \/ \E i \in DOMAIN tasks : StartTask(i) \/ RejectTask(i)

LabSpec == LabInit /\ [][LabNext]_allVars

-----------------------------------------------------------------------------
\* The type invariant of the engine and of the lab.
LabTypeOK ==
  /\ PortfolioOK
  /\ phase \in {"load", "plan", "evaluate", "report", "done", "failed"}
  /\ \A i \in DOMAIN rows : rows[i].error \in BOOLEAN /\ rows[i].cagr \in Nat

\* The reports are written from a second run of the winner, not from the run
\* that won, and the final ranking from a pool of each strategy's best rows:
\* whatever the order of completion, all three agree on the best return.
ReportMatchesRanking ==
  phase = "done" /\ Ok # {} =>
    /\ report.cagr = Max({rows[i].cagr : i \in Ok})
    /\ rows[FinalRanking[1]].cagr = report.cagr
=============================================================================
