# Sauvignon: a verification project

TLA+ models of the parts of this repository whose correctness depends on the
order of steps: what they keep, what they do, what a crash between two steps
leaves behind. TLC checks them on small instances; TLAPS proves the most
important results for every value of the parameters.

## 1. The system

The repository ("KIS Data Platform v5") collects daily prices of Korean stocks
from the KIS broker API, publishes them as GitHub releases, lets consumers
synchronise them, and uses them for backtests, a live sector scanner and a
(simulated) live trader.

| Component | State it keeps | Operations | What makes it hard |
|---|---|---|---|
| Live trader (`live_trading/`) | positions, open orders, daily statistics, the mock broker's ledger, four JSON files | market event, submit, poll fills, apply fill, save, restore | orders that are filled later, exceptions in the middle of a handler, saves that are not atomic, restarts during a trading day |
| Universe (`src/master`) | the `universe` table | download, parse, replace | DELETE and INSERT are separate statements |
| Collection (`src/collect`, `src/jobs`) | `collect_state`, silver files, pending rows | collect a row, retry, classify a missing row, gap fill, backfill | partial failure, retries, crash between silver and state, a gate before publication |
| KIS client (`src/clients`, `retry_policy`) | token cache | request, retry, refresh the token | rate limits, retries, expiring tokens |
| Storage (`src/storage`) | DuckDB tables, Parquet files | upsert | read-modify-write of files |
| Snapshot, delta, manifest (`src/transform`, `src/publish`) | bundles, `data_manifest.json` | build, update the manifest | releases and manifest are two steps |
| Release workflows (`.github/workflows`) | GitHub releases and tags, the manifest on the branch | publish a snapshot, publish a delta, refresh, audit | concurrent workflow runs, crash between upload and push, a push that loses a race |
| Consumer (`src/sync`) | its silver, `applied_release_state.json` | pull the manifest, download, verify, upsert, record | a release that is half uploaded, a process that dies between silver and state file |
| Backtest engine and lab (`backtest_mvp`, `strategy_core`) | portfolio, trade log, equity; the lab's rows and ranking | stops, exits, entries and valuation of a day; plan, evaluate, rank, report | two ledgers of the same money, stops that move with the bar they are compared with, workers that finish in any order or die, a time budget |
| Sector scanner (`sector_scanner`) | the last scan, the runtime file with its tick buffer, the exported universe | scan (two pipelines), refresh by ticks, export | a file that outlives the process and feeds on its own output, calls that degrade to empty answers, stocks in two groups |
| Theme and sector reports (`scripts/collect_thema_sector_data.py`, `publish_theme_sector_release.py`, `collect-theme-sector-data.yml`) | the classification, the history in releases and in a directory | restore, evaluate, write, publish, manual synchronisation | two hosts and two kinds of history files, re-runs of a day, uploads cut short, request rounds that fail |
| Reports (`scripts/ticker_report.py`, ...) | none | read | nothing that changes state |

How they meet: collection writes silver files and `collect_state`; the snapshot
and delta builders read silver; the workflows publish what the builders wrote
and push the manifest; consumers read releases and manifest; backtest, scanner
and trader read prices and share no state with the rest. The theme report reads
prices of the broker and keeps its past in releases of its own. The live trader talks
to its broker by calls, to its successor by files.

PROJECT.json lists every component with its status, and every hazard at its
line.

## 2. The modules

### Live trader

| Module | Code | What it holds |
|---|---|---|
| `TradingConfig` | `live_config.py`, `models.py` | the parameters with their assumptions, orders, positions |
| `MockBroker` | `mock_broker.py` | cash, shares, the queue of accepted orders; submit, poll, hydrate |
| `PositionManager` | `position_manager.py`, `order_manager.py` | positions and open orders; mark, apply a fill, close |
| `RiskManager` | `risk_manager.py` | `can_enter` and its parts, the times of the day |
| `LiveTrader` | `live_trader.py`, `state_store.py` | the composition: the event loop, saves, crash, restart; the properties |
| `LiveTraderHistory` | | a record of the trades, as the yardstick for the daily limits |
| `TradingAccount` | | the abstract specification: an account |
| `LiveAccount` | | the refinement of the account by the trader |
| `LiveTrader_proofs` | | types and stops, orders on their way, ledger and restarts, for every configuration |
| `LiveSafety_proofs` | | limits, cash, money, history and the refinement, when orders are filled at once |
| `FoldTheorems` | | folds and sums over sequences, sets and functions, by induction; used by the lab and the scanner too |
| `MCLiveTrader`, `MCLiveHistory`, `MCLiveAccount` | | the small instances |

`phase` is the program counter of `handle_market_event`, `persist_state` and
`run`. One event goes through `poll` (poll_fills, one order per step), `fills`
(process_order_updates, one fill per step), `force` (_force_exit_all, one symbol
per step), `exit`, `enter` (evaluate_symbol), `guard` (_update_loss_guard) and,
on every `PersistEvery`-th event, through the four file writes. Each of these is
an action; a crash may fall between any two of them and inside a write, which
then leaves the file as it was or cut short. A process that ends saves twice
(`finally` in run, and shutdown): `closing` counts these saves.

What is abstracted, and why it does not matter to the properties:

- `order_id` is left out: at most one order per symbol is open (checked:
  `OneOpenOrder`), so an order is known by what it asks for.
- Entry and exit signals are nondeterministic (any strategy), except that a
  price at or below the stop always asks for an exit, as `evaluate_exit` does.
  The chase limit is part of the entry signal. The trailing stop only adds exit
  signals and is covered by the choice.
- Prices, cash and quantities are integers on the grid of
  `price_rounding_digits`. Time is counted in slots, `SlotsPerDay` to a day.
- `entry_time`, `highest_price`, `unrealized_pnl`, `last_order_id` and texts
  guard nothing that changes the modelled state.
- A symbol missing in the position dictionary is a flat position: every reader
  treats them alike.
- A partial fill, `cancel_order` and a failing `submit_order` or `poll_fills`
  cannot happen with a connected `MockBroker`, the only broker whose operations
  are implemented (`KISBroker` raises NotImplementedError).
- The price history is seeded anew at a start, so `Start` chooses prices freely.
- Ctrl-C is taken between events.

Two things the code does that a reader may not expect are in the model as they
are in the code. A SELL fill that arrives through polling raises TypeError
(`utcnow()` is aware, `tz_localize` refuses it, live_trader.py:290): the event
loop ends, the remaining fills are lost and the process saves and stops
(`ApplySellFill`). A rejected order leaves its position PENDING_BUY or
PENDING_SELL for good (`EntryRejected`, `ExitRejected`).

### Daily collection

| Module | Code | What it holds |
|---|---|---|
| `DailyCollection` | `run_daily_collect.py`, `audit_repair_last_week.py`, `retry_failed_job.py`, and what they call: `collect_daily.py`, `collect_backfill.py`, `base_collect.py`, `gap_detect.py`, `gap_fill_job.py`, `status_recovery.py`, `repair_zero_volume_day.py`, `validate_snapshot.py`, `meta_store.py`, `parquet_store.py`, and the steps of `refresh-snapshot-from-release.yml` | the market and its calendar, the stores, one run at a time, and the properties |
| `DailyCollection_proofs` | | types and every safety property of the module, for every value of the constants |
| `MCDailyCollection` | | the small instances |

`pc` is the step the current process is at: `collect` (the passes of
collect_rows), `recover` (classify_missing_row for what is left), `gapfill`
(run_gap_fill), `repair` (run_repair_loop), `validate` (validate_snapshot and the
release); `refresh` is the moment between DELETE and INSERT of
replace_universe. Rows are collected one by one; a row's bars and its
`collect_state` are two steps (`CollectRow`, then `RecordSuccess`), the files of
two years are two writes of which the second may fail (`FailToWrite`), time
passes between any two steps (`NewDay`, `Bell`) and the process may die at any
of them (`Crash`).

`OnRunner` tells the two ways the repository runs the same programs. On a GitHub
runner each job starts from the latest release with an empty `meta.duckdb` and a
fresh master (`Prepare`) and ends by publishing what passed the gate
(`Publish`), or by failing. On the host of the README everything is kept from
one run to the next, failed rows are taken up by `retry_failed_job`, and nothing
is published.

What is abstracted, and why it does not matter to the properties:

- A bar is what the properties tell apart: absent, taken while the market was
  open, taken after the close. What passes validate_ohlcv is the choice in
  `Replies`: any part of the days KIS can answer for, the last of them perhaps
  with an invalid bar.
- The exchange halts and delists the symbols of `Troubled` at will; the master
  lags behind it and never invents a halt (`MasterFlags`); the stock information
  may speak of an older listing of the same code (`StockInfos`).
- A window fits one chunk (BACKFILL_CHUNK_DAYS); the years are the one before
  and the one after `NewYear`.
- Which volumes are suspicious is a choice (`Suspects`); a bar is repaired once.
- Preparation of a job is one step: nothing it does outlives a failure in it.
- A master refresh as a whole may fail to start or die in the middle, with the
  universe empty (`ClearUniverse`, then `Crash`).

### Releases

| Module | Code | What it holds |
|---|---|---|
| `DatasetRelease` | `publish-snapshot.yml`, `publish-delta.yml`, `refresh-snapshot-from-release.yml`, `audit-repair-last-week.yml`, `sync_silver_from_github_release.py`, `build_snapshot.py`, `make_delta.py`, `manifest_update.py`, `trigger_github_actions.py` | releases by tag, the manifest on main, the concurrency group, one run step by step, and the properties |
| `ConsumerSync` | `consumer_sync.py`, `upsert_ohlcv_from_df` | a consumer beside the workflows |
| `ConsumerSync_proofs` | | every safety property of both, for every value of the constants |

A run (`job`) goes through `sync`, `collect`, `create`, `upload` (a refresh or
an audit), `fetch`, `create`, `upload` (from_latest), or `create`, `upload` (a
staged bundle or delta), and may fail at each step, inside an upload too, where
the file that was to be replaced may be gone (`Fail`). `queue` is the one run
that waits in the concurrency group `dataset-release`; a newer one replaces it
(`Submit`). A run reads the manifest from its checkout, which is main as it was
when the run was *triggered*: `base` is that manifest and `stale` says that main
has moved on, so that the push at the end is refused (`FastForward`). This is
what happens to a run that waited while another one published: its release is
there and is not recorded. The next base synchronisation finds it all the same,
because it takes the newer of the manifest's and the newest release.

What is abstracted, and why it does not matter to the properties:

- A parquet file is the set of days it has bars of, 0 standing for the rows of a
  companion file; a hash is what was hashed. How a single day is collected, and
  which symbols are excused, is the subject of `DailyCollection`.
- Companion parquets are one file, uploaded before the main one as the order of
  names has it; `TAG.json` is read by nobody.
- Tags are numbered in the order in which they are made. An operator who gives
  `publish_tag` the name of an existing release is left out, as is a tag of the
  old form without a time, which the synchronisation does not see.
- A push that is refused because somebody pushed other code is a failed step.
- The history is a set; it keeps 120 tags, and no instance makes more.
- The consumer's GitHub client is an interface whose backend the repository does
  not implement; it is external, and may list the files in any order.

### Backtest and strategy lab

| Module | Code | What it holds |
|---|---|---|
| `StrategySignals` | `signals.py`, `strategy_core` | the indicators and the eleven preset strategies, on rows of a data frame |
| `Backtest` | `backtest_engine.py`, `portfolio.py`, `execution_model.py`, `metrics.py` | one run of the engine, a trading day at a time; the trade log and the rounds rebuilt from it |
| `StrategyLab` | `run_strategy_lab.py` | the plan of parameter combinations, their evaluation in this process or a pool, the ranking, the report |
| `StrategyLab_proofs` | | types, the cash, the stops and the report of the winner, for every market, grid and configuration |
| `MCStrategyLab` | | the small instance |

`phase` is the lab's: `load`, `plan`, `evaluate` (one engine run after the other;
workers share nothing but the data, so their runs may be taken in sequence, in
any order of completion), `report` (the winner is run again), `done` or
`failed`. `TradingDay` is a day of the engine: stops, exits at the open, entries at the
open, new highs, equity, in the order of `run`.

What is abstracted, and why it does not matter to the properties:

- Money is an integer in parts of 1/(Rate * Rate), rounded down where the code
  keeps a float: the books of the engine and of the metrics must round alike,
  and are compared exactly. A score is a ratio of integers, with NaN.
- Averages, deviations and z-scores are those of the code on short windows; the
  text of reports and the charts are left out.
- A worker that dies, a strategy name that does not exist and a budget that runs
  out are choices.

`LabAssumption` says what the loader may rely on: a market is a sequence of
sequences of rows, a row has natural numbers in those columns it has at all, and
the grids are lists of values. The days need not be in order, columns may be missing
and a day without trade has zeros in it (`LakeRow`, `Usable`). Such a row is why
the stop looks at the open as well as at the low (`Lowest`, as `sell_stop_loss`
does) and why nothing is bought or sold on a signal when the open is zero.

### Theme reports

| Module | Code | What it holds |
|---|---|---|
| `ThemeScoring` | `collect_thema_sector_data.py`, `collect_sector_data.py`, `update_theme_classification.py` | the classification and its corrections, quotes, investor flows, scores, status, breadth and persistence of the groups |
| `ThemeCollection` | the main programs of these, `publish_theme_sector_release.py`, `sync_theme_history_from_github_releases.py`, `collect-theme-sector-data.yml` | runs of the workflow and of the operator's machine, the releases, the history, the properties |
| `ThemeCollection_proofs` | | every property of the theme reports, for every classification, market, calendar and number of runs |
| `MCThemeCollection` | | the small instance |

A run (`job`) goes through `sync` (restore the history), `collect` (evaluate and
write), `publish` and, when its tag exists, `upload` asset by asset; it may be
ended at any of them (`Abort`). The workflow starts with an empty directory; the
machine keeps `local`, and its operator may synchronise it by hand
(`ManualSync`) or edit the classification (`Reclassify`). `torn` names the
releases whose upload was cut short; nothing is asserted of them.

What is abstracted, and why it does not matter to the properties:

- Names of groups and codes are numbers; percentages are integers in the units
  at which the code rounds.
- The evaluation of a market is a function of the market, the mode and what was
  lost (`Evaluation`), computed once for each. The rows of a type are a set: the
  rank of a row says where it stands.
- A synchronisation is what it leaves behind: each day it brings has the file
  written by the last of the releases it looks at that has the day (`Bringing`).
- A text that is not there is `Blank`.
- Wording and layout of the reports, the request threads and the Telegram
  messages are left out.

Something a reader may not expect is in the model as it is in the code: for a
day without leaders a manual synchronisation writes the first groups of the
ranking as rows of leaders, and `write_combined_snapshot` publishes every such
row without its source, so that a release of the machine can name leaders nobody
found. This is why `LeadersWereFound` speaks of releases of the workflow only.

`ArchiveAssumption` is what the releases at the start are: older than the first
day and such as the program publishes (`WellPublished`), with what led on each
of their days among the leaders their snapshots name. What the operator's
machine has published before the start is thereby taken as found.

### Sector scanner

| Module | Code | What it holds |
|---|---|---|
| `ScannerScoring` | `scanner_engine.py`, `score_engine.py`, `sector_metrics.py`, `dynamic_sector_cluster.py`, `universe_loader.py`, `ranking_loader.py`, `sector_loader.py`, `intraday_loader.py`, `filters.py`, `sector_validator.py`, `sector_mapper.py` | one scan as a chain of stages: universe, groups, top groups, candidates, snapshots, scores, filters, leaders |
| `SectorScanner` | `run_scanner.py`, `realtime_tick_score.py`, `websocket_client.py`, `scanner_state.py`, `universe_export.py` | processes of each mode, the runtime file, the ticks, the export, the properties |
| `Selection` | | rows that satisfy a condition, as pandas and Python filter them; a fold, used by the lab too |
| `SectorScanner_proofs` | | the leaders of every scan and the runtime file, for every market and every configuration |
| `MCSectorScanner` | | the small instance |

`pc` is the next step of the process: `scan`, `refresh`, `export` or `sleep`.
The runtime file is written in place and may be cut short by a process that is
stopped (`Stop`), after which every refresh raises (`RefreshFails`) until
somebody deletes it (`Repair`).

What is abstracted, and why it does not matter to the properties:

- The leaders of a group are a set: nothing the engine does afterwards depends on
  their order, which shows on the console and in the lists of the export only.
- What KIS, pandas and sklearn answer (rankings, indices, bars, correlations,
  clusters) is part of the market; a call that fails leaves its part empty.
- Shares and scores are integers; the logarithm of the traded volume is counted
  in decades.
- Printing, the chart of scores and the field names of the KIS answers are left
  out.

Three things the code does that a reader may not expect are in the model as they
are in the code. The price history that `fetch_price_history_frame` returns holds
closing prices, which the engine passes to the metrics as returns, so that
breadth and persistence of a group are always complete. `attach_sector_info`
fills no sector of a candidate, because the slot is there already; without the
universe pipeline a candidate of KIS has no fixed sector and the filter of the
sector score rejects it. And the export of a single run takes the verdicts of
whatever runtime file it finds, which a scan without leaders has not rewritten.

## 3. What is checked

The runs of the trader, the collection and the releases switch the deadlock check
off: the bounds stop the models, and a process that fails to read its files stops
the trader (`StartFails`). In the lab, the theme reports and the scanner the end
is a state of its own (`Ended`) and every other state must have a
step.

| Run | Question | Bounds and why they are enough |
|---|---|---|
| `LiveImmediate` | Do money and positions agree, do the limits hold and does the trader implement an account, when orders are filled at once? | two symbols for one place (a limit that bites), cash for one purchase and a loss (the cash check bites), two days, one restart, a save at every event |
| `LiveCrash` | Do broker queue, order manager, positions and ledger agree while orders wait, what survives a crash, and is every accepted order settled? | two symbols (fills that drop other fills), a fill at the second poll, cash for two purchases, one price (orders, shares and files do not depend on it), a crash between any steps or in any write, the writes of the very first save included, and restarts; saves at every third event, so that two fills arrive in one poll and a crash finds events that were not saved |
| `LiveLimits` | Do the sector cap and the daily limits hold against history? | two symbols of one sector with a cap of 1 and two places, two days of four slots, a cooldown of two slots, a restart, saves at every third event so that the restart falls between saves |
| `CollectRunner` | Is what the jobs of a runner publish whole, with evidence for what is left out, and never less than before? | two symbols, one of them halted and delisted at will, three days (one job fails, a later one has a window of two days), a year that begins on the third, so that a window has two files and gap fill has years to look at |
| `CollectHost` | Are runs of the host complete when they succeed and on record when they fail, is every last_success_date backed, does every run end? | as above with a holiday, a symbol listed on the second day and a year that needs two rows (both branches of the gap rule) |
| `Publish` | Is what the manifest names whole and kept, has no snapshot a hole, and does a consumer hold what it says and nothing else? | three days and three tags (the first release, one that fails or waits, one that comes after it), all four workflows, an audit that reaches back to the first day |
| `Lab` | Does the trade log explain the cash, do the stops stop, and are the reports about the best row? | every preset strategy, two symbols, nine days to fill the windows and four traded ones (entry, hold, stop or exit, re-entry) with gaps, missing bars and halted days, two places and cash for two, data sets that are damaged, too short or of a single day, one process and a pool of two |
| `Theme` | Does what a release reports agree with the history beside it, and is the history carried on? | an archive of two days, three more days with a holiday, two runs of either host (a day and its re-run, or two days), history of three dates, windows of two and three observations |
| `Scanner` | Are leaders those of top groups, and is the runtime file the scan moved by its ticks? | five stocks in two sectors and two clusters, six markets, four minutes (0 to 3) with a window of one, so that ticks leave it twice, and a scan every two, two processes (the second finds the file of the first) |
| `BadLostFill`, `BadIntraday`, `BadBundle` | Where the code departs from what its comments or documents say | see "findings" in PROJECT.json |

The properties of the trader, from the deepest: `ImplementsAccount`
(refinement), `LedgerAgreement` and `LedgerRestored` (two ledgers kept by two
components, one of them rebuilt from files), `OrdersAgree`, `OneOpenOrder` and
`OpenOrderIsPending` (three views of the open orders), `BooksBalance`
(conservation of money over broker and positions), `DailyEntryLimit`,
`CooldownHolds`, `LossBlockHolds` (limits against history and restarts),
`PositionLimit`, `SectorLimit`, `CashNotNegative`, `LongHasStop`,
`OrderSettles`. `LedgerAgreement` has one exception, which is the code's: a
process that dies in its very first save, after positions.json and before
snapshot.json, leaves positions that the next one reads without a snapshot, and
then the broker's ledger is not hydrated (live_trader.py:81). The positions are
there and cannot be sold; the disagreement is always this one, never another
number of shares.

Those of the collection: `NoHoleInPublished` (a failed job leaves no hole behind
that a later window does not reach back to), `RunComplete` (no failure of a row,
a retry, a recovery, a gap fill is lost on the way to success), `LastIsStored`
(the watermark never runs ahead of the bars), `ExclusionsProven` (an exclusion
is about this listing and that day), `FailuresQueued`, `BarsKept`, `RunEnds`.

Those of the releases: `ManifestBacked` (uploads, failures and repeated
publications against what the manifest has recorded), `HistoryKept` (a queued
run's old checkout must not win), `SnapshotsWhole` (a chain of bases, some of
them never recorded), `AppliedIsStored` and `OnlyReleasedBars` (the consumer's
files against the manifest, while releases are being written). `SnapshotsWhole`
has two antecedents, and both are needed. A delta that is the newest release
becomes the base of the next refresh, which then publishes a snapshot with the
delta's days alone. And an audit whose window is shorter than the outage before
it leaves a hole that no later refresh fills, because the daily window starts
after the *last* stored day.

Those of the lab: `RoundsExplainCash` (the metrics rebuild the rounds from the
trade log alone, beside the engine's own books), `SurvivorsAboveStop` (whatever
the order of stops, exits, entries and new highs within a day, no position that
traded below its stop is left), `ReportMatchesRanking` (the reports come from a
second run of a row that was ranked in any order of completion), `LabTypeOK`.

Those of the theme reports: `ScoresMatchHistory` (the persistence a release shows
is recomputed from the rows it publishes: one observation per date, although
combined and daily files overlap and days are re-run; a machine with the files
of more days than a run reads publishes more than it scores, and is left out),
`LeadersWereFound` (rows rebuilt by a synchronisation never pass for leaders, as
long as the operator publishes nothing: the publisher of the operator's machine
does not look at where a row came from, and what it once published the
workflow's history carries on, even after the workflow has replaced that
release),
`DisplayedComplete` (ranking, first round and retry of the investor flows ask
for what is displayed), `HistoryCarriedOn` (no release of the workflow drops a
past its predecessor had).

Those of the scanner: `LeadersUnderTopSectors` (pool, filter and leader key
choose a group each) and `RealtimeOfScan` (refreshes over a file that outlives
the process never correct a corrected score).

Each has a mutant: a plausible slip in a mapped definition which makes TLC find
the property violated.

Fairness. The trader's `FairSpec` assumes that a running process does not stop
while it can go on (`WF_vars(HandleEvent \/ Persist)`): the program is one
thread, and `stream_market_data` is an endless generator, so a next event always
comes. No fairness is assumed of restarts, crashes or of the strategy. The
collection's `LiveSpec` assumes that a process that has been started is executed
(`WF_vars(RunStep)`), and nothing about the choice between an answer and a
failure; that a run ends does not rest on KIS ever answering. Nor does anything
assume that a run is started.

## 4. What is proved

`LiveTrader_proofs` proves, for every configuration allowed by
`ConfigAssumption` and `BoundsAssumption`:

- `TypeCorrect`: `Spec => []TypeOK`. `TypeOK` is inductive by itself. The value
  of `startEquity` is not typed; no theorem needs it.
- `StopsAreSet`: `Spec => []LongHasStop`. The invariant alone is not inductive:
  an entry takes the stop from the price and the average from the position, so
  one has to know that a flat position is empty, and a restart reads positions
  back, so the same must hold for positions.json (`StopInv`).

Its second half is about orders on their way, again for every configuration,
every delay of fills, every crash and every restart: `QueueMatchesRecords`,
`OrdersArePending`, `LedgersAgree`, `OneOrderPerSymbol` and `RestartRestores`.
They rest on one inductive invariant, `OrdersInv` (theorem `OrdersInOrder`),
which follows an order through the hands it passes: it is in the broker's queue
or on the list of a poll and ACKED at the order manager, or it is filled,
recorded as such and waits in the list of fills, or it is applied. Each hand
holds orders of different symbols, no symbol is in two hands, and a position is
pending as long as its symbol is in one (`BooksAgree`). A position has shares
exactly if it is long or being sold, and a sale is for all of them. What is booked in the
ledger is what the position claims once the waiting fills are counted in
(`Booked`), except, after a crash, for the positions of a first save that the
restart could not hydrate. The rest says which lists are empty in which phase
(`OrderPhases`) and what the files hold: a snapshot is only ever written
after positions (`SavedTogether`), and positions.json has shares exactly where
it says that a position is long or being sold (`SavedClaims`).

`LiveSafety_proofs` is about a broker that fills orders at once
(`ImmediateFill`, no delay: the program's default). The assumption cannot be
dropped: with delayed fills two buys are accepted against the same cash
(`submit_order` compares the cost with a balance that is debited only by the
fill, mock_broker.py:99), and the limits of positions and sectors fall the same
way, since `can_enter` counts no pending buy. There are four arguments.

- `AccountInOrder`, the inductive invariant `AccountInv`: nothing is ever queued,
  memory and state files both keep the limits, and the ledger is empty while no
  process runs (needed when a restart finds positions but no snapshot).
  `PositionsLimited`, `CashSuffices` and, with the same for the sectors of the
  files (`SavedSectors`), `SectorsLimited` follow, across crashes.
- `TraderIsAccount` is the refinement: `Spec => ImplementsAccount`, provided that
  the process is not killed (`MaxCrashes = 0`; a crash loses the trades since the
  last save, which no account does). The initial states correspond, and every
  step, of all the steps of an event, is a purchase, a sale, or leaves the
  account alone. A start restores the account because what is offline is what was saved last
  (`Orderly`), a sale is for the whole position at a price of the market
  (`ExitIsSale`), and no fill ever arrives late (`SoldAtOnce`).
- `DailyEntriesLimited`, `CooldownKept` and `LossBlocks` compare what the process
  remembers with the history of trades that `LiveTraderHistory` keeps beside it.
  `HistoryInv` says that the statistics, in memory and in the file that a restart
  reads, count what was bought today, date the latest sale and keep a block to
  the end of its day. TLC has checked it on `LiveLimits`. Both assumptions are
  needed: an order that waits is not counted, and what was not saved is lost by
  a kill.
- `MoneyAccountedFor`: `Spec => []BooksBalance`. The invariant, `Balanced`, speaks
  of every state, not only of those between two events, and, while no process
  runs, of the files the next one will read. The sum over the positions moves by the one that was traded (`SumMoves`).

`FoldTheorems` proves the facts about sums and folds that this takes. The induction
theorems of the library take an operator as a parameter, which the provers here
cannot instantiate; induction over a *set* of numbers needs none. `AllNat` is
that: a set with 0 and the successor of each of its members holds every natural
number, because `<` is well founded. A fold over a finite set is a recursive
function on its subsets; that it exists (`FoldsExist`) and what it is at each of
them is proved with `AllNat` on their sizes. A fold over a sequence is one over
the set of its indices, one step at a time (`FoldSteps`).

`DailyCollection_proofs` proves `TypeCorrect` for the collection, and
every safety property its runs check, for every calendar,
every set of symbols, listings and halts, every number of passes, on the runner
and on the host: `ReleaseIsWhole`, `SuccessIsComplete`, `DatesAreBacked`,
`ExclusionsHaveReason`, `FailuresAreQueued`, `BarsAreKept`. The only assumption
is `CollectionAssumption`. They rest on one inductive invariant, `CollectInv`
(TLC checks it too, on the instances of both runs), whose parts are what each
property is short of:

- `NoHoleInPublished` is kept by `Publish` because the gate looks at every day
  from `start` on, and for the days before because nothing was added or removed
  there since the release the job began from (`RunnerInv`: `ReleaseKept`,
  `PastAsIs`). That in turn needs that a gap never begins before the window
  (`GapInWindow`, from the rule of the first year) and that a repair touches
  only bars that exist (`RepairsExist`). And it needs that a symbol the exchange
  left alone stays collectible, which is where the lifecycle classification
  comes in (`UntouchedIsUnproven`).
- `RunComplete` needs to know where a row of the run is at any time: still to be
  fetched, failed, unresolved, excluded or stored (`RowsCovered`).
- `LastIsStored` needs the same of the date that waits between the two writes
  (`SavedIsStored`).
- `FailuresQueued` needs that a row is never at once failed and being fetched,
  or a later success would erase the error (`QueueInv`).

`ConsumerSync_proofs` proves every safety property of
the releases and of the consumer, from `ReleaseAssumption` alone: any calendar,
any number of tags the history can keep, any set of workflows, any failures.
`ReleaseInv` is the inductive invariant, and what it adds to the properties is
who owns what: a tag is made once and belongs to one run, waiting, executing or
failed, and to no record (`TagsMinted`, `TagsApart`), so that what a run writes
is never what the manifest has recorded, and what a second attempt finds is what
the first one left; a checkout is main unless it is known to be behind
(`CheckoutsKnown`), so that a push that succeeds extends main (`NothingUndone`);
and a run that has come to the upload has its release, and its parquet is there
once it is no longer to be uploaded (`JobOnItsWay`). `SnapshotsAreWhole` adds
that every base, bundle and release is a range of days from the first
(`WholeInv`), for which one has to know that no run of another kind writes to
the same tag (`TypesMatch`). `ConsumerInv` adds that companion files hold no
bars and that what is being applied is a recorded release, which stays as it is
(`RecordedStay`).

`StrategyLab_proofs` is about every market, every grid, every pool and every
valid configuration (`ConfigIsValid` and `LabAssumption`), and so about calendars
and portfolios of any size: `LabTypesHold`, `HistoryExplainsCash`,
`NoStopMissed` and `ReportAgrees`. `LabInv` is the inductive invariant of the
first three, `EngineInv` its part about the engine; TLC has checked the latter on
every state of `Lab`.

- `RoundsExplainCash` is not inductive: it speaks of what the pairing makes of a
  log, and the engine never reads its log. `TradesOK` says what the two have in
  common, symbol by symbol (`Ledger`): the trades alternate, a sale is of all the
  shares of the purchase before it, and the symbols with an odd number of trades
  are those held, with the shares of the last one. Hence pairing one more sale
  closes one round, at the whole cost of its purchase, although `Pair` divides
  and rounds. `CashOK` states the sum over the symbols, and a day moves both
  sides by the same: the sales by what they bring (`SumAdds`), the purchases one
  candidate at a time (`FoldSteps`, `SumMoves`).
- That the cash never becomes negative needs that the fees of a sale are at most
  what it brings, which is where the bounds of `ConfigOK` on commission and tax
  come in, and that a purchase is compared with the cash left by the candidates
  before it.
- `NoStopMissed` needs that a survivor of the morning was not stopped at the
  level that took in the high of this day (`EffectiveStop`), and that the new
  highs of the evening (`Raised`) are the highs it was compared with.
- A row of the lab has a natural number as its growth because the equity is one
  on every day: each position has a bar by then, whose close values it.
- `ReportAgrees` compares two executions, the one that gave a row its return and
  the one the report is written from, so its invariant (`ReportInv`) carries runs
  as data. `DayIn` is the day of the engine with everything it reads as a
  parameter: the bars, the strategy and the books of the morning. `DayOfEngine`
  shows that a `TradingDay` of the model is one, `OneEvening` that a morning has
  one evening: the candidates of a day have one order (`OneOrder`), since the sort
  is stable and so no two of them may change places, and the rest of a day is a
  function of it. Hence two runs of one strategy over the same bars agree day for
  day (`SameRun`). The invariant says that the engine is somewhere on the run of
  its strategy (`OnItsRun`), that each row without an error holds the return at
  the end of the run of its strategy (`RowsYield`), and that the strategy of the
  report is that of a best row (`WinnerReported`). TLC cannot evaluate what
  quantifies over runs; it has checked the other conjuncts on `Lab`. The first
  row of the final ranking has that return because among the best rows one is
  beaten by no other (`FirstIsBest`), which is in the pool of its strategy for
  every `--top-k-per-strategy`: the code takes at least one of each.

`SectorScanner_proofs` is about every set of markets with sequences as rankings
and a positive `min_evaluated_sector_score` (`ScanAssumption`; it is 10 by
default and nothing in the repository sets another one), every configuration of
the pipelines, and every delivery of ticks (`TickAssumption`).

- `LeadersInTopGroups`: `Spec => []LeadersUnderTopSectors`, from what every scan
  finds (`ScanFinds`), which is proved stage by stage over the record that a
  scan fills in. The pool is alike: all of its stocks are near the top groups,
  or none is (`Alike`). A stock that passes the filters has a group, since
  without one it is scored 0, which is below the least score; and its key is one
  of the top groups exactly if it is near them (`KeyOfPassed`), for both
  pipelines. Without the assumption the theorem fails for a stock of no group at
  all in the legacy pipeline.
- `RuntimeFollowsScan`: `Spec => []RealtimeOfScan`. The invariant, `RuntimeInv`
  (TLC has checked it on `Scanner`), says that the tick buffer of the file is the
  delivered ticks of the window of its last refresh, all of them, and that its
  scores are those of *its* scan adjusted by this buffer. A refresh keeps it
  because the window only moves forward: what was thrown away earlier is out of
  the window now (`MergeIs`, from `KeptJoins` and `KeptTwice`). `delivered` is
  never cut in the model, so the property speaks of every tick there ever was.

`ThemeCollection_proofs` is about every classification, market, calendar, archive
and number of runs of either host (`ThemeAssumption`, `ArchiveAssumption`).
Nothing is assumed of what is lost, of when a run ends or of which upload is cut
short. TLC has checked every invariant on `Theme`.

- `ReportsInOrder` (`ThemeInv`) is what the other theorems stand on: where a run
  is, what an upload has written by then, that files and releases hold rows of
  past days, and the file of a day rows of that day only.
- `ReleasesComplete`: `ThemeSpec => []DisplayedComplete`. The stocks a report
  displays are the top of each group, and those are the ones the probe asks for,
  because both are taken from the same ranking of the members
  (`ShownAreAsked`); a strict run refuses when one that was asked for is
  unknown.
- `LeadersFound`: `ThemeSpec => []LeadersWereFound`. The invariant (`SoundInv`)
  tells three kinds of rows apart: what a synchronisation may bring, where a
  leader that was not found names its source and is never read as a metric; what
  the workflow keeps, where every leader was found; and what it publishes. It
  holds as long as no operator publishes (`OnlyWorkflow`), and it must be known
  that a day without metrics has no such leader, or the metrics of the next run
  would be read from the leaders.
- `ScoresAreOfHistory`: `ThemeSpec => []ScoresMatchHistory`. A run scores before
  it writes and publishes what it reads afterwards; the two agree because
  writing the file of a day changes rows of that day only (`WithDayElsewhere`),
  which the scores leave out, and because the workflow starts from a combined
  file that is within the limit already, so that what it publishes is what it
  read (`HistoryLimited`).
- `HistoriesCarriedOn`: `ThemeSpec /\ []FewBare => HistoryCarriedOn`. Of the dates
  of the newest release before this one, a run misses only those that the limit
  pushes out (`Carried`), from the synchronisation, through the two files it
  combines, to the release. `FewBare` says that fewer releases lack their
  snapshot than a run looks at: an upload that is cut short between the deletion
  of the snapshot and its return leaves such a release, the synchronisation
  skips it but counts it. If all the releases a run looks at were such, it would
  find no history and refuse; the case the hypothesis is for is the one in which
  the only other release among them is the one that is being published again,
  whose old history need not be that of the newest one before it. The workflow
  looks at five releases, so the hypothesis fails only after four uploads that
  were cut short there and never repeated.

The proof attempts changed the model where it said less than the code. A market
of a single day runs nothing (`DaysToRun`), a day that opens below the stop is a
stop even if its low is not (`Lowest`), and no trade is made at an open of zero;
all three are in the instance now. The pool of a strategy holds at least one row,
whatever `--top-k-per-strategy` says (`TopPool`).

`Min` and `Max` of the community modules are `CHOOSE` expressions; that they are
what their names say for sets of days is proved by well-founded induction on the
natural numbers (`LeastExists`, `MaxOfDays`).

Model-checked only:

- liveness (`OrderSettles`, `RunEnds`), which rests on ENABLED;
- what is computed with `SelectSeq`, `SortSeq`, `@@` and `:>`, of which the prover
  knows no definition: the order of the members of a group, the reviewed
  classification, the scores of the scanner. The stages of the scanner and the
  histories of the theme reports are written with sets, records and `Kept`, so
  that no theorem needs to open those;
- what a fold over data computes as a whole (averages, scores, rankings): the
  theorems speak of each step of a fold, not of the value it ends with.

## 5. Plan

1. Live trader: done, modelled and proved, see above.
2. Daily collection: done, see above. Left: the full backfill (collect_one over
   every symbol, several chunks).
3. Releases: done, see above. Left: tags without a time, `publish_tag`, and what
   becomes of a base synchronisation whose newest release is half uploaded.
4. Backtest: done, see above. Left: the text of the reports.
5. Scanner and theme reports: done, see above. Left: the scores of
   `collect_sector_data.py` as a report of its own.
6. Operators: retry policy, chunk coverage, manifest entries against reference
   definitions.

## 6. Not modelled

- Universe building: column layouts of master files, parsing without state.
- The KIS client, its token cache, the chunked fetch and the retry policy: what
  the callers see of them (an answer, part of an answer, a failure, a bounded
  number of passes) is in `DailyCollection` and `ScannerScoring`.
- `collect_sector_data.py` as a program of its own: its ranking and clipping
  helpers are in `ThemeScoring`; it writes files and keeps no state between runs.
- The KIS broker adapter: every operation raises NotImplementedError.
- Report and validation scripts, charts, notifications: they read and print.
