# Formal model of the LUXON investment terminal

This directory holds TLA+ modules that model the core of the terminal, TLC
configurations that check them on small instances, and TLAPS proofs of the
properties that matter most.  Paths are relative to the repository.

The program collects filings and prices, normalises them into tables whose every
row can be traced to the document it was computed from, keeps the raw documents,
and shows valuations whose figures must come from such rows.  What is hard about
it is not a formula.  It is the following: work is done in many small
transactions and plain file writes without locks, by processes that may fail or
die between any two of them; the same question (is this row usable, is this
ticker covered, which store answers) is decided in several places, by rules that
must agree; and the page shows the answers of two dozen requests that overlap
with one another and with the edits of the owner.  The models are about that.

## 1. The system

| component | state | operations | hard part | what makes it correct |
|---|---|---|---|---|
| **Ingestion repository** `services/ingestion_worker/repository.py` | Postgres tables: runs, securities, source documents, raw objects, facts, adjustment lines | one method, one transaction: `start_run`, `finish_run`, `_ensure_security`, `store_*`, `delete_adjustments_for` | each call commits by itself; unique constraints under concurrent inserts; what an upsert leaves alone | rows name only documents and payloads that are stored |
| **Persist pipelines** `cli.py` `_persist_*`, `_import_*`; `kr_valuation_postgres.py` | none of their own: the sequence of repository calls and the `try` each is in | about 20 programs | an exception before, inside, or after the `try`; retries with a new run | a run recorded as succeeded did everything; one that failed says so |
| **Blob queue and blob-sync** `data/blob_queue.py`, `scripts/blob-sync.mjs` | `storage/raw`, `storage/blob_queue`, `uploaded/`, the Blob store | enqueue; validate, read, upload, rename, write the receipt | several processes on one directory, half written files, death at any point | nothing leaves the queue before it is in the store |
| **KR valuation cache** `cli.py` `build_kr_valuation_inputs`, `inspect_raw_kr_valuation`, `kr_cache_provider.py` | raw files of four kinds; a JSON file per ticker and range of years | collect, inspect, build, read | selections of the newest or oldest file; a torn file stops the batch; inspection and build select separately | what is reported ready builds; what is built follows the files |
| **KR valuation warehouse** `kr_valuation_warehouse.py`, `kr_warehouse_provider.py` | two Parquet files, DuckDB views | load, connect, read, fall back | files replaced one after the other under a reader | an answer is of eligible rows and of one load, and nothing is missing |
| **E2E orchestrators** `cli.py` `run_source_e2e`, `run_p1_e2e`, `run_priority_e2e` | a report of steps; the stores the steps fill | steps with `--persist`, `--continue-on-error`; dry runs | a step that fails and is carried on, through nested orchestrators | `ok` and `complete` say no more than the evidence |
| **Source coverage, deploy gate** `services/api/source_coverage.py`, `cli.py` | none: functions of what is stored | report, remediation plan, gate | the plan's order, its prerequisites | the plan repairs what it is made for |
| **Consensus forecasts** `cli.py`, `local_consensus_provider.py` | CSV files, imported rows | draft, fill in, validate, import, answer from the file | four readers of a row, each with its rules | the readers agree; an import loses no forecast |
| **API source resolution** `services/api/main.py`, `postgres_provider.py` | none; it reads Postgres, warehouse, cache, CSV, fixtures | a request is a sequence of reads | precedence of stores, loads between reads, fixtures | no fixture under a source's label; answers agree with the audit |
| **Charts** `services/api/chart_cache.py`, `chart_runs.py`, `chart_layouts.py` | files by content key, runs and layouts as rows or files | render, queue, store, replay, save, delete | two threads on one key, a restart | what was answered goes on being answered |
| **EDGAR client and collector** `backend/normalize/edgar/*` | a response cache | cached fetch, choice of exhibits | a torn cache file, a stale list of filings | `force_refresh` repairs |
| **Normalisation waterfall** `backend/normalize/strategies`, `policies.py`, `tax.py`, `confidence.py` | none: functions | table to record | shares of tax, tolerance, confidence | shares sum to the line |
| **SEC bulk parsing** `sec_bulk_warehouse.py`, `cli.py` | archives, `financial_facts`, `metric_values` | collect, load | comparatives, amendments, a load that dies | a metric is of its year, of its newest filing |
| **Terminal page** `apps/web/app/page.tsx`, `lib/terminal-source-gate.ts` | React state: figures, status pill, watchlist, portfolio; loads under way | load effect, selection, watchlist edits, CSV import | overlapping loads, loads against edits, time-outs, mixtures of backends | what is shown is of the selected view, sourced, and the owner's |
| **API owner state** `postgres_provider.py` | portfolio transactions, watchlist items of an owner | import, add, remove, read | write and read-back are two transactions | (with the page) |
| **API rate limiter** `services/api/security.py` | a bucket of times for each client and path | allow, deny with Retry-After | boundaries and rounding | no window holds too many; Retry-After is honest |
| authentication and web session, CI workflows, connectors, quality rules, valuation formulas, market normalisers, MCP server, CLI package, data-lake reports, migrations | none that lasts | | | not modelled, section 6 |

How they interact: an *orchestrator* calls worker commands; a command (*pipelines*)
calls the *repository* and the *blob queue* in the same sequence, or leaves raw
files that a *build* turns into *cache* files, which the *warehouse* loader
promotes; `blob-sync` empties the queue whenever it is run; *coverage* reads what
is stored and plans the commands to run next; the *API* reads the tables, falling
back on warehouse, cache, forecast CSV and fixtures, behind the *rate limiter*;
the *page* combines two dozen of the API's answers.  The only things that are
shared are the tables and directories: there is no lock but DuckDB's, no message
queue, and no transaction that spans two of these components.

## 2. The modules

| module | models | source |
|---|---|---|
| `TraceContract` | what a source trace must hold, and how the repository completes it | `packages/core/source_trace.py`, `repository.py` |
| `Pipelines` | every persist function and import as an operator from documents to a sequence of calls | `cli.py`, `kr_valuation_postgres.py` |
| `Ingestion` | attempts that execute these programs against the tables and the disk | `repository.py`, the `try` blocks of `cli.py` |
| `UploadQueue` | what the upload queue promises: enqueued, stored, archived, in that order | (abstract) |
| `BlobSync` | every file operation of worker and `blob-sync`; implements `UploadQueue` | `blob_queue.py`, `blob-sync.mjs`, `_write_raw_document` |
| `KrCache` | what the cache of KR valuation inputs promises its readers | (abstract) |
| `KrEvidence` | raw KR files, their inspection, the build of cache files; implements `KrCache` | `cli.py` |
| `KrWarehouse` | loader, views and API readers of KR valuations; uses `KrCache` | `kr_valuation_warehouse.py`, `kr_warehouse_provider.py`, `kr_cache_provider.py`, `main.py` |
| `SourceCoverage` | the coverage report and the remediation plan, as operators | `source_coverage.py` |
| `SourceE2E` | the orchestrators, dry runs, the deploy gate; uses `SourceCoverage` | `cli.py` |
| `ForecastCsv` | forecast files and their four readers; uses `SourceCoverage` | `cli.py`, `local_consensus_provider.py`, `source_coverage.py` |
| `Waterfall` | strategy S1 from a parsed table to a record, as operators | `s1_sec_reconciliation.py`, `policies.py`, `tax.py`, `confidence.py`, `taxonomy.py` |
| `EdgarNormalization` | `normalize-us`: cached pages, exhibits, records, rows; uses `Waterfall` | `edgar/*`, `service.py`, `_persist_normalization` |
| `SecBulk` | the bulk archives and what a load makes of them | `sec_bulk_warehouse.py`, `cli.py` |
| `ApiSources` | which store answers a panel, an export, an import, and how it is labelled | `main.py`, `postgres_provider.py` |
| `ChartStore` | rendered charts, replayable runs, layouts | `chart_*.py` |
| `RateLimiter` | the sliding window | `security.py` |
| `Terminal` | the page against the API and the owner's rows | `page.tsx`, `terminal-source-gate.ts`, `main.py`, `postgres_provider.py` |
| `MCIngestion`, `MCFiles`, `MCWorker`, `MCApi`, `MCTerminal` | instances for TLC | |
| `IngestionProofs`, `TerminalProofs`, `SourceE2EProofs`, `ForecastProofs`, `WarehouseProofs` | the theorems about `Ingestion`, `Terminal`, `SourceE2E` with `SourceCoverage`, `ForecastCsv` and `KrWarehouse` | |
| `FilesProofs` | the theorems about `BlobSync`, `KrEvidence`, `SecBulk` and `EdgarNormalization`, and about the whole of `MCFiles` | |
| `ApiProofs` | the theorems about `RateLimiter`, `ApiSources` and `ChartStore`, and about the whole of `MCApi` | |
| `WorkerProofs` | from `SourceE2EProofs`, `ForecastProofs` and `WarehouseProofs`: the whole of `MCWorker` | |

`MCFiles`, `MCWorker` and `MCApi` each instantiate several components that run in
the same process or on the same disk and share no state.  `part`, chosen in the
initial state, says which of them a behaviour is about, so that the state space
is the sum of theirs and not the product, which would show nothing more.

### Ingestion

An *attempt* is one invocation of a worker command: it has a `job`, a `phase`, and
`at`, the index of its next call; `run` is the status of its row in
`ingestion_runs`.  The other variables are the tables, by natural key, and the
directories.  A program is a constant sequence of calls, so the loops of the
Python code are unrolled over the documents and rows of the instance, and one
action executes one call: `StartRun`, `FindSecurity`/`MissSecurity`/
`InsertSecurity`/`LoseInsertRace` (the SELECT and the INSERT of `_ensure_security`
are separate steps, of one transaction, which the unique constraint decides),
`StoreSourceDocument`, `StoreRawObject`, one action for every fact table,
`DeleteAdjustmentsFor`, `StoreAdjustment`, `FinishRun`.  The
accidents are `Raise` (the call raises, with or without its commit: a lost
acknowledgement), `Crash`, and `FailToRecord` (`finish_run` raises in the `except`
clause).  A guarded call that raises puts the attempt into `failing`, where
`RecordFailure` sets the run to failed; an unguarded one ends the attempt with the
run as it is.  An upsert's cell has two parts, what ON CONFLICT updates and what
it leaves alone.

Data is abstract: a document is a value with the rows it yields, a row is a key
with the set of fields its trace has.  `RejectTrace` follows from that set.

### BlobSync

A key stands for its file and its manifest, each `none`, `partial` or `complete`:
opening a file for writing truncates it, and the bytes come in a later step.  A
writer holds an open handle, so that a manifest renamed under it goes on being
written in `uploaded/` (`inode`).  A sync has the program counter of the script's
loop.  Faults: death of either, a failed upload (with or without the payload in
the store), a file deleted.  `queued`, `stored` and `archived` map this to
`UploadQueue`.

### KrEvidence, KrCache, KrWarehouse

In `KrEvidence` a raw file is the document it holds and whether it is whole, and
the files are kept newest first, the order of `_raw_files`.  `Price`, `Eps`,
`Dividend` and `Structure` are the four selections of the build, each with its own
rule (the newest market-wide file of a year, the last trading day of all files of
a ticker, the oldest statement that gives the figure); `Inspect` is the report,
with selections of its own; `NextActions` is what it tells the operator to run.
The build goes ticker by ticker: `StartBuild`, `OpenCache` (truncates), `FillCache`,
or `BuildStops` where a torn raw file raises.  `Cache!CacheSpec` is the refinement.

`KrWarehouse` starts from `KrCache`: cache files are opened and filled by a builder
of which no more is assumed than `KrCache` says.  The loader reads all cache files
of the tickers asked for, then writes one Parquet file, the other one, and the
views, each a step (`OpenFacts`, `FillFacts`, `OpenPoints`, `FillPoints`,
`Connect`, `CreateViews`).  A request has the steps of the API: Postgres, the
warehouse's connection and its selects, the cache file, no source.  A figure is
the grade of its trace, so that eligibility is decided where the code decides it.

### SourceCoverage, SourceE2E, ForecastCsv

`SourceCoverage` holds the checks a ticker must pass (`Required`), the report, and
`Plan`, the remediation actions with their priorities; `AfterPlan` is what the
evidence is after one pass over those of its targeted actions whose prerequisites the
report names (`Configured`), in priority order (`RunInOrder`: the archives are loaded
if they were there or an action before it downloads them), each of which finds its
data.  In
`SourceE2E` a run is a stack of frames; `Step` calls one collector or loader with
one of its `StepOutcomes` (raised after a prefix of its tickers, nothing found,
partial, all), `CallNestedRun` and `Return` go down and up, `Crash` kills the
process.  `SourceSteps` and `PlannedSteps` are the two lists of the code: what is
executed and what a dry run prints.  `DeployGate` and `DryRun` are
commands that only answer.

In `ForecastCsv` a row is what the readers tell apart: case, figure, source,
anchor, quality.  The actions write templates and drafts, fill them in, edit and
reorder rows, import a file row by row (`BeginImport`, `StoreRow`, `FinishImport`,
and `FailImport` in between), and read.  `Preflight`, `Validation`, `Accepts` and `LocalRows` are the
four readers.

### EdgarNormalization, Waterfall, SecBulk

A command reads submissions, then the index of each 8-K in range, then each
exhibit, from the cache if there is a file and, for the last two, unless
`force_refresh`; each fetch writes its file, and `Die…` leaves a prefix.  A prefix
of a JSON document parses to nothing; one of a page gives one of its `cuts`, the
tables still in it.  `Waterfall` is the computation of a record in integers
(cents; `Impact` and `TaxShares` with the code's rounding).  `PersistRecord` is an
upsert in which `once` stays that of the first insert and `latest` is replaced.

In `SecBulk` a fact carries the fiscal year of the filing that states it, also for
comparatives; `SortKey` picks the primary fact of a metric and year, `DerivedRows`
computes the per-share ones.  Facts and metrics are written one by one, and
`LoadDies` may come between any two.

### ApiSources, ChartStore

A request is its panel and the sequence of reads still to make; `Load` commits
between any two.  An answer is what the reader is told (status, mode) and what is
true (the stores the figures are from, the years).  An export calls the handlers
of other panels and labels the whole.  `ChartStore` has one `at` per thread and
one step per file operation or transaction; a layout's file is named after the
hash of the name as typed, its row after the stripped name.

### Terminal

`SelectView` and `BridgeSession` run the load effect: all loads before it are
unmounted and a new one begins.  A load carries the portfolio and the watchlist
that the server held when it answered each (`ServePortfolio`, `ServeWatchlist`),
and ends in `SettleAnswered` (live, or the source gate), `SettleRejected` (a
time-out or an error) or `SettleDenied` (401).  The valuation, snapshot and
financials of a load come from any combination of backends that the deployment
allows.  An edit goes from the click (`BeginWatchlistEdit`, `BeginImport`) through
the transaction and the read-back on the server (`CommitEdit`, `AnswerEdit`) to
the page (`EditSaved`), or is given up (`EditFailed`) while the server may still
commit it.  A handler runs to its next `await` in one action, as JavaScript does;
a change of the view and the effect it causes are one action, because React runs
the effect before the next event.

### RateLimiter

Time is in ticks, several to the second, so that the rounding of `int()` shows;
`RateLimitMiddleware` decides without an `await`, so a decision is one action.

## 3. What is checked

| run | instance | shows |
|---|---|---|
| `ingestion_pipelines` | 2 attempts at any 2 of 19 jobs, interleaved, 1 fault | `ProvenanceClosed`, `RegisteredBlobIsUploadable`, `SucceededRunIsComplete` for every pipeline that queues what it registers |
| `ingestion_sequence` | 2 attempts one after the other, 14 jobs, 1 fault, fairness | `AdjustmentsMatchEarnings`, `UndisturbedAttemptSucceeds`, `EndedRunIsSettled`, `RunSettles` |
| `files` | upload queue: 2 workers, 2 syncs, 2 keys, 2 faults; KR evidence: 2 tickers, 2 years, 2 of 11 documents collected, 1 crash; EDGAR: 2 filings, 3 commands, 1 interruption; bulk: 3 filings, 2 loads, 1 stop | receipts are earned, the files implement `UploadQueue` and `KrCache`, manifests are uploaded, `ReportsAreTrue`, `TaxIsSharedOut`, `PointsFollowTheFiles`, `BuildsBecomeCurrent`, `ForcedRunsRepair`, `BulkMetricsFollowTheFilings` |
| `worker` | 2 runs of orchestrators over 4 tickers of 3 markets with 1 step that does not go well; 3 writes of forecast files; 2 builds, 2 loads and 1 request of the warehouse | `OkIsCovered`, `PlanIsExecuted`, `PlanRepairs`, `NothingAfterFailure`, `ForecastReadersAgree`, `PromotionKeepsProjections`, `ServedIsTheEvidence` |
| `api` | the limiter: 2 keys, 2 requests in 3 s, 2 ticks to the second; 3 kinds of company in 4 environments with 2 loads of 7; 2 threads, 3 payloads, 2 names of one layout, 1 restart | `LimiterPromise`, `FixturesStayApart`, `PricesCoverThePoints`, `AuditCoversPanels`, `LoadsNeverBlind`, `ChartsAreWhole`, `StoresKeepTheirWord` |
| `terminal` | 2 tickers, 2 loads, 1 edit, 3 deployments, fairness | figures are current, KR valuations are sourced, the watchlist is the owner's, loading ends |
| `ingestion_restatement`, `ingestion_fred`, `blob_sync_append_only`, `terminal_badge`, `terminal_import`, `api_fixtures` | small | violations, section 5 |

The properties, where their names do not say it:

* `ServedIsTheEvidence` has three parts: no answer from a row the loader or the
  API must not use, also after it has passed through two files; an answer of one
  load, unless a loader ran or died meanwhile; and no refusal while the evidence
  was there all the time.
* `ReportsAreTrue`: a ticker that `inspect-raw-kr` reports ready builds
  with a point for every year, and every gap has a next action that can close it.
* `PointsFollowTheFiles`: the price of a year is that of its last trading day among
  the readable files, and collecting another document takes no year from a ticker,
  unless a file of the year is just being rewritten or a newer market-wide file
  hides the one it was in.
* `PlanRepairs`: after any command, one pass over the plan's actions, given the
  prerequisites it names, leaves every requirement of every ticker met, for each
  market and for all of them.
* `ForecastReadersAgree` has three parts: whatever is in the database was accepted by
  the rules; a plain file the validator calls ready is one the plan asks to import;
  an imported file covers in the database what it was ready for, and what the
  terminal showed as covered from it.
* `PromotionKeepsProjections`: of a file that is as it was imported, every year of the
  projection served from the file is served from the database, and in the case asked
  for where the file had it.  The importer stores `point` as `current`, which the
  provider reads as the median (`_normalize_consensus_case`); the operator's rows
  have both spellings, so that one may replace the other.
* `FixturesStayApart`, `AuditCoversPanels`, `LoadsNeverBlind`: stated over all panels
  and exports at once, with the exceptions the code makes (pages without a gate,
  the header of an export) written into the property.
* `TaxIsSharedOut`: the shares of a tax line sum to it to the cent, also in a page
  that was cut, unless two rows are equal (section 5).
* `ForcedRunsRepair`: a persisting command with `force_refresh` that ends has stored,
  for each filing it lists, the record of the last exhibit with a table, read whole,
  whatever died before.  Without `force_refresh` that is not so, by design of the
  cache.
* `BulkMetricsFollowTheFilings`: no comparative becomes a year's metric, derived
  metrics are those of the stored primary ones whenever a load ends, and an older
  filing never takes the place of a newer one.

Why the bounds are enough.  *Ingestion*: the races are between two attempts at the
same key or document; every pipeline is interleaved with every other, with one
fault.  *BlobSync*: two syncs and a writer on one key show every race of the
script, the second key and writer are there for the question whether one manifest
holds up another.  *KrEvidence*: the build's selections differ in which of two
files of a year they take, so two collected documents after a stored base of three
reach every preference; a crash of each program leaves each kind of torn file.
*KrWarehouse*: two loads with different payloads are the least that can be mixed,
one request sees any two of them, two cache files of one ticker are needed for the
choice between ranges.  *SourceE2E*: one run fills what the next one finds, one
step that goes wrong can be any step of any market.  *ForecastCsv*: write, fill or
edit, import.  *ApiSources*: two loads during one request separate its first,
middle and last reads.  *ChartStore*: two threads on one key, and a death.
*EdgarNormalization*: one command that dies, one that stores from what it left,
one with `force_refresh`.  *SecBulk*: a load that dies and the next, from the same
or a newer archive.  *Terminal*: one load that another overtakes, and one edit
between the answer and the end of a load; more are the subject of the proofs.
*RateLimiter*: the clock runs for more than one window.

Every bound is a named constant: `MaxFaults`, `MaxWrites`, `MaxParallel`,
`MaxCollected`, `MaxCrashes`, `MaxCommands`, `MaxInterruptions`, `MaxLoads`,
`MaxStops`, `MaxRuns`, `MaxHitches`, `MaxEdits`, `MaxBuilds`, `MaxAsked`,
`MaxRestarts`, `MaxRequests`, `MaxTime`.  `CHECK_DEADLOCK FALSE` is set where the
system really stops: when every attempt has ended, no document is left to collect,
or nobody asks for anything more.  Symmetry is used for attempts, in the runs
without liveness.

### Fairness

* `Ingestion`: weak fairness of an attempt's own steps.  A process that is alive
  executes its next statement.  Beginning an attempt, uploading, raising and
  crashing are not fair.
* `BlobSync`: weak fairness of a writer's steps and of a sync, including the start
  of the next pass: the workflow runs the script after each ingestion, and
  `docs/` tell the operator to.  Without another pass a failed upload is not
  retried.
* `KrEvidence`: weak fairness of a collector's write once it has opened its file,
  and of the build, including that it is run again: the KR workflow builds in every
  job.  Neither collecting nor crashing is fair.
* `Terminal`: weak fairness of the end of a load.  Each request is wrapped in
  `withTimeout`, which rejects it if no answer has begun in time.  The timer does
  not cover `response.json()`: that the body of an answer ends or breaks off is
  assumed.  The page and the server owe an edit nothing.

`RunSettles` is stated with its exceptions, a crash and an exception raised
outside of the `try`: the code keeps no record of a run that died, and nothing
looks for one.  `ManifestsAreUploaded` has the exception of a manifest that a
dying worker left half written: `JSON.parse` is outside of any `try`, and every
later pass aborts at it.  `BuildsBecomeCurrent` asks that the raw files be whole
from some time on: a torn statement stops the whole batch, every time.

### Refinement

`KeepsQueuePromise` is `UploadQueue`'s specification under the mapping of a key's
manifest, payload and archive file to the three sets.  `CacheIsImplemented` is
`KrCache`'s under the identity on cache files; `KrWarehouse` in turn EXTENDS
`KrCache` and lets any behaviour of it happen, so that what is checked of the
loader and the API rests on the promise and not on the builder.

## 4. What is proved

The theorems hold for every value of the constants that satisfies the module's
`ASSUME`; no bound on attempts, programs, keys, processes, loads, edits or faults is
used.  Where a theorem has a further hypothesis it is named below, with the runs whose
instances satisfy it.

The assumptions are those of the code: constants are of their kinds; the bounds that
only stop TLC are natural numbers (`MaxRestarts`, `MaxEdits`, ...); the limiter has a
positive limit and window; the ticker lists are sequences without repetition, of
disjoint markets (`CoverageAssumption`), and so are the tickers a KR build is asked
for; the settings and loads of an API are of their kinds (`ApiAssumption`); there is a priority ticker to ask for (`PriorityTickers # {}`), and a forecast
has at least one year (`Years # {}`; `source_coverage.py:111` asks for five).

**Ingestion.**  `TypeCorrect`, `ProvenanceIsClosed`, `SucceededRunsAreComplete`
from `IInv == TypeOK /\ AttemptsOnCourse /\ CallsBehindAreDone /\
ProvenanceClosed`.  A row can be stored only if its program has stored the
document before; `WellOrdered`, the assumption on programs, says that it has, and
`CallsBehindAreDone` that what an attempt has behind it is still there, whatever
the others did since: no action of the worker takes back an effect (`EffectIsKept`).
TLC evaluates `WellOrdered` for every program of `Pipelines`.
`RegisteredBlobsAreUploadable` has a further assumption, `BlobsEnqueued`: each
program queues a document before it registers its raw object.  The bulk loader
`load_sec_bulk` does not satisfy it (`cli.py:8036`), and there the property is
false; it is therefore among the jobs of `ingestion_sequence` only.

Three theorems are about what becomes of one attempt.

* `EndedRunsAreSettled`, for any number of attempts side by side.  Its hypothesis
  is the property's own proviso: `finish_run`, called in the `except` clause, does not
  itself raise (`"finish" \notin Faults`).  The invariant `RunsAreSettled` speaks of
  every run that is still recorded as running, and not only of ended attempts.
* `UndisturbedAttemptsSucceed`, for any finite set of attempts of which one is under
  way at a time (`MaxParallel = 1`), and programs that store no macro row
  (`NoMacroRows`: the trace of such a row is always refused, section 5).  The
  invariant `Undisturbed` says that a security looked up in vain is still missing
  and, without a fault, that only a refused trace has stopped an attempt.
* `AdjustmentsMatch`, again for one attempt at a time and any faults, where each
  program that stores an earnings row for which some program stores adjustments
  also deletes the ones there (`BridgesAreRewritten`).  Between two attempts the
  bridge may be anything a dead one left; `BridgesFollow` says that the attempt that
  stored the row last has, from its delete on, exactly the lines its calls behind it
  stored (`BridgeAfter`), and `RowsAreOwn` that no other attempt took the row since.

TLC evaluates `BridgesAreRewritten` in every run of `MCIngestion`, and `NoMacroRows` in
those without the two macro collections (`ASSUME MCPrograms`).

**Parts together.**  `MCFiles`, `MCApi` and `MCWorker` model-check several components
at once.  The lemmas `PartsAreTheirSpecifications` show that a behaviour of the whole
is one of each part's own specification, so that every theorem about a part is true of
what TLC checks; from them and the parts' type theorems follow the three
`PartsTypeCorrect`, of the invariant `PartsTypeOK` of the runs.  No type invariant is
inductive by itself: that of the orchestrators needs what is left to do of the frames
(a step is a command that gives evidence only where it does not call a run), that of
the warehouse that no cache file is listed twice, that of the forecast files that a
row the importer stores was valid.

**BlobSync.**  `TypeCorrect`, `ReceiptsAreAlwaysEarned`, and
`ImplementsUploadQueue`: the initial state maps to the initial state, each step to
a step of `UploadQueue` or a stutter.  The strengthening is what a process holds
in its local state, `WritersHold` and `SyncsHold`: a sync about to rename has its
key in the store, even if another sync has moved the manifest meanwhile.

**KrWarehouse.**  `ServedEvidence` is the property of the runs for any number of
tickers, cache files, payloads, builds, loads and requests.  `WarehouseInv` has what
the Parquet files and views hold when no load is under way (`FilesFollowTheLoad`: the
last load's rows, whole or not at all), and where a request has got to (`Course`):
what it has read so far is of the load it began at, or a loader has moved since.

**KrEvidence.**  `BuildImplementsCache`: the build implements `KrCache`, step by step,
for any raw files, torn ones included.  `EvidenceInv` has that the file between
truncation and text is that of the ticker the build is at.  `TrueReports` rests
on a comparison of the two sets of selections for all files whatsoever: every year
`Inspect` reports is a year of the build (`GateAgrees`), and what a build lacks has an
action other than building again (`BuildIsActedOn`); its lemmas are about the first
and last files of a selection.  `PayloadsAreActedOn` carries the second to the payload
of a cache file, which is of the files as they were.  `PointsOfTheFiles` is about
collecting: the new file stands before all others, so a selection of the newest that
changes takes the new document, and one of a last day either keeps its row or finds a
later one.

**SecBulk.**  `BulkFollowsTheFilings` from `BulkInv`: each stored metric is a row that
some of the downloaded filings give, with one row to a metric, year and kind (primary
or derived); and while a load runs, what it has still to write and what is stored hold
together every row of the archive.  Of a filing that states its own year at all
(`ReportsItsYear`) a row takes that fact, as it sorts before a past period's; the newest
filing of more filings is no older, so no upsert gives way to an older one; and a load
that has nothing left to write has left the derived rows of the primary ones that are
stored.  That a fact sorts first takes the finiteness of the statements.

**EdgarNormalization.**  `ForcedRunsAlwaysRepair` from `EdgarInv`, which speaks of each
filing listed and of the last of its exhibits that has a table, read whole.  A command with
`force_refresh` has that exhibit still to read, or has gathered its tables after any other
exhibit of the filing (`Reading`); once it writes, the record of them is still to be stored,
as the filing's last, or is stored with none of the filing to come (`Persisting`).  What a
record computes does not matter, only that it is of the whole exhibit.

**SourceE2E, SourceCoverage.**  `OkSaysNoMore`, `PlansAreExecuted` and `FailureStops`
from `E2EInv == StackHolds /\ DiskHolds /\ AnswerHolds`.  A status
is decided in the last step, so the invariant follows each frame of the stack to there: how far it is and what it has
executed (`OnCourse`), what its report rests on (`Founded`), and that it would not have
come so far without its prerequisites (`Allowed`).  A caller waits at
the step that is its nested run, so what holds of the frames below the top one
stays as it is.  `E2ETypeCorrect` needs the same invariant.  `PlansRepair` holds of any
evidence, also of one no run leaves: what a ticker misses is given by an action that
the plan has for its market (`MissingIsPlanned`), the report names what that action
needs (`Supplied`), and the only action that needs the files of another one comes after
it (`PlannedRuns`).

**ForecastCsv.**  `ReadersAgree` and `PromotionIsKept` from `ForecastInv`: every row of
an import that runs is valid, and is stored or still to be stored (`ImportHolds`);
every row of a complete import has its key in the database, though a newer row may
have replaced what is under it (`ImportsHold`); what is under a key was accepted and
has that key (`SnapshotsHold`).  The rest is about the rules of the readers.  That
the preflight, which counts, agrees with the validator, which compares sets, takes
the finiteness of the periods of a file and the cardinality of a product.  Preparing
this proof showed that an earlier form of `StoredProjection` read the case as the file
spells it; the code reads what the importer stored, and the model now does.

**ApiSources.**  `NoLoadBlinds`, `FixturesApart`, `PointsArePriced`, `AuditIsComplete`.
A request reads store by store while loads commit.  What keeps its answer together
is that stores grow: `Reading` has that what a request has read is still there, and
`Reported` that the report of an export, made earlier, rests on rows its audit still
finds.  `AuditIsComplete` is for the two metrics an adjusted row answers for, those of
the run: for another one the audit has performance rows of a metric the panel does not
show (section 5).

**ChartStore.**  `ChartsAreTyped`, `ChartsStayWhole`, `StoresAreTrue`, for any number of
threads.  That a chart is served under its data rests on `ChartsShowTheirKey`, of
every file and not only of the one served (a whole file is of the data its key is the
hash of), and on `ThreadsHold`: a thread between two of its steps still has the
payload it was given.

**RateLimiter.**  `LimiterIsTyped` and `LimiterKeepsPromise` (`WindowBound` and
`RetryHonoured`).  The bucket alone says nothing about accepted requests
that it has dropped, so the inductive invariant relates it to their history:
`BucketIsSuffix` (the bucket is the end of that history, ordered in time, what
was dropped is a window old) and `DenialMatchesBucket` (after a denial the
bucket stays full until a request is let through, and the `Retry-After` given is
at least what its oldest entry then asked for).

**Terminal.**  `TypeCorrect` needs `EditsCarry` (an edit has what its next step
reads).  `LiveFiguresAreCurrent` rests on `LoadsOfView`: a load that is mounted is
of the view now selected; so of the two conditions of `isCurrentRequest` in
`page.tsx` the first alone suffices.  `KrIsSourced` rests on `KrFiguresSourced`,
the same statement about the figures for whatever ticker they are of.
`EditedWatchlistStays` rests on `EditsFollow` (at most one watchlist edit is under
way, and the server has no other left to apply) and `LoadsUntouched` (before the
first edit all loads were answered the same rows).

Model-checked only:

* the liveness properties `RunSettles`, `ManifestsAreUploaded`, `BuildsBecomeCurrent` and
  `LoadingEnds`: the prover has no support for fairness and ENABLED;
* `TaxIsSharedOut`: a sum over the rows of a table of any length is a fold, which takes
  an induction whose theorems the installed provers cannot instantiate;
* the disagreements of section 5, which are false.

Where a proof needs an induction over finite data of another kind (the newest file that
has a property, the first row in a sorted file, the greatest fact), it is by the least
number principle on positions (`WFMin` over `NatLessThanWellFounded`) or, for `Sorted`,
whose result is some sorted injection, by counting (`FS_Injection`).  Definitions that
are proved about say what they select instead of how: `Newest` and `Without` of the
cache files and raw files, `Sorted` and `Listed` of a written forecast file, `KeptOver`
and `Kept` of the bulk facts.

## 5. What the checks found

* **A restatement overwrites** (`ingestion_restatement`).  The key of
  `metric_values` has no accession, so the value of the original filing is lost,
  while `README.md:608` promises versions.
* **FRED collection fails at its first observation** (`ingestion_fred`).  The
  repository passes the currency `N/A`, which its own storage contract takes for a
  missing value (`repository.py:706`).  KOSIS, e-Stat and ECOS rows share this.
* **Raw storage is not append-only** (`blob_sync_append_only`).  A document
  collected again while its file is being uploaded replaces the stored payload by
  a truncated one.
* **A fixture behind the badge "API live"** (`terminal_badge`).  When the valuation
  of a KR ticker comes from cache or warehouse, the gate lets the whole load pass,
  including a snapshot made of fixtures, against `DECISIONS.md:89`.  It takes a
  deployment that allows fixtures for KR tickers; in production the API answers
  `source_backed_required` instead.
* **An import disappears from the page** (`terminal_import`).  A load answered
  before the import ends after it and sets the old portfolio; the watchlist has a
  guard against this, `watchlistTouched`, the portfolio has none.
* **Fixtures in production** (`api_fixtures`).  The adjusted series and its
  waterfall, and the previews of a portfolio import and of the watchlist, answer
  from sample rows without asking `_require_fixture_fallback`, against
  `README.md:20`.

Noticed, with no run of their own; the models take the code as it is.

*Terminal and API.*  The text of a 429 promises a wait that the rounded-down
`Retry-After` header can be a second short of (`security.py:80`, `:130`).  A failed
load of a non-KR ticker replaces an edited watchlist by the samples, and being
touched it is not loaded again (`page.tsx:1153`).  One `Promise.all` for all panels
makes any rejected required request fail all of them (`page.tsx:865`), where
`DECISIONS.md:93` asks for independent error boundaries.  The CSV of the audit says
`X-Data-Mode: source_backed` whenever Postgres is enabled, though its rows may be
fixtures (`main.py:1187`).  The KR gate covers three panels (`main.py:613`).
Postgres consensus is used for a projection only if the valuation is Postgres's
(`main.py:1446`).  The health score in the audit uses CSV evidence, the panel only
that of Postgres; the audit's performance rows follow the metric asked for, the
panel the default one.  A valuation by `gaap_diluted_eps` can vanish when an
adjusted row of another year is loaded.

*Charts.*  A chart file torn by a death is served for ever after; a chart first
rendered while queueing was off is never queued; a torn layout file makes listing
and saving of its owner's layouts fail; the cache key leaves out the recession
bands that are drawn (`chart_cache.py`).

*KR evidence.*  A torn statement or market file stops the whole batch of
`build-kr-valuation-inputs`, and a bad cache file that of its loader
(`kr_valuation_postgres.py:97`).  Of the market-wide files of a year only the one
written last is read (`cli.py:7460`).

*EDGAR and bulk data.*  `force_refresh` does not reach the submissions and the
ticker map (`collector.py:35`); a torn one makes every later command raise until
the file is deleted by hand, and a torn index silently yields fewer exhibits.  A
page cut inside its tables can lose a digit of the company's own figure, and where
nothing can be rebuilt from the rest, the record passes as good.  All documents of
a `normalize-us` run are stored under its last year
(`s1_sec_reconciliation.py`, `_fiscal_year_from_document`), so a filing may stand
under two; of two exhibits with a table the last one wins.  Discontinued
operations, which `docs/formula_book.md:25` says are not taxed again, are taxed by
the default rule.  Two equal rows share a hash, so tax shares need not sum.
`adjusted_earnings` keeps the inputs of its first insert next to the results of
its last.  The validators of `backend/normalize/quality` have no caller;
`storage/parse_failures` of `docs/SEC_EDGAR_PIPELINE.md` is never written.  Bulk
archives are registered under a Blob key and never queued (`cli.py:8036`).  The key
of `financial_facts` has no period (`repository.py:499`), so a filing keeps its
last fact per tag.  A preferred tag that a filing has only for a past year wins
over its other tags for the year itself; annual and quarterly durations are not
told apart; a year whose newest share count is not positive keeps stale derived
metrics; a torn newest archive makes every load raise until it is collected again.

## 6. What is not modelled, and why

* Connectors, parsers and market normalisers: one stateless request or function
  each; what they yield is the data of `Pipelines`, `KrEvidence` and `SecBulk`.
* Valuation formulas, portfolio replay, screener, rendering, exports' layout:
  deterministic functions of one request, which unit tests reach.
* Authentication: one stateless decision per request, with an external identity
  provider; the page's reaction to a session is `BridgeSession`.
* CI workflows: a runner's disk is discarded after a failed job, so what it had
  registered under a Blob key is never uploaded; that is the text of the workflow
  file, which a property could only restate.
* The request pacing of `backend/normalize/edgar/rate_limit.py`: one sleep of one
  thread.  Strategies S2 and S4: `normalize-us` gives them no facts; S3 is a
  scaffold.
* `quality/rules.py`, secret audit, data lake plan, source catalogue, MCP server,
  CLI package, local raw store: read-only reports, thin clients, test support.
* Two normalisations of the same company at once (`cli.py:9422`): there is no lock,
  and the two bridges mix; `AdjustmentsMatchEarnings` is of one at a time.

Theorems worth proving next: `TaxIsSharedOut`, with an induction over the rows; that
without `force_refresh` a normalisation whose pages were never cut stores the same
record; the refinement of a single store that only grows by `Ingestion`.
