# Verification of the PredixaAI rule engine

PredixaAI watches industrial machines. Users describe *rules* ("the
temperature stays below 80"); a scheduler evaluates every enabled rule against
rows of a customer database at a fixed interval and stores an *alert* for each
violation. This directory holds TLA+ models of the parts of that program in
which order, concurrency and failure matter, the TLC configurations that check
small instances of them, and TLAPS proofs of the properties that matter most.

Paths below are relative to the repository; `scheduler.go` without a path is
`services/scheduler-service/internal/scheduler/scheduler.go`.

## 1. The system and its parts

| Component | State it keeps | Operations | Modelled in |
|---|---|---|---|
| Job registry (`scheduler.go`) | map of jobs, a stop channel and a ticker goroutine per job, a bounded queue, a pool of workers | `NewRegistry`, `Schedule`, `Unschedule`, `Stop`, `runTicker`, `worker` | `Registry`, abstractly `JobMap` |
| Execution of a job (`scheduler.go`, `samples.go`, `monitor/cooldown.go`) | `lastRunAt` in memory and in the database, table `alerts` | `execute`, `evaluateParameterSince`, `windowSince`, `setLastRunAt` | `RunWindow` |
| Scheduler process (`cmd/worker/main.go`, `internal/bus`) | startup phase, five subscriptions, calls of `processRule` | `reconcile`, `subscribeEvents`, `/jobs/reload`, `processRule` | `RuleLifecycle` |
| Rule API (`rule-service/internal/api/stepper_rules.go`, `handlers.go`) | tables `ui_rules` and `rules` | create, update, enable, disable, delete, for stepper rules and for free-form rules | `RuleLifecycle` |
| Machine units, production lines, wires (`machine_units.go`, `production_lines.go`, `repository.go`) | tables `machine_units`, `production_lines`, `canvas_wires`, `parameter_stats` | create, update, delete, edits of columns, rules, table, connection, position, wires, statistics | `Canvas` |
| Detectors and statistics (`phase1_rules.go`, `detectors.go`, `stats.go`, `baseline.go`, `evaluator.go`) | none (pure functions of samples) | one evaluation function per detector | `Detectors`, run by `Evaluation` |
| Validation (`rules/validator.go`, `validation/runtime_validate_rule.go`, `security/`) | none | static and runtime validation of a rule | `RuleConfig`; in `RuleLifecycle` as the set `ValidSpecs` |
| Stepper conversion, preview, catalog (`stepper_*.go`, `scheduler/stepper.go`) | none | `BuildRuleSpecFromStepper`, `StepperPreview`, `StepperBaselineCheck`, `buildCatalog` | `RuleConfig`, `Evaluation` |
| Prompt parser (`rules/parser.go`) | none | `ParsePromptWithDraft` | `RuleConfig`, `Evaluation` |
| Connections and their encryption (`handlers.go`, `crypto/`, `cmd/service/internal/connections/`) | table `db_connections`, the key of each program | `handleConnections`, `ResolveByRef`, `GetConnection` | `Connections` |
| Connection service and connectors (`cmd/service/`, `connector.go`, `*_connector.go`) | a database handle per call | test, tables, describe, sample, profile, simulate/write | `Connections` |
| MCP server (`cmd/mcp-server/main.go`) | a handle on the store and one on the target per call | list tables and columns, latest value, aggregate, recent rows | `Connections` (the calls), `RunWindow` and `Evaluation` (what queries return) |
| MCP adapters (`scheduler-service/internal/mcp/`) | the adapters by type | `AdapterFor`, HTTP and stdio transports | `Connections` (routing and deadlines) |

How they interact. The rule service writes tables and publishes an event on
one of five NATS subjects (`rule.created`, `rule.updated`, `rule.enabled`,
`rule.disabled`, `rule.deleted`). The scheduler subscribes to all five, one
goroutine each, and calls `processRule` with the rule's identifier: it reads
the row, checks it, writes its status and calls `Schedule` or `Unschedule` of
the registry. The registry's tickers put runs on a queue and its workers
execute them: each run queries the customer database through an MCP server and
inserts alerts. An MCP server reads the connection from the store of the rule
service, decrypts its password and opens the customer database; the connection
service does the same for the user interface.

### What is hard in it

* **Interleavings.** Five subscription goroutines, the startup
  reconciliation and the admin server's reload may all be inside `processRule`
  for the same rule. Two workers may execute the same job. A rescheduled
  rule has two tickers for a while, and runs of the replaced job may be in the
  queue.
* **Stale reads.** `processRule` reads the row once and acts on it after
  checks that take seconds. The cooldown is looked up before the alert is
  inserted. The window of a run is read when it begins and written when it
  ends. The time of a run is taken before its queries, and rows arrive in
  between.
* **Failure.** No handler of the rule service uses a transaction for the two
  tables, and most errors of the second statement are ignored. Core NATS
  delivers at most once and only to whoever listens at that moment. A crash
  loses the job map, and the list of rules that would restore it may fail or
  break off. A row that cannot be read is taken for one that is not there. A
  failed query loses its window.
* **Slow databases.** Either database may be down, or accept a call and never
  answer. Deadlines differ from call to call, and an `INSERT` may be executed
  after the call that sent it has given up.
* **Copies.** Defaults and minimums of the rule types are written down in the
  catalog, the conversion, the preview, the baseline check and the detectors;
  the types of connections and the way to pass a password on in three programs.
  A preview has selectors and subgroups of its own, next to the settings that
  are saved.
* **Bounds.** The queue holds 128 runs and the ticker blocks on it outside its
  `select`. A query returns the newest `MaxSampleRows` rows. The bound of a
  query is cut to whole seconds.

The list `hazards` in `PROJECT.json` names each of these at its line, with the
properties that would catch it going wrong.

### What makes each component correct

* *Registry*: a stop channel is never closed twice (that panics); a job that is
  replaced or removed is told to stop; callers see a plain map; a registered
  job keeps being run although the queue is shared; after `Stop` everything
  ends.
* *Lifecycle*: the scheduler only runs specifications that were enabled and
  validated; tables, statuses and jobs agree once things settle; an enabled
  rule is scheduled in the end.
* *Windows*: no row falls between two windows, a parameter has no more alerts in
  a cooldown than there are workers, the last run moves back only where two runs
  overlap, every row is fetched in the end.
* *Canvas*: concurrent edits of a unit do not undo each other, limits are
  exceeded by no more than what is in progress, a deletion leaves nothing of
  what it takes along, a save of wires is all or nothing, waiting for row locks
  ends.
* *Detectors and their configuration*: the statistics are what they are named
  for, also at zero spread and even lengths; what the validator accepts, the
  detectors evaluate; what the parser makes up, the validator accepts; a
  preview and a baseline check that ask for what is saved agree with the rule
  made of the same settings; the catalog's minimums suffice; a control chart
  does not alert again and again about one sample; an aggregate sees every row
  between two polls; a trend is found.
* *Connections*: every handle is closed, whichever way a call ends; a write
  happens at most once; a success is a complete answer; a connection that tests
  well can be polled; another key never gives another password; a call with a
  deadline ends.

## 2. Modules

| Module | Models | Composition |
|---|---|---|
| `JobMap` | what the registry promises: a map of specifications, and runs of pairs once in that map | abstract specification |
| `Registry` | the registry with mutex, channels, tickers, queue and workers | implements `JobMap` (`ImplementsJobMap`) |
| `RuleLifecycle` | both services around the tables `ui_rules` and `rules` and the event bus | uses the registry as the map that `JobMap` promises |
| `RunWindow` | `execute`, run after run, for one rule | its fairness assumption is what `Registry` shows (`RegisteredJobRuns`) |
| `Canvas` | production lines, machine units, wires and statistics in PostgreSQL, and the handlers that edit them | on its own; the rule rows that units list are deleted by `RuleLifecycle`'s handlers |
| `Detectors` | the detectors, statistics, baselines and groups of samples as operators | pure |
| `RuleConfig` | conversion of settings for the stored rule and for the preview, the prompt parser, the catalog and both validators | extends `Detectors` |
| `Evaluation` | one rule from submission to alerts: stored, checked, polled while rows arrive | extends `RuleConfig`; a poll notes its time in one step and reads the table in another, `RunWindow` has all its steps |
| `Connections` | stored connections and the calls of the connection service and of the MCP servers through them | on its own; its failed and broken-off queries are the faults `query` and `cut` of `RunWindow` |
| `MCRegistry`, `MCRuleLifecycle`, `MCRunWindow`, `MCCanvas`, `MCEvaluation`, `MCConnections` | small sets for TLC | |
| `RegistryProofs`, `LifecycleProofs`, `WindowProofs`, `CanvasProofs`, `ConnectionsProofs` | theorems and proofs | each extends the module it is named for |
| `OvershootProofs` | the theorem about limits of lists | extends `CanvasProofs` |
| `SeriesProofs` | facts about the operators of the detectors, for sequences of any length | extends `Detectors` |
| `EvaluationProofs` | theorems about one rule | extends `Evaluation` and `SeriesProofs` |

### Registry

`jobs` is `Registry.jobs`; `jobRule`, `jobSpec`, `stop` are the fields of the
`Job` objects by address; `ticker` is the program counter of each `runTicker`
goroutine (waiting in its `select`, sending, returned); `queue` is the channel;
`worker` says what each worker executes; `holder` is the `Schedule` call that
holds the mutex. `Schedule` takes two steps because it reads the database
between closing the old job's channel and storing the new job, still under the
mutex (lines 79-93). `Stop` takes two because it cancels the context before it
takes the mutex. `Send` blocks on a full queue and listens to nothing else, as
line 120 does. `Collect` recycles addresses, so that a few of them stand for
an unbounded supply.

### RuleLifecycle

A request of the rule service is a record with a program counter: each SQL
statement and each `Publish` is an action of its own, because requests
interleave between them. `processRule` is split the same way: read
(`GetRule`), checks (`Check`), status (`MarkActive`, `MarkInvalid`), registry
call (`Schedule`, `Unschedule`). `phase` follows `main`: reconcile, then the
admin server, then the subscriptions; events published before the last step
reach nobody. The faults are a failed upsert or delete whose error the code
ignores, a lost event, a request that dies between two statements, a list of
rules that fails or breaks off (`list`: what is left of it is any part, the
empty one included, as the error is logged and `main` goes on), a row that
cannot be read (`get`: `GetRule` takes it for a missing one), a failed check of a
valid rule, a failed status write, a crash of the scheduler, and a machine unit
that becomes unusable. `faults` records which kinds happened, so
that a property can say which ones it tolerates. It also records two crossings
that need no failure: `gap`, an event published before the scheduler has
subscribed, and `race`, a write to a row that a `processRule` call has in hand.
`MayBegin` with `Overlap = FALSE` lets a request begin when the one before it,
its event and the call that follows are over; a scheduler that is down or
starting looks no different to the client, so requests also fall between
reconcile and the subscriptions. The branch for invalid JSON
in `processRule` is left out: both sides use the same struct, so it cannot be
taken.

### RunWindow

Time is counted in ticks, several to the second, because `fetchSamples`
formats the lower bound with whole seconds. A run keeps the locals of
`execute`: its start, the time of the last run, the parameters left, the hits
left. The parameters are taken in any order, which includes the order of
every rule. Runs may begin at any time for any job that may still be in the
queue. A job whose stored time cannot be read starts one interval back
(`start` records where), as `Schedule` does when `GetRule` fails. There are as
many workers as one likes; `Alert` has the worker that wrote it (`by`), and
`overtaken` the workers whose run was still in progress when one that started
later stored its time, both for the properties only. A query
returns the newest `Limit` rows; with the fault `cut` it returns fewer and
nobody notices, because `fetchRecentRows` does not look at `rows.Err`. The
detector
modelled is the one that reads the rows since the last run; the return for a
rule without parameters is left out because validation rejects such a rule.

### Canvas

One action per SQL statement. `req[c]` is the request client `c` has in
progress: `at` names the statement it has reached, the other fields what it
carries to the next. A unit whose list or table is being changed in a
transaction is locked (`Locked`), and every other writer of the row waits, the
cascade of a deleted line and the foreign key of a statistic included. A
handler that reads the unit and checks a limit before the transaction is two
steps, so that other requests fit in between.

A save of wires is four steps. Its `DELETE` first takes the snapshot of READ
COMMITTED (`old`), then waits until no other transaction holds a row of it; its
`INSERT`s wait for the rows of other transactions and fail on a key in use or a
line that is gone; the commit publishes the result. `Held` are the rows a save
has changed and not committed. Any request may fail at any step, which rolls an
open transaction back, and the service may restart. The handler that creates
a unit (`CreateMachineUnit`) always fails, see section 7, so units are there
from the start. Lists are sets, as every writer removes duplicates. A wire body
with the same id twice fails like an id in use, and renaming a line changes
nothing else: both are left out.

### Detectors, RuleConfig, Evaluation

The detectors are operators on sequences of samples. The code compares
floating-point means, deviations, slopes and medians; the operators compare the
same quantities multiplied out over the integers, so they are exact. Rounding is
not modelled. Times are ticks, several to the second, because the regression of
TPA and the bounds of queries use whole seconds. A multiplier of sigma is a
multiple of 1/`SigmaUnit`, as the validator accepts every number from 2 to 3.
An end of a range of times is a time, or `Garbled`: a text that is no time,
which the validator accepts as it only looks whether it is empty.

Settings are records with the fields the client sent. `RuleConfig` has what two
programs make of them: the rule service, which stores a rule, and the
scheduler, which previews one. The selectors and the subgrouping of the preview
and of the baseline check are fields of their own requests (`sub.ask`), chosen
independently of the settings that are stored. The identifiers, tables and columns of a rule are
taken to be valid. `Evaluation` chooses a submission and an initial table,
stores and schedules the rule, and lets rows and polls follow in any order. A
poll is two steps: `BeginPoll` takes the time that is stored as `lastRunAt`, and
`Poll` reads the table, by when other rows may have arrived (`Delays`). Rows
have distinct times: the order of rows of one time is the database's choice.
Aggregates of the source database are numerators with denominators, so that an
average is exact; the bound of their query keeps its fraction of a second.

A prompt is what the patterns of the parser find in it (words for missing or
abnormal data, a comparison, a window, an interval, names); matching the text is
left out. Of several parameters of a rule one is modelled, as each is evaluated
on its own. The catalog is the functions `CatalogDefaults`, `CatalogExamples`
and `CatalogMinData` of a rule type.

### Connections

`store` is the table, `key` the key each program started with, `state` says
whether the store and the target answer, refuse or hang. `call[c]` is a call
with its program counter: `route` (the scheduler looks for an adapter),
`openStore` and `resolve` (the look-up), `open`, `ping`, `operate`, `insert` and
`return`. `handles` are the pools it has open and `todo` the statements its
operation still has to make; `MySQLConnector`, `PostgresConnector` and
`MSSQLConnector` list them per operation. A step that asks a database waits as
long as that hangs, unless the call's context has ended (`expired`). An `INSERT`
is on its way (`inflight`) from the moment it is sent, and is executed or lost
whatever its call does meanwhile.

A password is plain or has a character that some data source name does not
carry; which ones each name carries is a set per connector. Settings are right
(they reach the target) or not. A profile is computed of the kinds of values in
the sampled rows: two kinds that `updateMinMax` cannot compare make the handler
panic, which `net/http` recovers, and the deferred `Close` runs. `known`,
`described`, `sampled` and `whole` are history for the properties. Names of
tables and columns are taken to be valid.

## 3. Runs

| Run | Instance | Shows |
|---|---|---|
| `registry` | 2 rules, 2 specifications, 2 job objects, 1 worker, queue of 1 | type, `NoDoubleClose`, `NoOrphanTicker`, `MapHoldsLiveJobs`, refinement of `JobMap`, `RegisteredJobRuns`, `GoroutinesReturn` |
| `lifecycle_spaced` | 1 rule, 3 specifications (one invalid), 2 requests one after the other, also across the startup, 2 kinds of faults | type, `ScheduledWasEnabledAndValid`, `JobsMatchRules`, `ActiveMeansScheduled`, `EnabledRuleGetsScheduled` |
| `lifecycle_deleted`, `lifecycle_race` | 1 rule, no faults | violations, see section 7 |
| `window_rows` | 2 workers, 2 jobs (a reschedule or a restart after a crash), 2 rows, a limit of 1, 2 instants of one second | `NoRowSkipped`, `RowsAreFetched` |
| `window_cooldown` | 2 workers, 2 jobs, 1 row, a limit of 1, every fault but a failed lookup | type, `CooldownOvershootBounded`, `WindowAdvances` |
| `window_lost` | 1 worker, 1 row, queries that fail or break off | violation, see section 7 |
| `canvas` | 2 clients, 3 requests, 1 unit, 3 columns, 1 rule, 2 lines, 2 wires, limits of 1 | type, `LockedListIsCurrent`, `OvershootBounded`, `NoOrphans`, `WireIdsUnique`, `WiresAreLastSave`, `RequestsAnswered` |
| `canvas_merge` | the same with 2 saves of wires | violation, see section 7 |
| `evaluation` | 85 submissions of all types, from the form, as JSON and as prompts, an empty table or 6 rows, 2 more rows, 2 polls | type, `ValidatedRuleEvaluates`, `LimitsNeedHistory`, `NewestSampleAlertsTwiceAtMost`, `StepperForecastsPoll`, `StatisticsMatchReference`, `TrendAlertIsATrend`, `CatalogMinDataSuffices`, `ParsedPromptIsStored`, `AggregateSeesBreach` |
| `evaluation_trend` | trend rules only | violation, see section 7 |
| `connections` | 1 call of the connection service (5 requests) and 1 of an MCP server (2), 4 settings of a connection, 2 keys, 2 columns, 1 fault of any kind | type, `HandlesReturned`, `WriteOnce`, `AnswersAreWhole`, `TestedMeansPollable`, `CallsEnd` |

Why the bounds are enough. In the registry two rules are needed for two jobs to
compete for the queue, and a queue of one is full after one run, which is the
case that matters; two job objects allow a replacement for either rule, and
`Collect` makes them last for ever. In the lifecycle, rules do not interact
except by sharing goroutines. A fault needs a rule that is there and one
request that changes it, which is two; more requests with two kinds of faults
are beyond what TLC explores in minutes, and the theorems have any number of
both. Once a kind of fault has happened it may happen again without bound. In
the windows a row can be before, in or after a window, and two workers suffice
to overlap; two jobs are a rule and its replacement, after a reschedule or a
restart, whose runs mix on the two workers. Two instants of one second, and the
second before, in which the first window begins, separate "same second" from
"same tick". A cooldown of two intervals has room for the runs of two workers
before it ends. On the
canvas a conflict is between two requests, and the third one deletes or changes
what the two are about; a limit of one is reached by one edit. In the
evaluation the defaults of the code are scaled down (6 samples of baseline
instead of 20, 4 subgroups instead of 10, trends of 3 instead of 6 samples), so
that eight rows are enough for every detector to answer each of its answers:
all eight types raise an alert at the second poll in some behaviour. The
scaling leaves the arithmetic as it is. Sigma comes in fifths, so that 2.2 is
one of its values: there the limits of population and sample sigma differ. Two
polls show that a sample which alerts twice arrived after the first had noted
its time; that there is no third alert is the theorem's. In the
connections calls meet only in the store and in the target, so one call of each
program is enough; one fault (an outage, a hang, a broken connection, a dropped
column, a client that leaves, a restart) at every point of a call, with its
deadline and its recovery free, is what the properties are about. The
theorems of section 5 lift the safety properties to every size.

No deadlock is checked for: clients, the clock and the bounds may all come to
rest, and the system then has nothing to do.

Every property has a mutant in `PROJECT.json`: a plausible mistake in the code
(a dropped map reset, a missing status, a strict bound) under which TLC finds
the property violated in the same run.

## 4. Fairness

* `Registry`: goroutines that can run do run; the timer keeps firing; an
  execution ends because `jobTimeout` bounds each of its calls. Senders blocked
  on a Go channel are served in arrival order and a `select` picks at random
  among ready cases, hence strong fairness for `Send`, `TickerExit` and
  `WorkerExit`. `Schedule`, `Unschedule` and `Stop` are calls from outside, and
  the database read inside `Schedule` has no deadline: none is fair.
* `RuleLifecycle`: requests and `processRule` calls in progress run to their
  end, because handlers put deadlines on what they call. `Start` is not fair:
  nothing in the deployment restarts the process. Clients and faults are not
  fair.
* `RunWindow`: a run in progress goes on and the current job's runs keep
  beginning, which is `RegisteredJobRuns` of the registry.

* `Canvas`: a request in progress takes its next step when it can, and one
  that waits inside a transaction times out, as the transactions run under
  contexts of 5 and 10 seconds. That is needed: two saves may wait for each
  other. Clients, failures and restarts are not fair.
* `Connections`: a handler takes its next step when what it waits for is there,
  deadlines pass, and an `INSERT` does not stay on its way for ever. The
  databases recover only if they like, and clients leave only if they like: a
  call of the connection service without a deadline may wait as long as its
  client does, which is why `CallsEnd` speaks of calls with a deadline (those of
  an MCP server, and a write once its handle is open) and of calls whose client
  has left.
* `Evaluation` has no liveness property and no fairness.

## 5. Proofs

All theorems hold for every value of the constants that satisfies the named
assumptions: sets are not empty, bounds are numbers, the special values are
distinct from the ordinary ones. Some assume more than that.

* `CanvasAssumption` has finitely many clients, columns and rules, because
  cardinalities are compared.
* `ConnectionsAssumption` has in `Adapters` only types that `buildAdapter` knows
  (`mcp/config.go:52`), and requests with an operation of the program they are
  sent to.
* `ParserAssumption` has the parser's poll interval of 60 seconds between
  `RULE_POLL_MIN` and `RULE_POLL_MAX`, as it is by default (5 and 3600): with
  other settings every prompt without an interval is refused.
* `HistoryAssumption`: the first table is in the order of its times, which are
  distinct and past.
* `DefaultAssumption`: the defaults of the settings are positive numbers.
* `CatalogAssumption`: the default baseline (50 samples) is no longer than the
  catalog's (100) and than what a query may return (2000), and there are
  constants for the default size of a subgroup (5).
* `SubmissionAssumption`: what the patterns of the parser can find in a prompt,
  that the settings of a client are of the types that `DetectorSpec` and
  `stepperConfig` decode, and that the value of a threshold, which is untyped in
  the code, is a number. An end of a range may be a text that is no time.

Each invariant below was checked by TLC, on the instance of its run or a larger
one, before it was proved to be inductive.

* `RegistryProofs`. `Inv` adds to the three safety properties that runs in the
  queue and in workers refer to existing jobs (`RunsReferToJobs`) and that a
  ticker goroutine exists exactly for existing jobs (`TickersMatchJobs`).
  `MapHoldsLiveJobs` and `NoOrphanTicker` need each other: the first says that
  what the map holds is open, so closing it cannot panic; the second that what
  is open is in the map, so that a replaced job cannot come back.
  `RegistryImplementsJobMap` maps each step: the second half of `Schedule` is
  the abstract one, the first half is invisible.
* `LifecycleProofs`. `LifecycleInv` carries the fact from the row to the job
  along `processRule`: what the table enables is in the history
  (`RowsInHistory`), what a call carries past a check passed it
  (`CarriedWasChecked`). It holds whatever overlaps and fails.
* `LifecycleProofs`, second part. `JobsMatchRules` and `ActiveMeansScheduled` speak of settled
  states only, so the invariant has to say what holds on the way there. Under
  `~Overlap` one thing is in progress at a time, a request, an event, or a call
  of `processRule`, except that a request may run beside the reconciliation of a
  scheduler that starts (`OneAtATime`). So the row a call has read is still the
  row, unless such a request has written it and is about to publish, or did so in
  vain (`CallsAreCurrent`; that is the crossing `race`). And a rule whose row and
  job differ is always about to be
  looked at again: a call has it in hand, an event about it is on the bus or
  about to be published, or the scheduler is down and will read every row when
  it starts (`JobsFollow`; `ActiveFollows` for rows with status `ACTIVE`, where
  a lost event does no harm, because every change of a row resets its status).
  What the properties excuse is what breaks that chain: an event that reaches
  nobody, a status or a row that is not what the database holds, a list that is
  not all of it. The hypothesis is needed: with overlapping requests TLC refutes
  `DisabledRuleStops` in `lifecycle_race`. The excuses are needed too: see
  section 7.
* `WindowProofs`. `NoRowSkipped` is proved under `Reliable` (rows are on time and
  queries return what they should), for every limit: a row that a full query
  left out stays behind as many rows that are not older (`CutOff`). A run starts where everything
  before was fetched and each parameter it has dealt with was fetched up to
  the run's own start (`RunInv`), and no time is ahead of the clock
  (`TimesInv`), so that a row inserted later is never behind a window.
  `CooldownOvershootBounded` is proved for any finite number of workers under
  `LookupsWork` (no lookup fails): between a worker's lookup and its insert others
  may write alerts, but not itself, so its own alerts are a cooldown apart
  (`CooldownInv`), and a cooldown has at most one of each worker.
  `WindowAdvances` is proved for any number of workers and every fault: no time
  that is stored, or about to be, is later than the start of a run that no later
  one has overtaken (`AdvanceInv`). That both bounds are reached is what
  section 7 shows.
* `CanvasProofs`. A request matters to the others while its transaction is open,
  and the invariant says what such requests exclude. No two have locked the row
  of one unit, so what one has read under the lock is still stored (`UnitInv`).
  Open saves of wires have deleted rows that are there, no two the same row
  (`SavesApart`), and what one has inserted is free once its own deletions count
  (`WiresKept`): without the second, two saves that wait for each other's rows
  could both store one id. A save that overlaps no other has deleted all wires
  of its line (`SavesAlone`).
* `OvershootProofs`. A list of the unit is checked against its limit before the
  transaction, so an edit may store more than the limit, and a bound on what is
  stored now says nothing of what edits that have passed their checks will
  store. `OvershootInv` orders the clients by the time of their checks: what an
  edit will store, with all that edits checked earlier may still add, fits the
  bound. An edit that commits moves its names from the second part to the first
  for everybody behind it, and had the names of everybody before it counted in
  its own turn. The size of a union of pending edits needs an induction over
  the set of clients, which is done on sets of subsets with the library's
  well-founded order of strict inclusion (`SetInduction`), and TLC checked
  `OvershootInv` with three clients too, as two do not queue.
* `ConnectionsProofs`. No step changes the records of two calls, except the end
  of a program, so the invariant is one statement for every call about its
  record, its rows and whether its `INSERT` is on its way (`CallInv`).
  `StageInv` says what a call holds at each point; `TodoInv` that only a write
  has an `INSERT` among its statements; `WriteInv` that it has it only as long as
  none was sent; `WholeInv` that a profile samples only after it has described the columns.
* `ConnectionsProofs`, second part. As long as no fault has happened the three
  programs have one key (`Calm`), so a call that works on a stored connection has
  the settings that were stored, and a call of the scheduler fails for one of
  three reasons (`Unpollable`), of which a successful test rules out all but those
  the property names. The three programs read the type and the password each in
  its own way, and this is the proof that no combination of the two was forgotten.
* `SeriesProofs`. The detectors are built from sums, from the entries of a
  sequence that satisfy something, and from its newest ones. What these are for
  sequences of any length needs an induction over data, for which the library's
  theorems cannot be used; here it is made by hand, for the set of lengths (or of
  sequences) for which the fact holds, from the well-founded order of the numbers
  (`NatSetInduction`, `SeqSetInduction`). `Recursion` gives a recursive function
  its equation. The facts that carry the theorems are these: what a query returns is
  an end of the readable rows of the table (`FetchedEnd`) and in the same order
  (`FetchedEmbeds`); two such ends of one length are the same (`NewestOfEnd`); the
  square of the distance of the last of n values from their mean is bounded by
  their spread (`LastWithinSpread`), so that k sigmas need samples (`SigmasNeedSamples`); a
  regression has the denominator 0 only over equal times (`NoSpread`); steps that
  all exceed epsilon add up (`StepsAddUp`).
* `EvaluationProofs`. `Inv` says that the table is in order and only grows, and
  that what is remembered of the last poll is the answer to a table that the
  present one begins with. It is needed because every property speaks of the last
  poll after more rows have arrived. Each theorem is then about one evaluation.
  * `TypeCorrect` goes through the detectors; a violation has a reason in each.
    That an answer is never about the future rests on the query returning rows of
    the table.
  * `NewestAlertsTwiceAtMost`: an alert of a chart is about the newest sample of
    its baseline, which is newer than the time the last run noted. A sample
    that alerted before is not, unless it arrived between that time and the query
    of the last run; and the present run notes a time that is no earlier than its
    arrival, so there is no third alert.
  * `LimitsAreOutOfReach`: the sample that is judged is one of those its limits are
    computed from. The proof is the inequality: a value k sigmas from the mean of n
    values, itself included, needs `n - 1 > k^2` if sigma is that of the population,
    and `(n - 1)^2 > k^2 n` if it is that of the sample, for k any fraction; a range
    cannot be D4 times the mean of fewer than D4 ranges, itself included.
  * `BreachesAreSeen`: the window of an aggregate reaches back to the last poll,
    and the extreme of a set bounds each of its members.
  * `TrendAlertsAreTrends`: the samples of a poll are the newest of the table
    however the window and the limit cut them, and neighbours that all differ by
    more than epsilon make all pairs differ by the sum.
  * `ValidatedRulesAreAnswered`: `VettedAnswers` goes through the detectors and
    finds which refusals the validator's conditions leave open: a range with an end
    that is not a time, one that ends before it starts, and a regression without a
    denominator. Consecutive rows have
    increasing times, so the second means that the whole window is of one second.
  * `PromptsAreStored` goes through the parser's choices in the same way.
  * `CatalogMinimumsSuffice`: the baseline of the stored rule is at least as long
    as what the catalog asks for and ends alike, and a longer end has at least as
    many groups (`MoreGroups`). A projection is not among these types:
    TLC refutes the property for it (`CatalogMinDataSufficesForTPA`, section 7).
  * `ForecastsHold`: settings that are `ReadAlike` give the same detector in both
    programs, up to fields that its type does not read (`ShewhartRead` to
    `SlopeRead`). The request of a preview is another record than the settings, so
    `AsksForWhatItSaves` says when it is about the same samples: its baseline
    selector has the number of samples the stored rule will read, its subgrouping
    the stored size and kind, and its evaluation selector at least the window of a
    trend or a regression. Then the samples that the preview of a control chart
    and the baseline check fetch are those of the poll (`BaseFetched`); for the
    other types, a poll that alerts about the newest sample the preview shows has
    looked at an end of the same samples (`AlertShown`). What a request that asks
    for something else leads to is `SavedRuleHasData` in section 7.

Only model-checked:

* the liveness properties (`RegisteredJobRuns`, `GoroutinesReturn`,
  `EnabledRuleGetsScheduled`, `RowsAreFetched`, `RequestsAnswered`, `CallsEnd`),
  which are out of reach of the proof system;
* `StatisticsMatchReference`. It compares the median of `SortSeq`, a permutation
  that is chosen, and sums computed in order with sums over sets of pairs, which
  fold in an order that is chosen too. That such a sum does not depend on the
  order is an induction with the summand as a parameter, which the provers cannot
  instantiate. It is checked on every table that the run reaches.

## 6. Plan

Done: all modules of section 2 with their runs, and the proofs of every safety
and action property that a run checks, except `StatisticsMatchReference`. What is
left:

1. The sums of `StatisticsMatchReference` over pairs, written as recursive
   functions, which the induction of `SeriesProofs` could reach; the median with
   a sorted sequence that is characterised and not computed.
2. `SavedRuleHasData` of section 7 as a bound: how much longer than the stored
   baseline a preview's selector may be for what it finds to hold of the polls.

## 7. Findings

* `lifecycle_deleted`: a deleted rule's job keeps running. The row is gone when
  the event is handled and `processRule` returns before `Unschedule`.
* `lifecycle_race`: a rule disabled while a `processRule` call for it is under
  way can end up disabled in the table with status `ACTIVE` and a running job.
* `window_lost`: when a query fails, or its result breaks off unnoticed
  (`cmd/mcp-server/main.go:539`), the window advances all the same, and its rows
  are never evaluated.
* `canvas_merge`: two saves of one line's wires that overlap leave the wires of
  both, as neither `DELETE` sees what the other inserts. The comment on
  `ReplaceWiresForLine` calls the replacement atomic.
* `evaluation_trend`: the documentation says a trend rule looks at the last N
  points; a poll only fetches those since the last poll, so a trend spread over
  two polls is never flagged, and with fewer than N rows to an interval no trend
  ever is.

The modules state six more promises that the code does not keep. Each stands next
to the property that says what does hold, and TLC refutes it when its name takes
the place of the properties in the cfg named here:

| Promise | cfg | What happens |
|---|---|---|
| `ActiveIsScheduled` (`README.md:296`) | `Lifecycle_spaced.cfg` | The list of enabled rules fails or breaks off at a restart; `main.go:61` logs the error, or nobody sees it (`storage/repository.go:24` does not look at `rows.Err`), and rules stay `ACTIVE` without a job. |
| `DisabledRuleStops` (`README.md:298`) | `Lifecycle_spaced.cfg` | Although no two requests overlap: a rule is disabled after the startup has read its row and before the scheduler subscribes (`main.go:61-67`), or its row cannot be read once and is taken for one that is not there (`storage/repository.go:41`, `main.go:147`). |
| `CooldownRespected` (`cooldown_test.go:11`) | `Window_cooldown.cfg` | Two workers with runs of one job both look for the last alert (`scheduler.go:200`) before either writes one (line 231). Four workers are the default (`main.go:29`, `docker-compose.yml:83`). |
| `WindowOnlyAdvances` (`scheduler.go:249`) | `Window_cooldown.cfg` | Of two such runs the one that started first ends last and stores its older start (line 250): the next run sees rows again that were evaluated. |
| `NewestSampleAlertsOnce` (`scheduler.go:380`) | `Evaluation.cfg` | A sample arrives between the time a run notes (line 178) and its query (375, 412); it alerts in this run, and in the next one, which compares it with that time (382). |
| `CatalogMinDataSufficesForTPA` (`UI_RULE_CREATION_SPEC.md:558`) | `Evaluation.cfg` | Documentation and catalog (`stepper_catalog.go:218`) ask for 3 samples for a projection; the catalog's own example has `windowN` 5 (line 256), and with fewer every poll has `INSUFFICIENT_DATA`. |

A seventh, `SavedRuleHasData`, is what "Block save on `INSUFFICIENT_DATA`"
(`UI_RULE_CREATION_SPEC.md:840`) is for. The documented flow sends the baseline
check and the preview with a selector of their own, `lastN` 100 (lines 249 and
376), and saves settings without a baseline (lines 397-427), which the stored
rule reads as the newest 50 (`baseline.go:12`): with subgroups of 6 the preview
has 16 of them and is `OK`, and every poll has 8, fewer than the 10 it needs. To
see it, take `Evaluation.cfg` with that invariant,
`Submissions <- DocumentedSubmissions`, `defaultBaselineMinN = 3`,
`defaultBaselineSubgroups = 2` and `defaultBaselineLastN = 4`.

Seen while modelling: disabling a stepper rule
whose unit can no longer be converted does not reach the scheduler
(`stepper_rules.go:21`); rows up to a second older than the last run are
evaluated again because the bound loses its fraction (`samples.go:34`); a rule with alerts cannot be
deleted from table `rules` and the error is ignored (`stepper_rules.go:135`).

On the canvas: the `INSERT` of `CreateMachineUnit` names 13 columns and gives 12
values, so a unit cannot be created (`repository.go:177`); `PUT .../columns`
removes the columns that are both old and new, because it adds the new ones and
then removes all old ones (`machine_units.go:325`); the limits are checked
outside the transaction; the comment on `DeleteProductionLine` says units are
kept, and migration 014 cascades to them.

In settings, where the preview and the stored rule differ (these are outside
`ReadAlike`): the samples and subgroups that the request of the preview asks for
need not be those of the settings; `sigmaMultiplier` is honoured by the stored rule only,
`populationSigma` by the preview only; flat limit fields are read by the stored
rule only; the older fields `lastN` and `timeRange` of a baseline are read by the
stored rule only; a selector of the last samples that does not say how many is
the default to the stored rule and as many as a query returns to the preview;
negative minimums and sizes are replaced by the default in the stored rule and
taken as they are by the preview; without a selector the preview judges the
newest 50 rows, so that a trend or a regression over more samples never has
enough data in it; a range chart's constants come from `subgroupSize` in the preview and from
`subgrouping.subgroupSize` in the stored rule; a missing `windowN` is 5 in the
stored rule and refused by the preview; the time range of a selector is called
`dateRange` by one and `timeRange` by the other. Rules of the user interface are
never validated: a trend over one sample always alerts, and limits that are
missing are never reported.

In evaluation: the robust z-score takes 0 for a newest value it cannot read;
subgroups are ordered by their keys as text, so the "latest" one need not be the
newest; an incomplete newest group is left out; the scheduler refuses most
rules as long as their table is empty; a time range that ends before it starts,
or with an end that is not a time, passes the validator and fails at every poll;
the last N rows are counted before
those that cannot be read are dropped; an aggregate that the server does not
know passes the validator and is refused by the scheduler only; an aggregate
rule alerts about one row as long as it is in the window; a prompt that has
words for missing data and a comparison loses the comparison
(`parser.go:88`); the catalog's default grouping of a range chart, by a column
nobody named, is refused by the scheduler.

In connections (the cases that `TestedMeansPollable` and `AnswersAreWhole` leave
out): types `postgresql`, `mssql` and `sqlserver` test well and have no adapter;
a password with a slash tests well and breaks the URL of the MCP server
(`main.go:335`); a result that breaks off is complete to `fetchRecentRows`
(`main.go:539`), so its rows are lost with the window; `simulate/write` answers
"not found" when the store is down (`simulate_write.go:81`) and its five seconds
begin after the look-up, which has no deadline; a column that holds times and
numbers makes a profile panic (`connector.go:270`); over the stdio transport the
text of an error is lost, by which the scheduler recognises an empty table
(`scheduler.go:277`).

## 8. Not modelled

* Text: the patterns of the prompt parser, the SQL that the MCP server and the
  connectors build, identifiers and allowlists. TLC has nothing to explore
  there; what they find, ask for and accept enters the models as values.
* The framing of MCP messages over HTTP and pipes: a call answers, fails or runs
  out of time, and that is how the models see it. The cipher is library code;
  `Connections` has what it promises.
* Handlers that only read (lists, health, catalog requests, alerts), the
  renaming of a line and the positions on the canvas: no other step depends on
  them.
* `normalizeParameters` writes names into a slice that runs share
  (`scheduler.go:540`): two workers write the same value, and anything else
  would need a model of memory.
* Floating-point rounding is out of reach; the detectors are modelled over
  integers and exact fractions.
* Liveness and `ENABLED` are out of reach of the proof system used here and stay
  with TLC.
