# pgjobq: a verification project

pgjobq is a job queue on PostgreSQL: producers insert rows into a `job` table,
worker processes claim rows under a lease, run a handler, and report the outcome
with fenced updates; a reaper recovers rows whose lease expired. This directory
holds TLA+ modules translated from that code, TLC configurations that check them
on small instances, and TLAPS proofs that hold for every instance.

## The system

| Part | State it keeps | Operations | What makes it hard |
| --- | --- | --- | --- |
| State machine (`engine/state-machine.ts`) | none; a table of permitted transitions | lookups | nothing routes the SQL through it, so the statements have to agree with it |
| Job table (`migrations/001`, `sql/*.sql.ts`) | one row per job: state, attempt, owner, lease, run_at, cancel flag, dead reason, errors | insert, claim, complete, fail, heartbeat, acknowledge, release, reap, cancel, retry, replay, pause, purge, prune | every statement is an atomic step, and any process may send any of them at any time |
| Runner (`worker/runner.ts`) | per execution: abort signal, cancelRequested, timers | handler, heartbeats, success path, failure path | a timer runs beside the awaits; every statement may fail before or after it commits |
| Pool (`worker/pool.ts`) | `active` and `inFlight`, keyed by job id | claim loop, spawn, stop | free slots are counted from maps that two deliveries of one job share |
| Listener (`worker/listener.ts`) | a connection, `stopped` | reconnect loop, LISTENs, wake-ups, stop | notifications get lost; a wake finds nobody waiting |
| Reaper (`engine/reaper.ts`) | none | one pass: one statement | the only way back from a crash |
| Processes (`packages/worker/src/main.ts`, `packages/server/src/main.ts`, `core/src/index.ts`) | where the start or the shutdown has come | configuration, wait for the database, schema check, loops, drain, exit | they start in any order on a database that comes and goes; handlers keep running while their jobs are given away |
| Migrations (`migrate.ts`, `cli/migrate.ts`) | applied versions with their checksums | up, status, assertSchemaCurrent | several releases migrate at the same time without a lock |
| Database access (`db.ts`) | a connection pool | waitForDatabase, withTransaction, close | which errors are worth a retry; a closed pool |
| Configuration, backoff (`config.ts`, `engine/backoff.ts`) | none | loadConfig; delays of an attempt | ranges that are valid one by one; overflow |
| Client (`client.ts`) | a cache of queue settings | enqueue, batch, cancel, retry, replay, pause, purge | conflict resolution and cancel are several statements |
| Scheduler (`engine/scheduler.ts`) | schedules: enabled, next_run_at | tick, create, pause, resume, delete | several instances materialise the same occurrence |
| Retention (`engine/retention.ts`) | running or not | prune or archive in batches, create partitions | two clocks, several instances, windows per queue and outcome |
| HTTP API (`server/src/app.ts`, `routes.ts`, `middleware.ts`, `auth.ts`) | API keys; counts of the limiter | authenticate, authorize, validate, call, audit, answer | a handler outlives its client, its key and its server |
| Event stream (`server/src/events.ts`) | subscribers, a keepalive timer | subscribe, publish, close | departures before, during and after the lookup of the key |

The processes interact only through the table: a worker learns of a cancellation
from the answer of its own heartbeat, of a lost lease from a statement that
matches no row, and of a new job from its next claim, which a NOTIFY may bring
forward. Within a process everything runs on one thread and gives way at an
`await`, a timer or a callback; those are the points at which the models let
others act.

## Modules

* **JobLifecycle** is the abstract specification of a row: the entries of
  `TRANSITIONS` with what their descriptions say of the attempt counter (a claim
  consumes one attempt, a replay starts over, a failure is retried with attempts
  remaining and dead-lettered on the final one: `Permits`), of the dead letter
  reason and of run_at (a retry waits for its backoff, a replay is due at once),
  and the schema's attempt limit. `releaseJob` at shutdown is no entry of the
  table and has a step of its own (`Releases`). A step may move several rows,
  because claim, reap, replay and prune do.
* **JobTable** has one operator per SET clause and one action per statement,
  with the names of the source. The clock is reduced to what a row can tell:
  `due` (run_at has passed) and `lease` (null, held, expired), set by two clock
  actions. Reports carry any worker id and any attempt number, since a stale
  process may send anything it ever knew. A row that was deleted keeps its
  attempt and round as history. `round`, the number of replays of a row, has no
  column: it tells deliveries apart that the attempt counter does not.
  `SKIP LOCKED` is the parameter `locked` of a claim, and the freedom of a reap
  to leave expired rows out.
* **JobQueue** adds the worker processes. A delivery is one claim of one job,
  `<<job, round, attempt>>`; `exec` holds the execution of each. `pc` is the
  statement an execution is about to send: `ackOk` and `complete` on the success
  path, `ackErr` and `fail` in `reportFailure`, `returning` while the response of
  the last one is under way. A statement may be applied and answered, applied
  with its response lost, refused by its WHERE clause, or not applied at all.
  Heartbeats run beside this until `run()` returns; what they learn (`answers`)
  arrives later or never. `active` is the pool's pair of maps (always the same
  keys), as the set of deliveries they hold. `Crash` ends a process anywhere,
  `Stop`, `Release` and `Exit` are the graceful shutdown.
* **Client** has the calls that take several statements, on rows reduced to their
  state and keys: `enqueue` and `enqueueBatch` with both partial unique indexes, the
  reads of `resolveConflict` and the mapping of batch answers to items, `cancel`,
  `replay` and `replayMany`. `Accepted` is ON CONFLICT DO NOTHING for a whole
  statement. The rest of the system moves rows along the entries of JobLifecycle.
  `origin`, the item a row was inserted for, is history.
* **Scheduler** stands beside them: the schedule rows, a tick per server
  instance, and the job rows reduced to the occurrence keys they hold. A tick is
  cut at its awaits: `claimDueSchedules` hands out rows, `Evaluate` computes what
  will be written from the instance's clock, `Insert` and `Advance` are the two
  statements, and any error leaves the loop. Time is a number here, because
  lateness and the deferral of an hour are arithmetic; instances may be off by
  `Skew`. `Occurrences` stands for the cron library. The management calls write
  a next_run_at computed up to `CallDelay` earlier.
* **WorkerPool** is the waiting of one pool: where `claimLoop` awaits (`config`,
  `claim`, `answer`, `busy`, `idle`, `backoff`), where the listener does, and where
  `stop()` does. A step is what runs between two awaits, so the answer of a claim
  spawns its rows and asks for the next queue in one step, with a capacity computed
  anew. `row` is a job as this pool can tell (absent, ready, held, settled), and `left`,
  history, are the held rows whose claim, report or release failed and that wait for their
  lease. A notification is under way only if the session listens to its channel and is
  lost with the connection; one that finds no idle wait wakes nobody.
* **Retention** has the loop of each instance with its awaits, `createArchivePartition`,
  and the pruning and the archiving statement as the operators `pruneTerminalJobs` and
  `archiveTerminalJobs`. `now` is the clock of the database; an instance is off
  by `Skew`. A batch is what `ORDER BY finished_at LIMIT` with `SKIP LOCKED` may pick.
  A statement may fail, or commit and lose its answer.
* **Config** and **Backoff** are pure: the accepted environments with the ranges,
  defaults and cross-field checks of `loadConfig`, and the delays of an attempt, where a
  product above `MaxFinite` is Infinity and Infinity times zero NaN. A random delay is the
  interval it is drawn from.
* **Startup** composes both with the processes of a deployment, each of a release
  (`Build`, version to checksum). A process reads its configuration, waits for the database,
  reads the applied migrations, and then applies its own, one transaction each, or
  refuses to serve, or registers the bootstrap key and serves until a signal. `committed`,
  the DDL in the order of its commits, is history. The database can be unreachable in
  several ways, a query can fail or commit unanswered, a process can be killed, and
  whatever failed is started again.
* **Server** has the requests of an API process on their connections. A route is a row
  of a table: its scope, the place of its queue, and its handler. A handler is the statements it
  issues in their order, each with what follows if it found what it looked for and if not:
  `replay` is the change, the audit entry and the read of the result, or the read that explains why
  nothing was changed. No two statements share a transaction. What they do to the rows is in Client
  and Scheduler, and whether the row is there when a statement comes to it is the choice of
  the rest of the system (`Execute`). A handler waits in `auth` and `query`, and goes on
  when the event loop comes back to it (`known`, `unknown`, `done`): between the two the client
  may leave, the key be revoked, the row vanish, the window of the limiter end or the
  server shut down. `effect`, `audited`, `stale`, `shut` and `late` are history.
* **MCJobTable**, **MCJobQueue**, **MCClient**, **MCScheduler**, **MCWorkerPool**,
  **MCRetention**, **MCStartup**, **MCServer** name the model values of the instances.
* **JobTableProofs**, **JobQueueProofs**, **ClientProofs**, **SchedulerProofs**,
  **WorkerPoolProofs**, **RetentionProofs**, **StartupProofs** and **ServerProofs**
  hold the theorems about the module they are named after.

Two reductions of JobQueue deserve a word. A claim and the spawn of what it
returned are one step: the spawn touches only memory of its own process, and the
claim loop is the only one to add entries, so a later spawn commutes to the
claim; a response that never arrives is the parameter `lost`. And what nobody
reads any more is forgotten: the signal and a rejected heartbeat once the handler
has settled, `cancelRequested` once `reportFailure` has branched on it.

`Mutants` in the comments are deliberate faults (a dropped guard, an off-by-one,
half a fence) that no specification uses: each property is checked to fail when
the named definition is replaced by its mutant.

## What the runs check

| Run | Instance | Shows |
| --- | --- | --- |
| `table` | 2 jobs of different priority, 2 workers, 2 attempts, 2 replays, history limit 3 | `TypeOK`, `RowsPassChecks`, `ErrorHistoryBounded` and `ImplementsLifecycle` (state, attempt, reason and run_at of every row) against arbitrary reports |
| `queue` | 1 job, 2 workers with 2 slots, 2 attempts; one may drain, one may be killed | deliveries are counted, lost ownership stays lost, outcomes belong to the current delivery, handlers overlap only after the queue took the job away, slots follow deliveries |
| `liveness` | 1 job, 2 attempts, one worker may be killed | `EveryJobSettles` |
| `client` | 2 producers, 1 operator, one key of each kind, batches of one and two, 3 ids | keys stay unique, `AnswersNameTheirJob`, `CancelledJobNeverRuns` |
| `scheduler` | 2 schedules (one whose expression runs out), claimed together by 2 instances, one lagging and breaking off anywhere | at most one job per occurrence, jobs only at times the expression names, `DueScheduleMovesOn` |
| `pool` | 2 slots, 3 jobs on 2 queues, one handler that may hang, one error | slots are not exceeded, a ready job is claimed although its notification is lost, `stop()` ends and strands no row |
| `retention` | 2 jobs of queues with different windows, 2 instances, one lagging, one ahead, failing and stoppable, batches of one, two months | history is archived exactly once, the partition is at hand, `BacklogDrains` |
| `startup` | 2 migrating processes whose releases differ in length and in the text of a migration, a worker, a server of an old release, three environments, one outage, one kill | migrations are applied once and in order, nobody serves without the migrations of its release, success of `up` is real, accepted retry delays are orderly, `DeploymentConverges` |
| `api` | 2 connections, a replay (change, audit entry, read), a batch (which finds the settings of its queue cached or not, and may resolve conflicts), a probe, the event stream, a key that is revoked, rows that vanish between two statements, one failing query, room for one subscriber and one request per window | answers tell what is committed and audited, a revoked key gets nothing, streams and subscribers agree, the shutdown ends and fails nobody who waits, `RequestIsAnswered` |

Three runs show where the code does something other than a comment or document
says. They are expected to end in a counterexample.

| Run | Counterexample |
| --- | --- |
| `release` | A job on its final attempt is released at shutdown. It is then `available` with `attempt = max_attempts`; the CHECK on attempts refuses every claim that selects it, along with the rest of the batch. |
| `fence` | A lease expires while its handler runs on, the job is reaped, dead-lettered and replayed, and the same worker claims it: it holds attempt 1 twice, and the older execution passes the fence. |
| `unreachable` | A refused connection has an error code of Node, `ECONNREFUSED`; `isTransientDbError` compares any code with those of PostgreSQL and never looks at the message. The process exits at its first attempt. |

Others are visible in the models, although no run is kept for them:

* A lease expires while its handler runs on, and the same pool claims the job again: its map
  then holds one entry for two handlers, and with two slots and three deliveries JobQueue
  runs three handlers (`pool.ts:277`). `PoolWithinConcurrency` is about a pool whose
  claims are of jobs it does not run. `SlotsFollowDeliveries` says how far it goes: a slot
  is lost only to another execution of the same job in the same process, and none leaks.
* `retryNow` and `replay` read the job once more when the change and its audit entry are
  committed (`client.ts:298`, `client.ts:312`); if it was purged or archived by then, the caller is
  told 404 for what was done. `AnswerTellsEffect` names it as the only change that a 4xx follows.
* The audit entry of every operator action is a statement of its own (`client.ts:269-377`,
  `routes.ts:338-399`). If it fails, or the process exits before it, the change stays
  without an entry, and so do the batches that a purge has committed when a later one fails.
  `SECURITY.md:88` says that every such action is recorded. `AnswerTellsEffect` says that the caller,
  if one still waits, gets a 5xx then.
* The handler resolves, `completeJob` fails with a database error, and the catch block
  reports a failure, on the final attempt as exhausted (`runner.ts:146`).
* A handler that ignores its timeout keeps its lease by heartbeats for ever
  (`runner.ts:103` raises a signal and nothing else).
* `stop()` first waits for the claim loop, and the loop waits for a slot without a timer
  (`pool.ts:136`): with a hung handler in every slot the grace period of the
  comment at `pool.ts:286-292` never starts. `DrainEnds` has one hanging job and two slots.
* `pool.ts:141` serves the queues in their order and starts again at the first after
  every round that claimed anything, so a later queue waits as long as
  earlier ones fill the pool. `ReadyJobIsClaimed` holds because the jobs of a run are finite.
* Two instances claim an occurrence. One fires it and advances; the other gets to it
  after the next occurrence is due, is deduplicated, and advances past that one, which
  never fires.
* The close listener of an event stream is registered after the lookup of the key
  (`events.ts:75`), so a client that has left by then keeps its slot until the shutdown;
  `OpenStreamIsFed` names it (`late`).
* A stream that is opened between `events.close()` and the end of `server.close()` is
  ended by nobody; the shutdown then waits for its client (`ShutdownEnds`).
* `migrate up` of a release with an edited migration fails for ever, and so does a server
  of an old release once a newer one has migrated; `DeploymentConverges` leaves both out.

Smaller ones: `ErrorHistoryBounded`
speaks of two limits because the reaper trims at the literal 5 and not at
`MAX_ERROR_HISTORY`, and `OverlapOnlyAfterLossOfOwnership` names the release at
shutdown beside the one window that `docs/delivery-guarantees.md` describes. In `Client`,
`AnswersNameTheirJob` leaves out batches that are not `Mappable`: if an item has a
unique key and no idempotency key, its conflict shifts the ids of the items after it
(`client.ts:175` says such entries cannot conflict) and it is itself answered as created,
without an id if no row is left for it; and two items with one
idempotency key are both answered as created. An item debounced in a batch is
answered as deduplicated without an id. `Replayable` makes a bulk replay fail as a
whole when one unique key is taken, where `client.ts:315` promises an outcome per
job; and `requestCancel` can miss a job that went back to `available`, which the
caller is then told is terminal. In `Evaluate`, an expression without a
further occurrence is deferred before its last one is fired, so that one never
gets a job. And `AtMostOneJobPerOccurrence` rests on the job row: `pruneJob` says
when retention may remove it, and an operator who purges the queue while a tick
is between claim and insert (not modelled) takes the protection away.

**Bounds.** Two attempts are the least with a retry and a final attempt; two
workers the least with a stale and a current owner; one replay the least that
reuses an attempt number; two slots the least in which a pool can hold two
deliveries of one job. One job is enough where the property speaks of the
deliveries of one job, since rows only interact through claim batches, which
`table` covers with two. MaxReplays bounds a counter that the code does not have;
two replays let a row collect six errors, more than either limit. In `client`, three ids let a
batch of two race a single enqueue, and two finished jobs share a unique key; the
operator repeats its calls without end. For schedules, an hour of 1 and a
clock up to 3 let an occurrence be fired late, be skipped as stale, be deferred and
come due again after the deferral; a claim LIMIT of 2 lets a tick hold both schedules, so that an
error at the one aborts the other.
The clock of the model ends at MaxTime, so `scheduler` allows the system to stop.

In `pool`, three jobs on two queues and two slots let a claim fill the pool, leave room for
the next queue, or find it full; one error is a lost claim, a failed report, a failed
release or a lost connection, each against everything else. In `retention`, a month of 2
and a clock up to 3 have one month's end, which a pass of up to 1 can straddle; the
skews of -1 and 1 make each instance wrong about the month for half of it, and batches of
one make a backlog of two need two. `startup` needs two releases that differ, a version
that one of them lacks, and an outage and a kill that can fall between any two steps; a
sleep of `waitForDatabase` is only counted. `MaxFinite` is 2^30 - 1, as TLC's integers end
at 2^31: eight attempts at multiplier 100 overflow it as more attempts overflow a
double. In `api`, two connections are the least with a subscriber and a competitor for
its slot, and a count of one puts the limiter at its limit with the second request. A replay is the
longest of the handlers that change a row and can answer 404 on both sides of its change, and
a batch the one that turns a database error into a 400; the theorem about the answers covers all routes. Counts
beyond the limits of the limiter, of the snapshots in flight and of the failures make no difference
to the code or are bounds of the model (`MaxSnapshots`, `MaxFailures`,
`MaxFaults`, `MaxDeaths`, `MaxOutages`).

**Fairness** (`LoopFairness`). A run_at passes and a lease that no live owner
renews lapses, because time passes. The reaper and the claim loop of a process
that stays up are loops which catch every error. A report settles, because a
query does. `HandlersSettle` is an assumption on the application: `liveness`
needs it, because a handler that hangs keeps its lease. Processes in
MayCrash or MayStop get no claim fairness; one worker stays up. Nothing is assumed
of operators: the queue may be paused for ever, so `EveryJobSettles` is conditional
on it not being. For schedulers the clock runs and the instances outside MayFail
handle what they claimed. Their claims are strongly fair for each schedule: a row
is skipped only while another statement locks it, polls are jittered, and older
rows go first.

`PoolFairness`: timers fire, queries and connection attempts settle, and the handlers
outside MayHang do; nothing is assumed of producers, notifications, other workers and the
reaper. `RetentionFairness`: the clock runs and the loops go on, since they catch every
error; an instance that can delete a row again and again does so, since a row is locked
only for the length of a statement. `StartupFairness`: a process goes on, as queries
settle and sleeps end, and something restarts what failed. That is the
deployment's part, which the exit codes of the processes are for. The database is
not assumed to come back: `DeploymentConverges` has that as its premise. `ServerFairness`:
queries are answered (`statement_timeout`), idle connections time out (`keepAliveTimeout`), a
snapshot query ends, the shutdown goes on. Clients owe nothing, so `ShutdownEnds` has as a
premise that requests cease: a client that keeps a connection busy holds
`server.close()`.

## What is proved

`JobTableProofs` proves, for all sets of jobs and workers and all limits that
satisfy `TableAssumptions`:

* `TypeCorrect`: `Spec => []TypeOK`.
* `ChecksHold`: `Spec => []RowsPassChecks`. The schema's CHECKs alone are not
  inductive. `RowPassesChecks` strengthens each to an equivalence (only a
  running row has an owner and a lease, only a dead one a reason, only a terminal
  one a finish time), and that is inductive row by row together with the type.
* `HistoryBounded`: `Spec => []ErrorHistoryBounded`.
* `TableImplementsLifecycle`: `Spec => ImplementsLifecycle`, the refinement: every statement
  is an entry of the transition table with the attempts, reason and run_at that its
  description names, the release, or the insertion or deletion of the row. It
  needs `ChecksHold` and that a row not yet inserted has attempt 0.

The argument goes through one fact: every action of the table changes each row by
one of a few row steps or leaves it alone (`StepsAreRowSteps`). Each property is
then proved once per row step, not once per action and row.

`JobQueueProofs` proves, for all sets of workers, all finite sets of jobs and all
limits and slot counts that satisfy `TableAssumptions` and `QueueAssumptions`:

* `QueueTypeCorrect`: `QueueSpec => []QueueTypeOK`. The inductive invariant
  `QueueInv` adds the CHECK constraints (a fence that admits a process names a real
  one, so its statement is one of JobTable's) and the bound on rounds (so what a
  claim starts is a delivery).
* `QueueImplementsTable`: every step of the processes is a step of JobTable or
  leaves the table alone, so `RowsPassChecks` and `ImplementsLifecycle` hold of the
  queue with its crashes, lost responses and late reports. That a claim stays
  within its LIMIT needs the number of taken slots to be a number, which is where
  finiteness of the deliveries comes in.
* `AttemptsCounted`: `QueueSpec => []AttemptsCountDeliveries`, by induction on
  `QueueInv` and the property itself.
* `FenceIsSharp`, `LossIsFinal`, `OutcomesAreEarned` and `OverlapsAreExplained`: the four
  invariants about stale executions, `FenceIdentifiesDelivery`, `LostOwnershipStaysLost`,
  `OutcomeIsOfCurrentDelivery` and `OverlapOnlyAfterLossOfOwnership`. Each theorem has two
  conjuncts: the invariant per job, for every job that is `Sharp` (it was never replayed, or
  pools have one slot), whatever the other jobs do; and from it the property itself when
  `MaxReplays = 0` or `Concurrency = 1`. The condition is needed: a replay resets
  the attempt counter, and a pool with a second slot can then claim the same attempt number
  beside the old delivery. The run `fence` shows it for the fence; with two slots and one replay TLC
  violates the other three too (with one attempt `LostOwnershipStaysLost` and
  `OutcomeIsOfCurrentDelivery`, with two `OverlapOnlyAfterLossOfOwnership`). With one slot the
  older execution has to leave its process first (`Slots`, `OneSlot`). No run checks the
  fence as an invariant: without replays it is the `attempt =` of the WHERE clause, and with
  them, and one slot, only the proof reaches it.
* `SlotsAreKept`: `SlotsFollowDeliveries`, in the same two conjuncts. `SlotInv` says per
  delivery which other execution explains that it goes on without its slot (`Explains`). A
  claim overwrites the slot of an execution only if the row has become available under it, which
  takes a reap, a release or the execution's own last statement (`KeptInv`), and a pool that
  claims has released nothing (`NoneReleased`).
* `OnlyReleaseExhausts`: without graceful shutdowns an available row has an attempt left, so the
  release that the run of that name shows is the only step that breaks what
  `report.sql.ts:183` says.

These rest on three layers. `BaseInv` is `QueueInv`, the delivery counts, and `Slots`: what a
pool's map holds is alive, and a pool of one slot has nothing alive that its map does not
hold, so it has one execution at most. On it `FencedInv` is inductive: an execution that the
fence of a row admits is that of the row's current delivery. `ReportInv` adds that the
statement an execution sends fits what its handler came to (`Consistent`), and that a cancellation
it heard of stands in its row for as long as it owns the row (`CancelIsReal`). Outcomes
(`OutcomeInv`) and handlers that nobody disturbed (`HeldInv`) follow from these. The steps are
seen from one delivery: `DeliverySteps` says that a step is the claim that begins it, a
claim of its job that supersedes it, or neither, and `Fate` what the last kind does to the
row: an administrative statement, a reap that marks the delivery, or a report that passed
the fence. Each property so has a few cases and not one per action.

Here, too, one fact carries the argument: every step that is not a claim keeps the
counters and the owner of each row or replays it (`QuietRows`), and neither begins
an execution nor moves one to another process (`QuietExecutions`).

`ClientProofs` proves for all sets of producers, operators and keys and all batches:

* `ClientTypeCorrect`: `ClientSpec => []ClientTypeOK`.
* `KeysAreUnique`: `ClientSpec => []OneJobPerKey`. The invariant adds that ids beyond
  the sequence have never been used. Only an insert and a replay make a row begin to
  hold a key (`Releases` describes the other steps), and each gets a lemma.
* `CancellationIsFinal`: `ClientSpec => []CancelledJobNeverRuns`, since nothing brings
  back a cancelled or deleted row (`OverStaysOver`).
* `AnswersAreTrue`: `ClientSpec => []AnswersNameTheirJob`. A producer concludes from rows it
  has inserted and from reads made later, while others insert, replay, run and delete.
  `AnswerInv` says what is certain at each await (`CallInv`): a call that looks for the
  holder of a key has inserted nothing, and while a batch is mapped the rows that went
  in are known by position, carry the keys of their items, and include every item
  without a key if the batch is `Mappable` (`Placed`). Everything that
  happens elsewhere leaves that alone, because ids are never used again and rows keep their
  keys (`OtherCallsStand`). `UnkeyedByPosition` is the argument for matching by position: two
  counts of items without a key are equal only for the same item.

`SchedulerProofs` proves for all schedules, instances and cron expressions, under
`SchedulerAssumptions` (no clock lags by more than an hour, no management call takes
longer):

* `SchedulerTypeCorrect`, `AtMostOnce` and `FiresOnTime`: the three invariants of the
  run. `SchedulerInv` adds that every planned time is an occurrence or a deferral made
  after the last one (`Planned`), and that an occurrence whose job is gone lies behind
  its schedule and behind everything that ticks are about to write (`Past`). The lag
  matters: an instance further behind would see an occurrence where a deferral was
  made, and fire at the made-up time.

`WorkerPoolProofs` proves for all finite sets of jobs, all queues, slot counts and batch
sizes:

* `PoolTypeCorrect`, `SlotsSuffice` (`PoolWithinConcurrency`) and `DrainStrandsNothing`
  (`NothingStranded`). The inductive invariant `PoolInv` adds that the limit of a claim
  under way and the handlers in flight fit into the slots together (`WithinSlots`), that a
  held row is known to a handler, to the loop or to its lease (`HeldIsKnown`), and what each stage
  of `stop()` has ensured (`Drained`): after the first the loop has ended, and during the
  releases a held row is one that is still to be visited. `NextQueueFacts` is what all steps
  of the loop share: wherever it goes next is within the slots.

`RetentionProofs` proves for all jobs, instances, windows, clocks and batch sizes:

* `RetentionTypeCorrect` and `HistoryIsKept` (`ArchivedExactlyOnce`), from `RetentionInv`, which has the archive as a set with one row per job
  in place of the cardinality. A prune is the one step that matters, also when it
  fails after its commit (`PruneKeeps`).
* `PartitionsInTime` (`PartitionAtHand`), under the hypothesis that the length of a pass and the lag
  of a clock together stay within a month. `PartitionInv` says which partitions a pass has
  created and when it began; `AdjacentMonths` is the arithmetic.

`StartupProofs` proves for all finite sets of processes and all releases without gaps
(`BuildsHaveNoGaps`), whatever their texts, environments, outages and kills:

* `StartupTypeCorrect`, `MigrationsInOrder`, `ServesOnlyMigrated` and `SuccessIsReal`.
  `StartupInv` adds that the applied versions are closed downwards (`SchemaOK`) and what a
  process knows at each point (`ProcOK`): while it migrates, the database has its text of every
  migration that is not pending. Applied migrations are never taken back, so what a process
  knew stays true (`GrowthKeeps`). `CurrentMeansComplete` is why the comparison of the newest versions
  in `assertSchemaCurrent` suffices, and needs the assumption on gaps. `Extremes` gives the
  largest and smallest element of a finite set from the well-foundedness of strict subsets.
* `DelaysAreOrderly`: `StartupSpec => []DelaysWithinCeiling`. Whoever is past the start has an
  accepted environment (`ConfigInv`), and every accepted environment has an orderly
  schedule (`AcceptedIsOrderly`), from the ranges that `loadConfig` checks, for every attempt
  and every `MaxFinite`. `Growth` is a recursive function; that it exists, is unique and unfolds
  (`PowersExist`, `PowersAreUnique`, `GrowthUnfolds`) is shown by least counterexamples, since the
  induction rule itself cannot be instantiated here. A saturated product is monotonic
  (`TimesIsMonotonic`), and the product with an initial delay of zero, which turns into NaN
  where the growth overflows, goes from zero straight to the ceiling (`BaseDelays`).

`ServerProofs` proves for all keys, requests, connections and limits:

* `ServerTypeCorrect`, `AnswersAreHonest` (`AnswerTellsEffect`), `RevocationHolds`
  (`RevokedKeyIsRefused`), `StreamsAreFed` (`OpenStreamIsFed`) and `ShutdownIsPolite`
  (`ShutdownFailsNobody`). `ServerInv` says per connection what its handler knows at each
  await (`Consistent`), what it has done (`Honest`), how far a stale key comes (`Refused`)
  and that no statement of a waiting caller met the closed pool (`Excused`); and
  across connections that streams and subscribers are the same set and that the database is closed only when
  every client has gone (`ClientsFirst`). The answers rest on a lemma about the handlers alone
  (`HandlersAreSound`): on every path through each of them, an audit entry comes after a change, an
  answer of success after the entry if there is one, and an error after a change only where
  `AnswerTellsEffect` allows it.

Model-checked only: liveness, because fairness is beyond the prover (`EveryJobSettles`,
`DueScheduleMovesOn`, `ReadyJobIsClaimed`, `DrainEnds`, `BacklogDrains`, `DeploymentConverges`,
`RequestIsAnswered`, `ShutdownEnds`), and the counterexamples of the three runs that expect one.
Every invariant of a passing run is a theorem, those of `queue` about stale executions and slots under the
condition above, which the run satisfies.

## What is not modelled

* Job and schedule data: payloads, metadata, tracing, displayed columns (last_run_at,
  last_job_id), error texts, and priorities beyond the claim order.
* Reads that change nothing (listings, counts, lag, table health) beyond the request that makes
  them, and the cache of queue defaults in the client, whose values only fill in the limits of a
  new row.
* The read that `replay` and `retryNow` end with is in Server and not in Client, whose properties it
  does not touch.
* API: creating and listing keys, the update of `last_used_at` that nobody awaits, the timer
  of the gauges, `/metrics`, `/docs`, `/openapi.json` and unknown paths. The two reads of
  `/ready` are one query. A broadcast takes the snapshot it was given; the queries of two
  ticks may overlap, and the older answer may then be published last. The close listener of
  a stream is taken to fire when its client departs; that the request itself may have
  closed before, as that of a GET with a body whose reading has ended (`events.ts:75`), is not considered.
* Listener: `assertSafeChannel` refuses a queue name that is not a channel name, so a
  name over 63 bytes, which the API's schema and the client allow up to 128 characters, would
  keep the listener in its reconnect loop; the poll timer still finds its jobs. An `end` or
  `error` event of a connection that never came up settles a promise nobody awaits yet
  (`listener.ts:99`).
* Embedded runtime: one without a registry, `skipSchemaCheck`, and two calls of `stop()`
  at once, where the second one closes the connections under the drain of the first
  (`index.ts:296`). The kinds `runtime` and `status` of Startup share their steps with
  the worker and the server and are not instantiated in the run.
* The handler registry (a map that is filled once), logging and metrics, the OpenAPI
  document, the command line tools, the dashboard and the benchmarks. `PROJECT.json` lists each
  with its reason.

## Plan

Done: JobTable, JobQueue and the refinement of JobLifecycle; Client; Scheduler;
WorkerPool; Retention; Config, Backoff and Startup; Server; the invariants of each as
theorems. Left:

1. WorkerPool composed with JobQueue: the loop, the wakes and the drain of a pool whose leases
   expire under its handlers.
2. The cache of queue defaults beside pause and configuration changes; creation of API keys.
