# A verification project for the distributed runtime

The repository is an asyncio runtime over PostgreSQL and Pub/Sub. It runs two kinds of product code:
*finite* workloads (a run is planned into units, each unit is executed with retries until it is settled,
the run gets a verdict) and *continuous* workloads (a deployment has partitions, each leased to one worker
that runs a task for it until the lease is taken away). All coordination goes through rows of one database:
conditional updates, a claim token per unit, a fencing token per partition, an outbox for messages.
Paths below are relative to `src/src/distributed_runtime/` unless they start with `docs/` or `tests/`.

The project states what that coordination promises, checks it with TLC on small instances, and proves the
central part with TLAPS for any number of units, workers and partitions. It also covers what stands beside the
database: the migrations of its schema, the lifecycle module and the two in-memory test kits products test with.

## 1. The system

| Component | State it keeps | Operations | Talks to |
|---|---|---|---|
| Finite state store (`state/finite.py`) | `finite_runs`, `finite_plan_units`, `finite_units`, `finite_attempts` | submit, cancel (transition), plan, claim (poll, wake-up), complete attempt, dead-letter, finalize | everybody on the finite side |
| Finite worker (`worker/finite.py`, `worker/retry.py`) | a batch of claims, the one it executes | poll, handle wake-up, run handler, record outcome | store, Pub/Sub |
| Planner (`control/planner.py`, `finite/contracts.py`) | the run it is planning | list pending, plan, store the plan and its wake-ups in one transaction | store, outbox |
| Client (`control/client.py`) | none | submit, wait, cancel, results | store |
| Outbox and dispatcher (`state/outbox.py`, `control/dispatcher.py`) | `outbox_messages` | insert (dedup), pending, published, failed; wake-ups of due retries | Pub/Sub |
| Pub/Sub transport (`gcp/pubsub.py`, `deploy/service.py`) | messages under way | publish, stream, acknowledge, refuse | dispatcher, finite worker |
| Lease store (`state/continuous.py`) | `continuous_deployments`, `continuous_partitions` | sync, acquire, renew, release, set status, emit, checkpoint | outbox |
| Continuous supervisor (`worker/continuous.py`) | the tasks it tracks, the rows its tick has read | tick (reap, start, renew), stop_all | lease store |
| Reconciler (`control/reconciler.py`) | the snapshot of its pass | one pass: dead workers, sync, assign | lease store, worker registry |
| Deployment admin (`control/admin.py`) | the rows its drain has read | deploy, drain, stop | lease store |
| Worker registry (`state/workers.py`) | `worker_instances` | register, heartbeat, mark stale dead, list active | |
| Service loops (`deploy/service.py`) | what is left of a pass | `_forever` around each loop; passes over runs and deployments | all |
| Lifecycle (`core/lifecycle.py`) | deadlines, cancellation scopes, shutdown phase | derive, cancel; begin, poll, stop | test kits, tasks; the runtime itself uses only the clock and the cancellation source |
| Schema migrations (`state/migrations.py`, `state/engine.py`) | the table of versions, the schema, an advisory lock | migrate | database |
| Finite test kit (`testing/finite.py`) | runs, units, records, in memory | submit, step, run, redeliver, cancel | product handlers, lifecycle |
| Continuous test kit (`testing/continuous.py`) | deployments, fake leases, tasks, records, in memory | reconcile, tick, expire a lease, drain, emit | product handlers, lifecycle |
| Configuration and connection capacity (`core/config.py`), registry (`registry.py`) | read only after start-up | validate, look up | |
| Values, HTTP API, object storage, infrastructure | no coordination state | | |

What is hard about it:

* **Interleaving of transactions.** READ COMMITTED, every store call is its own transaction, and processes
  go on with what an earlier one returned: the finalizer counts in one statement and writes the verdict in
  another, a tick starts partitions from rows it read earlier, a reconcile pass grants leases from a snapshot.
* **Stale actors.** An executor whose claim was requeued, a supervisor whose lease has expired, a task that
  was cancelled and forgotten without being awaited all go on; only tokens in WHERE clauses stop them.
* **Failure between two steps.** A permanent failure is two transactions, a drain is one per partition, a
  polled batch is executed unit by unit.
* **Passes that end early.** A planning, supervising or reconciling pass takes what it listed one by one; an
  exception for one ends it for all behind it, and the next pass meets the same one again.
* **Handlers that outlive their unit.** In the kits a test cancels, redelivers, expires and reconciles while
  handlers wait; nothing awaits a handler that was told to stop.
* **Liveness.** Nothing but a worker settling a unit finalizes a run; nothing but a reconcile pass gives a
  partition a new owner, and only when acquisition and the pass agree that it needs one.

`PROJECT.json` lists every such hazard at its line with the properties that cover it.

### What makes each component correct

* Store and worker, finite: the current claim token singles out one executor; a settled unit is never
  changed by a late one; history and status agree; a verdict is the one the units call for; executions are
  bounded; without crashes every unit settles and every run with units concludes.
* Lease store: a tenure (owner and token) is never repeated; owner and expiry go together; messages are
  written under the highest token only.
* Supervisor, reconciler, admin: at most one task of a partition may write; a forgotten task can never write
  again; no supervisor runs a partition twice; every discovered partition of an active deployment is served
  again after a failure; nothing of a stopped deployment runs on.
* Outbox and dispatcher: no state without its message and no message without its state; a row marked published
  was sent; no message that can never be sent holds up another; a wake-up is not used up while its unit waits.
* Planner and service loops: what is stored of a plan is one plan, whole, although two planners of a run may
  disagree; what is not behind something that always raises is reached.
* Migrations: the table of versions tells exactly what the schema has; a call that returns has its release
  applied; no call waits for a dead one.
* Lifecycle and kits: cancellation reaches the invocations of the run and no others; every invocation is
  accounted for and comes to one recorded end; an outcome stands; nothing starts in a cancelled run, and at most one late
  answer moves a cancelled unit; a lease that is alive is served; every handler left behind was told to stop; a sink records
  an event once.

## 2. The modules

| Module | Role |
|---|---|
| `RunLedger` | abstract: units are tried and settle once, runs are concluded justly, a client may overrule |
| `FiniteExecution` | finite tables, planners, poll loops, Pub/Sub consumers, client; one action per transaction or statement |
| `FiniteProperties` | its properties, the inductive invariant, the mapping to `RunLedger`, a claim of the docs it refutes |
| `FiniteProofs` | the proofs, refinement included |
| `FencedLog` | abstract: a partition goes through epochs with one holder each; only the latest epoch writes |
| `PartitionLease` | `continuous_partitions` and its outbox rows under *any* caller; its properties; the mapping to `FencedLog` |
| `LeaseProofs` | the proofs |
| `ContinuousRuntime` | composes `PartitionLease` with workers, supervisors and tasks, reconcilers, discovery and operators |
| `ContinuousProperties` | its properties, among them that it implements `PartitionLease`'s specification |
| `ContinuousProofs` | the proofs |
| `UnitCalls` | abstract: a unit that waits has one call, which is made or given up and stays under way until the unit is claimed |
| `UnitDispatch` | outbox rows of wake-ups and emissions, dispatchers, Pub/Sub, the loops of consumers; its properties; the mapping to `UnitCalls` |
| `DispatchProofs` | the proofs |
| `PlanBook` | abstract: a run is planned at most once, in one step that stores one output whole and lets the run begin |
| `ServiceLoops` | planning passes over several runs, visiting passes over several deployments; its properties; the mapping to `PlanBook` |
| `ServiceLoopsProofs` | the proofs |
| `SchemaUpgrade` | abstract: a call brings the schema to its release in one step, or changes nothing |
| `SchemaMigrations` | `migrate` under its lock, called by several releases at once; its properties; the mapping to `SchemaUpgrade` |
| `MigrationProofs` | the proofs |
| `Lifecycle` | clock, deadlines, cancellation scopes, graceful shutdown; no specification of its own |
| `TrialLog` | abstract: numbered trials of a unit, each with one end, those that count one after the other until one gives the unit its outcome |
| `FiniteKit` | composes `Lifecycle` with the finite test kit and the product code that uses both; its properties; the mapping to `TrialLog` |
| `FiniteKitProofs` | the proofs |
| `ContinuousKit` | the continuous test kit, its fake leases, handlers and sinks; its properties |
| `ContinuousKitProofs` | the proofs |
| `MC...` | instances for TLC |

Operators named `Mut...` are plausible bugs, kept beside the definition they distort and used by none. For
every property of every passing run there is one that breaks it, listed in `PROJECT.json`.

### FiniteExecution and the code

`run`, `status`, `token`, `attempts`, `claimedBy`, `expiry`, `nextAt` and `rows` are the columns; `pc`, `batch`,
`cur`, `outcome`, `deadSeen` and `planning` what a process remembers between two transactions.

* `ClaimUnits` and `ClaimUnit` are `claim_units` (poll, `SKIP LOCKED`, limit) and `claim_unit` (wake-up).
  A wake-up may arrive at any time, which is all that is assumed of Pub/Sub.
* `StartHandler`, `HandlerEnds`, `CompleteAttempt`/`CompleteRejected`, `DeadLetter`, `CountUnits`,
  `WriteVerdict` are `execute_claimed` with `_record_failure` and `finalize_run_if_done`. The handler's
  outcome is any the classification can return; `RetriesExhausted` decides as `_record_failure` does.
* `PersistPlan` stores the units whatever has become of the run, as the code does.
* `ExecutorAborts` is a crash or a store error at any point: the process forgets what it held, the rows stay.
  It also stands for the exception of one unit that drops the rest of a polled batch.
* `Requeue` is what the integration tests do by hand to stand for the recovery of a crashed worker's unit
  (`tests/integration/state/test_finite_store.py`); nothing in the runtime does it.
* Time is what the guards see of it: an expiry is `none`, `live` or `lapsed`, a retry `none`, `later` or `due`.

### PartitionLease and ContinuousRuntime and the code

`pstatus`, `owner`, `token`, `lease` are the partition row, `outbox` the fencing token of each outbox row.
Every statement of the store is an operator on them, guarded by its WHERE clause. `LeaseNext` lets anybody
issue any of them with any owner and token, so what is shown for `LeaseSpec` needs no assumption on callers.

`ContinuousRuntime` then has the callers as they are. Every SQL statement of a tick, a pass or an order is an
action; `sup`, `mine`, `todo` are the loop of a supervisor with the rows its tick read, `rec` to `given` that
of a pass, `adm`, `goal`, `toRelease` that of an operator. A task is `running`, `told` (its cancellation token
is set), `dropped` (cancelled and removed from the supervisor's map; it may go on emitting) or `done`.

* `TickRead` reads the rows and reaps, which happens without an await in between; `StartPartition` creates the
  task and writes the status; `Renew` is `renew_lease`, whose refusal tells the task to stop.
* `ListDeployments`/`StopDone` are `supervise` with `stop_all`.
* `Discover`, `GetDeployment`, `MarkStaleDead`, `Sync`, `ListWorkers`, `Assign` are one reconcile pass.
  `late` in `ListWorkers` stands for leases whose expiry, read with the rows, passes before the pass compares
  it with its own clock, or which that clock takes for past.
* `Drain`, `ReadOwned`, `Release`, `Released` are `drain` and `stop`; `AdminAborts` is their failure halfway.

Simplifications. `sync_partitions` is one step: its upserts hold the row locks of the discovered partitions
until it commits and its update re-evaluates the others. A pass assigns pending partitions in any order and
breaks ties of load anyhow, where the code goes by id. There is one deployment, and a crashed process comes
back under its own name or not at all. Retention of the first envelope by `insert_outbox` is not modelled,
only its token.

### UnitDispatch and the code

`row` is `outbox_messages.status`, `place` the order of `outbox_id`; `dpc`, `batch`, `hand` are a dispatcher between two
statements of its cycle, `epc`, `held`, `cur` a consumer or poller; `wire` counts the copies of a wake-up that Pub/Sub
has yet to deliver, `sent` how often it accepted a message. `Wakeups` are the dedup keys of unit messages: a unit and
the number of attempts it had when the message was stored.

* `StorePlan`, `Emit`, `EnqueueDueRetries` insert rows in the transaction of the state change (`insert_outbox`).
* `ReadPending`, `Send`/`SendFails`, `MarkPublished`/`MarkFailed` are `dispatch`; no row is locked in between, so two
  dispatchers may hold the same rows, and the later mark wins. `SendFails` includes the time-out of a publish that
  Pub/Sub has accepted.
* `Receive`, `HandleWakeup`, `Complete`, `Ack`, `ExecutorAborts` are the stream of `_consume_dispatches`; `Poll` is a poll
  loop, one unit at a time.

Simplifications. Units are seen as wake-ups see them: all final statuses, and `failed`, are `settled`; the statements
of `execute_claimed` are one action, and claims of crashed workers stay (`FiniteExecution` has the rest). The retries
found due are stored at once, where the code reads them and stores them in one transaction under READ COMMITTED: a
claim in between is the same as one after, as claims read no rows. `outbox_id` follows the order of commits. The limit of
500 retries per cycle is left out. Emissions are not delivered to anybody. Pub/Sub's dead-letter policy, which
gives up after ten deliveries (`terraform/modules/pubsub`), is left out, and a consumer process that ends is
started again by its platform.

### ServiceLoops and the code

`todo` is what is left of the list a pass took, in the order the query returned it; `output` the plan a planner holds
between running the product's planner and storing it.

* `ListPending`, `RunPlanner`, `Persist` are `plan_pending`, `PlannerRunner.plan` with `validate_plan`, and the transaction
  of `_persist`. `Conflict` is the primary key of `finite_plan_units`: an empty plan stores no row and conflicts with
  nothing. The check that the run was plannable comes after the commit and ends the pass.
* `ListDeployments` and `Visit` are `reconcile_deployments` and the supervision loop, whose visits to one deployment are
  `ContinuousRuntime`. `Broken` are deployments for which a visit always raises, `Hopeless` runs whose planner always
  raises or always repeats a key.
* `LeftOver` and `Raise` are the `except` of `_forever`; `Fault` is a crash or store error anywhere.

`FiniteExecution` has one run and executes its plan; here several runs are planned and nothing is executed. A missing
registry entry is a planner that raises. Runs are numbered by `created_at` and `run_id`, the order of the query.

### SchemaMigrations and the code

`records` is the table of versions with checksums, `schema` the scripts whose effect is committed, in the order they ran;
`work` and `rows` are the open transaction of a call. A release is a function from versions to checksums; releases may
differ in what they have and in what a version contains.

* `Migrate`, `TakeLock` are the advisory lock, which belongs to the one transaction of the call and goes with it (`Unlock`).
* `Accept`/`Refuse` are the comparison of checksums, `Execute` and `RecordVersion` one script and its row, `Commit` the end.
* `Fail` is a crash or an error anywhere; the whole transaction is rolled back. A call may be made again.

### Lifecycle, FiniteKit and the code

`Lifecycle` has `now`, `expires` (deadlines), `line` (a scope with its ancestors), `stopped`, `phase` and `graceEnd`. A scope is
cancelled when it or an ancestor is, or its deadline has passed; a child's deadline is never later than its parent's.

* `Submit`, `Step`, `Redeliver`, `CancelRun` are the kit's methods up to the handler's await; `HandlerEnds`, `HandlerFails`,
  `StepCancelled` what follows it. A test may overlap them, so the handler of a unit that was cancelled or
  redelivered meanwhile answers late. Its answer is recorded, and takes a cancelled unit back to `retry_scheduled` or
  on to `succeeded`; the answer of a redelivery changes only its record (`Keeps`). `CancellationStands` says how far that goes:
  the answer is that of the one invocation under way when the run was cancelled, and no handler is started after it, so a
  retry it asks for ends as `cancelled` when a step takes it up.
* A step whose task is cancelled leaves the unit `running` with no record (`lost`). Redeliveries count as attempts.
* Retries: the kit waits `retry_after` alone when there is one, where the worker takes the larger of it and its backoff.
* `ProductStep` is what handlers and tests do with the lifecycle module directly: derive scopes, cancel them, shut down.
  `GracefulShutdown` is exported and not used by the runtime; its actions are there and no property is claimed of them, as
  nothing but the test that calls them hangs on its scope.

### ContinuousKit and the code

`leased`, `left`, `issued` are the fake lease manager, `status`, `handle`, `task` the kit's partitions, `told` the cancelled
scopes, `handler` what has become of each started task, `seen`, `writing`, `records` the sinks. The kit makes one `RecordingSink` per
sink name, each with a `_seen` of its own, over one list of records: a member of `Events` is a stable id at one sink, and
`RecordedOnce` holds per sink; an id emitted to two sinks is recorded once by each.

* `Reconcile` is the whole method, in the order of partitions, with the early end an acquire that raises would be.
* `Tick` is the clock, `_harvest`, the renewals, the starts and the losses of one turn of `run_for`; `Advance` the clock alone.
* `ExpireLease`, `Drain`, `HandlerEnds` are themselves; `Emit` and `EmitEnds` are the two sides of the delegate's await.

What the model shows of the code besides its properties: the lease is not looked at again after the delegate's await, so
the tokens in the records of a partition may go backward; an event is marked before the delegate is called, so one
whose delegate raises is lost and a second try returns silently; the leases of a drained deployment are neither renewed nor
released until their tasks end or they expire. Deployments of a kit share only the clock and the token counter, so one is
modelled; handles are named by partition and rank; which instance owns a partition is left out.

## 3. The runs

| Run | Instance and bounds | Shows |
|---|---|---|
| `FiniteSafety` | 1 run, 2 units (2 and 1 attempts), a poller and a consumer, 2 planners, poll limit 2, 1 abort, 1 requeue | `TypeOK`, `ClaimedByHolder`, `AttemptsAgree`, `VerdictIsJust`, `AttemptsBounded`, `NothingStranded`, `SettledForever`, `ImplementsLedger` |
| `FiniteLiveness` | 1 run, 2 units, 1 poller, 1 consumer, 1 planner, no abort, fair loops | `UnitsSettle`, `RunsConclude` |
| `LeaseStore` | 2 partitions, 2 workers, 1 event, 1 checkpoint, 3 tokens | `TenuresDistinct`, `FencedWrites`, `ImplementsFencedLog` |
| `ContinuousFailover` | 1 partition, 2 workers, 3 tokens; 1 deploy and 2 of: surprise, abort, order | `OneWriter`, `DroppedAreFenced` |
| `ContinuousOverlap` | 2 partitions, 1 worker, 2 tokens, 2 passes at once; 1 deploy, 1 change of discovery | `StatusTellsOwner`, `OneTrackedTask`, `ImplementsLeaseStore` |
| `ContinuousLiveness` | 1 partition, 2 workers, 5 tokens; 1 deploy and 1 of: surprise, abort, order; 1 unnoticed lapse; fair loops | `ActivePartitionsServed`, `StaleTasksStop`, `StoppedIsQuiet` |
| `UnitDispatch` | 1 unit with 2 attempts, 1 emission that cannot be sent, 2 dispatchers of batches of 1, 1 consumer, 1 poller, 1 trouble; fair loops | `RowsTellState`, `NoWakeupWasted`, `SentSparingly`, `WaitingUnitsWoken`, `PendingIsDecided`, `ImplementsCalls` |
| `ServiceLoops` | 2 runs, the first hopeless, the second with three possible plans, 2 planners; 2 deployments, the first broken, 2 loops; 1 fault; fair loops | `ImplementsPlanBook`, `PlannableRunsPlanned`, `DeploymentsVisited` |
| `Migrations` | 3 releases of 2, 3 and 2 scripts at once, the last with a script edited after its release; 2 failures; fair calls | `SchemaIsRecorded`, `CallsEnd`, `ImplementsUpgrade` |
| `FiniteKit` | 2 runs with 2 and no units, 2 attempts and 2 invocations each, one scope of the product, a shutdown, time to 1 | `CallsHearTheirRun`, `ImplementsTrials`, `OutcomesStand`, `CancellationStands` |
| `ContinuousKit` | 2 partitions, 2 handles each, 1 event at 1 sink, leases of 3 seconds | `LiveLeaseServed`, `StopSignalsReach`, `RecordedOnce` |

`OwnerHasLease`, `PublishedWasSent`, `ReturnedIsApplied`, `PlansWhole` and `AttemptsAccounted` are parts of the inductive
invariants of section 5 and proved for all constants; no run repeats them, as they are either steps on the way to what a run
checks or part of what an abstract specification says.

A *trouble* is a failed send, a crash or store error of a dispatcher, consumer or poller, or a redelivery that nobody
asked for; the emission that can never be sent is not counted. With one, a message is sent up to three times, or a
wake-up comes back after its unit was claimed, or `failed` overwrites `published`; batches of one put the emission before
or behind the wake-ups.

`ServiceLoops` puts what cannot be done ahead of what can, the only order in which it may hold anything up; the page
limit of two does not bind with two runs. `Migrations` has 1 255 states, enough for each release to come first, to wait, to
find the other's rows and to fail. In `FiniteKit` (1.3 million states) the second run has no units and is there to be
cancelled: that its scope reaches nobody else's invocations is what it is for. The product's own scope may hang under any
invocation. `ContinuousKit` (1.2 million states) needs leases of three seconds: a turn takes at least one, and a lease of two would
never be seen with time to spare after one turn and be lost in the next. Two handles let a handler outlive its lease
beside its successor, two partitions let one reconcile take, keep and drop. `FiniteKit` stops when its invocations are
used up, so it is not checked for deadlock.

A *surprise* is a deadline a live process misses: a renewal or heartbeat that comes late, or a pass whose
clock finds a lease expired that is not. An *abort* is a crash or store error, an *order* a deploy, drain or
stop; `MaxEvents` bounds all of them together, `MaxToken` the leases granted per partition. An
*unnoticed lapse* is a lease of a crashed process that runs out while its heartbeat still looks fresh, so that a pass takes the
partition from it and may give it back to it. With the defaults (`deploy/config.py:97-98`: leases of 60 seconds, heartbeats stale
after 120) that is the usual order after a crash, so it is no surprise and does not count against `MaxEvents`; `MaxUnnoticed`
allows one per behaviour of `ContinuousLiveness`, and the crash that must come first is the run's abort. The other two
runs allow none: in `ContinuousFailover` leases of crashed processes run out once their heartbeats are stale, and what it and
`ContinuousOverlap` check is proved for any bound. One of each is enough for a stale actor beside a new
one: a claim has to be lost once and used afterwards. Two units are enough for two executors to settle the
last units of a run at once and for a batch of more than one; three tokens let a partition go from a worker to
another and back, the shortest history in which a forgotten task and a new one of the same partition live in
one process. The bounds are in guards (`Spend`, `aborts`, `requeues`, `MaxToken`), so they cut behaviours and add
none. In the fair runs `MaxToken` is never reached: leases are granted no more often than the other bounds allow.
Symmetry is used in safety runs only. The other runs check for deadlock as well.

### Where documentation and code disagree

`FiniteLapsed` checks one statement of a runbook, and TLC finds a behaviour of the code that violates it: after a crash a
unit stays `running` with a lapsed claim for ever, with healthy pollers around it. `docs/runbooks/finite-operations.md:26` says
that another worker picks it up without manual intervention; the claim queries look at `ready` and
`retry_scheduled` only (`state/finite.py:336`, `:409`). `PROJECT.json` quotes the lines.

The models have more such behaviours and no run for each. Four need an interleaving or a crash:

| The statement | What happens |
|---|---|
| an exhausted unit is dead-lettered (`docs/runbooks/finite-operations.md:19`) | a crash between `CompleteAttempt` and `DeadLetter` leaves it `failed` for ever, and its run open |
| a run that is not plannable is not planned (`control/planner.py:165`) | `PersistPlan` commits the units of a run cancelled meanwhile, and they are executed, before the error is raised |
| no partition of a draining deployment is assigned (`docs/runbooks/continuous-operations.md:21-22`) | a pass that read the status before the drain assigns after it (`GetDeployment`, `Drain`, `Assign`) |
| a worker without the execution class gets no partition (`docs/runbooks/continuous-operations.md:35-36`) | the reconciler does not look at classes (`LeastLoaded`) |

Others take no interleaving: a cancel
overwrites a verdict (`CancelRun`; `state/finite.py:202` calls the transition forward-only); a run planned into no
unit is never concluded (`docs/concepts/finite-workloads.md:63` calls such a plan normal); an empty discovery
deactivates nothing (`Gone`; `state/continuous.py:168`); a deploy or drain overwrites `stopped` (`Activate`, `Drain`;
`control/admin.py:76` calls stop terminal); a drain does not wait for handlers (`Release`; `control/admin.py:60-61`); a message whose publish call
fails once is never sent again (`MarkFailed`; `docs/design/state-schema.md:149` and `docs/runbooks/README.md:16` promise
publication at least once): for a unit the pollers make up for it, an emission or checkpoint is lost; a run whose
planner always raises keeps all runs submitted later from being planned, and a deployment whose visit always raises
those behind it from being visited (`Raise`), which is why the properties of `ServiceLoops` except them.

## 4. Fairness

`_forever` (`deploy/service.py:39-48`) repeats each loop whatever its tick raises, which is weak fairness of the
steps of each loop: planners, pollers, heartbeats, supervisors, reconcile passes. An executor goes on with the
claim in its hands; handlers end because `asyncio.wait_for` cuts them at the unit's timeout. Claims lapse and
retries fall due because time passes; a lease nobody renews runs out; the heartbeat of a dead process goes
stale. An operator's order, once given, goes through.

In `UnitDispatch` the dispatcher loop, the consumer's stream and due retries are fair and pollers are not: wake-ups
alone suffice as long as their rows are not `failed`.

In `ServiceLoops` every planning and every visiting loop is fair, as `_forever` begins another pass whatever ended the
last. A call of `migrate` goes on while it has the lock, and PostgreSQL
grants the lock in the order in which it is asked for, hence the strong fairness of `TakeLock`. The kits have no fairness and no
liveness property: a test drives them.

Not fair: clients, wake-ups in `FiniteExecution` (Pub/Sub may deliver nothing: pollers must do), operators' wishes, failures, and the
restart of a crashed worker. Tasks of a product end only when cancelled by force (`MustEnd`): a task that has been
told to stop may ignore it. Every registered worker process is started once. `ActivePartitionsServed` therefore
claims nothing unless a server is alive. A lease whose owner ticks over the deployment runs out only as a
surprise: the code's `lease_seconds` is meant to be several ticks long. That of a crashed process runs out in any case, before or
after the heartbeat goes stale.

## 5. The proofs

tlapm proves, from the assumptions on the constants alone (`PlanAssumption`, `ProcessAssumption`,
`BoundAssumption`, `LeaseAssumption`, `RuntimeAssumption`, `DispatchAssumption`, `LoopsAssumption`,
`ReleaseAssumption`, `LifecycleAssumption`, two `KitAssumption`s). No set need be finite but that of the dispatchers
(`DispatchersFinite`), and that only to count those who are about to send a message:

**Finite side.** `FiniteInv` is inductive; its parts are proved one after the other, each from those before.

1. `ClaimInv`. That the token singles out one executor is not inductive: one needs that a held claim carries a
   token that was handed out (`ClaimsIssued`), that nobody holds two claims on a unit (`BatchDistinct`), that a
   claim the fence lets through is on an unsettled unit (`FenceOpen`) and that between `failed` and
   `dead_lettered` nobody else touches the unit (`BurialOwned`). `Requeue` keeps the token, so this is where
   a stale and a new executor could meet.
2. `HistoryInv`: a claim that passes the fence has no attempt row yet, so the row inserted before the fence is
   consulted is either new or rolled back.
3. `VerdictInv`: what an executor counted stays true until it writes. Settled units stay settled, the dead ones
   stay dead, and a plan is stored whole, so no unit appears between the count and the verdict (`CountStaysTrue`).
4. `BoundInv`: a unit waiting for a retry has an attempt left; only a requeue buys another.
5. `StrandInv`: as long as nothing is aborted, whoever made a unit `failed` is on its way to bury it, and whoever settled
   the last unit of a run is on its way to count and conclude it (`NothingStranded`). That nobody else can be meant needs
   that, without a requeue, a claim in somebody's hands is still good, and that an idle process holds none. It is the safety
   half of `RunsConclude`: a run that is left open for good takes an abort.

`SettledForeverHolds` follows from `ClaimInv`. `LedgerImplemented` maps each action to `Try`, `Settle`,
`Conclude`, `Overrule` or a stutter; `Conclude` needs `VerdictInv`, `Settle` needs `FenceOpen`.

**Lease store.** `LeaseInv` (types, `OwnerHasLease`, `WrittenInEpoch`) is inductive because tokens only grow and a
write carries the row's own token. `TenuresAreDistinct`, `WritesAreFenced` and `FencedLogImplemented` follow
step by step. Since `LeaseSpec` allows any caller, they need nothing of the callers.

**Continuous runtime.** `LeaseStoreImplemented` shows that every action is one of six statements of the store (`Statement`)
or leaves its tables alone, so the three results above hold of the runtime (`RuntimeImplementsLog`, `RuntimeIsFenced`).
`RuntimeInv` is the inductive invariant. The types alone do not do: that `Emit` and `Release` are statements with a
token of the bounds needs that every remembered token was handed out (`TokensHandedOut`, kept because tokens only grow).
`DroppedStayFenced` rests on `HoldIsOld`: nobody comes to hold a partition under a token handed out before, so a
forgotten task stays fenced. `TasksTrackedOnce` needs `NotYetStarted`: between reading the rows and starting the last
partition the tasks of a process only get fewer, but for those the tick itself starts. `OneWriterOnly` follows from
both: two writers of a partition are in one process, where one of two tasks has been forgotten.

**Dispatch.** `DispatchInv` is inductive. `PublishedWasSent` needs that a dispatcher only goes to mark what it has sent
(`RowsKnown`), `RowsTellState` that a unit that runs is nobody's to claim (`ClaimsExclusive`). `NoWakeupWasted` needs both: a
unit begins to wait, by a plan or because its retry falls due, with a wake-up whose row is still absent and that
was therefore never sent (`NotSentBefore`); from then on every step that takes a copy off the wire hands it to a
consumer, and a consumer is done with it only when the unit is claimed or was not waiting.

`SentSparingly` bounds how often a message is sent by those who picked its row up while it was pending. The bound is kept
because each of them is accounted for once (`SendsAccounted`): in a batch, in hand before the send, or after it, and a
message in hand is no longer in the batch (`PutAside`).

`CallsImplemented` maps the machinery to `UnitCalls`. The call of a waiting unit is absent, pending or failed with the row of its
wake-up, and under way from the first accepted send. It stays under way because a copy is on the wire, with a consumer
who has not decided, or in the claim itself: that is `NoWakeupWasted`. That nothing is under way which was not sent
(`WireKnown`) keeps a new call from beginning with an old copy, and a retry follows a claim (`TriedBefore`).

**Planning.** `PlansStoredWhole`: between planning and storing, the plan in a planner's hands stays acceptable in itself but
not against what is stored by then; the primary key refuses the second plan, and the empty plan changes nothing.
`PlanBookImplemented` shows that a pass over many runs with its planners, conflicts and faults comes to one step per run: what is
held was yielded for the run at the head of the page, that run was submitted (`ListedOK`; the head exists because
the least number of a set of runs does), and a run with rows has begun or was cancelled (`BegunOK`).

**Migrations.** `MigrationInv` ties the open transaction of the call with the lock to what it has read. `VersionsTellSchema` needs
that only the holder of the lock has a transaction open and that its rows are those of the scripts it has executed;
`ReturnedReleaseApplied` that rows are never taken away, and that releases extend one another (`ReleaseAssumption`): what is
recorded is made of whole releases, so whatever is missing comes after it. `UpgradeImplemented` makes one step of the whole
call, that of its commit or refusal: what it noted to be missing when it compared is what is missing when it commits
(`NotedIsWanted`), as nobody else has recorded anything in between.

**Finite kit.** `KitInv` joins the tree of scopes (an ancestor of an ancestor is one, deadlines shrink downwards) with the
kit's numbers. `CancellationReachesCalls` needs that invocations are children of their run and nobody else's scope is
above them; `InvocationsAccounted` that numbers are handed out once; `OutcomesStandForEver` that of two invocations in
the way of one unit at most one is no redelivery, and that a cancelled run stays cancelled; `CancellationHolds` from the
same two facts and from the check of the token that every invocation makes before its handler. `TrialsImplemented` puts these
together: a step takes a unit that is ready or waiting, so no counted invocation of it is open and it has no outcome, and
the answer of a counted invocation, however late, meets a unit that is running or cancelled.

**Continuous kit.** `NoAcquireRefused` and `StrandedHandlersTold` are one invariant: the manager's lease, the partition's handle
and task and the newest scope move together, so whoever is behind the newest was told. `EventsRecordedOnce`, of
each sink, rests on `seen` being marked before the await.

The type invariants and inductive invariants of all modules are proved (`TypeCorrect`, `RuntimeTypeCorrect`,
`DispatchTypeCorrect`, `MigrationTypeCorrect`, `KitTypeCorrect`, `LeaseInvHolds`, ...); of the types only those of
`FiniteExecution` are also run.

**Model-checked only.** Liveness under fairness, as tlapm handles neither fairness nor ENABLED: `UnitsSettle`, `RunsConclude`,
`ActivePartitionsServed`, `StaleTasksStop`, `StoppedIsQuiet`, `WaitingUnitsWoken`, `PendingIsDecided`, `CallsEnd`,
`PlannableRunsPlanned`, `DeploymentsVisited`. Every other property of a passing run is also a theorem. No module declares a
RECURSIVE operator, for which tlapm has no usable backend; the sum of weights uses the fold of the community modules.

## 6. Not modelled

* **Configuration and connection capacity** (`core/config.py`, `deploy/config.py`): parsing and comparing values once at start-up.
* **Registry and application**: filled at import time by one thread and only read later.
* **Contracts, envelopes, identifiers, errors, logging**: immutable values and their validation.
* **The draining mark of a worker** (`state/workers.py`, `mark_status`): nothing in the runtime calls it.
* **HTTP API and entry points**: they translate requests into calls of the client and the admin, which are modelled.
* **Object storage, infrastructure, examples, scripts**: no state that several actors share.
* **`record_plan`** (`state/finite.py`): the planner has its own transaction, which is modelled; only tests call this one.

What could be added: the continuous kit against an abstract specification of its own, as `TrialLog` is for the finite one.
Against those of the runtime they stand for the kits cannot be held: `RunLedger` lets no cancelled unit go on to succeed.
