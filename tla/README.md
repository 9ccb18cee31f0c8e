# TLA+ models of Kontroler

Kontroler runs DAGs of containers on Kubernetes. DAGs, tasks and runs are custom
resources; their progress is kept in SQL tables (Postgres or SQLite); workers turn
rows of those tables into pods and the events of the pods back into changes of the
rows. This directory models the parts of `src/controller` where several processes,
goroutines and pods meet on that shared state.

| file | contents | source |
| --- | --- | --- |
| `TaskClaims`, `TaskClaims_proofs`, `MCTaskClaims` | claiming of task runs under leases, pod creation, crashes, retries | `workers.go`, the claim queries of both managers |
| `DagRunProgress`, `DagRunProgress_proofs`, `DagRunEnd_proofs`, `MCDagRunProgress` | one run of a DAG from its first task to its completion | `workers.go`, `postgresDAGManager.go` |
| `DagCatalogue`, `DagCatalogue_proofs`, `MCDagCatalogue` | versions of DAGs and DagTasks, finalizers, scheduler, start of runs | `dag_controller.go`, `dagtask_controller.go`, `dagScheduler.go`, `dagrun_controller.go`, both managers |
| `DagValidation`, `DagValidation_proofs`, `MCDagValidation` | the DSL, the validators, and a walk through every accepted DAG | `dag_types.go`, `dagdsl`, both managers |
| `RunLifecycle`, `RunLifecycle_proofs` | a DagRun object, its rows, pods, PVC and logs, until all of them are gone | `dagrun_controller.go`, `orphan_reconciler.go`, `internal/object` |
| `PodStatus`, `PodStatus_proofs` | from the phases of a pod to `Task_Pods` and to the webhook | `podEventHandler.go`, `eventHandler.go`, `workers.go`, `webhook.go` |
| `PodEventQueue`, `PodEventFifo`, `PodEventQueue_proofs` | the two queues of pod events, and the FIFO they implement | `internal/queue` |
| `*.cfg` | one per run | |
| `PROJECT.json` | components, runs, mutants, source lines of each definition, hazards, findings, theorems | |

Run a check with `tlc -config claims_postgres.cfg MCTaskClaims`, a proof with
`tlapm PodEventQueue_proofs.tla`.

How the modules meet: `DagValidation` says which DAGs the reconciler of `DagCatalogue`
stores; `DagCatalogue` ends with the first rows of a run, from which `DagRunProgress`
goes on; each of those rows becomes a pod as in `TaskClaims`; the phases of the pod reach
the handlers as in `PodStatus`, through a queue as in `PodEventQueue`; `RunLifecycle` is
the frame around all of it. A step that one module shows in detail is one action, named
in a comment, of the others.

## 1. Inventory

All paths are below `src/controller` unless they start elsewhere.

**Database managers** (`internal/db`). State: the tables `DAGs`, `DAG_Tasks`,
`Tasks`, `Dependencies`, `DAG_Runs` (status and the counters `successfulCount`,
`failedCount`, `suspendedCount`), `Task_Runs` (status, attempts, `claimed_by`,
`lease_expires_at`), `Task_Pods`. Operations: claiming (`ClaimTasks`,
`ClaimTaskByID`, `RenewLease`, `FinalizeClaimToRunning`), progress
(`AddPendingTaskRun`, `MarkSuccessAndGetNextTasks`, `MarkTaskAsFailed`,
`MarkConnectingTasksAsSuspended`, `IncrementAttempts`, `ShouldRerun`,
`CheckIfAllTasksDone`), runs (`CreateDAGRun`, `SuspendDagRun`, `DeleteDagRun`),
scheduling (`GetDAGsToStartAndUpdate`), versions of DAGs and tasks, `MarkPodStatus`.
Two implementations of one interface, which differ in what they lock and check.
Every other component meets the others here.

**Worker** (`internal/workers/workers.go`). State: the counter `inFlight`, one
goroutine per claimed row with a lease ticker, and the step its event loop has
reached. Operations: `claimPoller` and `processClaim`; the event loop with
`handleSuccessfulTaskRun`, `handleFailedTaskRun`, `handleConfigError`,
`retryFailedTask`, `handleUnretryablePod`, `checkIfDagRunIsComplete`. It should
give each row one pod that counts, lose no row when a worker dies, and lead each
run to an outcome.

**Task allocator** (`internal/workers`). Builds pods and calls the Kubernetes API.
It is one step of the worker that succeeds or fails.

**Watchers and queues** (`internal/dag/*Watcher.go`,
`internal/workers/*Handler.go`, `internal/queue`). Pod
updates and Warning events are pushed to the queue chosen by the hash of the pod's
name and namespace, so that one event loop handles all events of a pod. Updates that
keep the phase are dropped, Warning events and the listing after a restart push the
same phase again. Queues: a slice with a head index, compaction and a notify channel
of capacity one; or Pebble with durable head and tail counters. A queue should be
first-in first-out, wake its reader and, when durable, survive restarts.

**DAG scheduler** (`internal/dag`). A ticker asks for due DAGs, advances
`nexttime` and creates DagRun objects. A due DAG should start once.

**Reconcilers** (`internal/controller`). DagRun: finalizer, PVC, `CreateDAGRun`
(idempotent by name), starting tasks, status; on deletion suspends the run, deletes
pods, rows, logs and PVC. DAG and DagTask: versions, hashes, finalizers. Orphans:
every minute deletes pods older than five minutes whose row has ended or is missing.
WorkerPool: Deployments (not registered by `main.go`).

**Log store** (`internal/object`). Fetches the logs of ended pods one at a time,
then removes the finalizer `kontroler/logcollection`; deletes the logs of deleted
runs.

**Webhook notifier** (`internal/webhook`). A channel of ten between event loops and
one sender.

**DAG validation and DSL** (`api/v1alpha1/dag_types.go`, `internal/dagdsl`). Pure checks
of graphs and text.

**Server, UI, charts, migrations** (`internal/server`, `src/ui`, `src/helm`,
`internal/db/migrations`). Readers of
the tables, wiring and assets.

### What is hard here

- Two pollers, or a poller and a retry, claim one row; a lease runs out while the
  pod is being created; a worker dies in between.
- A pod may end before the worker that created it has said that it runs.
- Two tasks of one run end at once in two event loops: exactly one loop must start
  the common successor, and exactly one must notice the end of the run.
- An event is handled twice or never: Warning events, restarts, crashes between
  `deletePod` and the database transaction.
- Three counters, moved by different handlers, decide that a run is complete.
- Statements outside a transaction: `MarkConnectingTasksAsSuspended` and
  `allocateNextTasks` act on what was read before.

`PROJECT.json` has the list of hazards with their lines and the properties for them.

## 2. TaskClaims

A row of `Task_Runs` is `status`, `claimedBy` and `lease`. `routine` holds the
`processClaim` goroutines: idle, `claimed` (before the pod) or `allocated` (before
the claim is finalized), and whether their ticker still renews. `podRow` is the
annotation `kontroler/task-rid`, `podPhase` what Kubernetes says. Each action is one
SQL statement or transaction, or one call of the Kubernetes API, so that workers
interleave everywhere the code lets them. `Backend` chooses the condition of
`ClaimTasks`: Postgres looks at the claim and the lease, SQLite at the status only. It
also chooses the outcome of `GetTaskForRun`, which `processClaim` calls before it creates
the pod: with SQLite it fails for every row, because JSON text is scanned into a
`[]string`.

| action | code |
| --- | --- |
| `AddPendingTaskRun` | `AddPendingTaskRun` of a manager |
| `ClaimTasks` | a tick of `claimPoller` with `ClaimTasks` and the start of the goroutines |
| `RenewLease`, `RenewLeaseFails` | the ticker in `processClaim` |
| `AllocateTask`, `AllocateTaskFails` | `processClaim` up to the creation of the pod |
| `FinalizeClaimToRunning`, `FinalizeClaimFails` | the end of `processClaim`, with the best-effort deletion of the pod |
| `PodFinishes` | Kubernetes |
| `HandleSucceeded`, `HandleFailedFinally`, `HandleFailedRetry` | the event handlers, as far as they touch rows |
| `ClaimTaskByID`, `ClaimTaskByIDFails` | the rest of `retryFailedTask` |
| `LeaseExpires` | time passing `lease_expires_at` |
| `Crash` | the end of a process; a restarted one has fresh worker ids |

Time is not a number. A live lease may expire at any step, which covers slow calls
and paused processes; it counts as a fault only when somebody was renewing it. The
histories `adopted` and `expiredOnce` exist for the properties and influence nothing.
`RecoverExpiredLeases` is not modelled: nothing calls it.

| run | shows |
| --- | --- |
| `claims_postgres` | at most one pod per row is adopted, a `running` row has such a pod, a second pod for a row needs a lease that has expired, and `inFlight` is exact and bounded |
| `claims_liveness` | a pending row does not stay pending, whatever crashes or claims are lost |
| `claims_sqlite_start` | *violation*: with SQLite no pending row is ever started |

The condition of SQLite's `ClaimTasks` would let a second worker take a row whose lease
is live. Since `GetTaskForRun` fails first, no pod of such a row exists; a run about it
would say nothing.

**Bounds.** `claims_postgres` has two workers, two rows, two goroutines, two pods and
`MaxConcurrentClaims = 1`: enough for a poller against a poller, against a retry and
against a row it has lost, and for two pods of one row; the limit of one makes the
counter matter. Two faults allow a crash and a late renewal in one behaviour. Workers,
rows, goroutines and pods are symmetric. The liveness runs have one row and three pods,
since each fault can cost one pod, and no symmetry. All properties but liveness are also
proved, without bounds. `CHECK_DEADLOCK FALSE`: the rows and pods of an instance are used
up, after which nothing is left to do.

**Fairness.** The poller ticks for ever and selects a claimable row in the end (strong
fairness: other workers may hold the row in between); pod creation does not fail for
ever; a database call returns; a lease nobody renews runs out. Pods need not finish
and faults need not happen.

### Proofs

`TaskClaims_proofs` proves, from the assumptions of `TaskClaims` only (NULL is no
worker, row or pod; the bounds are natural numbers; `Claim` is finite):

- `TypeCorrect`, `AdoptionIsUnique`, `RunningHasPod`, `InFlightIsExact` for both
  managers, any number of workers, rows, pods and faults;
- `SecondPodNeedsExpiryPostgres` for Postgres. For SQLite it holds because there is
  never a pod, which is no merit of the claims.

The invariant of the first four is `IInv`. `AdoptedAtMostOnce` is not inductive alone:
a goroutine that is about to finalize could adopt a second pod. What rules this out is
`AdoptedIsFinal`: once a pod of row r is adopted, r is no longer pending and nobody
holds its claim, so no `FinalizeClaimToRunning` of another goroutine can find its
worker in `claimed_by`. `RoutinesOK`, `PodsDistinct`, `PodsOK` and `RetryingOK` relate
goroutines to their rows and pods and keep the claim of an absent row empty. The lemmas
take one action each and go through the conjuncts that action disturbs.

`SecondPodNeedsExpiry` needs a second layer, `Fresh`, proved on top of `IInv`: a row
whose lease has never expired has at most one goroutine, that goroutine has the only
pod if there is one, an unclaimed pending row has none, and a lease that has expired
was recorded. The step that matters is claiming: with Postgres it requires that nobody
holds the row or that its lease has run out.

`PendingIsStarted` is only model-checked: it rests on fairness.

## 3. DagRunProgress

One run, with the Postgres manager. `rows` is the run's part of `Task_Runs` in the
order of insertion (the index is `task_run_id`), `suspendedRows` the number of
suspended rows of each task, `pods[i]` the pod of row i with the events that wait for
it in its queue, `handler` the step each event loop has reached. A transaction is one
action. The handlers are cut where the code leaves a transaction: `TakeSucceeded`
(`deletePod`), `MarkSuccess`, one `AddNext` per next task, `CheckDone`; `TakeFailed`,
`RetryAdd`, `RetryClaim`, `RetryIncrement`; `MarkFailed`, `CascadeRead`,
`CascadeWrite`. `MarkConnectingTasksAsSuspended` is two actions because its query runs
before the lock on the run.

Abstractions: a row has one pod here, with the steps `StartPod` and `Finalize`; that
leases can give a row a second pod is the subject of `TaskClaims`, and such a pod's
event has the effect of a repeated event. Writes to `Task_Pods`, webhooks and metrics
are left out; none of them decides a step here. `MarkSuccess` and `MarkTaskAsFailed`
are atomic since they lock the `DAG_Runs` row first or update it in one transaction.
Which task may fail, be retried or be misconfigured is a constant, so that a run of
TLC asks one question at a time. The SQLite forms of the same queries are functions of
`DagValidation`, compared there with the Postgres ones.

| run | shows |
| --- | --- |
| `progress_join` | A and B, then C; A may fail and is retried. A run at rest is complete, its PVC deleted and its status final; suspended tasks never start, no task is started or suspended twice (`Unforked`); under fair event loops every run ends |
| `progress_faults` | the same DAG; A and B may fail, B by a configuration error, pods may end before their claim is finalized, one event is repeated, two handlers abort anywhere, another run has rows. No task before its dependencies; `success` means every task succeeded and the PVC outlives all pods, as long as each end was counted once |
| `progress_cascade` | *violation*: A and B both fail, C is suspended twice and the run never counts as complete |

The constants of the runs, and the premise `CountedOnce`, leave out circumstances in
which the code does not keep the property. Each of them is one change away:

- `EarlyFinish = TRUE` in `progress_join`: `FinalizeClaimToRunning` has no condition on
  the status and moves a row that was counted as a success back to `running`;
  `getMetDependencies` no longer sees it and C is never started.
- `ForeignRows` not empty in `progress_join`: `getRunnableTasks` compares `run_id` with
  the id of a task run, so that a row of another run whose id happens to be that number
  keeps a task from starting.
- Without `CountedOnce`: a repeated event of a pod that still waits for its log finalizer
  passes `deletePod` and is counted again, and `handleConfigError` counts its failure
  twice. The run can be `success` with a task still to come, and the PVC can be deleted
  under a pod.
- A fork (A and B after R): a pending row does not keep a task out of
  `getRunnableTasks`, so that a success between two inserts of `allocateNextTasks`
  chooses the second task again and it gets two rows. The PVC may then go under the
  second pod, and a task with two dependencies may start after one of them ran twice.
- `BackoffLimit = 1` with one failing task: a retry is a fresh row with its own
  attempts, so that any limit above 0 allows retries for ever.

So a DAG of another shape may lose `SuccessIsTotal`, `PvcOutlivesPods`, `DependencyOrder`,
`SuspendedNeverRuns` or `QuiescentMeansDone`, and always in one way: a task has a second
row that is no retry, or is suspended a second time. `Unforked` says that neither has happened, in two parts:
`OnceEach` (of two rows of a task, one was retried; it implies `NoTwins`, no task has
succeeded twice) and `SuspendedOnce`. It is an invariant of the join, is broken by a fork,
and `progress_cascade` breaks `SuspendedOnce`. `DagRunProgress_proofs` and
`DagRunEnd_proofs` show that, in every DAG, the five properties hold for as long as the
part that each needs does, and that it always does in DAGs where, after the starting
tasks, one task runs at a time (section 9).

**Bounds.** Three tasks are the smallest DAG with a join, and the join is where two
handlers meet; two handlers are two queues. `MaxRows` leaves two rows for retries in
`progress_join` and one for a repeated start in `progress_faults`; a handler that
finds no room waits, which is not rest, so that the bound hides no stalled run.
`MaxFaults = 2` aborts both handlers. `CHECK_DEADLOCK FALSE`: a finished run has no
further step.

**Fairness.** The reconciler is called again until it succeeds, a pending row is started
in the end (`PendingIsStarted` of `TaskClaims`), containers end, and a loop does not
stop while its process runs. `progress_join` has no faults, because an event whose
handler died is gone and nothing restarts such a run.

## 4. DagCatalogue

The objects (`dagObj`, `taskObj`, `dagRuns`), the work queues of three reconcilers, the
tables `DAGs`, `Tasks`, `DAG_Tasks`, `DAG_Runs` and `Task_Runs` in `db`, what each
reconciler is doing, and the goroutines of `createDagRun`. controller-runtime calls one
`Reconcile` of a controller at a time; between two calls of the API server or the
database the others may act.

| action | code |
| --- | --- |
| `ApplyDag`, `DeleteDagObject`, `ApplyTask`, `DeleteTaskObject` | users (external) |
| `DagReconcile`, `CheckDag`, `StoreDag`, `FinaliseRefs` | `Reconcile` of `dag_controller.go`: `GetTaskRefsParameters` and validation, `InsertDAG` with versions, hashes and suspension, finalizers of the DagTasks, status |
| `HandleDagDeletion`, `UnfinaliseRefs` | `handleDeletion` with `DeleteDAG`, and the finalizers that became unused |
| `TaskReconcile`, `StoreTask` | `dagtask_controller.go`, `AddTask`, `DeleteTask` |
| `ProcessDags`, `ScheduleDagRun` | the tick of `dagScheduler.go` with `GetDAGsToStartAndUpdate`; `createDagRun` with its attempts |
| `RunReconcile`, `InsertRun`, `FetchStartingTasks`, `EnqueueTask`, `EnqueueFails`, `RunReconciled` | the part of `dagrun_controller.go` that makes rows |

Both managers are in one module; `backend` is chosen in `Init`. They differ in how
references are resolved, in what is inactive after a new version, and in how `nextTime`
is advanced. Hashes are the bodies themselves, cron expressions are a period; of a DAG's
tasks only the starting ones are here.

`catalogue` (2.95 million states) checks the five properties for two DAGs that refer to
one DagTask, once or twice, with three edits, one failing call and two ticks of the
clock: at most one version is active and it is the newest (`OneActiveVersion`); a
reconciler at rest leaves the spec of the object in the tables, or the status `Failed`
(`StoredOrFailed`); a finalizer goes only when nobody refers to the DagTask
(`FinalizerKeptWhileUsed`); starting tasks get one row each through failures and repeats
(`StartedOnce`); with SQLite, an occurrence makes one DagRun (`OneRunPerOccurrence`).
`catalogue_schedule` is the *violation* of the last one with Postgres: the query does not
scan `dag_id`, the update of `nexttime` names no row, and a due DAG starts on every tick.

**Bounds.** Three edits are create, change and delete of one DAG, or two DAGs and a
deletion that must respect the other; two ticks show a repeated occurrence; one fault
stops one reconciliation at any call. DAGs are symmetric. The model is finite by its
bounds, hence `CHECK_DEADLOCK FALSE`. No liveness is claimed: a DAG whose validation
failed is not tried again, by design of `markDAGFailed`.

## 5. DagValidation

Pure functions, with one behaviour per DAG object: `ProcessDSL` and the checks of
`validator.go`, each check of `ValidateDAG` in its order, `InsertDAG` as far as rows and
dependencies go, and a walk through the run in which any running task may succeed or
fail. The depth-first searches are recursive functions and take their neighbours in any
order, as Go's maps do; the references are declarative (`Acyclic`: a numbering exists;
`OnePiece`: no part without a dependency across). `Objects` are five families: all
graphs of three tasks with lists of up to two dependencies, repeated and missing ones
included; all graphs of four tasks; tasks that share names and versions; fields and
parameters; DSL texts of up to three tasks and two edges.

`validation` (100,725 states) shows that `ValidateDAG` accepts exactly the DAGs the
reference allows (`VerdictIsRight`), that every accepted DAG can be run to its end
(`AcceptedRunsToTheEnd`) in order (`RunsAfter`, for DAGs whose names are distinct: a
`taskRef` may share a name, and dependencies are found by name), that the cascades of
the two managers suspend the same tasks (`ManagersAgree`), and that what passes the DSL's
validator is not refused for its parameters or references later (`ValidatorsAgree`).

**Bounds.** Four tasks have every shape that a pair of branches can take (diamond, two
pieces, cycle beside a start); the searches treat a fifth like a fourth. All properties
but `VerdictIsRight` are also proved, for objects of any size (section 9).

## 6. RunLifecycle

One DagRun object and all it leaves behind. `obj` is the object with its finalizer and
the id in its status, `rec` the step of the reconciler, `run`, `row` and `listed` the
rows, `pods` and `pvc` the cluster, `log` and `uploads` the store, `coll` the goroutines
of `performLogCollection`, `fetching` the set of `MarkAsFetching`. `store` is chosen in
`Init`.

| action | code |
| --- | --- |
| `CreateObject`, `DeleteObject` | scheduler, server or user |
| `ReconcilerStep`, `ReconcileFails`, `ControllerRestarts` | `Reconcile` and `handleDeletion`, one call per step; a failed call returns and the object is queued again |
| `ClaimRow`, `StartPod`, `FinalizeClaim`, `PodEnds` | `TaskClaims`, in four steps (a claim outlives the deletion of its row) |
| `HandleEvent`, `Collect` (`Check`, `Mark`, `CreateFile`, `OpenStream`, `CopyLog`, `CopyStops`, `RemoveFinalizer`, `CheckRun`, `CleanUp`) | the event loop and `uploadLogsAndCleanup` |
| `UploadPart`, `UploadFails` | the multipart upload to S3 |
| `DeleteOrphan` | `RunOrphanReconciler`; the grace period is not a number |
| `WorkersRestart` | the end of the workers' process |

`runlife` (541,794 states) checks: one goroutine per pod copies a log
(`OneCollectorPerPod`); an object that is gone leaves no bound PVC and no row, unless it
was deleted before its status had the run's id (`CleanedUp`); the logs of a deleted run
go, whoever is last (`LogsOfDeletedRunGo`); an open upload has an owner
(`PartsBelongToSomeone`); S3 keeps a complete log until the run is deleted (`LogIsKept`);
and pods of a deleted run disappear (`PodsOfDeletedRunGo`). Exceptions are written into
the properties: a process that died (`abandoned`), and a stream that broke after the
first part (`readFailed`), which leaves the upload open.

**Bounds.** One pod, two collectors and three events: two goroutines of one pod and one
that comes later; one fault anywhere; a workspace or none. **Fairness.** The work queue
calls the reconciler again (weak); the orphan reconciler's ticker does not stop and its
update of a pod does not conflict for ever (strong, since the pod can change in between).
Collectors need not make progress.

## 7. PodStatus

`pod` and `deltas` are the cluster and what the informer has still to tell; `queue` is
one queue of events, `worker` the event loop, `taskPods` the rows of `Task_Pods`,
`sending`, `channel` and `heard` the way to the webhook. `WatchPod` is `HandleAdd` and
`HandleUpdate` with its filter on phases, `WarningFetches` and `WarningPushes` the event
watcher, whose pod may be stale when it is pushed. The worker's actions are the steps of
`handleAdd` and `handleOutcome`: `Take`, `SendStarted` (a send in the loop itself), `TaskEnds` and
`ConfigError` (notifications by goroutines), `WriteDuration`, and one `WriteStatus` per
attempt of `writeStatusToDB`. A stamp is the clock at the push, or for an ended container
the second in which it finished: `FinishedAt` has no fractions.

`podstatus` (534,000 states) shows that the table ends up with the last phase of an ended
pod (`EndIsRecorded`) and its duration (`EndHasDuration`, without exceptions, although
`AddPodDuration` comes before the write that may make the row), that retries of a refused
write change nothing (`RefusalIsFinal`), that a start is not posted after an end
(`StartedComesFirst`), and that the loop gets through its synchronous send
(`EventsAreHandled`). `EndIsRecorded` lists when the code does not keep it: SQLite
overwrites whatever the stamp, so a stale Warning wins; Postgres refuses an end whose
whole second is before the stamp of an earlier event, which a short container reaches.

**Bounds.** One pod (the properties are per pod, and the queue is shared by hash), a
channel of one so that it is full at once, three attempts, two ticks per second, a clock
of two and one Warning. **Fairness.** The worker, its goroutines and the listener go on;
the HTTP client has a timeout, so that a post ends. Watchers and containers need not.

## 8. PodEventQueue

The memory queue is a slice, a head index, compaction and a notify channel; the Pebble
queue is a store of keyed values with two durable counters. `Push` is `PushBatch`, `Pop`
and `PopWaits` are the two ends of `PopBatchWithContext` (the unlock before the wait is
where a wake-up could be lost), `Restart` ends the process. `PodEventFifo` is the
abstract queue: push appends, pop takes from the front, a memory queue may forget what
it holds when it restarts. `queue` checks `Fifo!Spec` as a property, with the queue and
the outcome so far as the mapping; further `NoLostWakeup`, `OnlyTheEventInHandIsLost` and
`Drained`.

**Bounds.** Six events, batches of two, compaction at one and two faults: several
compactions, a partial batch and a restart with events queued. **Fairness.** The worker's
loop goes on and handlers return.

## 9. Proofs

The proofs use the assumptions on the constants in the modules and no others, and hold
for every value of them: any number of workers, rows, pods, events, collectors, faults.

**TaskClaims** is described in section 2.

**PodEventQueue_proofs.** `QInv` is `TypeOK` (the head never passes the slice, exactly the
keys from head to tail are stored), the fact that every place from the head on holds an
event, and that only a handling worker has a batch. `QView` says what `queued` is after each operation (an append, a tail, nothing for
a compaction): this turns index arithmetic into sequences once, and `QueueIsFifo` follows
action by action. `Ordered` and `Accounted` carry `OnlyTheEventInHandIsLost`: events are
numbered in the order of pushes, and what was handed out is what was handled, is held, or
was lost in hand. `WakeupIsNeverLost` needs that a waiting reader saw the queue empty.

**RunLifecycle_proofs.** `TInv` is types, and a pod for every busy goroutine.
`Locked` and
`Exclusive` (a goroutine past `Mark` has its pod in `fetching`, and no two the same) give
`OneCollectorPerPod`, which `PartsBelongToSomeone` builds on. `RInv` follows the reconciler: its
finalizer is on the object before anything is created (`FinalizerFirst`), each step of the
deletion leaves what the ones before it did (`DoneSoFar`), and a run is gone only under an object
that is being deleted and knows its id (`RunGoesLast`).
`LInv` says who deletes the logs of a run that is gone: a reconciler that has the step
before it, or a goroutine that will look at the run after its copy (`WillDelete`). `KInv`
is about a complete log of S3: what deletes or replaces it has seen the run gone.

**PodStatus_proofs.** `RetriesAreIdle` rests on `FInv`: after a refusal nothing the answer
depends on can change before the next attempt. `StartedFirst` rests on `OInv`: as long as
there was no Warning, the phases of a pod rise from the event loop through the queue and
the informer to the pod (`Flow`), so that once the end of a pod is on its way to the
webhook only ends are behind it (`EndIsLast`), and no start stands behind an end in the
channel (`StartIsFirst`). `EndsAreRecorded` starts from what the informer tells (`SInv`:
the end of a pod comes last and once, and an event that says a pod has ended says it as
the pod does). `RInv` adds: once the watcher has told the end, an event of it is on its
way to the loop, or the row says it or falls under one of the exceptions (`Recorded`). An
exception stays in force: a stamp only grows, and `warned` too. `EndsAreTimed` rests on
`DInv`: until the row exists an event that makes it is on its way (`RowComes`), and an end
that was told has its duration, or has `AddPodDuration` still to come for a row that exists,
or stands in the queue behind an event that makes the row (`Timed`). Neither has a
hypothesis.

**DagCatalogue_proofs.** First what each operation of the managers does to the tables
(`InsertDAGFacts`, `DeleteDAGFacts`, `AddTaskFacts`, ...); among them `RefsFound`: a
manager that found as many parameters as there are references found the tasks of all of
them, by cardinality. `CInv` says that ids are handed out once (`Fresh`), that the versions
of a DAG have a newest and only the newest is active (`RowsOK`): `InsertDAG` sets only the
version before the new one inactive, and `ActiveIsNewest` holds because no older one was
active. `FinalizersKept` adds that the names between the transaction of `DeleteDAG` and the
update of the objects stay unused (`NamesUnused`): only the DAG reconciler, which is busy,
makes a DAG refer to a task, and a task stored again has a new id. `OccurrencesRunOnce`
rests on `OccurrenceInv`: what has a DagRun, or a goroutine that may still create it, lies
before the `nextTime` of its row, which only grows. `ReconciledIsStored` rests on `SyncInv`:
a DAG is in the queue, or is being reconciled from the spec its object still has
(`InWork`), or is in the tables (`Settled`). `RunsStartOnce` rests on `StartInv`: a run off
the queue has a row for each task that `GetStartingTasks` would return, one in the loop
has them but for what is left to do, and `TaskRunExists` keeps a row single. The set may
shrink under the reconciler, when a newer version is stored or a task is deleted, but for
a stored run it never grows (`Ages`). This takes `DistinctNames`, that no two DAGs have one
name, which holds in one namespace: `dagNameToDagId` ignores the namespace, so that with
two DAGs of one name the deletion of the one with the higher version makes the other's
version the newest again, and a run that was reconciled in between, with nothing to start,
then has tasks without rows. TLC finds this behaviour with `catalogue.cfg` when both names
are the same, with four edits.

**DagRunProgress_proofs.** For every DAG, any number of event loops, rows, repeated events
and aborted handlers. `IInv` is the types, what a loop holds at each of its steps (a pod
that ended, and its row), that two loops work on different pods, and that a final status
agrees with the pod. `Typing` follows; no run of TLC repeats it.

- `RunsAfterDependencies`: `OrderInv` adds that what a handler is about to insert has its
  dependencies. `getMetDependencies` counts rows, and as many rows as dependencies are all
  the dependencies only when none has succeeded twice: hence `NoTwins`.
- `SuccessMeansAll`: `CountInv` bounds `successfulCount` by the rows whose success has been
  taken from the queue and marked, as long as no event was repeated; with `NoTwins` as many
  such rows as tasks are one for each task, by cardinality.
- `SuspendedStaySuspended`: `SuspendInv` says that what was suspended, or is about to be, is
  downstream of a row that failed. `DownstreamWaits`: nothing downstream of a task that has
  not succeeded has a row, by `DependencyOrder` and the definition of `Downstream` as the
  least closed set. With `OnceEach` a task with a failed row has not succeeded. It assumes
  that pods end after their claim was finalized (`~ EarlyFinish`), since
  `FinalizeClaimToRunning` otherwise moves a failed row back to `running`.
- `WorkspaceOutlivesPods`, under the same assumption: the three counters are at most the tasks that succeeded, the rows
  that failed (`FailInv`) and the tasks that were suspended (`SuspendCount`), three disjoint
  sets of tasks by `OnceEach` and the theorem before. A deleted workspace had the sum reach
  the number of tasks (`Totals`), so that no task is left for a row that waits or a pod
  that works.

The hypotheses are state predicates under the box: each theorem speaks of every state in
which the predicate holds. `progress_join`, where `Unforked` is an invariant and
`EarlyFinish` is false, is an instance in which they always hold.

**DagRunEnd_proofs.** `NoRunStalls`: a run at rest is complete. Where the theorems above
need bounds on the counters, this one needs that nothing is missing from them, and its
invariants follow a task from its row to its end:

- `Tracked`: the end of a pod is an event in its queue, or work of a loop, or already in
  the status of its row or in a newer row of the task (a retry);
- `Cascades`: what is downstream of a failed row is suspended or about to be;
- `Chosen`: a task whose dependencies have all succeeded has a row or gets one. This is
  where two handlers meet: the success that is written down last sees all the others;
- `Counts`: the counters are at least what the tables show, and with the bounds of
  `DagRunProgress_proofs` exactly that;
- `Noticed`: counters that add up were seen to do so, or a loop still has its `CheckDone`.

At rest every row has ended. If a task were neither ended nor suspended, one such task
would run after none of the others (`NoCycles`); its dependencies have all succeeded, or
one has failed, or one was suspended after a failure further up, so that `Chosen` or
`Cascades` gives it a row or suspends it. Then the counters add up, and `Noticed` gives
the end of the run.
The induction over the DAG is this choice of a first task; the one over rows (the last row
of a task decides) is a least element of a set of numbers.

Its hypotheses: pods end after their claim was finalized (`~ EarlyFinish`); a DAG has a
task and no cycle (`NoCycles`, what `checkNoCycles` demands before a DAG is stored);
ids of task runs that are not also ids of runs with rows (`IdsApart`), since
`getRunnableTasks` takes the one for the other; no handler that gave up (`faults = 0`),
since the event it held is gone; `CountedOnce`; `SuspendedOnce`; and `EndsOnce`, that no
task has ended twice. `EndsOnce` is weaker than `OnceEach` and, unlike it, holds before
every step after which it holds, which lets it stand inside the invariants.
`UnforkedRunsEnd` states the result with `Unforked`. Section 3 says how the code breaks
each of them.

The rest of the module removes `Unforked` from the hypotheses for the DAGs of `Series`: a
task with dependencies comes before or after every other task, so that starting tasks run
side by side and then one task at a time: chains, joins, and chains with shortcuts.
`SeriesUnforked` rests on `OneRowInv`, for as long as no event was repeated: a row that
waits for its end to be written is not yet counted (`Unmarked`), whatever has a row or is
due came after the successes of its dependencies (`AllMarked`), all rows of a task but the
last were superseded by a retry (`OneLeft`), and what is due has no row and one handler
(`DueOnce`). A success makes a second task runnable only beside it, and `Series` leaves
none there. `CascadeInv` is the same for suspensions; it takes `FailApart`: two tasks that
may fail, and have tasks downstream in common, are not side by side (which is the shape of
`progress_cascade`). `SeriesOrder`, `SeriesWorkspace` and `SeriesRunsEnd` are the
properties of a run with these conditions on the constants in place of `OnceEach` and
`SuspendedOnce`.
`progress_join` is an instance of all of them.

**DagValidation_proofs.** For DAG objects with any number of tasks, edges and parameters.

- `AlwaysValidatorsAgree`: an object gets past `ProcessDSL` only with every edge between
  tasks that exist, and `convertToDAGSpec` makes no other dependencies.
- `AlwaysRunsAfter` and `AlwaysManagersAgree` rest on `RunInv`: the rows of `Dependencies`
  are the pairs that `createDependencyConnection` makes; what has run has its
  dependencies (a count of successes that reaches the count of rows leaves none out, by
  cardinality), and what is downstream of a failure has no row but a suspended one, so
  that a search that stops at existing rows misses nothing.
- `AcyclicRunsToTheEnd`: every row that can start has started, and what waits for a
  failure is suspended. Of the rows left over take one with the least number in the
  numbering that `Acyclic` provides: all it runs after has ended.

The last one has `Acyclic(tasks)` as a hypothesis under the box. That `ValidateDAG` lets
only acyclic DAGs pass is half of `VerdictIsRight`, which stays with TLC: what the
recursive functions `visit` and `dfs` return for every graph needs an induction over data.

Every invariant was checked by TLC on the instances above before it was proved; those of
`DagRunEnd_proofs` also on a chain and on a chain with a shortcut, with a repeated event, an
aborted handler and a configuration error.

**Only model-checked.** Liveness (`PendingIsStarted`, `RunEnds`, `Drained`,
`EventsAreHandled`, `PodsOfDeletedRunGo`), which rests on fairness, and `VerdictIsRight`
of `DagValidation`, for the reason just given. `Unforked` is proved for the DAGs of
`Series`; a fork breaks it (section 3).

## 10. Findings

1. `claims_sqlite_start`: with SQLite, the default, `GetTaskForRun` fails for every row.
   The SQLite halves of the other modules therefore describe the manager as its own tests
   drive it.
2. `progress_cascade`: two failures upstream of one task suspend it twice, and the run is
   never complete.
3. `catalogue_schedule`: with Postgres a due DAG starts on every tick.

Seen while modelling, part of the models or noted with their lines in `PROJECT.json`, and
not stated as violations because no document says otherwise:

- the file store truncates a complete log when the pod is collected again, and the 30
  seconds for opening a stream also limit reading it;
- a run deleted before its status patch is deleted under the id 0, so its rows stay;
- a controller that restarts creates the PVC of a finished run again, and takes the
  template of any version of the DAG;
- `DeleteDAG` deletes the inline tasks of a DAG of the same name in another namespace;
- `GetTaskRefsParameters` of Postgres refuses a DAG that refers to one DagTask twice;
- "applying the same dag" leaves the status of an earlier failure;
- a DSL edge to a task that is not defined is dropped without an error, and a DAG whose
  DSL is edited keeps its old schedule and parameters;
- the parameters of a DagRun never reach a pod.

## 11. Not modelled

| part | reason |
| --- | --- |
| API server (`internal/server`) | sessions and queries; it reads the tables and creates DagRun objects, which `CreateObject` stands for |
| Web interface, charts | no protocol of their own |
| schema and migrations | run once before any process starts |
| WorkerPool reconciler | not registered by `main.go` |
| process wiring, metrics | restarts are actions of the modules; the rest has no state |
| grammar of the DSL, schedules, TLS verifiers of the webhook | text and certificates; no property tells them apart |
| closing of the webhook channel | only while the process ends |
| merging of parameters | no property tells the values apart |
| generated code (`zz_generated.deepcopy.go`) | generated |

What could follow: the soundness of `checkNoCycles` (a search that returns without a cycle
leaves a numbering), which would join `DagValidation_proofs` to the hypothesis `NoCycles`;
the server's sessions, if they come to share state with the controller.
