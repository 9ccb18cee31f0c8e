--------------------------- MODULE DagRunProgress ---------------------------
(***************************************************************************)
(* How one run of a DAG moves from task to task, with the Postgres         *)
(* manager.                                                                *)
(*                                                                         *)
(* The DagRun reconciler inserts a pending row of Task_Runs for every task *)
(* without dependencies.  Rows become pods (module TaskClaims has the      *)
(* protocol; here it is two steps, StartPod and Finalize).  The event loop *)
(* of a worker takes the events of ended pods: a success counts and makes  *)
(* further tasks runnable, a failure is retried with a fresh row or fails  *)
(* the task and suspends everything downstream of it.  When the three      *)
(* counters of the DAG_Runs row add up to the number of tasks, the         *)
(* handler deletes the workspace PVC of the run.                           *)
(*                                                                         *)
(* A transaction of the database is one step, and so is each statement     *)
(* that runs outside of one.  MarkConnectingTasksAsSuspended reads before  *)
(* it takes a lock and is two steps.                                       *)
(***************************************************************************)
EXTENDS Naturals, Sequences, FiniteSets

CONSTANTS
    Task,          \* tasks of the DAG (DAG_Tasks)
    Deps,          \* the table Dependencies: task -> the tasks it runs after
    Handler,       \* event loops, one per queue
    BackoffLimit,  \* Tasks.backoffLimit, the same for every task
    Retryable,     \* tasks whose failures have an exit code to retry
    Failing,       \* tasks whose container may fail
    Misconfigured, \* tasks whose pod may get a configuration error
    RunId,         \* DAG_Runs.run_id
    ForeignRows,   \* pairs <<run id, task>>: the Task_Runs of other runs
    MaxRows,       \* bound on the rows of Task_Runs of this run
    MaxFailures,   \* bound on the pods that fail
    MaxRedeliver,  \* bound on repeated pod events
    MaxFaults      \* bound on handlers that crash or give up on an error

ASSUME DagAssumption == /\ IsFiniteSet(Task)
                        /\ Deps \in [Task -> SUBSET Task]

ASSUME BoundsAssumption ==
    /\ {BackoffLimit, RunId, MaxRows, MaxFailures, MaxRedeliver, MaxFaults} \subseteq Nat
    /\ Retryable \cup Failing \cup Misconfigured \subseteq Task
    /\ ForeignRows \subseteq Nat \X Task

VARIABLES
    rows,            \* Task_Runs of this run, by task_run_id, without
    suspendedRows,   \* ... the suspended ones: their number for each task
    successfulCount, failedCount, suspendedCount, runStatus,   \* DAG_Runs
    succeededRows,   \* history: the rows MarkSuccess has written,
    givenUp,         \* ... those a handler has called MarkTaskAsFailed for,
    overwritten,     \* ... and those whose end Finalize has overwritten
    pvc,             \* does the workspace PVC exist?
    pods,            \* the pod of each row
    handler,         \* what each event loop is doing
    redelivered, faults

counts == <<successfulCount, failedCount, suspendedCount, runStatus>>
counters == <<counts, succeededRows, givenUp, overwritten>>
vars == <<rows, suspendedRows, counters, pvc, pods, handler, redelivered, faults>>

NoPod == [adopted |-> FALSE, events |-> 0, phase |-> "none", presence |-> "present"]
Free == [pc |-> "free", pod |-> 0, row |-> 0, todo |-> {}]

Row == [task : Task, status : {"pending", "running", "success", "failed"},
        attempts : Nat]
PodRecord == [adopted : BOOLEAN, events : Nat,
              phase : {"none", "active", "succeeded", "failed", "misconfigured"},
              presence : {"present", "terminating", "gone"}]
Steps == {"free", "markSuccess", "addNext", "checkDone", "retryAdd",
          "retryClaim", "retryIncrement", "markFailed", "cascadeRead",
          "cascadeWrite"}

TypeOK ==
    /\ rows \in Seq(Row) /\ Len(rows) <= MaxRows
    /\ suspendedRows \in [Task -> Nat]
    /\ {successfulCount, failedCount, suspendedCount} \subseteq Nat
    /\ runStatus \in {"running", "success", "failed"}
    /\ succeededRows \cup givenUp \cup overwritten \subseteq DOMAIN rows
    /\ pvc \in BOOLEAN
    /\ pods \in [1..MaxRows -> PodRecord]
    /\ handler \in [Handler -> [pc : Steps, pod : Nat, row : Nat,
                                todo : SUBSET Task]]
    /\ redelivered \in 0..MaxRedeliver
    /\ faults \in 0..MaxFaults

Init ==
    /\ rows = <<>>
    /\ suspendedRows = [t \in Task |-> 0]
    /\ successfulCount = 0 /\ failedCount = 0 /\ suspendedCount = 0
    /\ runStatus = "running"
    /\ succeededRows = {} /\ givenUp = {} /\ overwritten = {}
    /\ pvc = TRUE
    /\ pods = [i \in 1..MaxRows |-> NoPod]
    /\ handler = [h \in Handler |-> Free]
    /\ redelivered = 0
    /\ faults = 0

-----------------------------------------------------------------------------
(* The tables.                                                             *)

TaskRunExists(t) ==
    suspendedRows[t] > 0 \/ \E i \in DOMAIN rows : rows[i].task = t

\* AddPendingTaskRun: a fresh row of task t.
AddPendingTaskRun(t) ==
    /\ Len(rows) < MaxRows
    /\ rows' = Append(rows, [task |-> t, status |-> "pending", attempts |-> 0])

\* The tasks that come after t, directly or not: the recursive CTE computes
\* the least set that holds the successors of t and of its own members.
Downstream(t) ==
    {u \in Task : \A D \in SUBSET Task :
        (\A v \in Task : Deps[v] \cap (D \cup {t}) # {} => v \in D) => u \in D}

\* Fault: a dependency that failed counts as met.
MetDependencies_Ended(rs, t) ==
    IF \E i \in DOMAIN rs : /\ rs[i].task = t
                            /\ rs[i].status \in {"running", "success", "failed"}
    THEN 0
    ELSE Cardinality({i \in DOMAIN rs : /\ rs[i].task \in Deps[t]
                                        /\ rs[i].status \in {"success", "failed"}})

\* Fault: the query has no condition on the status of the dependency.
MetDependencies_AnyStatus(rs, t) ==
    IF \E i \in DOMAIN rs : /\ rs[i].task = t
                            /\ rs[i].status \in {"running", "success", "failed"}
    THEN 0
    ELSE Cardinality({i \in DOMAIN rs : rs[i].task \in Deps[t]})

\* getMetDependencies counts the 'success' rows among the dependencies of t,
\* and counts none for a task that runs or has ended.
MetDependencies(rs, t) ==
    IF \E i \in DOMAIN rs : /\ rs[i].task = t
                            /\ rs[i].status \in {"running", "success", "failed"}
    THEN 0
    ELSE Cardinality({i \in DOMAIN rs : /\ rs[i].task \in Deps[t]
                                        /\ rs[i].status = "success"})

\* The query of getRunnableTasks: does the run with this id have a row of t?
RunHasRow(rs, run, t) ==
    \/ run = RunId /\ (suspendedRows[t] > 0 \/ \E i \in DOMAIN rs : rs[i].task = t)
    \/ <<run, t>> \in ForeignRows

\* getNextRunnableTasks after row i succeeded.  getRunnableTasks looks for
\* rows of the run whose run_id is i, the id of the task run.
RunnableTasks(rs, i) ==
    {t \in Task : /\ Deps[t] # {}
                  /\ MetDependencies(rs, t) = Cardinality(Deps[t])
                  /\ ~ RunHasRow(rs, i, t)}

\* Fault: failures count towards the success of the run.
IsLastSuccess_CountsFailures ==
    Cardinality(Task) = successfulCount + failedCount + suspendedCount + 1

\* The success being counted makes successfulCount equal to DAGs.taskCount.
IsLastSuccess == Cardinality(Task) = successfulCount + 1

\* Fault: suspended tasks are forgotten in the sum.
AllTasksDone_NoSuspended == Cardinality(Task) = successfulCount + failedCount

\* CheckIfAllTasksDone.
AllTasksDone ==
    Cardinality(Task) = successfulCount + failedCount + suspendedCount

-----------------------------------------------------------------------------
(* Rows become pods.                                                       *)

\* The DagRun reconciler, for one starting task.
StartTask(t) ==
    /\ Deps[t] = {}
    /\ ~ TaskRunExists(t)
    /\ AddPendingTaskRun(t)
    /\ UNCHANGED <<suspendedRows, counters, pvc, pods, handler, redelivered,
                   faults>>

\* A worker has claimed the pending row i and creates its pod.
StartPod(i) ==
    /\ rows[i].status = "pending"
    /\ pods[i].phase = "none"
    /\ pods' = [pods EXCEPT ![i].phase = "active"]
    /\ UNCHANGED <<rows, suspendedRows, counters, pvc, handler, redelivered,
                   faults>>

\* FinalizeClaimToRunning, whatever the status of the row has become.
Finalize(k) ==
    /\ pods[k].phase # "none" /\ ~ pods[k].adopted
    /\ pods' = [pods EXCEPT ![k].adopted = TRUE]
    /\ rows' = [rows EXCEPT ![k].status = "running"]
    /\ overwritten' = overwritten \cup {i \in {k} : rows[i].status \in {"success", "failed"}}
    /\ UNCHANGED <<suspendedRows, counts, succeededRows, givenUp, pvc, handler, redelivered,
                   faults>>

FailedPods == {k \in DOMAIN rows : pods[k].phase = "failed"}

\* The pod ends, or its container cannot be configured, and the watchers push
\* an event; the pod may be faster than the goroutine that created it, which
\* has still to finalize the claim.
PodFinishes(k) ==
    /\ pods[k].phase = "active"
    /\ \E phase \in {"succeeded", "failed", "misconfigured"} :
          /\ phase = "failed" => rows[k].task \in Failing /\ Cardinality(FailedPods) < MaxFailures
          /\ phase = "misconfigured" => rows[k].task \in Misconfigured
          /\ pods' = [pods EXCEPT ![k].phase = phase, ![k].events = @ + 1]
    /\ UNCHANGED <<rows, suspendedRows, counters, pvc, handler, redelivered,
                   faults>>

\* A Warning event of a pod that still exists, or the first listing after a
\* restart, pushes the pod with its phase once more.
Redeliver(k) ==
    /\ pods[k].phase \notin {"none", "active"} /\ pods[k].presence # "gone"
    /\ redelivered < MaxRedeliver
    /\ redelivered' = redelivered + 1
    /\ pods' = [pods EXCEPT ![k].events = @ + 1]
    /\ UNCHANGED <<rows, suspendedRows, counters, pvc, handler, faults>>

\* Log collection removes the finalizer of a pod that was deleted.
PodGone(k) ==
    /\ pods[k].presence = "terminating"
    /\ pods' = [pods EXCEPT ![k].presence = "gone"]
    /\ UNCHANGED <<rows, suspendedRows, counters, pvc, handler, redelivered,
                   faults>>

-----------------------------------------------------------------------------
(* The event loop: handleOutcome for an event of pod k.                    *)

\* The loop of handler h takes an event of pod k; the queue of a pod belongs
\* to one handler, which handles one event after the other.
TakesEvent(h, k) ==
    /\ handler[h].pc = "free"
    /\ pods[k].events > 0
    /\ \A other \in Handler : handler[other].pod # k

\* The pod after its event was taken, and deletePod: present pods wait for
\* their finalizer, a pod whose logs are collected is gone at once.
Taken(k, presence) == [pods EXCEPT ![k].events = @ - 1, ![k].presence = presence]
Deleted(k) == IF pods[k].presence = "gone" THEN {"gone"} ELSE {"terminating", "gone"}

GoTo(h, pc) == handler' = [handler EXCEPT ![h].pc = pc]
Begin(h, k, pc) ==
    handler' = [handler EXCEPT ![h] = [Free EXCEPT !.pc = pc, !.pod = k, !.row = k]]
Done(h) == handler' = [handler EXCEPT ![h] = Free]

\* handleSuccessfulTaskRun up to deletePod, whose error ends the handler.
TakeSucceeded(h, k) ==
    /\ TakesEvent(h, k)
    /\ pods[k].phase = "succeeded"
    /\ \E p \in Deleted(k) : pods' = Taken(k, p)
    /\ IF pods[k].presence = "gone" THEN UNCHANGED handler
                                    ELSE Begin(h, k, "markSuccess")
    /\ UNCHANGED <<rows, suspendedRows, counters, pvc, redelivered, faults>>

\* MarkSuccessAndGetNextTasks, one transaction that the lock on the DAG_Runs
\* row orders after any other; a complete run has no next tasks.
MarkSuccess(h) ==
    LET i  == handler[h].row
        rs == [rows EXCEPT ![i].status = "success"]
        next == IF IsLastSuccess THEN {} ELSE RunnableTasks(rs, i)
    IN
    /\ handler[h].pc = "markSuccess"
    /\ rows' = rs
    /\ successfulCount' = successfulCount + 1
    /\ runStatus' = IF IsLastSuccess THEN "success" ELSE runStatus
    /\ succeededRows' = succeededRows \cup {i}
    /\ handler' = [handler EXCEPT ![h].todo = next,
                                  ![h].pc = IF next = {} THEN "checkDone" ELSE "addNext"]
    /\ UNCHANGED <<suspendedRows, failedCount, suspendedCount, givenUp, overwritten, pvc, pods,
                   redelivered, faults>>

\* allocateNextTasks, for one of the tasks.
AddNext(h, t) ==
    /\ handler[h].pc = "addNext"
    /\ t \in handler[h].todo
    /\ AddPendingTaskRun(t)
    /\ IF handler[h].todo = {t} THEN Done(h)
       ELSE handler' = [handler EXCEPT ![h].todo = @ \ {t}]
    /\ UNCHANGED <<suspendedRows, counters, pvc, pods, redelivered, faults>>

\* Fault: no early return when the run is not complete.
CheckDone_Unconditional(h) ==
    /\ handler[h].pc = "checkDone"
    /\ pvc' = FALSE
    /\ Done(h)
    /\ UNCHANGED <<rows, suspendedRows, counters, pods, redelivered, faults>>

\* checkIfDagRunIsComplete, and deletePVC when it is.
CheckDone(h) ==
    /\ handler[h].pc = "checkDone"
    /\ pvc' = (pvc /\ ~ AllTasksDone)
    /\ Done(h)
    /\ UNCHANGED <<rows, suspendedRows, counters, pods, redelivered, faults>>

\* ShouldRerun: attempts of the row within the limit, and an exit code to
\* retry.
ShouldRerun(i) ==
    /\ rows[i].attempts <= BackoffLimit
    /\ rows[i].task \in Retryable

\* handleFailedTaskRun up to ShouldRerun; a pod that is gone is no obstacle.
TakeFailed(h, k) ==
    /\ TakesEvent(h, k)
    /\ pods[k].phase = "failed"
    /\ \E p \in Deleted(k) : pods' = Taken(k, p)
    /\ Begin(h, k, IF ShouldRerun(k) THEN "retryAdd" ELSE "markFailed")
    /\ UNCHANGED <<rows, suspendedRows, counters, pvc, redelivered, faults>>

\* retryFailedTask: a fresh row, ...
RetryAdd(h) ==
    /\ handler[h].pc = "retryAdd"
    /\ AddPendingTaskRun(rows[handler[h].row].task)
    /\ handler' = [handler EXCEPT ![h].pc = "retryClaim", ![h].row = Len(rows')]
    /\ UNCHANGED <<suspendedRows, counters, pvc, pods, redelivered, faults>>

\* ... ClaimTaskByID, which fails when a poller has claimed the row, ...
RetryClaim(h) ==
    /\ handler[h].pc = "retryClaim"
    /\ \/ rows[handler[h].row].status = "pending" /\ GoTo(h, "retryIncrement")
       \/ Done(h)
    /\ UNCHANGED <<rows, suspendedRows, counters, pvc, pods, redelivered, faults>>

\* ... and, while processClaim already runs, IncrementAttempts of that row.
RetryIncrement(h) ==
    /\ handler[h].pc = "retryIncrement"
    /\ rows' = [rows EXCEPT ![handler[h].row].attempts = @ + 1]
    /\ Done(h)
    /\ UNCHANGED <<suspendedRows, counters, pvc, pods, redelivered, faults>>

\* The transaction MarkTaskAsFailed.
MarkTaskAsFailed(i) ==
    /\ rows' = [rows EXCEPT ![i].status = "failed"]
    /\ failedCount' = failedCount + 1
    /\ runStatus' = "failed"
    /\ givenUp' = givenUp \cup {i}
    /\ UNCHANGED <<successfulCount, suspendedCount, succeededRows, overwritten>>

\* handleConfigError: MarkTaskAsFailed and a deletion that removes the
\* finalizer, then handleUnretryablePod, which marks the task once more.  An
\* error of the deletion is only logged and leaves the pod, ...
TakeMisconfigured(h, k) ==
    /\ TakesEvent(h, k)
    /\ pods[k].phase = "misconfigured"
    /\ MarkTaskAsFailed(k)
    /\ \E p \in {pods[k].presence, "gone"} : pods' = Taken(k, p)
    /\ Begin(h, k, "markFailed")
    /\ UNCHANGED <<suspendedRows, pvc, redelivered, faults>>

\* ... and one of MarkTaskAsFailed is only logged, too.
TakeMisconfiguredFails(h, k) ==
    /\ TakesEvent(h, k)
    /\ pods[k].phase = "misconfigured"
    /\ faults < MaxFaults
    /\ faults' = faults + 1
    /\ \E p \in {pods[k].presence, "gone"} : pods' = Taken(k, p)
    /\ Begin(h, k, "markFailed")
    /\ UNCHANGED <<rows, suspendedRows, counters, pvc, redelivered>>

\* handleUnretryablePod.
MarkFailed(h) ==
    /\ handler[h].pc = "markFailed"
    /\ MarkTaskAsFailed(handler[h].row)
    /\ GoTo(h, "cascadeRead")
    /\ UNCHANGED <<suspendedRows, pvc, pods, redelivered, faults>>

\* MarkTaskAsFailed returns an error, which handleUnretryablePod logs before it
\* goes on to the cascade all the same.
MarkFailedFails(h) ==
    /\ handler[h].pc = "markFailed"
    /\ faults < MaxFaults
    /\ faults' = faults + 1
    /\ givenUp' = givenUp \cup {handler[h].row}
    /\ GoTo(h, "cascadeRead")
    /\ UNCHANGED <<rows, suspendedRows, counts, succeededRows, overwritten, pvc, pods,
                   redelivered>>

\* MarkConnectingTasksAsSuspended reads the tasks that have no row yet ...
CascadeRead(h) ==
    LET affected == {t \in Downstream(rows[handler[h].row].task) : ~ TaskRunExists(t)}
    IN
    /\ handler[h].pc = "cascadeRead"
    /\ handler' = [handler EXCEPT ![h].todo = affected,
                       ![h].pc = IF affected = {} THEN "checkDone" ELSE "cascadeWrite"]
    /\ UNCHANGED <<rows, suspendedRows, counters, pvc, pods, redelivered, faults>>

\* Fault: the handler returns after the cascade and does not look whether the
\* run is complete.
CascadeWrite_NoCheck(h) ==
    /\ handler[h].pc = "cascadeWrite"
    /\ suspendedRows' = [t \in Task |-> IF t \in handler[h].todo THEN suspendedRows[t] + 1
                                        ELSE suspendedRows[t]]
    /\ suspendedCount' = suspendedCount + Cardinality(handler[h].todo)
    /\ Done(h)
    /\ UNCHANGED <<rows, successfulCount, failedCount, runStatus, succeededRows, givenUp,
                   overwritten, pvc, pods, redelivered, faults>>

\* ... and inserts a suspended row for each of them.
CascadeWrite(h) ==
    /\ handler[h].pc = "cascadeWrite"
    /\ suspendedRows' = [t \in Task |-> IF t \in handler[h].todo THEN suspendedRows[t] + 1
                                        ELSE suspendedRows[t]]
    /\ suspendedCount' = suspendedCount + Cardinality(handler[h].todo)
    /\ handler' = [handler EXCEPT ![h].todo = {}, ![h].pc = "checkDone"]
    /\ UNCHANGED <<rows, successfulCount, failedCount, runStatus, succeededRows, givenUp,
                   overwritten, pvc, pods, redelivered, faults>>

\* The process of handler h crashes, or a call fails and the handler returns:
\* the event has been taken from the queue and is not put back.
HandlerAborts(h) ==
    /\ handler[h].pc # "free"
    /\ faults < MaxFaults
    /\ faults' = faults + 1
    /\ Done(h)
    /\ UNCHANGED <<rows, suspendedRows, counters, pvc, pods, redelivered>>

-----------------------------------------------------------------------------
Advance(h) ==
    \/ \E k \in DOMAIN rows : \/ TakeSucceeded(h, k)
                              \/ TakeFailed(h, k)
                              \/ TakeMisconfigured(h, k)
    \/ MarkSuccess(h)
    \/ \E t \in Task : AddNext(h, t)
    \/ CheckDone(h)
    \/ RetryAdd(h)
    \/ RetryClaim(h)
    \/ RetryIncrement(h)
    \/ MarkFailed(h)
    \/ CascadeRead(h)
    \/ CascadeWrite(h)

Next ==
    \/ \E t \in Task : StartTask(t)
    \/ \E k \in DOMAIN rows : \/ StartPod(k)
                              \/ Finalize(k)
                              \/ PodFinishes(k)
                              \/ Redeliver(k)
                              \/ PodGone(k)
    \/ \E h \in Handler : \/ Advance(h)
                         \/ \E k \in DOMAIN rows : TakeMisconfiguredFails(h, k)
                         \/ MarkFailedFails(h)
                         \/ HandlerAborts(h)

Spec == Init /\ [][Next]_vars

\* The reconciler is called again until it succeeds, a pending row is claimed
\* in the end (PendingIsStarted of TaskClaims), containers end, and an event
\* loop does not stop while its process runs.
Fairness ==
    /\ \A t \in Task : WF_vars(StartTask(t))
    /\ WF_vars(\E i \in DOMAIN rows : StartPod(i))
    /\ WF_vars(\E k \in DOMAIN rows : Finalize(k))
    /\ WF_vars(\E k \in DOMAIN rows : PodFinishes(k))
    /\ \A h \in Handler : WF_vars(Advance(h))

FairSpec == Spec /\ Fairness

-----------------------------------------------------------------------------
(* Properties.                                                             *)

Succeeded(t) == \E k \in DOMAIN rows : rows[k].task = t /\ pods[k].phase = "succeeded"

\* "runAfter": a task gets a row that workers may claim only when a pod of
\* each of its dependencies has succeeded.
DependencyOrder ==
    \A i \in DOMAIN rows : \A d \in Deps[rows[i].task] : Succeeded(d)

\* Each end of a pod has been counted once: no event was repeated, and there
\* was no configuration error, which is counted twice.
CountedOnce ==
    /\ redelivered = 0
    /\ \A k \in DOMAIN rows : pods[k].phase # "misconfigured"

\* As long as ends are counted once, a run is marked 'success' only when every
\* task has had a pod that succeeded, in whatever order the handlers counted
\* and whichever of them gave up half-way.
SuccessIsTotal ==
    runStatus = "success" /\ CountedOnce => \A t \in Task : Succeeded(t)

\* The workspace outlives its users: as long as ends are counted once, "check
\* if all tasks are done" says yes only when no pod of the run works and no
\* row waits for one.
PvcOutlivesPods ==
    ~ pvc /\ CountedOnce => \A k \in DOMAIN rows : pods[k].phase \notin {"none", "active"}

\* Nothing is left to do for the run: its rows, pods, events and handlers are
\* all at rest.
Quiescent ==
    /\ \A t \in Task : Deps[t] = {} => TaskRunExists(t)
    /\ \A k \in DOMAIN rows : /\ pods[k].phase \notin {"none", "active"}
                              /\ pods[k].adopted
                              /\ pods[k].events = 0
    /\ \A h \in Handler : handler[h].pc = "free"

\* The ids of the task runs are those of no run that has rows of Task_Runs,
\* this one included: getRunnableTasks takes the one for the other.
IdsApart ==
    \A i \in DOMAIN rows : i # RunId /\ \A t \in Task : <<i, t>> \notin ForeignRows

\* A run does not stall: when everything is at rest, the run has an outcome
\* and its completion has been noticed by the handler that came last.  Two
\* things stall it and are left out: an end that FinalizeClaimToRunning
\* overwrote, so that it no longer counts as a dependency met, and ids that
\* getRunnableTasks confuses.
QuiescentMeansDone ==
    Quiescent /\ overwritten = {} /\ IdsApart
        => AllTasksDone /\ ~ pvc /\ runStatus # "running"

\* A task that was suspended because of a failure upstream is never started.
SuspendedNeverRuns ==
    \A i \in DOMAIN rows : suspendedRows[rows[i].task] = 0

\* The row of a pod that failed and that no handler has given up: the handler
\* tries again with a fresh row.
Retried(k) == pods[k].phase = "failed" /\ k \notin givenUp

\* No task has two rows whose pods succeeded.
NoTwins ==
    \A j, k \in DOMAIN rows :
        rows[j].task = rows[k].task /\ pods[j].phase = "succeeded"
            /\ pods[k].phase = "succeeded" => j = k

\* Of two rows of a task, one was retried.
OnceEach ==
    \A j, k \in DOMAIN rows :
        rows[j].task = rows[k].task => j = k \/ Retried(j) \/ Retried(k)

SuspendedOnce == \A t \in Task : suspendedRows[t] <= 1

\* A task is started again only after a failure that was not final, and is
\* suspended at most once, whichever handlers found it runnable or downstream
\* (getRunnableTasks, MarkConnectingTasksAsSuspended).  It holds where one
\* task at a time can become runnable (Series of DagRunEnd_proofs); the
\* theorems of DagRunProgress_proofs and DagRunEnd_proofs say what the run
\* keeps as long as it holds.
Unforked == OnceEach /\ SuspendedOnce

\* Every run whose ends stay written and whose ids are apart comes to its end.
RunEnds == [](overwritten = {} /\ IdsApart) => <>[](AllTasksDone /\ ~ pvc)

=============================================================================
