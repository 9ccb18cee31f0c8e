----------------------------- MODULE TaskClaims -----------------------------
(***************************************************************************)
(* How workers share the rows of the table Task_Runs.                      *)
(*                                                                         *)
(* A row is inserted as 'pending'.  The claim poller of a worker claims    *)
(* pending rows under a lease (ClaimTasks) and starts one goroutine        *)
(* (processClaim) for each of them.  The goroutine renews the lease from a *)
(* ticker, creates a pod and then moves the row to 'running'               *)
(* (FinalizeClaimToRunning).  Pods run on their own and the events of a    *)
(* finished pod are handled by some worker, which sets the row to          *)
(* 'success' or 'failed' or inserts a fresh row for a retry and claims     *)
(* that row at once (ClaimTaskByID).                                       *)
(*                                                                         *)
(* One action is one statement or transaction of the database, or one call *)
(* of the Kubernetes API: workers interleave between any two of them.      *)
(* Time is not a number: a live lease may expire at any moment, which      *)
(* covers slow calls, paused processes and an unreachable database.        *)
(***************************************************************************)
EXTENDS Integers, FiniteSets

CONSTANTS
    Worker,               \* ids of workers; a restarted process has fresh ids
    TaskRun,              \* values of Task_Runs.task_run_id
    Claim,                \* slots for the goroutines that run processClaim
    Pod,                  \* pod UIDs
    NULL,                 \* SQL NULL, and "no row", "no pod"
    Backend,              \* which DBDAGManager: "postgres" or "sqlite"
    ClaimBatchSize,       \* claimBatchSize of workers.go
    MaxConcurrentClaims,  \* maxConcurrentClaims of workers.go
    MaxFaults             \* bound on crashes, late or failed renewals and
                          \* failed finalizes

ASSUME BackendAssumption == Backend \in {"postgres", "sqlite"}

ASSUME BoundsAssumption ==
    /\ ClaimBatchSize \in Nat
    /\ MaxConcurrentClaims \in Nat
    /\ MaxFaults \in Nat

ASSUME NullAssumption == /\ NULL \notin Worker
                         /\ NULL \notin TaskRun
                         /\ NULL \notin Pod

ASSUME ClaimAssumption == IsFiniteSet(Claim)

VARIABLES
    status,      \* Task_Runs.status of each row, "absent" before its insert
    claimedBy,   \* Task_Runs.claimed_by
    lease,       \* Task_Runs.lease_expires_at: "none", in the future, or past
    routine,     \* the processClaim goroutines
    inFlight,    \* worker.inFlight
    retrying,    \* row a worker has inserted for a retry and not yet claimed
    alive,       \* workers whose process runs
    podRow,      \* annotation kontroler/task-rid of each pod
    podPhase,    \* phase of each pod; "none" before creation, "gone" after
    adopted,     \* history: pods whose goroutine finalized its claim
    expiredOnce, \* history: rows whose lease has expired at least once
    faults       \* crashes, late or failed renewals, failed finalizes so far

dbVars  == <<status, claimedBy, lease>>
podVars == <<podRow, podPhase>>
vars    == <<dbVars, routine, inFlight, retrying, alive, podVars, adopted,
             expiredOnce, faults>>

-----------------------------------------------------------------------------
(* The processClaim goroutines.                                            *)

Idle == [pc |-> "idle", row |-> NULL, worker |-> NULL, pod |-> NULL,
         renewing |-> FALSE, polled |-> FALSE]

\* A goroutine that has just been started for row r by worker w; polled says
\* that the poller started it, which counts it in inFlight.
Started(r, w, polled) ==
    [pc |-> "claimed", row |-> r, worker |-> w, pod |-> NULL,
     renewing |-> TRUE, polled |-> polled]

IdleRoutines == {g \in Claim : routine[g].pc = "idle"}

\* Fault: the deferred decrement also runs for a retry's goroutine.
Return_AlwaysDecrements(g) ==
    /\ routine' = [routine EXCEPT ![g] = Idle]
    /\ inFlight' = [inFlight EXCEPT ![routine[g].worker] = @ - 1]

\* processClaim returns: its lease ticker stops and, for a polled claim, the
\* deferred decrement of inFlight runs.
Return(g) ==
    /\ routine' = [routine EXCEPT ![g] = Idle]
    /\ inFlight' = [inFlight EXCEPT ![routine[g].worker] =
                        IF routine[g].polled THEN @ - 1 ELSE @]

\* Some goroutine still extends the lease of row r.
BeingRenewed(r) ==
    \E g \in Claim : /\ routine[g].pc # "idle"
                     /\ routine[g].renewing
                     /\ routine[g].row = r
                     /\ routine[g].worker = claimedBy[r]

-----------------------------------------------------------------------------
Routine == [pc : {"idle", "claimed", "allocated"},
            row : TaskRun \cup {NULL},
            worker : Worker \cup {NULL},
            pod : Pod \cup {NULL},
            renewing : BOOLEAN,
            polled : BOOLEAN]

TypeOK ==
    /\ status \in [TaskRun -> {"absent", "pending", "running",
                               "success", "failed"}]
    /\ claimedBy \in [TaskRun -> Worker \cup {NULL}]
    /\ lease \in [TaskRun -> {"none", "live", "expired"}]
    /\ routine \in [Claim -> Routine]
    /\ inFlight \in [Worker -> Nat]
    /\ retrying \in [Worker -> TaskRun \cup {NULL}]
    /\ alive \in SUBSET Worker
    /\ podRow \in [Pod -> TaskRun \cup {NULL}]
    /\ podPhase \in [Pod -> {"none", "active", "succeeded", "failed", "gone"}]
    /\ adopted \in SUBSET Pod
    /\ expiredOnce \in SUBSET TaskRun
    /\ faults \in 0..MaxFaults

Init ==
    /\ status = [r \in TaskRun |-> "absent"]
    /\ claimedBy = [r \in TaskRun |-> NULL]
    /\ lease = [r \in TaskRun |-> "none"]
    /\ routine = [g \in Claim |-> Idle]
    /\ inFlight = [w \in Worker |-> 0]
    /\ retrying = [w \in Worker |-> NULL]
    /\ alive = Worker
    /\ podRow = [p \in Pod |-> NULL]
    /\ podPhase = [p \in Pod |-> "none"]
    /\ adopted = {}
    /\ expiredOnce = {}
    /\ faults = 0

-----------------------------------------------------------------------------
(* Rows and claims in the database.                                        *)

\* AddPendingTaskRun, called for the starting tasks of a run and for the
\* tasks a success makes runnable.
AddPendingTaskRun(r) ==
    /\ status[r] = "absent"
    /\ status' = [status EXCEPT ![r] = "pending"]
    /\ UNCHANGED <<claimedBy, lease, routine, inFlight, retrying, alive,
                   podVars, adopted, expiredOnce, faults>>

\* Fault: the lease is not looked at, and a claimed row is handed out again.
ClaimableByID_IgnoresClaim(r) == status[r] = "pending"

\* Fault: a claim whose lease has run out is never given up.
ClaimableByID_IgnoresExpiry(r) == status[r] = "pending" /\ claimedBy[r] = NULL

\* The row may be claimed by its id: unclaimed, or its lease has run out.
ClaimableByID(r) ==
    /\ status[r] = "pending"
    /\ claimedBy[r] = NULL \/ lease[r] = "expired"

\* The rows ClaimTasks selects.  The SQLite manager looks at the status only.
Claimable(r) ==
    CASE Backend = "postgres" -> ClaimableByID(r)
      [] Backend = "sqlite"   -> status[r] = "pending"

\* Fault: the batch size is not cut down to what is still allowed.
ClaimLimit_Unclipped(w) ==
    IF MaxConcurrentClaims - inFlight[w] <= 0 THEN 0 ELSE ClaimBatchSize

\* The number of rows one tick of the poller may ask for.
ClaimLimit(w) ==
    LET allowed == MaxConcurrentClaims - inFlight[w]
    IN  IF ClaimBatchSize > allowed THEN allowed ELSE ClaimBatchSize

\* One tick of claimPoller: worker w claims the rows f[g], each for a fresh
\* goroutine g.  Which of the claimable rows a LIMIT returns is open, and
\* SKIP LOCKED may leave some out.
ClaimTasks(w, G, f) ==
    /\ w \in alive
    /\ G # {}
    /\ Cardinality(G) <= ClaimLimit(w)
    /\ \A g \in G : Claimable(f[g])
    /\ \A g, h \in G : f[g] = f[h] => g = h
    /\ claimedBy' = [r \in TaskRun |-> IF \E g \in G : f[g] = r THEN w
                                       ELSE claimedBy[r]]
    /\ lease' = [r \in TaskRun |-> IF \E g \in G : f[g] = r THEN "live"
                                   ELSE lease[r]]
    /\ routine' = [g \in Claim |-> IF g \in G THEN Started(f[g], w, TRUE)
                                   ELSE routine[g]]
    /\ inFlight' = [inFlight EXCEPT ![w] = @ + Cardinality(G)]
    /\ UNCHANGED <<status, retrying, alive, podVars, adopted, expiredOnce,
                   faults>>

\* Time passes the lease of row r.  When a goroutine still renews it, the
\* renewal came too late, which is counted as a fault.
LeaseExpires(r) ==
    /\ lease[r] = "live"
    /\ IF BeingRenewed(r) THEN faults < MaxFaults /\ faults' = faults + 1
                          ELSE faults' = faults
    /\ lease' = [lease EXCEPT ![r] = "expired"]
    /\ expiredOnce' = expiredOnce \cup {r}
    /\ UNCHANGED <<status, claimedBy, routine, inFlight, retrying, alive,
                   podVars, adopted>>

-----------------------------------------------------------------------------
(* The steps of processClaim, for a goroutine g of a running process.      *)

\* Fault: the statement has no condition on claimed_by.
OwnsClaim_Unchecked(g) == TRUE

\* The worker of goroutine g is the one the row is claimed by.
OwnsClaim(g) == claimedBy[routine[g].row] = routine[g].worker

\* The lease ticker fires and RenewLease finds the claim.  The row's status
\* is not looked at, and a lease that has run out is revived.
RenewLease(g) ==
    /\ routine[g].pc # "idle" /\ routine[g].renewing
    /\ OwnsClaim(g)
    /\ lease' = [lease EXCEPT ![routine[g].row] = "live"]
    /\ UNCHANGED <<status, claimedBy, routine, inFlight, retrying, alive,
                   podVars, adopted, expiredOnce, faults>>

\* The lease ticker fires and RenewLease fails: another worker owns the row,
\* or the database call fails (a fault).  cancel() ends renewCtx, which only
\* the ticker uses: allocation and finalization run on with ctx.
RenewLeaseFails(g) ==
    /\ routine[g].pc # "idle" /\ routine[g].renewing
    /\ IF OwnsClaim(g) THEN faults < MaxFaults /\ faults' = faults + 1
                       ELSE faults' = faults
    /\ routine' = [routine EXCEPT ![g].renewing = FALSE]
    /\ UNCHANGED <<dbVars, inFlight, retrying, alive, podVars, adopted,
                   expiredOnce>>

\* GetTaskForRun or the creation of the pod fails: the claim is left to
\* expire.
AllocateTaskFails(g) ==
    /\ routine[g].pc = "claimed"
    /\ Return(g)
    /\ UNCHANGED <<dbVars, retrying, alive, podVars, adopted, expiredOnce,
                   faults>>

\* GetTaskForRun finds the row's task.  The SQLite manager scans the columns
\* command and args, which hold JSON text, into slices of strings: Scan
\* reports an error for every row.
GetTaskForRun(g) == Backend = "postgres"

\* AllocateTask or AllocateTaskWithEnv creates pod p for the claimed row.
AllocateTask(g, p) ==
    /\ routine[g].pc = "claimed"
    /\ GetTaskForRun(g)
    /\ podPhase[p] = "none"
    /\ podPhase' = [podPhase EXCEPT ![p] = "active"]
    /\ podRow' = [podRow EXCEPT ![p] = routine[g].row]
    /\ routine' = [routine EXCEPT ![g].pc = "allocated", ![g].pod = p]
    /\ UNCHANGED <<dbVars, inFlight, retrying, alive, adopted, expiredOnce,
                   faults>>

\* FinalizeClaimToRunning finds the row claimed by this worker: the row
\* becomes 'running', whatever its status, and the claim is cleared.
FinalizeClaimToRunning(g) ==
    /\ routine[g].pc = "allocated"
    /\ OwnsClaim(g)
    /\ LET r == routine[g].row IN
          /\ status' = [status EXCEPT ![r] = "running"]
          /\ claimedBy' = [claimedBy EXCEPT ![r] = NULL]
          /\ lease' = [lease EXCEPT ![r] = "none"]
    /\ adopted' = adopted \cup {routine[g].pod}
    /\ Return(g)
    /\ UNCHANGED <<retrying, alive, podVars, expiredOnce, faults>>

\* FinalizeClaimToRunning fails, because the claim is another worker's or
\* because the database call fails (a fault).  The pod is deleted when the
\* listing by UID finds it, which ends its containers; else it runs on.
FinalizeClaimFails(g) ==
    /\ routine[g].pc = "allocated"
    /\ IF OwnsClaim(g) THEN faults < MaxFaults /\ faults' = faults + 1
                       ELSE faults' = faults
    /\ LET p == routine[g].pod IN
          \/ podPhase[p] = "active" /\ podPhase' = [podPhase EXCEPT ![p] = "failed"]
          \/ UNCHANGED podPhase
    /\ Return(g)
    /\ UNCHANGED <<dbVars, retrying, alive, podRow, adopted, expiredOnce>>

-----------------------------------------------------------------------------
(* Pods and the handling of their events.                                  *)

\* The containers of pod p end; Kubernetes, not this program, does this.
PodFinishes(p) ==
    /\ podPhase[p] = "active"
    /\ \E phase \in {"succeeded", "failed"} :
          podPhase' = [podPhase EXCEPT ![p] = phase]
    /\ UNCHANGED <<dbVars, routine, inFlight, retrying, alive, podRow,
                   adopted, expiredOnce, faults>>

\* The handler has deleted pod p.  The object stays until its finalizer
\* kontroler/logcollection is removed, and its event may be delivered again.
DeletePod(p) ==
    \/ podPhase' = [podPhase EXCEPT ![p] = "gone"]
    \/ UNCHANGED podPhase

\* handleSuccessfulTaskRun: MarkSuccessAndGetNextTasks sets the status of the
\* pod's row without looking at the status it had.
HandleSucceeded(p) ==
    /\ podPhase[p] = "succeeded"
    /\ DeletePod(p)
    /\ status' = [status EXCEPT ![podRow[p]] = "success"]
    /\ UNCHANGED <<claimedBy, lease, routine, inFlight, retrying, alive,
                   podRow, adopted, expiredOnce, faults>>

\* handleFailedTaskRun when ShouldRerun says no: MarkTaskAsFailed.
HandleFailedFinally(p) ==
    /\ podPhase[p] = "failed"
    /\ DeletePod(p)
    /\ status' = [status EXCEPT ![podRow[p]] = "failed"]
    /\ UNCHANGED <<claimedBy, lease, routine, inFlight, retrying, alive,
                   podRow, adopted, expiredOnce, faults>>

\* handleFailedTaskRun when ShouldRerun says yes: worker w inserts row r for
\* the retry.  The failed row keeps its status.
HandleFailedRetry(w, p, r) ==
    /\ w \in alive
    /\ retrying[w] = NULL
    /\ podPhase[p] = "failed"
    /\ DeletePod(p)
    /\ status[r] = "absent"
    /\ status' = [status EXCEPT ![r] = "pending"]
    /\ retrying' = [retrying EXCEPT ![w] = r]
    /\ UNCHANGED <<claimedBy, lease, routine, inFlight, alive, podRow, adopted,
                   expiredOnce, faults>>

\* retryFailedTask goes on with ClaimTaskByID and, when that finds the row
\* unclaimed, starts goroutine g for it, outside of the count inFlight.
ClaimTaskByID(w, g) ==
    LET r == retrying[w] IN
    /\ r # NULL
    /\ ClaimableByID(r)
    /\ routine[g].pc = "idle"
    /\ claimedBy' = [claimedBy EXCEPT ![r] = w]
    /\ lease' = [lease EXCEPT ![r] = "live"]
    /\ routine' = [routine EXCEPT ![g] = Started(r, w, FALSE)]
    /\ retrying' = [retrying EXCEPT ![w] = NULL]
    /\ UNCHANGED <<status, inFlight, alive, podVars, adopted, expiredOnce,
                   faults>>

\* A poller was faster: ClaimTaskByID reports an error and the handler
\* returns.
ClaimTaskByIDFails(w) ==
    /\ retrying[w] # NULL
    /\ ~ ClaimableByID(retrying[w])
    /\ retrying' = [retrying EXCEPT ![w] = NULL]
    /\ UNCHANGED <<dbVars, routine, inFlight, alive, podVars, adopted,
                   expiredOnce, faults>>

\* The process of worker w ends: its goroutines and the state of its event
\* handler are lost.  One worker at least keeps running.
Crash(w) ==
    /\ alive \ {w} # {}
    /\ w \in alive
    /\ faults < MaxFaults
    /\ faults' = faults + 1
    /\ alive' = alive \ {w}
    /\ routine' = [g \in Claim |-> IF routine[g].worker = w THEN Idle
                                   ELSE routine[g]]
    /\ inFlight' = [inFlight EXCEPT ![w] = 0]
    /\ retrying' = [retrying EXCEPT ![w] = NULL]
    /\ UNCHANGED <<dbVars, podVars, adopted, expiredOnce>>

-----------------------------------------------------------------------------
ClaimRow(r) ==
    \E w \in Worker, G \in SUBSET IdleRoutines :
        \E f \in [G -> TaskRun] : /\ \E g \in G : f[g] = r
                                  /\ ClaimTasks(w, G, f)

Next ==
    \/ \E r \in TaskRun : \/ AddPendingTaskRun(r)
                          \/ LeaseExpires(r)
    \/ \E w \in Worker, G \in SUBSET IdleRoutines :
          \E f \in [G -> TaskRun] : ClaimTasks(w, G, f)
    \/ \E g \in Claim : \/ RenewLease(g)
                        \/ RenewLeaseFails(g)
                        \/ AllocateTaskFails(g)
                        \/ \E p \in Pod : AllocateTask(g, p)
                        \/ FinalizeClaimToRunning(g)
                        \/ FinalizeClaimFails(g)
    \/ \E p \in Pod : \/ PodFinishes(p)
                      \/ HandleSucceeded(p)
                      \/ HandleFailedFinally(p)
                      \/ \E w \in Worker, r \in TaskRun :
                            HandleFailedRetry(w, p, r)
    \/ \E w \in Worker : \/ \E g \in Claim : ClaimTaskByID(w, g)
                         \/ ClaimTaskByIDFails(w)
                         \/ Crash(w)

Spec == Init /\ [][Next]_vars

\* Pollers tick for ever and every API or database call returns, sometimes
\* with success; a lease nobody renews runs out.  Nothing forces a pod to
\* finish, a row to be inserted or a fault to happen.
Fairness ==
    /\ \A r \in TaskRun : /\ SF_vars(ClaimRow(r))
                          /\ WF_vars(LeaseExpires(r) /\ ~BeingRenewed(r))
    /\ \A g \in Claim : /\ SF_vars(\E p \in Pod : AllocateTask(g, p))
                        /\ WF_vars(AllocateTaskFails(g)
                                   \/ \E p \in Pod : AllocateTask(g, p))
                        /\ WF_vars(FinalizeClaimToRunning(g) \/ FinalizeClaimFails(g))
    /\ \A w \in Worker : WF_vars(ClaimTaskByIDFails(w)
                                 \/ \E g \in Claim : ClaimTaskByID(w, g))

FairSpec == Spec /\ Fairness

-----------------------------------------------------------------------------
(* Properties.                                                             *)

\* At most one of the pods created for a row is ever adopted by a successful
\* FinalizeClaimToRunning, although several goroutines of several workers may
\* have claimed the row and created a pod each.
AdoptedAtMostOnce ==
    \A p, q \in adopted : podRow[p] = podRow[q] => p = q

\* Without a crash, a late renewal or a failed call no pod works unaccounted
\* for: it was adopted, or its goroutine still holds the claim of its row and
\* is about to finalize it.  No order of pollers, retries and events alone
\* leaves a stray pod (ClaimTasks, ClaimTaskByID, RenewLease, processClaim).
StrayNeedsFault ==
    faults = 0 =>
        \A p \in Pod : podPhase[p] = "active" =>
            \/ p \in adopted
            \/ \E g \in Claim : /\ routine[g].pc = "allocated" /\ routine[g].pod = p
                                /\ OwnsClaim(g)

\* A second pod for the same row needs an expired lease: as long as leases
\* are renewed in time, ClaimTasks and ClaimTaskByID never hand a row out
\* twice.
SecondPodNeedsExpiry ==
    \A p, q \in Pod :
        /\ p # q
        /\ podRow[p] = podRow[q]
        /\ podRow[p] # NULL
        => podRow[p] \in expiredOnce

\* inFlight counts the goroutines of the poller and stays within the limit.
InFlightBounded ==
    \A w \in Worker :
        /\ inFlight[w] = Cardinality({g \in Claim : /\ routine[g].worker = w
                                                    /\ routine[g].polled})
        /\ inFlight[w] <= MaxConcurrentClaims

\* Whatever worker crashes or loses its claim, a pending row does not stay
\* pending: another claim of it gets through to the end.
PendingIsStarted ==
    \A r \in TaskRun : status[r] = "pending" ~> status[r] # "pending"

=============================================================================
