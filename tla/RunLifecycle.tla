---------------------------- MODULE RunLifecycle ----------------------------
(***************************************************************************)
(* One DagRun object from its creation to its deletion, and what it leaves *)
(* behind: the run's rows, its pods, its workspace PVC and its logs.       *)
(*                                                                         *)
(*   - the DagRun reconciler puts a finalizer on the object, creates the   *)
(*     PVC and the rows, and stores the run's id in the object's status;   *)
(*     when the object is deleted it takes everything away again;          *)
(*   - workers make pods of the rows; events of a pod start goroutines     *)
(*     that copy its log to a store and then remove the finalizer          *)
(*     "kontroler/logcollection" of the pod;                               *)
(*   - the orphan reconciler deletes pods whose row is no longer active.   *)
(*                                                                         *)
(* A call of the API server, of the store or of the database is one step.  *)
(* Every task of the run is a starting task, with one row and one pod.     *)
(***************************************************************************)
EXTENDS Naturals, FiniteSets

CONSTANTS
    Pod,         \* the pods of the run, one for each row of Task_Runs
    Collector,   \* goroutines of performLogCollection
    Template,    \* what GetWorkspacePVCTemplate may say of the arbitrary
                 \* version that DagExists returns: is there a workspace?
    MaxEvents, MaxFaults    \* bounds

ASSUME LifecycleAssumption ==
    /\ IsFiniteSet(Pod) /\ {MaxEvents, MaxFaults} \subseteq Nat
    /\ Template \subseteq BOOLEAN

RunId == 1

VARIABLES
    store,       \* the log store: "filesystem" or "s3"
    obj,         \* the DagRun object
    queued, rec, \* the reconciler's work queue and what it is doing
    run, row,    \* the rows of DAG_Runs and Task_Runs
    listed,      \* pods with a row of Task_Pods
    pods, pvc,
    log,         \* what the store has of each pod's log
    uploads,     \* pods whose multipart upload is open
    coll,        \* what the goroutines are doing
    fetching,    \* the map of MarkAsFetching
    abandoned,   \* a goroutine was lost, or could not clean up
    readFailed,  \* pods whose stream broke with an error after the first part
    abortFailed, \* pods with an upload that could not be aborted
    events, faults

object  == <<obj, queued, rec>>
tables  == <<run, row, listed>>
cluster == <<pods, pvc>>
logs    == <<log, uploads, coll, fetching, abandoned, readFailed, abortFailed>>
vars == <<store, object, tables, cluster, logs, events, faults>>

Idle    == [pc |-> "idle", runId |-> 0, todo |-> {}]
Resting == [pc |-> "idle", pod |-> "none", parts |-> FALSE, listed |-> {}]
NoPod   == [phase |-> "none", presence |-> "none", finalizer |-> FALSE, claim |-> FALSE]

Creation == {"pvc", "insert", "rows", "status"}
Deletion == {"suspend", "pods", "deleteRun", "listLogs", "deleteLogs", "deletePvc",
             "finalizer"}

TypeOK ==
    /\ store \in {"filesystem", "s3"}
    /\ obj \in [state : {"absent", "present", "deleting", "gone"},
                finalizer : BOOLEAN, runId : {0, RunId}]
    /\ queued \in BOOLEAN
    /\ rec \in [pc : {"idle"} \cup Creation \cup Deletion, runId : {0, RunId},
                todo : SUBSET Pod]
    /\ run \in {"none", "running", "suspended", "gone"}
    /\ row \in [Pod -> {"none", "pending", "running", "ended", "gone"}]
    /\ listed \subseteq Pod
    /\ pods \in [Pod -> [phase : {"none", "active", "ended"}, claim : BOOLEAN,
                         presence : {"none", "present", "terminating", "gone"},
                         finalizer : BOOLEAN]]
    /\ pvc \in {"none", "bound", "gone"}
    /\ log \in [Pod -> {"none", "partial", "complete"}]
    /\ uploads \subseteq Pod /\ fetching \subseteq Pod
    /\ readFailed \subseteq Pod /\ abortFailed \subseteq Pod
    /\ uploads # {} => store = "s3"
    /\ coll \in [Collector -> [pc : {"idle", "check", "mark", "create", "open", "copy",
                                     "unfinalize", "exists", "list", "delete"},
                               pod : Pod \cup {"none"}, parts : BOOLEAN, listed : SUBSET Pod]]
    /\ abandoned \in BOOLEAN
    /\ events \in 0..MaxEvents /\ faults \in 0..MaxFaults

Init ==
    /\ store \in {"filesystem", "s3"}
    /\ obj = [state |-> "absent", finalizer |-> FALSE, runId |-> 0]
    /\ queued = FALSE /\ rec = Idle
    /\ run = "none" /\ row = [p \in Pod |-> "none"] /\ listed = {}
    /\ pods = [p \in Pod |-> NoPod] /\ pvc = "none"
    /\ log = [p \in Pod |-> "none"] /\ uploads = {}
    /\ coll = [c \in Collector |-> Resting] /\ fetching = {}
    /\ abandoned = FALSE /\ readFailed = {} /\ abortFailed = {}
    /\ events = 0 /\ faults = 0

Fault == faults < MaxFaults /\ faults' = faults + 1

\* Deletion of a pod object: it stays until its finalizer goes.
Deleted(pod) == IF pod.presence \in {"none", "gone"} THEN pod
                ELSE [pod EXCEPT !.presence = IF @ # "gone" /\ pod.finalizer
                                              THEN "terminating" ELSE "gone"]
Unfinalized(pod) == [pod EXCEPT !.finalizer = FALSE,
                                !.presence = IF @ = "terminating" THEN "gone" ELSE @]

-----------------------------------------------------------------------------
(* Users (external).                                                        *)

CreateObject ==
    /\ obj.state = "absent"
    /\ obj' = [obj EXCEPT !.state = "present"] /\ queued' = TRUE
    /\ UNCHANGED <<store, rec, tables, cluster, logs, events, faults>>

DeleteObject ==
    /\ obj.state = "present"
    /\ obj' = [obj EXCEPT !.state = IF obj.finalizer THEN "deleting" ELSE "gone"]
    /\ queued' = TRUE
    /\ UNCHANGED <<store, rec, tables, cluster, logs, events, faults>>

-----------------------------------------------------------------------------
(* The DagRun reconciler.                                                   *)

GoTo(pc) == rec' = [rec EXCEPT !.pc = pc]

\* Reconcile up to the first call that may be repeated.  An object that got
\* its finalizer is queued again; without its DAG nothing is done.
Reconcile ==
    /\ rec.pc = "idle" /\ queued
    /\ CASE obj.state \in {"absent", "gone"} ->
              queued' = FALSE /\ UNCHANGED <<obj, rec>>
         [] obj.state = "deleting" ->
              /\ queued' = FALSE /\ UNCHANGED obj
              /\ rec' = [Idle EXCEPT !.pc = "suspend", !.runId = obj.runId]
         [] obj.state = "present" /\ ~obj.finalizer ->
              obj' = [obj EXCEPT !.finalizer = TRUE] /\ UNCHANGED <<queued, rec>>
         [] OTHER ->
              /\ queued' = FALSE /\ UNCHANGED obj
              /\ \E dagExists \in BOOLEAN :
                    rec' = IF dagExists THEN [Idle EXCEPT !.pc = "pvc"] ELSE Idle
    /\ UNCHANGED <<store, tables, cluster, logs, events, faults>>

\* GetWorkspacePVCTemplate and createPVC: one that exists already is fine.
CreatePvc ==
    /\ rec.pc = "pvc"
    /\ \E enabled \in Template : pvc' = IF enabled THEN "bound" ELSE pvc
    /\ GoTo("insert")
    /\ UNCHANGED <<store, obj, queued, tables, pods, logs, events, faults>>

\* CreateDAGRun and GetStartingTasks.
InsertRun ==
    /\ rec.pc = "insert"
    /\ run' = IF run = "none" THEN "running" ELSE run
    /\ rec' = [rec EXCEPT !.pc = "rows", !.runId = RunId, !.todo = Pod]
    /\ UNCHANGED <<store, obj, queued, row, listed, cluster, logs, events, faults>>

\* TaskRunExists and AddPendingTaskRun, for one starting task.
InsertRow ==
    /\ rec.pc = "rows"
    /\ \/ \E p \in rec.todo :
            /\ row' = [row EXCEPT ![p] = IF @ = "none" THEN "pending" ELSE @]
            /\ rec' = [rec EXCEPT !.todo = @ \ {p}]
       \/ rec.todo = {} /\ GoTo("status") /\ UNCHANGED row
    /\ UNCHANGED <<store, obj, queued, run, listed, cluster, logs, events, faults>>

PatchStatus ==
    /\ rec.pc = "status"
    /\ obj' = [obj EXCEPT !.runId = rec.runId] /\ rec' = Idle
    /\ UNCHANGED <<store, queued, tables, cluster, logs, events, faults>>

\* The order of handleDeletion.
NextDeletion_LogsFirst(pc) ==
    CASE pc = "suspend"    -> "pods"
      [] pc = "pods"       -> "listLogs"
      [] pc = "listLogs"   -> "deleteLogs"
      [] pc = "deleteLogs" -> "deleteRun"
      [] pc = "deleteRun"  -> "deletePvc"
      [] pc = "deletePvc"  -> "finalizer"

NextDeletion(pc) ==
    CASE pc = "suspend"    -> "pods"
      [] pc = "pods"       -> "deleteRun"
      [] pc = "deleteRun"  -> "listLogs"
      [] pc = "listLogs"   -> "deleteLogs"
      [] pc = "deleteLogs" -> "deletePvc"
      [] pc = "deletePvc"  -> "finalizer"

\* The pods SuspendDagRun returns: a row of Task_Pods, and a row that is running.
RunningPods == {p \in listed : row[p] = "running"}

SuspendDagRun ==
    /\ rec.pc = "suspend"
    /\ rec' = [rec EXCEPT !.pc = NextDeletion(@),
                          !.todo = IF rec.runId = RunId THEN RunningPods ELSE {}]
    /\ run' = IF rec.runId = RunId /\ run = "running" THEN "suspended" ELSE run
    /\ UNCHANGED <<store, obj, queued, row, listed, cluster, logs, events, faults>>

\* deletePodByNameAndNamespace: its patch compares the pod with a copy made
\* after the finalizer was taken out, and changes nothing.  Errors are ignored.
DeletePods ==
    /\ rec.pc = "pods"
    /\ \/ \E p \in rec.todo :
            /\ pods' = [pods EXCEPT ![p] = Deleted(@)]
            /\ rec' = [rec EXCEPT !.todo = @ \ {p}]
       \/ rec.todo = {} /\ GoTo(NextDeletion(rec.pc)) /\ UNCHANGED pods
    /\ UNCHANGED <<store, obj, queued, tables, pvc, logs, events, faults>>

\* DeleteDagRun, with everything that refers to the run.
DeleteDagRun ==
    /\ rec.pc = "deleteRun"
    /\ IF rec.runId = RunId
       THEN /\ run' = "gone" /\ listed' = {}
            /\ row' = [p \in Pod |-> IF row[p] = "none" THEN "none" ELSE "gone"]
       ELSE UNCHANGED tables
    /\ GoTo(NextDeletion(rec.pc))
    /\ UNCHANGED <<store, obj, queued, cluster, logs, events, faults>>

StoredLogs == {p \in Pod : log[p] # "none"}

\* LogStore.DeleteLogs: what was listed is deleted.
ListLogs ==
    /\ rec.pc = "listLogs"
    /\ rec' = [rec EXCEPT !.pc = NextDeletion(@),
                          !.todo = IF rec.runId = RunId THEN StoredLogs ELSE {}]
    /\ UNCHANGED <<store, obj, queued, tables, cluster, logs, events, faults>>

DeleteLogs ==
    /\ rec.pc = "deleteLogs"
    /\ log' = [p \in Pod |-> IF p \in rec.todo THEN "none" ELSE log[p]]
    /\ rec' = [rec EXCEPT !.pc = NextDeletion(@), !.todo = {}]
    /\ UNCHANGED <<store, obj, queued, tables, cluster, uploads, coll, fetching,
                   abandoned, readFailed, abortFailed, events, faults>>

\* deletePVCByNameAndNamespace removes every finalizer of the PVC first.
DeletePvc ==
    /\ rec.pc = "deletePvc"
    /\ pvc' = IF pvc = "bound" THEN "gone" ELSE pvc
    /\ GoTo(NextDeletion(rec.pc))
    /\ UNCHANGED <<store, obj, queued, tables, pods, logs, events, faults>>

RemoveDagRunFinalizer ==
    /\ rec.pc = "finalizer"
    /\ obj' = [obj EXCEPT !.state = "gone", !.finalizer = FALSE]
    /\ rec' = Idle
    /\ UNCHANGED <<store, queued, tables, cluster, logs, events, faults>>

Interrupted_GoesOn == rec' = [rec EXCEPT !.pc = "finalizer"] /\ UNCHANGED queued

\* Reconcile returns an error, or the controller restarts: the object will be
\* reconciled from the start.
Interrupted == rec' = Idle /\ queued' = TRUE

ReconcileFails ==
    /\ rec.pc \notin {"idle", "pods"} /\ Fault
    /\ Interrupted
    /\ UNCHANGED <<store, obj, tables, cluster, logs, events>>

\* A restart lists every object.
ControllerRestarts ==
    /\ rec.pc = "idle" /\ ~queued /\ Fault
    /\ Interrupted
    /\ UNCHANGED <<store, obj, tables, cluster, logs, events>>

ReconcilerStep ==
    \/ Reconcile \/ CreatePvc \/ InsertRun \/ InsertRow \/ PatchStatus
    \/ SuspendDagRun \/ DeletePods \/ DeleteDagRun \/ ListLogs \/ DeleteLogs
    \/ DeletePvc \/ RemoveDagRunFinalizer

-----------------------------------------------------------------------------
(* Rows become pods (module TaskClaims), pods end.                          *)

\* A worker claims the row; the row may go before the pod is created.
ClaimRow(p) ==
    /\ row[p] = "pending" /\ pods[p].phase = "none" /\ ~pods[p].claim
    /\ pods' = [pods EXCEPT ![p].claim = TRUE]
    /\ UNCHANGED <<store, object, tables, pvc, logs, events, faults>>

StartPod(p) ==
    /\ pods[p].claim /\ pods[p].phase = "none"
    /\ pods' = [pods EXCEPT ![p] = [phase |-> "active", presence |-> "present",
                                    finalizer |-> TRUE, claim |-> TRUE]]
    /\ UNCHANGED <<store, object, tables, pvc, logs, events, faults>>

\* FinalizeClaimToRunning, whatever the status of the row has become; when the
\* row has gone, the pod is deleted if the listing finds it.
FinalizeClaim(p) ==
    /\ pods[p].claim /\ pods[p].phase # "none"
    /\ \E pod \in IF row[p] = "gone" THEN {pods[p], Deleted(pods[p])} ELSE {pods[p]} :
          pods' = [pods EXCEPT ![p] = [pod EXCEPT !.claim = FALSE]]
    /\ row' = [row EXCEPT ![p] = IF @ = "gone" THEN @ ELSE "running"]
    /\ UNCHANGED <<store, object, run, listed, pvc, logs, events, faults>>

PodEnds(p) ==
    /\ pods[p].phase = "active"
    /\ pods' = [pods EXCEPT ![p].phase = "ended"]
    /\ UNCHANGED <<store, object, tables, pvc, logs, events, faults>>

\* handleOutcome with an event of pod p, which may be an old one: the log
\* collection starts, and the end of a pod that still exists deletes the pod,
\* marks the row and, with the last row, deletes the PVC.
HandleEvent(p, c) ==
    /\ pods[p].phase # "none" /\ coll[c].pc = "idle"
    /\ events < MaxEvents /\ events' = events + 1
    /\ coll' = [coll EXCEPT ![c] = [Resting EXCEPT !.pc = "check", !.pod = p]]
    /\ listed' = IF row[p] = "gone" THEN listed ELSE listed \cup {p}
    /\ \/ UNCHANGED <<row, cluster>>
       \/ /\ pods[p].phase = "ended" /\ pods[p].presence # "gone"
          /\ pods' = [pods EXCEPT ![p] = Deleted(@)]
          /\ row' = [row EXCEPT ![p] = IF @ = "gone" THEN @ ELSE "ended"]
          /\ pvc' = IF pvc = "bound" /\ \A q \in Pod : row'[q] = "ended" THEN "gone" ELSE pvc
    /\ UNCHANGED <<store, object, run, log, uploads, fetching, abandoned, readFailed, abortFailed,
                   faults>>

-----------------------------------------------------------------------------
(* The log collection, goroutine c.                                         *)

At(c, pc) == coll[c].pc = pc
MoveTo(c, pc) == coll' = [coll EXCEPT ![c].pc = pc]
Return(c) == coll' = [coll EXCEPT ![c] = Resting]
notLogs == <<store, object, tables, cluster, events>>

\* isAlreadyFetching.
Check(c) ==
    /\ At(c, "check")
    /\ IF coll[c].pod \in fetching THEN Return(c) ELSE MoveTo(c, "mark")
    /\ UNCHANGED <<notLogs, log, uploads, fetching, abandoned, readFailed, abortFailed, faults>>

MayFetch_Unchecked(p) == TRUE

\* MarkAsFetching looks again, under the lock.
MayFetch(p) == p \notin fetching

Mark(c) ==
    /\ At(c, "mark")
    /\ \/ /\ MayFetch(coll[c].pod)
          /\ fetching' = fetching \cup {coll[c].pod}
          /\ MoveTo(c, IF store = "filesystem" THEN "create" ELSE "open")
       \/ ~MayFetch(coll[c].pod) /\ Return(c) /\ UNCHANGED fetching
    /\ UNCHANGED <<notLogs, log, uploads, abandoned, readFailed, abortFailed, faults>>

\* The file is created, or cut to nothing.
CreateFile(c) ==
    /\ At(c, "create")
    /\ log' = [log EXCEPT ![coll[c].pod] = "partial"]
    /\ MoveTo(c, "open")
    /\ UNCHANGED <<notLogs, uploads, fetching, abandoned, readFailed, abortFailed, faults>>

\* GetLogs: "not found" ends the upload without an error; with S3 the
\* multipart upload is created next.
Multipart_AnyStore(p) == uploads \cup {p}

Multipart(p) == IF store = "s3" THEN uploads \cup {p} ELSE uploads

OpenStream(c) ==
    LET p == coll[c].pod
    IN  /\ At(c, "open")
        /\ IF pods[p].presence = "gone" THEN MoveTo(c, "unfinalize") /\ UNCHANGED uploads
           ELSE /\ MoveTo(c, "copy")
                /\ uploads' = Multipart(p)
        /\ UNCHANGED <<notLogs, log, fetching, abandoned, readFailed, abortFailed, faults>>

\* A full part of a long log is uploaded while the pod runs.
UploadPart(c) ==
    /\ At(c, "copy") /\ store = "s3" /\ ~coll[c].parts
    /\ coll' = [coll EXCEPT ![c].parts = TRUE]
    /\ UNCHANGED <<notLogs, log, uploads, fetching, abandoned, readFailed, abortFailed, faults>>

\* cleanupPartialUpload: the error of AbortMultipartUpload is only logged, and
\* the upload stays open.
Abort(p) ==
    \/ uploads' = uploads \ {p} /\ UNCHANGED abortFailed
    \/ p \in uploads /\ abortFailed' = abortFailed \cup {p} /\ UNCHANGED uploads

\* The stream ends with the pod.  S3 completes the upload, or puts a short
\* log as one object and aborts the upload.  A file that DeleteLogs removed
\* stays removed.
CopyLog(c) ==
    LET p == coll[c].pod
    IN  /\ At(c, "copy") /\ pods[p].phase = "ended"
        /\ log' = [log EXCEPT ![p] = IF store = "filesystem" /\ @ = "none" THEN @ ELSE "complete"]
        /\ \/ coll[c].parts /\ uploads' = uploads \ {p} /\ UNCHANGED abortFailed
           \/ ~coll[c].parts /\ Abort(p)
        /\ IF p \in uploads' THEN Fault ELSE UNCHANGED faults
        /\ MoveTo(c, "unfinalize")
        /\ UNCHANGED <<notLogs, fetching, abandoned, readFailed>>

PodLost_LeavesUpload(c) == UNCHANGED <<log, uploads, abortFailed>>

PodLost_StoresPart(c) ==
    /\ Abort(coll[c].pod)
    /\ log' = [log EXCEPT ![coll[c].pod] = "partial"]

\* The pod was deleted while its log was read: what was uploaded is aborted.
PodLost(c) == Abort(coll[c].pod) /\ UNCHANGED log

\* A refused connection is taken for a deleted pod; with files so is a stream
\* that breaks off.
CopyStops(c) ==
    /\ At(c, "copy")
    /\ PodLost(c)
    /\ \/ /\ pods[coll[c].pod].presence = "gone"
          /\ IF coll[c].pod \in uploads' THEN Fault ELSE UNCHANGED faults
       \/ Fault
    /\ MoveTo(c, "unfinalize")
    /\ UNCHANGED <<notLogs, fetching, abandoned, readFailed>>

\* Any other error returns without removing the finalizer.  A call of S3 that
\* fails aborts the upload; a read that fails does so only before the first
\* part.
UploadFails(c) ==
    /\ Fault
    /\ \/ At(c, "open") /\ UNCHANGED <<uploads, readFailed, abortFailed>>
       \/ /\ At(c, "copy") /\ pods[coll[c].pod].presence # "gone"
          /\ \/ Abort(coll[c].pod) /\ UNCHANGED readFailed
             \/ /\ coll[c].parts
                /\ readFailed' = readFailed \cup {coll[c].pod}
                /\ UNCHANGED <<uploads, abortFailed>>
    /\ MoveTo(c, "exists")
    /\ UNCHANGED <<notLogs, log, fetching, abandoned>>

\* RemoveFinalizer, after five conflicts without success.
RemoveFinalizer(c) ==
    /\ At(c, "unfinalize")
    /\ \/ pods' = [pods EXCEPT ![coll[c].pod] = Unfinalized(@)] /\ UNCHANGED faults
       \/ Fault /\ UNCHANGED pods
    /\ MoveTo(c, "exists")
    /\ UNCHANGED <<store, object, tables, pvc, events, log, uploads, fetching, abandoned,
                   readFailed, abortFailed>>

DagrunExists == run \in {"running", "suspended"}

\* UnlistFetching is deferred.
Leave(c) == Return(c) /\ fetching' = fetching \ {coll[c].pod}

CheckRun(c) ==
    /\ At(c, "exists")
    /\ \/ /\ ~DagrunExists /\ MoveTo(c, "list")
          /\ UNCHANGED <<fetching, abandoned, faults>>
       \/ DagrunExists /\ Leave(c) /\ UNCHANGED <<abandoned, faults>>
       \/ Fault /\ Leave(c) /\ abandoned' = TRUE
    /\ UNCHANGED <<notLogs, log, uploads, readFailed, abortFailed>>

\* cleanupLogsForDeletedDagrun deletes the logs of all pods of the run.
CleanUp(c) ==
    \/ /\ At(c, "list")
       /\ coll' = [coll EXCEPT ![c].pc = "delete", ![c].listed = StoredLogs]
       /\ UNCHANGED <<notLogs, log, uploads, fetching, abandoned, readFailed, abortFailed, faults>>
    \/ /\ At(c, "delete")
       /\ log' = [p \in Pod |-> IF p \in coll[c].listed THEN "none" ELSE log[p]]
       /\ Leave(c)
       /\ UNCHANGED <<notLogs, uploads, abandoned, readFailed, abortFailed, faults>>
    \/ /\ At(c, "list") \/ At(c, "delete")
       /\ Fault /\ Leave(c) /\ abandoned' = TRUE
       /\ UNCHANGED <<notLogs, log, uploads, readFailed, abortFailed>>

\* The process of the workers restarts.
WorkersRestart ==
    /\ Fault /\ \E c \in Collector : coll[c].pc # "idle"
    /\ coll' = [c \in Collector |-> Resting] /\ fetching' = {} /\ abandoned' = TRUE
    /\ UNCHANGED <<notLogs, log, uploads, readFailed, abortFailed>>

Collect(c) ==
    \/ Check(c) \/ Mark(c) \/ CreateFile(c) \/ OpenStream(c) \/ CopyLog(c)
    \/ CopyStops(c) \/ RemoveFinalizer(c) \/ CheckRun(c) \/ CleanUp(c)

-----------------------------------------------------------------------------
(* The orphan reconciler, for a pod older than its grace period.            *)

IsOrphan_NeedsRow(p) == row[p] = "ended"

\* GetTaskRunStatus: not found, or neither running nor pending.
IsOrphan(p) == row[p] \in {"gone", "ended"}

\* The finalizers are taken from the pod as it was listed; a conflict leaves
\* them for the next round.  The pod is deleted in any case.
DeleteOrphan(p, conflict) ==
    /\ pods[p].presence \in {"present", "terminating"} /\ IsOrphan(p)
    /\ pods' = [pods EXCEPT ![p] = IF conflict THEN Deleted(@) ELSE Deleted(Unfinalized(@))]
    /\ UNCHANGED <<store, object, tables, pvc, logs, events, faults>>

Next ==
    \/ CreateObject \/ DeleteObject
    \/ ReconcilerStep \/ ReconcileFails \/ ControllerRestarts
    \/ \E p \in Pod : \/ ClaimRow(p) \/ StartPod(p) \/ FinalizeClaim(p) \/ PodEnds(p)
                      \/ \E c \in Collector : HandleEvent(p, c)
                      \/ \E conflict \in BOOLEAN : DeleteOrphan(p, conflict)
    \/ \E c \in Collector : Collect(c) \/ UploadPart(c) \/ UploadFails(c)
    \/ WorkersRestart

Spec == Init /\ [][Next]_vars

\* The work queue tries again, the orphan reconciler's ticker never stops and
\* its updates do not conflict for ever.
Fairness ==
    /\ WF_vars(ReconcilerStep)
    /\ \A p \in Pod : SF_vars(DeleteOrphan(p, FALSE))

FairSpec == Spec /\ Fairness
-----------------------------------------------------------------------------
(* Properties                                                               *)

\* "already fetching": no two goroutines copy the log of one pod at the same
\* time, although every event starts one (IsFetching, then MarkAsFetching).
OneCollectorPerPod ==
    \A c, d \in Collector :
        /\ {coll[c].pc, coll[d].pc} \cap {"idle", "check", "mark"} = {}
        /\ coll[c].pod = coll[d].pod
        => c = d

\* "Remove the finalizer only after all cleanup succeeded": when the object is
\* gone, so are the PVC and the rows of the run, unless the object went before
\* its status had the run's id (handleDeletion of dagrun_controller.go).
CleanedUp ==
    obj.state = "gone" =>
        /\ pvc # "bound"
        /\ ~DagrunExists \/ obj.runId = 0

\* The logs of a deleted run go as well: whoever comes last, the reconciler or
\* a goroutine that was still copying, deletes them (uploadLogsAndCleanup).
LogsOfDeletedRunGo ==
    /\ obj.state = "gone" /\ run = "gone" /\ ~abandoned
    /\ \A c \in Collector : coll[c].pc = "idle"
    => \A p \in Pod : log[p] = "none"

\* S3 keeps a log that is complete until the run is deleted: a later event of
\* the pod never replaces it by less (UploadLogs of the two stores; a file is
\* cut to nothing before the pod is asked for its log).
LogIsKept ==
    [][\A p \in Pod : store = "s3" /\ log[p] = "complete" /\ log'[p] # "complete"
                        => ~DagrunExists]_vars

\* An open multipart upload belongs to a goroutine, unless reading the log
\* failed after the first part, S3 refused to abort the upload or the process
\* died (the deferred cleanup of uploadLogsWithGetter).
PartsBelongToSomeone ==
    \A p \in uploads : \/ \E c \in Collector : coll[c].pod = p /\ coll[c].pc = "copy"
                       \/ p \in readFailed \cup abortFailed \/ abandoned

\* The pods of a run that was deleted go, those whose finalizer the deletion
\* left in place and those that were created on the way included.
PodsOfDeletedRunGo ==
    (run = "gone") ~> [](\A p \in Pod : pods[p].presence \in {"none", "gone"})
=============================================================================
