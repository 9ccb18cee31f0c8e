---------------------------- MODULE DagCatalogue ----------------------------
(***************************************************************************)
(* The definitions of DAGs and DagTasks: objects of the cluster, rows of   *)
(* the database, and the processes that keep them together.                *)
(*                                                                         *)
(*   - the DAG reconciler stores every new spec of a DAG as a version of   *)
(*     its own and marks the DagTasks it refers to with a finalizer;       *)
(*   - the DagTask reconciler stores versions of DagTasks, and removes     *)
(*     them when an object without finalizer is deleted;                   *)
(*   - the scheduler creates a DagRun for every DAG that is due;           *)
(*   - the DagRun reconciler inserts the run and its first Task_Runs.      *)
(*                                                                         *)
(* controller-runtime runs one Reconcile per controller at a time, so each *)
(* is one process; a call of the API server or a transaction is one step,  *)
(* and may fail.  The controller may stop at any time and starts again.    *)
(* Of a DAG's tasks only those without dependencies are here: one inline   *)
(* task and one per reference.                                             *)
(***************************************************************************)
EXTENDS Naturals, Sequences, FiniteSets, Functions

CONSTANTS
    Dag,          \* DAG objects (name and namespace)
    NameOf, NsOf, \* their names and namespaces
    DagTask,      \* DagTask objects, named by themselves
    TaskNs,       \* their namespace
    Body,         \* contents of a DAG spec without "suspended"
    Refs,         \* Body -> the task references <<DagTask, version>>, in order
    Scheduled,    \* the bodies with a schedule
    TaskBody,     \* contents of a DagTask spec
    Stored,       \* DagTasks that were applied and stored before
    Period,       \* minutes between two occurrences of the schedule
    MaxEdits, MaxClock, MaxFaults,    \* bounds
    MaxCreateDagRunRetries            \* (5)

ASSUME CatalogueAssumption ==
    /\ {Period, MaxEdits, MaxClock, MaxFaults, MaxCreateDagRunRetries} \subseteq Nat
    /\ Period > 0
    /\ "none" \notin Body /\ Refs \in [Body -> Seq(DagTask \X Nat)]
    /\ Scheduled \subseteq Body /\ Stored \subseteq DagTask /\ IsFiniteSet(Stored)

VARIABLES
    backend,      \* the DAG manager: "postgres" or "sqlite"
    clock,        \* minutes
    dagObj, dagStatus,   \* the DAG objects: spec, status.phase
    phases,       \* the phases of each DAG since its spec was applied: a copy
                  \* in the reconciler's cache that has this spec has one of them
    taskObj,      \* the DagTask objects: [body, deleting, finalizer]
    dagRuns,      \* the DagRun objects created so far: spec [name] and why they
                  \* are, [dag, occurrence, at]
    dagQueue, taskQueue, runQueue,    \* work queues of the reconcilers
    db,           \* the tables: dags [id, dag, version, body, suspended, active,
                  \* nextTime], tasks [id, name, version, body], dagTasks [dag, pos,
                  \* task] (position 0 is the inline task, the others are
                  \* references), runs [obj, dag], taskRuns [run, task, copy]
    dagRec, taskRec, runRec,          \* what the reconcilers are doing
    creating,     \* goroutines of createDagRun
    up,           \* whether the controller runs
    unnoticed,    \* the DAGs whose deletion no reconciler will see
    edits, faults

status  == <<dagStatus, phases>>
objects == <<dagObj, status, taskObj>>
runs    == <<dagRuns, runQueue>>
queues  == <<dagQueue, taskQueue, runs>>
scheduler == <<clock, creating>>
process == <<up, unnoticed>>
vars == <<backend, objects, queues, db, dagRec, taskRec, runRec, scheduler, process,
          edits, faults>>

DAGSpec == [body : Body, suspended : BOOLEAN]
NoSpec  == [body |-> "none", suspended |-> FALSE]
NoTask  == [body |-> "none", deleting |-> FALSE, finalizer |-> FALSE]
DagIdle == [pc |-> "idle"]
TaskIdle == [pc |-> "idle"]
RunIdle == [pc |-> "idle"]

Init ==
    /\ backend \in {"postgres", "sqlite"}
    /\ clock = 0 /\ creating = {}
    /\ dagObj = [d \in Dag |-> NoSpec] /\ dagStatus = [d \in Dag |-> "none"]
    /\ phases = [d \in Dag |-> {"none"}]
    /\ up = TRUE /\ unnoticed = {}
    /\ \E body \in TaskBody, order \in [Stored -> 1..Cardinality(Stored)] :
        /\ \A t, u \in Stored : order[t] = order[u] => t = u
        /\ taskObj = [t \in DagTask |-> IF t \in Stored
                                        THEN [NoTask EXCEPT !.body = body] ELSE NoTask]
        /\ db = [dags |-> {}, dagTasks |-> {}, runs |-> {}, taskRuns |-> {},
                 tasks |-> {[id |-> order[t], name |-> t, version |-> 1, body |-> body]
                            : t \in Stored},
                 next |-> 1 + Cardinality(Stored)]
    /\ dagQueue = {} /\ taskQueue = {} /\ dagRuns = {} /\ runQueue = {}
    /\ dagRec = DagIdle /\ taskRec = TaskIdle /\ runRec = RunIdle
    /\ edits = 0 /\ faults = 0

-----------------------------------------------------------------------------
(* Users (external).  A change of a spec, and a deletion, change the        *)
(* generation, so that the object's key is queued.  A controller that is    *)
(* down will list the objects when it starts: it finds the changes, and     *)
(* what was deleted is not there.                                           *)

ApplyDag(d) ==
    /\ edits < MaxEdits /\ edits' = edits + 1
    /\ \E spec \in DAGSpec : spec # dagObj[d] /\ dagObj' = [dagObj EXCEPT ![d] = spec]
    /\ phases' = [phases EXCEPT ![d] = {dagStatus[d]}]
    /\ dagQueue' = dagQueue \cup {d} /\ unnoticed' = unnoticed \ {d}
    /\ UNCHANGED <<backend, dagStatus, taskObj, taskQueue, runs, db, dagRec,
                   taskRec, runRec, scheduler, up, faults>>

\* Nothing puts a finalizer on a DAG: the object is gone at once.
DeleteDagObject(d) ==
    /\ edits < MaxEdits /\ edits' = edits + 1
    /\ dagObj[d] # NoSpec
    /\ dagObj' = [dagObj EXCEPT ![d] = NoSpec]
    /\ dagStatus' = [dagStatus EXCEPT ![d] = "none"]
    /\ phases' = [phases EXCEPT ![d] = {"none"}]
    /\ IF up THEN dagQueue' = dagQueue \cup {d} /\ UNCHANGED unnoticed
             ELSE dagQueue' = dagQueue \ {d} /\ unnoticed' = unnoticed \cup {d}
    /\ UNCHANGED <<backend, taskObj, taskQueue, runs, db, dagRec, taskRec,
                   runRec, scheduler, up, faults>>

ApplyTask(t) ==
    /\ edits < MaxEdits /\ edits' = edits + 1
    /\ ~taskObj[t].deleting
    /\ \E body \in TaskBody :
        body # taskObj[t].body /\ taskObj' = [taskObj EXCEPT ![t].body = body]
    /\ taskQueue' = taskQueue \cup {t}
    /\ UNCHANGED <<backend, dagObj, status, dagQueue, runs, db, dagRec,
                   taskRec, runRec, scheduler, process, faults>>

DeleteTaskObject(t) ==
    /\ edits < MaxEdits /\ edits' = edits + 1
    /\ taskObj[t].body # "none" /\ ~taskObj[t].deleting
    /\ taskObj' = [taskObj EXCEPT ![t] = IF @.finalizer THEN [@ EXCEPT !.deleting = TRUE]
                                                        ELSE NoTask]
    /\ taskQueue' = IF up \/ taskObj[t].finalizer THEN taskQueue \cup {t} ELSE taskQueue \ {t}
    /\ UNCHANGED <<backend, dagObj, status, dagQueue, runs, db, dagRec,
                   taskRec, runRec, scheduler, process, faults>>

-----------------------------------------------------------------------------
(* Queries and transactions of the two managers.                            *)

Highest(rows) == {r \in rows : \A s \in rows : s.version <= r.version}

IsTask(x, id) == x.dag = id.dag /\ x.pos = id.pos

\* The newest version of this DAG.
GetDag(tables, d) == Highest({r \in tables.dags : r.dag = d})

\* The newest version by name, in whatever namespace.
dagNameToDagId(tables, name) == Highest({r \in tables.dags : NameOf[r.dag] = name})

\* Tasks with inline = FALSE, by name and version.
RefRows(tables, ref) ==
    {t \in tables.tasks : t.name = ref[1] /\ t.version = ref[2]}

Found(tables, body) == {ref \in Range(Refs[body]) : RefRows(tables, ref) # {}}

\* One query: a map of the tasks that were found, as long as the list.  A
\* reference that is used twice is in the map once.
GetTaskRefsParametersPostgres(tables, body) ==
    Cardinality(Found(tables, body)) = Len(Refs[body])

\* A query for every reference.
GetTaskRefsParametersSqlite(tables, body) == Found(tables, body) = Range(Refs[body])

GetTaskRefsParameters(tables, body) ==
    IF backend = "postgres" THEN GetTaskRefsParametersPostgres(tables, body)
    ELSE GetTaskRefsParametersSqlite(tables, body)

setSuspended(tables, d, suspended) ==
    [tables EXCEPT !.dags = {IF r.dag = d THEN [r EXCEPT !.suspended = suspended] ELSE r
                             : r \in @}]

setInactive_Forgotten(rows, d, version) == rows

setInactive(rows, d, version) ==
    {IF r.dag = d /\ r.version = version THEN [r EXCEPT !.active = FALSE] ELSE r
     : r \in rows}

InlineTask(id) == [id |-> id, name |-> "inline", version |-> 1, body |-> "inline"]

\* insertTask: the inline task gets a row of Tasks, a reference is looked up;
\* each gets a row of DAG_Tasks.
insertTasks(tables, id, body) ==
    LET refs == {[dag |-> id, pos |-> i, task |-> (CHOOSE t \in RefRows(tables, Refs[body][i])
                                                  : TRUE).id] : i \in DOMAIN Refs[body]}
    IN  [tables EXCEPT
            !.tasks = @ \cup {InlineTask(id + 1)},
            !.dagTasks = @ \cup {[dag |-> id, pos |-> 0, task |-> id + 1]} \cup refs,
            !.next = @ + 2]

NewDag(id, d, spec, version) ==
    [id |-> id, dag |-> d, version |-> version, body |-> spec.body,
     suspended |-> spec.suspended, active |-> TRUE,
     nextTime |-> IF spec.body \in Scheduled THEN clock + Period ELSE 0]

insertDAG(tables, d, spec, version) ==
    insertTasks([tables EXCEPT !.dags = @ \cup {NewDag(tables.next, d, spec, version)}],
                tables.next, spec.body)

NextVersion(tables, d) ==
    LET newest == GetDag(tables, d)
    IN  IF newest = {} THEN 0 ELSE (CHOOSE r \in newest : TRUE).version + 1

\* A spec with the hash of the newest version only changes "suspended" (or
\* nothing, SameDag); any other becomes the next version, and the version
\* before it inactive.
InsertDAG(tables, d, spec) ==
    LET version == NextVersion(tables, d)
        added   == insertDAG(tables, d, spec, version)
    IN  IF \E r \in GetDag(tables, d) : r.body = spec.body
        THEN setSuspended(tables, d, spec.suspended)
        ELSE IF version = 0 THEN added
        ELSE [added EXCEPT !.dags = setInactive(@, d, version - 1)]

\* What a deleted row takes with it: the foreign keys of Postgres cascade.
Cascade(tables) ==
    LET dagTasks == {x \in tables.dagTasks :
                        /\ \E r \in tables.dags : r.id = x.dag
                        /\ \E t \in tables.tasks : t.id = x.task}
        left == {r \in tables.runs : \E x \in tables.dags : x.id = r.dag}
    IN  [tables EXCEPT !.dagTasks = dagTasks, !.runs = left,
                       !.taskRuns = {x \in @ : /\ \E r \in left : r.obj = x.run
                                               /\ \E y \in dagTasks : IsTask(y, x.task)}]

\* getTaskDeletionData: the DagTasks that versions of d refer to.
TaskDeletionData(tables, d) ==
    {t \in DagTask : \E r \in tables.dags, x \in tables.dagTasks, row \in tables.tasks :
        r.dag = d /\ x.dag = r.id /\ x.task = row.id /\ row.name = t}

UnusedTaskNames_IgnoresOthers(tables, d) == TaskDeletionData(tables, d)

\* ... and those of them that no other DAG refers to.
UnusedTaskNames(tables, d) ==
    {t \in TaskDeletionData(tables, d) :
        \A other \in Dag \ {d} : t \notin TaskDeletionData(tables, other)}

\* The inline tasks of every DAG of that name, in any namespace.
InlineTasks(tables, d) ==
    {t \in tables.tasks :
        /\ t.name = "inline"
        /\ \E x \in tables.dagTasks, r \in tables.dags :
              x.task = t.id /\ x.dag = r.id /\ NameOf[r.dag] = NameOf[d]}

DeleteDAGPostgres(tables, d) ==
    Cascade([tables EXCEPT !.dags = {r \in @ : r.dag # d},
                           !.tasks = @ \ InlineTasks(tables, d)])

\* Without foreign keys: DAG_Tasks and runs of this DAG are deleted one
\* statement after the other, other references to its tasks stay.
DeleteDAGSqlite(tables, d) ==
    LET ids == {r.id : r \in {r \in tables.dags : r.dag = d}}
    IN  [tables EXCEPT
            !.dags = {r \in @ : r.dag # d},
            !.tasks = @ \ InlineTasks(tables, d),
            !.dagTasks = {x \in @ : x.dag \notin ids},
            !.runs = {r \in @ : r.dag \notin ids},
            !.taskRuns = {x \in @ : \A r \in tables.runs : r.obj = x.run => r.dag \notin ids}]

DeleteDAG(tables, d) ==
    IF backend = "postgres" THEN DeleteDAGPostgres(tables, d) ELSE DeleteDAGSqlite(tables, d)

NewestTask(tables, t) == Highest({r \in tables.tasks : r.name = t})

\* The same spec as the newest version is not stored again.
AddTask(tables, t, body) ==
    LET newest  == NewestTask(tables, t)
        version == IF newest = {} THEN 1 ELSE (CHOOSE r \in newest : TRUE).version + 1
    IN  IF \E r \in newest : r.body = body THEN tables
        ELSE [tables EXCEPT !.tasks = @ \cup {[id |-> tables.next, name |-> t,
                                               version |-> version, body |-> body]},
                            !.next = @ + 1]

DeleteTaskSqlite(tables, t) == [tables EXCEPT !.tasks = {r \in @ : r.name # t}]

\* The foreign keys take the uses of the task with it.
DeleteTaskPostgres(tables, t) == Cascade(DeleteTaskSqlite(tables, t))

DeleteTask(tables, t) ==
    IF backend = "postgres" THEN DeleteTaskPostgres(tables, t) ELSE DeleteTaskSqlite(tables, t)

-----------------------------------------------------------------------------
(* The DAG reconciler.                                                      *)

Fault == faults < MaxFaults /\ faults' = faults + 1

\* The object is read from the cache, where the status may be an older one.
DagReconcile(d) ==
    /\ up /\ dagRec.pc = "idle" /\ d \in dagQueue
    /\ dagQueue' = dagQueue \ {d}
    /\ \E phase \in phases[d] :
        dagRec' = [pc |-> IF dagObj[d] = NoSpec THEN "delete" ELSE "check",
                   dag |-> d, spec |-> dagObj[d], phase |-> phase, names |-> {}]
    /\ UNCHANGED <<backend, objects, taskQueue, runs, db, taskRec, runRec,
                   scheduler, process, edits, faults>>

\* An error that Reconcile returns: the key is queued again.
DagAgain == dagRec' = DagIdle /\ dagQueue' = dagQueue \cup {dagRec.dag}

\* GetTaskRefsParameters and ValidateDAG (module DagValidation).
CheckDag ==
    /\ dagRec.pc = "check"
    /\ \/ /\ GetTaskRefsParameters(db, dagRec.spec.body)
          /\ dagRec' = [dagRec EXCEPT !.pc = "store"]
          /\ UNCHANGED faults
       \/ /\ (~GetTaskRefsParameters(db, dagRec.spec.body) /\ UNCHANGED faults) \/ Fault
          /\ dagRec' = [dagRec EXCEPT !.pc = "Failed"]
    /\ UNCHANGED <<backend, objects, queues, db, taskRec, runRec, scheduler,
                   process, edits>>

SameHash(tables, d, spec) == \E r \in GetDag(tables, d) : r.body = spec.body

SameDag_HashOnly(tables, d, spec) == SameHash(tables, d, spec)

\* "applying the same dag" ends the reconciliation without a new status.
SameDag(tables, d, spec) ==
    \E r \in GetDag(tables, d) : r.body = spec.body /\ r.suspended = spec.suspended

\* Only a new version looks up its references: one may have gone since the check.
Storable(tables, d, spec) ==
    SameHash(tables, d, spec) \/ GetTaskRefsParameters(tables, spec.body)

StoreDag ==
    LET d == dagRec.dag
        spec == dagRec.spec
    IN  /\ dagRec.pc = "store"
        /\ \/ /\ SameDag(db, d, spec)
              /\ dagRec' = DagIdle
              /\ UNCHANGED <<db, faults>>
           \/ /\ ~SameDag(db, d, spec) /\ Storable(db, d, spec)
              /\ db' = InsertDAG(db, d, spec)
              /\ dagRec' = [dagRec EXCEPT !.pc = "finalise"]
              /\ UNCHANGED faults
           \/ /\ (~Storable(db, d, spec) /\ UNCHANGED faults) \/ Fault
              /\ dagRec' = [dagRec EXCEPT !.pc = "Failed"]
              /\ UNCHANGED db
        /\ UNCHANGED <<backend, objects, queues, taskRec, runRec, scheduler,
                       process, edits>>

\* updatingDagTaskFinalisers, in the namespace of the DAG; the API server
\* accepts no new finalizer on an object that is being deleted.
Finalises(t, d) ==
    /\ NsOf[d] = TaskNs
    /\ \E ref \in Range(Refs[dagRec.spec.body]) : ref[1] = t
    /\ taskObj[t].body # "none" /\ ~taskObj[t].deleting

\* The calls that fail, which are only logged.
Missed(calls) == IF calls = {} THEN UNCHANGED faults ELSE Fault

FinaliseRefs ==
    /\ dagRec.pc = "finalise"
    /\ \E missed \in SUBSET {t \in DagTask : Finalises(t, dagRec.dag)} :
        /\ Missed(missed)
        /\ taskObj' = [t \in DagTask |-> IF Finalises(t, dagRec.dag) /\ t \notin missed
                                         THEN [taskObj[t] EXCEPT !.finalizer = TRUE]
                                         ELSE taskObj[t]]
    /\ dagRec' = [dagRec EXCEPT !.pc = "Successful"]
    /\ UNCHANGED <<backend, dagObj, status, queues, db, taskRec, runRec, scheduler,
                   process, edits>>

\* markDAGFailed and markDAGSuccessful.  The patch has what differs from the
\* copy that was read, so a copy with this phase leaves the object's alone.
PatchPhase(d, phase) ==
    IF dagRec.phase = phase THEN UNCHANGED status
    ELSE /\ dagStatus' = [dagStatus EXCEPT ![d] = phase]
         /\ phases' = [phases EXCEPT ![d] = @ \cup {phase}]

\* Nothing is queued after the patch, but when it fails, as it does when the
\* object has gone.
MarkDag ==
    LET d == dagRec.dag
    IN  /\ dagRec.pc \in {"Failed", "Successful"}
        /\ \/ /\ dagObj[d] # NoSpec
              /\ PatchPhase(d, dagRec.pc)
              /\ dagRec' = DagIdle
              /\ UNCHANGED <<dagQueue, faults>>
           \/ /\ (dagObj[d] = NoSpec /\ UNCHANGED faults) \/ Fault
              /\ DagAgain
              /\ UNCHANGED status
        /\ UNCHANGED <<backend, dagObj, taskObj, taskQueue, runs, db, taskRec, runRec,
                       scheduler, process, edits>>

HandleDagDeletion ==
    /\ dagRec.pc = "delete"
    /\ \/ /\ db' = DeleteDAG(db, dagRec.dag)
          /\ dagRec' = [dagRec EXCEPT !.pc = "unfinalise",
                                      !.names = UnusedTaskNames(db, dagRec.dag)]
          /\ UNCHANGED <<dagQueue, faults>>
       \/ Fault /\ DagAgain /\ UNCHANGED db
    /\ UNCHANGED <<backend, objects, taskQueue, runs, taskRec, runRec, scheduler,
                   process, edits>>

Freeable == {t \in dagRec.names : taskObj[t].finalizer /\ NsOf[dagRec.dag] = TaskNs}

\* removingDagTaskFinalisers: an object that was waiting for it goes.
UnfinaliseRefs ==
    /\ dagRec.pc = "unfinalise"
    /\ \E freed \in SUBSET Freeable :
        LET gone == {t \in freed : taskObj[t].deleting}
        IN  /\ Missed(Freeable \ freed)
            /\ taskObj' = [t \in DagTask |->
                              IF t \in gone THEN NoTask
                              ELSE IF t \in freed THEN [taskObj[t] EXCEPT !.finalizer = FALSE]
                              ELSE taskObj[t]]
            /\ taskQueue' = taskQueue \cup gone
    /\ dagRec' = DagIdle
    /\ UNCHANGED <<backend, dagObj, status, dagQueue, runs, db, taskRec, runRec,
                   scheduler, process, edits>>

-----------------------------------------------------------------------------
(* The DagTask reconciler.                                                  *)

TaskReconcile(t) ==
    /\ up /\ taskRec.pc = "idle" /\ t \in taskQueue
    /\ taskQueue' = taskQueue \ {t}
    /\ taskRec' = CASE taskObj[t].body = "none" ->
                            [pc |-> "delete", task |-> t, body |-> "none"]
                    [] taskObj[t].deleting -> TaskIdle  \* it has a finalizer
                    [] OTHER -> [pc |-> "add", task |-> t, body |-> taskObj[t].body]
    /\ UNCHANGED <<backend, objects, dagQueue, runs, db, dagRec, runRec,
                   scheduler, process, edits, faults>>

StoreTask ==
    /\ taskRec.pc \in {"add", "delete"}
    /\ \/ /\ db' = IF taskRec.pc = "add" THEN AddTask(db, taskRec.task, taskRec.body)
                                         ELSE DeleteTask(db, taskRec.task)
          /\ UNCHANGED <<taskQueue, faults>>
       \/ Fault /\ taskQueue' = taskQueue \cup {taskRec.task} /\ UNCHANGED db
    /\ taskRec' = TaskIdle
    /\ UNCHANGED <<backend, objects, dagQueue, runs, dagRec, runRec, scheduler,
                   process, edits>>

-----------------------------------------------------------------------------
(* The scheduler.                                                           *)

Due(rows, now) == {r \in rows : /\ r.body \in Scheduled /\ r.nextTime <= now
                                /\ r.active /\ ~r.suspended}

\* GetDAGsToStartAndUpdate.  Postgres updates the row whose dag_id is
\* DagInfo.DagId, which was never set: no row has the id 0.
AdvancePostgres(rows, now) ==
    {IF r \in Due(rows, now) /\ r.id = 0 THEN [r EXCEPT !.nextTime = now + Period] ELSE r
     : r \in rows}

AdvanceSqlite(rows, now) ==
    {IF r \in Due(rows, now) THEN [r EXCEPT !.nextTime = now + Period] ELSE r : r \in rows}

DagRunOf(r, now) == [name |-> NameOf[r.dag], dag |-> r.id, occurrence |-> r.nextTime,
                     at |-> now]

\* The goroutine that processDags starts for a DAG.
Creation(r, now) == [obj |-> DagRunOf(r, now), attempt |-> 1]

\* The timer of the next minute starts processDags.
ProcessDags ==
    LET now == clock + 1
    IN  /\ up /\ now <= MaxClock /\ clock' = now
        /\ db' = [db EXCEPT !.dags = IF backend = "postgres" THEN AdvancePostgres(@, now)
                                                             ELSE AdvanceSqlite(@, now)]
        /\ creating' = creating \cup {Creation(r, now) : r \in Due(db.dags, now)}
        /\ UNCHANGED <<backend, objects, queues, dagRec, taskRec, runRec, process,
                       edits, faults>>

\* A retry that makes a name of its own.
RetryCreation_Renames(c) ==
    \/ creating' = creating \ {c}
    \/ /\ c.attempt < MaxCreateDagRunRetries
       /\ creating' = (creating \ {c}) \cup {[c EXCEPT !.attempt = @ + 1, !.obj.at = @ + 1]}

\* shouldRetryCreateDagRun, for an error that may be a passing one.
RetryCreation(c) ==
    \/ creating' = creating \ {c}
    \/ /\ c.attempt < MaxCreateDagRunRetries
       /\ creating' = (creating \ {c}) \cup {[c EXCEPT !.attempt = @ + 1]}

\* One attempt of createDagRun, under the same object name every time.  An
\* error may hide that the object was created: then AlreadyExists ends it.
CreateDagRun(c) ==
    \/ /\ dagRuns' = dagRuns \cup {c.obj}
       /\ creating' = creating \ {c}
       /\ UNCHANGED faults
    \/ /\ Fault
       /\ dagRuns' \in {dagRuns, dagRuns \cup {c.obj}}
       /\ RetryCreation(c)

ScheduleDagRun ==
    /\ \E c \in creating : CreateDagRun(c)
    /\ runQueue' = runQueue \cup (dagRuns' \ dagRuns)
    /\ UNCHANGED <<backend, objects, dagQueue, taskQueue, db, dagRec, taskRec,
                   runRec, clock, process, edits>>

-----------------------------------------------------------------------------
(* The DagRun reconciler: what it does to the tables (module RunLifecycle   *)
(* has the rest).                                                           *)

\* DagExists: without the DAG nothing happens, and nothing is tried again.
RunReconcile ==
    \E q \in runQueue :
        /\ up /\ runRec.pc = "idle"
        /\ IF dagNameToDagId(db, q.name) = {}
           THEN runQueue' = runQueue \ {q} /\ UNCHANGED runRec
           ELSE /\ runRec' = [pc |-> "create", obj |-> q, todo |-> {}]
                /\ UNCHANGED runQueue
        /\ UNCHANGED <<backend, objects, dagQueue, taskQueue, dagRuns, db, dagRec,
                       taskRec, scheduler, process, edits, faults>>

FindRun(tables, q) == {r \in tables.runs : r.obj = q}

\* The run's name is unique, so a second call finds the first.
CreateDAGRun(tables, q) ==
    LET newest == CHOOSE r \in dagNameToDagId(tables, q.name) : TRUE
    IN  IF FindRun(tables, q) # {} THEN tables
        ELSE [tables EXCEPT !.runs = @ \cup {[obj |-> q, dag |-> newest.id]}]

InsertRun ==
    /\ runRec.pc = "create"
    /\ IF dagNameToDagId(db, runRec.obj.name) = {}
       THEN runRec' = RunIdle /\ UNCHANGED db    \* an error: queued again
       ELSE /\ db' = CreateDAGRun(db, runRec.obj)
            /\ runRec' = [runRec EXCEPT !.pc = "start"]
    /\ UNCHANGED <<backend, objects, queues, dagRec, taskRec, scheduler, process,
                   edits, faults>>

\* DAG_Tasks, joined with their Tasks and with the run's own version ...
TasksOfRun(tables, run) ==
    {x \in tables.dagTasks : /\ \E r \in FindRun(tables, run) : r.dag = x.dag
                             /\ \E t \in tables.tasks : t.id = x.task}

\* ... as far as they belong to the newest version of that name.
GetStartingTasks(tables, run) ==
    {[dag |-> x.dag, pos |-> x.pos] : x \in {x \in TasksOfRun(tables, run) :
        \E r \in dagNameToDagId(tables, run.name) : r.id = x.dag}}

FetchStartingTasks ==
    /\ runRec.pc = "start"
    /\ runRec' = [runRec EXCEPT !.pc = "rows",
                                !.todo = GetStartingTasks(db, runRec.obj)]
    /\ UNCHANGED <<backend, objects, queues, db, dagRec, taskRec, scheduler, process,
                   edits, faults>>

TaskRuns(run, task) == {x \in db.taskRuns : x.run = run /\ x.task = task}

TaskRunExists_Unchecked(tables, run, task) == FALSE

TaskRunExists(tables, run, task) == \E x \in tables.taskRuns : x.run = run /\ x.task = task

\* AddPendingTaskRun: only Postgres has the foreign keys that refuse a row
\* without its run and its task.
CanInsert(tables, run, task) ==
    backend = "postgres" =>
        /\ \E r \in tables.runs : r.obj = run
        /\ \E x \in tables.dagTasks : IsTask(x, task)

\* One turn of the loop over the starting tasks.
EnqueueTask ==
    /\ runRec.pc = "rows"
    /\ \E task \in runRec.todo :
        /\ runRec' = [runRec EXCEPT !.todo = @ \ {task}]
        /\ IF TaskRunExists(db, runRec.obj, task) THEN UNCHANGED db
           ELSE /\ CanInsert(db, runRec.obj, task)
                /\ db' = [db EXCEPT !.taskRuns = @ \cup {[run |-> runRec.obj,
                        task |-> task, copy |-> Cardinality(TaskRuns(runRec.obj, task))]}]
    /\ UNCHANGED <<backend, objects, queues, dagRec, taskRec, scheduler, process,
                   edits, faults>>

\* An error, of whatever call: the object is queued again.
RunFails ==
    /\ \/ /\ runRec.pc = "rows" /\ UNCHANGED faults
          /\ \E task \in runRec.todo : ~CanInsert(db, runRec.obj, task)
       \/ runRec.pc # "idle" /\ Fault
    /\ runRec' = RunIdle
    /\ UNCHANGED <<backend, objects, queues, db, dagRec, taskRec, scheduler, process,
                   edits>>

RunReconciled ==
    /\ runRec.pc = "rows" /\ runRec.todo = {}
    /\ runRec' = RunIdle /\ runQueue' = runQueue \ {runRec.obj}
    /\ UNCHANGED <<backend, objects, dagQueue, taskQueue, dagRuns, db, dagRec,
                   taskRec, scheduler, process, edits, faults>>

-----------------------------------------------------------------------------
(* The process.  What its goroutines were doing is lost; the objects that   *)
(* exist are listed when it starts, and each is then reconciled again.  No  *)
(* minute passes in between.                                                *)

Crash ==
    /\ up /\ Fault /\ up' = FALSE
    /\ dagRec' = DagIdle /\ taskRec' = TaskIdle /\ runRec' = RunIdle /\ creating' = {}
    /\ dagQueue' = {d \in Dag : dagObj[d] # NoSpec}
    /\ unnoticed' = unnoticed \cup
            {d \in Dag : /\ dagObj[d] = NoSpec
                         /\ d \in dagQueue \/ (dagRec.pc # "idle" /\ dagRec.dag = d)}
    /\ taskQueue' = {t \in DagTask : taskObj[t].body # "none"}
    /\ runQueue' = dagRuns
    /\ UNCHANGED <<backend, objects, dagRuns, db, clock, edits>>

Start ==
    /\ ~up /\ up' = TRUE
    /\ UNCHANGED <<backend, objects, queues, db, dagRec, taskRec, runRec, scheduler,
                   unnoticed, edits, faults>>

Next ==
    \/ \E d \in Dag : ApplyDag(d) \/ DeleteDagObject(d) \/ DagReconcile(d)
    \/ \E t \in DagTask : ApplyTask(t) \/ DeleteTaskObject(t) \/ TaskReconcile(t)
    \/ CheckDag \/ StoreDag \/ FinaliseRefs \/ MarkDag
    \/ HandleDagDeletion \/ UnfinaliseRefs
    \/ StoreTask
    \/ ProcessDags \/ ScheduleDagRun
    \/ RunReconcile \/ InsertRun \/ FetchStartingTasks \/ EnqueueTask \/ RunFails
    \/ RunReconciled
    \/ Crash \/ Start

Spec == Init /\ [][Next]_vars
-----------------------------------------------------------------------------
(* Properties                                                               *)

\* At most one version of a DAG is active, and it is the newest: older
\* versions keep their runs but are never scheduled again (InsertDAG and
\* setInactive of the two managers, against deletion and re-creation).
OneActiveVersion ==
    \A r, s \in db.dags :
        r.active /\ r.dag = s.dag => s = r \/ (s.version < r.version /\ ~s.active)

AtRest(d) == up /\ dagRec = DagIdle /\ d \notin dagQueue

IsStored(d) == \E r \in GetDag(db, d) : /\ r.body = dagObj[d].body
                                        /\ r.suspended = dagObj[d].suspended

\* When the DAG reconciler has nothing left to do for a DAG, whatever call
\* failed and wherever the controller stopped, the newest version in the
\* database is the spec of the object, or the object has said "Failed" since
\* that spec was applied; a deleted DAG has no row left, unless the controller
\* was down when it should have seen the deletion (dag_controller.go Reconcile).
StoredOrFailed ==
    \A d \in Dag :
        AtRest(d) => IF dagObj[d] = NoSpec THEN d \in unnoticed \/ GetDag(db, d) = {}
                     ELSE "Failed" \in phases[d] \/ IsStored(d)

\* The finalizer of a DagTask is taken away only when no DAG of its
\* namespace refers to it any more (DeleteDAG counts the other users in its
\* transaction; the finalizers are removed after it).
FinalizerKeptWhileUsed ==
    [][\A t \in DagTask :
        taskObj[t].finalizer /\ ~taskObj'[t].finalizer
            => \A d \in Dag : NsOf[d] = TaskNs => t \notin TaskDeletionData(db, d)]_vars

\* When the DagRun reconciler is done with a run whose version is still the
\* newest, every starting task has exactly one row, whatever failed and was
\* tried again on the way (dagrun_controller.go Reconcile, TaskRunExists).
StartedOnce ==
    \A q \in dagRuns \ runQueue : \A task \in GetStartingTasks(db, q) :
        Cardinality(TaskRuns(q, task)) = 1

\* With SQLite an occurrence of a DAG's schedule makes one DagRun at most,
\* although every minute starts a goroutine and a creation is retried
\* (dagScheduler.go createDagRun, GetDAGsToStartAndUpdate).
OneRunPerOccurrence ==
    backend = "sqlite" =>
        \A q, p \in dagRuns : q.dag = p.dag /\ q.occurrence = p.occurrence => q = p

\* What the interface of the managers says of every backend: "Gets all dags
\* to start, then updates to the next time it should be executed".
StartsOncePerOccurrence ==
    \A q, p \in dagRuns : q.dag = p.dag /\ q.occurrence = p.occurrence => q = p
=============================================================================
