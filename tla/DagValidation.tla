--------------------------- MODULE DagValidation ---------------------------
(***************************************************************************)
(* From the text of a DAG to a run of it: the DSL is turned into tasks and *)
(* validated (internal/dagdsl), the DAG is validated (dag_types.go), its   *)
(* tasks and dependencies become rows (insertDAG), and a run starts the    *)
(* rows without dependencies and, after each success, those whose          *)
(* dependencies are all met (getNextRunnableTasks).                        *)
(*                                                                         *)
(* A runnable task is started at once and ends in one step: DagRunProgress *)
(* has the steps in between, retries and crashes.  Images, commands and    *)
(* scripts are one bit: filled or not.                                     *)
(***************************************************************************)
EXTENDS Naturals, FiniteSets, SequencesExt

CONSTANT Objects    \* the DAG objects that users apply, in some sets

(* params are those of the object itself.  If it has a DSL (dsl), its tasks *)
(* come from there, and edges and dslParams are the DSL's graph and         *)
(* parameters.  A task has version 1 and ref FALSE unless it refers to a    *)
(* DagTask.                                                                 *)
TaskSpec == [name : STRING, version : Nat, ref : BOOLEAN, filled : BOOLEAN,
             runAfter : Seq(STRING), params : SUBSET STRING]
Parameter == [name : STRING, default : {"value", "secret", "both", "none"}]
DagObject == [dsl : BOOLEAN, tasks : Seq(TaskSpec), edges : Seq(STRING \X STRING),
              params : Seq(Parameter), dslParams : Seq(Parameter)]

ASSUME ObjectsAssumption == \A family \in Objects : \A o \in family : o \in DagObject

VARIABLES
    obj,        \* the object in hand
    pc,         \* the next step, or how it ended: "badDsl" or "refused"
    deps,       \* the rows of Dependencies, by task and place in its runAfter:
                \* pairs of rows of DAG_Tasks
    status      \* of each row of DAG_Tasks in the run

vars == <<obj, pc, deps, status>>

tasks == obj.tasks
Row   == DOMAIN tasks       \* DAG_Tasks has one row per task, in their order
Names(ts) == {ts[i].name : i \in DOMAIN ts}

Init ==
    /\ \E family \in Objects : obj \in family
    /\ pc = IF obj.dsl THEN "dsl" ELSE "validate"
    /\ deps = <<>>
    /\ status = [i \in Row |-> "none"]

-----------------------------------------------------------------------------
(* The DSL.                                                                 *)

\* The edges read from their targets to their sources.
buildDependencyMap_Backwards(edges, name) ==
    LET into == {i \in DOMAIN edges : edges[i][1] = name}
        nth(k) == CHOOSE i \in into : Cardinality({j \in into : j <= i}) = k
    IN  [k \in 1..Cardinality(into) |-> edges[nth(k)][2]]

\* buildDependencyMap: the sources of the edges into a task, in their order.
buildDependencyMap(edges, name) ==
    LET into == {i \in DOMAIN edges : edges[i][2] = name}
        nth(k) == CHOOSE i \in into : Cardinality({j \in into : j <= i}) = k
    IN  [k \in 1..Cardinality(into) |-> edges[nth(k)][1]]

createTaskSpec(task, edges) ==
    [task EXCEPT !.runAfter = buildDependencyMap(edges, task.name)]

\* convertToDAGSpec goes through the tasks: an edge to a task that is not
\* defined is dropped here.
convertToDAGSpec(o) ==
    [o EXCEPT !.tasks = [i \in DOMAIN o.tasks |-> createTaskSpec(o.tasks[i], o.edges)],
              !.params = o.dslParams]

hasGraph(o) == \E i \in DOMAIN o.tasks : o.tasks[i].runAfter # <<>>

validateGraphTaskReferences(o) ==
    \A i \in DOMAIN o.tasks : ToSet(o.tasks[i].runAfter) \subseteq Names(o.tasks)

validateParameters(o) ==
    \A i \in DOMAIN o.params :
        o.params[i].name # "" /\ o.params[i].default \in {"value", "secret"}

validateTaskParameterReferences(o) ==
    \A i \in DOMAIN o.tasks : o.tasks[i].params \subseteq Names(o.params)

ValidateDAGSpec(o) ==
    /\ hasGraph(o) /\ validateGraphTaskReferences(o)
    /\ validateParameters(o) /\ validateTaskParameterReferences(o)

\* The end of processDSL.  Parameters of the object itself stay if the DSL has
\* none; a DSL that was accepted has tasks.
Merged(o) ==
    LET parsed == convertToDAGSpec(o)
    IN  IF parsed.params = <<>> THEN [parsed EXCEPT !.params = o.params] ELSE parsed

\* processDSL.  A refused object is marked as failed.
ProcessDSL ==
    /\ pc = "dsl"
    /\ LET parsed == convertToDAGSpec(obj)
       IN  \/ ValidateDAGSpec(parsed) /\ obj' = Merged(obj) /\ pc' = "validate"
           \/ ~ValidateDAGSpec(parsed) /\ UNCHANGED obj /\ pc' = "badDsl"
    /\ UNCHANGED <<deps, status>>

-----------------------------------------------------------------------------
(* ValidateDAG.                                                             *)

\* A reference needs only a name: not even a duplicate is noticed.
checkFieldsFilled(ts) ==
    \A i \in DOMAIN ts : ~ts[i].ref =>
        /\ ts[i].filled
        /\ \A j \in 1..(i - 1) : ts[j].ref \/ ts[j].name # ts[i].name

\* refParams, the parameters of a DagTask, are among task.params.
checkParameters(o) ==
    LET paramsMap == {o.params[i].name : i \in DOMAIN o.params}
    IN  /\ \A i \in DOMAIN o.params : /\ o.params[i].name # ""
                                      /\ o.params[i].default # "none"
                                      /\ o.params[i].default # "both"
        /\ \A i \in DOMAIN o.tasks : \A value \in o.tasks[i].params : value \in paramsMap

\* What the tasks called name run after, in the order of the specification.
DependenciesOf(ts, name) ==
    FoldLeft(LAMBDA acc, t : IF t.name = name THEN acc \o t.runAfter ELSE acc, <<>>, ts)

AllNames(ts) == Names(ts) \cup UNION {ToSet(ts[i].runAfter) : i \in DOMAIN ts}

\* visit: onStack is recStack, seen is visited.
visit(ts) ==
    LET all == AllNames(ts)
        search[name \in all, onStack \in SUBSET all, seen \in SUBSET all] ==
            IF name \in onStack THEN [cycle |-> TRUE, seen |-> seen]
            ELSE IF name \in seen THEN [cycle |-> FALSE, seen |-> seen]
            ELSE FoldLeft(LAMBDA acc, dep :
                              IF acc.cycle THEN acc
                              ELSE search[dep, onStack \cup {name}, acc.seen],
                          [cycle |-> FALSE, seen |-> seen \cup {name}],
                          DependenciesOf(ts, name))
    IN  search

checkNoCycles(ts) ==
    ~FoldLeft(LAMBDA acc, t : IF acc.cycle THEN acc ELSE visit(ts)[t.name, {}, acc.seen],
              [cycle |-> FALSE, seen |-> {}], ts).cycle

checkRunAfterTasksExist(ts) ==
    \A i \in DOMAIN ts : ToSet(ts[i].runAfter) \subseteq Names(ts)

Neighbours_OneWay(ts, name) == ToSet(DependenciesOf(ts, name))

Neighbours(ts, name) ==
    ToSet(DependenciesOf(ts, name)) \cup
    {ts[i].name : i \in {j \in DOMAIN ts : name \in ToSet(ts[j].runAfter)}}

\* dfs: what is reached from the tasks in seen.
dfs(ts) ==
    LET search[seen \in SUBSET (AllNames(ts) \cup {""})] ==
            LET next == UNION {Neighbours(ts, name) : name \in seen}
            IN  IF next \subseteq seen THEN seen ELSE search[seen \cup next]
    IN  search

\* The search starts at some task: "Get first node" takes it from a map.
checkAllTasksConnected(ts, start) == Names(ts) \subseteq dfs(ts)[{start}]

checkStartingTask(ts) == \E i \in DOMAIN ts : ts[i].runAfter = <<>>

ValidateDAG(o, start) ==
    /\ checkFieldsFilled(o.tasks) /\ checkParameters(o)
    /\ checkNoCycles(o.tasks) /\ checkRunAfterTasksExist(o.tasks)
    /\ checkAllTasksConnected(o.tasks, start) /\ checkStartingTask(o.tasks)

Validate ==
    /\ pc = "validate"
    /\ \E start \in IF tasks = <<>> THEN {""} ELSE Names(tasks) :
          pc' = IF ValidateDAG(obj, start) THEN "store" ELSE "refused"
    /\ UNCHANGED <<obj, deps, status>>

-----------------------------------------------------------------------------
(* The rows, and a run.                                                     *)

RowsOf(name) == {i \in Row : tasks[i].name = name}
Extremes(rows) ==
    {i \in rows : \/ \A j \in rows : tasks[i].version <= tasks[j].version
                  \/ \A j \in rows : tasks[i].version >= tasks[j].version}

\* createDependencyConnection for task i.  A query that finds several rows
\* takes one of them: of the lowest version in Postgres, of the highest in
\* SQLite.
createDependencyConnection(i) ==
    LET after == tasks[i].runAfter
    IN  {[k \in DOMAIN after |-> <<self, dep[after[k]]>>] :
            self \in {j \in RowsOf(tasks[i].name) : tasks[j].version = tasks[i].version},
            dep \in {f \in [ToSet(after) -> Row] :
                        \A name \in ToSet(after) : f[name] \in Extremes(RowsOf(name))}}

\* insertDAG, then a run of the DAG: GetStartingTasks.
StartingTasks(rows) == {i \in Row : \A k \in DOMAIN rows : rows[k][1] # i}

Store ==
    /\ pc = "store" /\ pc' = "run"
    /\ \E connection \in [Row -> UNION {createDependencyConnection(i) : i \in Row}] :
          /\ \A i \in Row : connection[i] \in createDependencyConnection(i)
          /\ deps' = [p \in UNION {{i} \X DOMAIN tasks[i].runAfter : i \in Row} |->
                          connection[p[1]][p[2]]]
    /\ status' = [i \in Row |-> IF i \in StartingTasks(deps') THEN "running" ELSE "none"]
    /\ UNCHANGED obj

Count(rows, P(_)) == Cardinality({k \in DOMAIN rows : P(rows[k])})

getDependencyCounts(i) == Count(deps, LAMBDA d : d[1] = i)

getMetDependencies_Distinct(i, st) ==
    Cardinality({d[2] : d \in {e \in ToSet(deps) : e[1] = i /\ st[e[2]] = "success"}})

\* The rows of Dependencies are joined with those of Task_Runs.
getMetDependencies(i, st) == Count(deps, LAMBDA d : d[1] = i /\ st[d[2]] = "success")

getRunnableTasks_AnyMet(st) ==
    {i \in Row : st[i] = "none" /\ getMetDependencies(i, st) > 0}

getRunnableTasks(st) ==
    {i \in Row : /\ st[i] = "none"
                 /\ getDependencyCounts(i) > 0
                 /\ getDependencyCounts(i) = getMetDependencies(i, st)}

\* MarkSuccessAndGetNextTasks.
Succeed(i) ==
    /\ pc = "run" /\ status[i] = "running"
    /\ LET marked == [status EXCEPT ![i] = "success"]
       IN  status' = [j \in Row |-> IF j \in getRunnableTasks(marked) THEN "running"
                                    ELSE marked[j]]
    /\ UNCHANGED <<obj, pc, deps>>

\* Row i and the rows that depend on it, directly or not, without passing
\* through those of stop: the least set that holds i and the rows that depend
\* on one of its members.
Downstream(i, stop) ==
    {j \in Row : \A D \in SUBSET Row :
        (i \in D /\ \A u \in Row \ stop : (\E v \in D : <<u, v>> \in ToSet(deps)) => u \in D)
            => j \in D}

Existing == {j \in Row : status[j] # "none"}

\* MarkConnectingTasksAsSuspended: SQLite searches with a stack and does not
\* go on from a task that has a row in Task_Runs; Postgres follows the whole
\* chain and leaves out the tasks that have a row afterwards.
SuspendedSqlite(i) == Downstream(i, Existing) \ {i}
SuspendedPostgres_Direct(i) == {j \in Row : <<j, i>> \in ToSet(deps)} \ Existing
SuspendedPostgres(i) == Downstream(i, {}) \ Existing

\* MarkTaskAsFailed, then MarkConnectingTasksAsSuspended.
Fail(i) ==
    /\ pc = "run" /\ status[i] = "running"
    /\ \E suspended \in {SuspendedSqlite(i), SuspendedPostgres(i)} :
          status' = [j \in Row |-> IF j = i THEN "failed"
                                   ELSE IF j \in suspended THEN "suspended" ELSE status[j]]
    /\ UNCHANGED <<obj, pc, deps>>

Next ==
    \/ ProcessDSL \/ Validate \/ Store
    \/ \E i \in Row : Succeed(i) \/ Fail(i)

Spec == Init /\ [][Next]_vars
-----------------------------------------------------------------------------
(* Properties                                                               *)

\* The tasks can be numbered so that each comes after what it runs after.
Acyclic(ts) ==
    \E rank \in [AllNames(ts) -> 1..Cardinality(AllNames(ts))] :
        \A i \in DOMAIN ts : \A dep \in ToSet(ts[i].runAfter) :
            rank[dep] < rank[ts[i].name]

\* No way to part the tasks in two without cutting a dependency.
OnePiece(ts) ==
    \A part \in SUBSET Names(ts) \ {{}, Names(ts)} :
        \E i \in DOMAIN ts : \E dep \in ToSet(ts[i].runAfter) :
            (ts[i].name \in part) # (dep \in part)

\* Whatever order its loops and its map take the tasks in, ValidateDAG accepts
\* a DAG if and only if its fields are there and its graph has no cycle, no
\* loose end and one piece (the two depth-first searches of dag_types.go).
VerdictIsRight ==
    pc \in {"store", "refused"} =>
        (pc = "store" <=> /\ tasks # <<>> /\ checkFieldsFilled(tasks) /\ checkParameters(obj)
                          /\ checkRunAfterTasksExist(tasks)
                          /\ Acyclic(tasks) /\ OnePiece(tasks))

\* A run of an accepted DAG stops only when every task has ended: no set of
\* dependencies that passes the checks leaves a row that is never runnable and
\* never suspended (ValidateDAG against getDependencyCounts, getMetDependencies
\* and MarkConnectingTasksAsSuspended).
AcceptedRunsToTheEnd ==
    pc = "run" /\ (\A i \in Row : status[i] # "running")
        => \A i \in Row : status[i] # "none"

\* A task has run only if everything it runs after has succeeded, if no two
\* tasks share their name (checkFieldsFilled lets a reference do so, and
\* createDependencyConnection finds rows by name).
RunsAfter ==
    Cardinality(Names(tasks)) = Len(tasks) =>
        \A i \in Row : status[i] \notin {"none", "suspended"} =>
            \A j \in Row : tasks[j].name \in ToSet(tasks[i].runAfter) => status[j] = "success"

\* Whichever task fails next, both managers suspend the same tasks, although
\* SQLite stops its search at a task that has a row.
ManagersAgree ==
    \A i \in Row : pc = "run" /\ status[i] = "running"
        => SuspendedSqlite(i) = SuspendedPostgres(i)

\* The graph of a DSL arrives in the database: the rows of Dependencies are the
\* edges between its tasks, no more and no less, each from the task to what it
\* runs after (buildDependencyMap, createTaskSpec, the merge of processDSL and
\* createDependencyConnection, which looks rows up by name).
GraphIsStored ==
    obj.dsl /\ pc = "run" =>
        {<<tasks[d[1]].name, tasks[d[2]].name>> : d \in ToSet(deps)} =
        {<<e[2], e[1]>> : e \in {e \in ToSet(obj.edges) : e[2] \in Names(tasks)}}
=============================================================================
