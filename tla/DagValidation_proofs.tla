------------------------ MODULE DagValidation_proofs ------------------------
(***************************************************************************)
(* What holds of every DAG object and every run of it: the graph of a DSL  *)
(* is the one that is stored, a task runs after its dependencies, the two  *)
(* managers suspend the same tasks, and a run of a graph without cycles    *)
(* never leaves a task behind.                                             *)
(***************************************************************************)
EXTENDS DagValidation, FiniteSetTheorems, WellFoundedInduction, TLAPS

StatusSet == {"none", "running", "success", "failed", "suspended"}

\* The tasks are a sequence, and each has a finite list of what it runs after.
TypeInv ==
    /\ pc = "dsl" => obj \in DagObject
    /\ Len(tasks) \in Nat /\ Row = 1..Len(tasks)
    /\ \A i \in Row : IsFiniteSet(DOMAIN tasks[i].runAfter)
    /\ pc \in {"dsl", "validate", "badDsl", "refused", "store", "run"}
    /\ status \in [Row -> StatusSet]
    /\ pc # "run" => \A i \in Row : status[i] = "none"

-----------------------------------------------------------------------------
(* The object on its way through the validators.                           *)

\* processDSL changes what the tasks run after and the parameters.
LEMMA ConvertKeeps ==
    ASSUME NEW o, o \in DagObject
    PROVE  /\ Merged(o).dsl = o.dsl /\ Merged(o).edges = o.edges
           /\ Merged(o).tasks =
                [i \in DOMAIN o.tasks |-> createTaskSpec(o.tasks[i], o.edges)]
<1> DEFINE parsed == convertToDAGSpec(o)
<1>1. /\ parsed.dsl = o.dsl /\ parsed.edges = o.edges
      /\ parsed.tasks = [i \in DOMAIN o.tasks |-> createTaskSpec(o.tasks[i], o.edges)]
      /\ [parsed EXCEPT !.params = o.params].dsl = o.dsl
      /\ [parsed EXCEPT !.params = o.params].edges = o.edges
      /\ [parsed EXCEPT !.params = o.params].tasks =
            [i \in DOMAIN o.tasks |-> createTaskSpec(o.tasks[i], o.edges)]
  BY DEF convertToDAGSpec, DagObject
<1> HIDE DEF parsed
<1>2. Merged(o) = IF parsed.params = <<>> THEN [parsed EXCEPT !.params = o.params] ELSE parsed
  BY DEF Merged, parsed
<1> QED BY <1>1, <1>2

\* The tasks are as many as before, and what they run after is a finite list.
LEMMA ConvertTasks ==
    ASSUME NEW o, o \in DagObject
    PROVE  /\ Len(Merged(o).tasks) = Len(o.tasks)
           /\ DOMAIN Merged(o).tasks = 1..Len(o.tasks)
           /\ Len(o.tasks) \in Nat
           /\ \A i \in 1..Len(o.tasks) :
                IsFiniteSet(DOMAIN Merged(o).tasks[i].runAfter)
<1> DEFINE ts == Merged(o).tasks
<1>1. o.tasks \in Seq(TaskSpec) /\ o.edges \in Seq(STRING \X STRING)
  BY DEF DagObject
<1>2. ts = [i \in DOMAIN o.tasks |-> createTaskSpec(o.tasks[i], o.edges)]
  BY ConvertKeeps
<1>3. Len(o.tasks) \in Nat /\ DOMAIN o.tasks = 1..Len(o.tasks)
  BY <1>1
<1>4. DOMAIN ts = 1..Len(o.tasks) /\ Len(ts) = Len(o.tasks)
  <2> HIDE DEF ts
  <2>1. DOMAIN ts = 1..Len(o.tasks)
    BY <1>2, <1>3
  <2> QED BY <2>1, <1>3
<1>5. ASSUME NEW i \in 1..Len(o.tasks) PROVE IsFiniteSet(DOMAIN ts[i].runAfter)
  <2> DEFINE into == {k \in DOMAIN o.edges : o.edges[k][2] = o.tasks[i].name}
  <2>1. ts[i] = createTaskSpec(o.tasks[i], o.edges)
    BY <1>2, <1>3
  <2>2. o.tasks[i] \in TaskSpec
    BY <1>1, <1>3
  <2>3. ts[i].runAfter = buildDependencyMap(o.edges, o.tasks[i].name)
    BY <2>1, <2>2 DEF createTaskSpec, TaskSpec
  <2>4. DOMAIN buildDependencyMap(o.edges, o.tasks[i].name) = 1..Cardinality(into)
    BY DEF buildDependencyMap
  <2>5. IsFiniteSet(into)
    <3>1. IsFiniteSet(DOMAIN o.edges)
      BY <1>1, FS_Interval
    <3> QED BY <3>1, FS_Subset
  <2>6. Cardinality(into) \in Nat
    BY <2>5, FS_CardinalityType
  <2>7. IsFiniteSet(1..Cardinality(into))
    BY <2>6, FS_Interval
  <2> QED BY <2>3, <2>4, <2>7
<1> QED BY <1>3, <1>4, <1>5

-----------------------------------------------------------------------------
(* Type correctness.                                                       *)

LEMMA InitTypes == Init => TypeInv
<1> SUFFICES ASSUME Init PROVE TypeInv
  OBVIOUS
<1>1. obj \in DagObject
  BY ObjectsAssumption DEF Init
<1>2. tasks \in Seq(TaskSpec)
  BY <1>1 DEF tasks, DagObject
<1>3. Len(tasks) \in Nat /\ Row = 1..Len(tasks)
  BY <1>2 DEF Row
<1>4. \A i \in Row : IsFiniteSet(DOMAIN tasks[i].runAfter)
  <2> TAKE i \in Row
  <2>1. tasks[i] \in TaskSpec
    BY <1>2, <1>3
  <2>2. tasks[i].runAfter \in Seq(STRING)
    BY <2>1 DEF TaskSpec
  <2> QED BY <2>2, FS_Interval
<1>5. pc \in {"dsl", "validate"}
  BY DEF Init
<1>6. status \in [Row -> StatusSet] /\ \A i \in Row : status[i] = "none"
  BY DEF Init, StatusSet
<1> QED BY <1>1, <1>3, <1>4, <1>5, <1>6 DEF TypeInv

LEMMA NextTypes == TypeInv /\ [Next]_vars => TypeInv'
<1> SUFFICES ASSUME TypeInv, [Next]_vars PROVE TypeInv'
  OBVIOUS
<1>1. CASE UNCHANGED vars
  BY <1>1 DEF vars, TypeInv, tasks, Row
<1>2. CASE ProcessDSL
  <2> DEFINE parsed == Merged(obj)
  <2>1. pc = "dsl" /\ obj \in DagObject /\ UNCHANGED status
    BY <1>2 DEF ProcessDSL, TypeInv
  <2>2. CASE obj' = parsed /\ pc' = "validate"
    <3>1. /\ Len(tasks') = Len(tasks) /\ Row' = 1..Len(tasks)
          /\ \A i \in 1..Len(tasks) : IsFiniteSet(DOMAIN tasks'[i].runAfter)
      BY <2>1, <2>2, ConvertTasks DEF tasks, Row
    <3> QED BY <2>1, <2>2, <3>1 DEF TypeInv
  <2>3. CASE UNCHANGED obj /\ pc' = "badDsl"
    BY <2>1, <2>3 DEF TypeInv, tasks, Row
  <2> QED BY <1>2, <2>2, <2>3 DEF ProcessDSL
<1>3. CASE Validate
  BY <1>3 DEF Validate, TypeInv, tasks, Row
<1>4. CASE Store
  <2>1. status' \in [Row -> StatusSet]
    BY <1>4 DEF Store, StatusSet
  <2> QED BY <1>4, <2>1 DEF Store, TypeInv, tasks, Row
<1>5. CASE \E i \in Row : Succeed(i) \/ Fail(i)
  <2>1. status' \in [Row -> StatusSet]
    <3>1. ASSUME NEW i \in Row, Succeed(i) PROVE status' \in [Row -> StatusSet]
      BY <3>1 DEF Succeed, StatusSet, TypeInv
    <3>2. ASSUME NEW i \in Row, Fail(i) PROVE status' \in [Row -> StatusSet]
      BY <3>2 DEF Fail, StatusSet, TypeInv
    <3> QED BY <1>5, <3>1, <3>2
  <2>2. UNCHANGED <<obj, pc>> /\ pc = "run"
    BY <1>5 DEF Succeed, Fail
  <2> QED BY <2>1, <2>2 DEF TypeInv, tasks, Row
<1> QED BY <1>1, <1>2, <1>3, <1>4, <1>5 DEF Next

LEMMA AlwaysTypes == Spec => []TypeInv
BY InitTypes, NextTypes, PTL DEF Spec

-----------------------------------------------------------------------------
(* The rows of Dependencies.                                               *)

\* Row a depends on row b.
Edge(a, b) == <<a, b>> \in ToSet(deps)

\* There is one row of Dependencies per entry of a runAfter, and it joins rows
\* with the names of that entry.
Linked ==
    /\ \A k \in DOMAIN deps : \E i \in Row : \E n \in DOMAIN tasks[i].runAfter : k = <<i, n>>
    /\ \A i \in Row : \A n \in DOMAIN tasks[i].runAfter :
          /\ <<i, n>> \in DOMAIN deps
          /\ \E a, b \in Row : /\ deps[<<i, n>>] = <<a, b>>
                               /\ tasks[a].name = tasks[i].name
                               /\ tasks[b].name = tasks[i].runAfter[n]

LEMMA LinkedStays ==
    ASSUME Linked, UNCHANGED <<obj, deps>>
    PROVE  Linked' /\ Row' = Row /\ tasks' = tasks /\ \A a, b : Edge(a, b)' <=> Edge(a, b)
BY DEF Linked, Edge, Row, tasks

LEMMA EdgeRows ==
    ASSUME Linked
    PROVE  /\ \A k \in DOMAIN deps : \E a, b \in Row : deps[k] = <<a, b>> /\ Edge(a, b)
           /\ \A a, b : Edge(a, b) =>
                /\ a \in Row /\ b \in Row
                /\ \E k \in DOMAIN deps : deps[k] = <<a, b>>
                /\ \E i \in Row : /\ tasks[a].name = tasks[i].name
                                  /\ tasks[b].name \in ToSet(tasks[i].runAfter)
<1>1. ASSUME NEW k \in DOMAIN deps
      PROVE  \E a, b \in Row : /\ deps[k] = <<a, b>>
                               /\ \E i \in Row : /\ tasks[a].name = tasks[i].name
                                                 /\ tasks[b].name \in ToSet(tasks[i].runAfter)
  <2>1. PICK i \in Row : \E n \in DOMAIN tasks[i].runAfter : k = <<i, n>>
    BY DEF Linked
  <2>2. PICK n \in DOMAIN tasks[i].runAfter : k = <<i, n>>
    BY <2>1
  <2>3. PICK a \in Row, b \in Row : /\ deps[<<i, n>>] = <<a, b>>
                                    /\ tasks[a].name = tasks[i].name
                                    /\ tasks[b].name = tasks[i].runAfter[n]
    BY <2>2 DEF Linked
  <2>4. tasks[i].runAfter[n] \in ToSet(tasks[i].runAfter)
    BY DEF ToSet
  <2> QED BY <2>2, <2>3, <2>4
<1>2. \A a, b : Edge(a, b) <=> \E k \in DOMAIN deps : deps[k] = <<a, b>>
  BY DEF Edge, ToSet
<1> QED BY <1>1, <1>2

LEMMA FiniteDeps ==
    ASSUME TypeInv, Linked
    PROVE  IsFiniteSet(DOMAIN deps)
<1> DEFINE Part(i) == {i} \X DOMAIN tasks[i].runAfter
           Parts == {Part(i) : i \in Row}
<1>1. IsFiniteSet(Row)
  <2>1. Row = 1..Len(tasks) /\ Len(tasks) \in Nat
    BY DEF TypeInv
  <2> QED BY <2>1, FS_Interval
<1>2. IsFiniteSet(Parts)
  <2> DEFINE part == [i \in Row |-> Part(i)]
  <2>1. part \in Surjection(Row, Parts)
    BY DEF Surjection
  <2> QED BY <1>1, <2>1, FS_Surjection
<1>3. ASSUME NEW i \in Row PROVE IsFiniteSet(Part(i))
  <2>1. IsFiniteSet({i}) /\ IsFiniteSet(DOMAIN tasks[i].runAfter)
    BY FS_Singleton DEF TypeInv
  <2> QED BY <2>1, FS_Product
<1>4. \A P \in Parts : IsFiniteSet(P)
  BY <1>3
<1>5. IsFiniteSet(UNION Parts)
  BY <1>2, <1>4, FS_UNION
<1>6. DOMAIN deps \subseteq UNION Parts
  BY DEF Linked
<1> QED BY <1>5, <1>6, FS_Subset

\* The counts of the queries, as sets of rows: a task is runnable when it has
\* dependencies and all of them have succeeded.
LEMMA Runnable ==
    ASSUME TypeInv, Linked, NEW j \in Row, NEW st
    PROVE  j \in getRunnableTasks(st) <=>
             /\ st[j] = "none"
             /\ \E b \in Row : Edge(j, b)
             /\ \A b \in Row : Edge(j, b) => st[b] = "success"
<1> DEFINE All == {k \in DOMAIN deps : deps[k][1] = j}
           Met == {k \in DOMAIN deps : deps[k][1] = j /\ st[deps[k][2]] = "success"}
<1>1. getDependencyCounts(j) = Cardinality(All)
  BY DEF getDependencyCounts, Count
<1>2. getMetDependencies(j, st) = Cardinality(Met)
  BY DEF getMetDependencies, Count
<1>3. IsFiniteSet(All) /\ Met \subseteq All
  BY FiniteDeps, FS_Subset
<1>4. Cardinality(All) > 0 <=> All # {}
  BY <1>3, FS_EmptySet, FS_CardinalityType
<1>5. Cardinality(All) = Cardinality(Met) <=> All = Met
  BY <1>3, FS_Subset
<1>6. All # {} <=> \E b \in Row : Edge(j, b)
  BY EdgeRows
<1>7. All = Met <=> \A b \in Row : Edge(j, b) => st[b] = "success"
  BY EdgeRows
<1> HIDE DEF All, Met
<1> QED BY <1>1, <1>2, <1>4, <1>5, <1>6, <1>7 DEF getRunnableTasks

-----------------------------------------------------------------------------
(* What a run keeps.                                                       *)

\* A task that was started has all its dependencies behind it.
Ordered ==
    \A a, b \in Row : Edge(a, b) /\ status[a] \in {"running", "success", "failed"}
        => status[b] = "success"

\* What depends on a task that failed or was suspended is suspended.
Cascaded ==
    \A a, b \in Row : Edge(a, b) /\ status[b] \in {"failed", "suspended"}
        => status[a] = "suspended"

\* A task that was not started waits for another.
Waiting ==
    \A a \in Row : status[a] = "none" =>
        \E b \in Row : Edge(a, b) /\ status[b] # "success"

RunInv == pc = "run" => Linked /\ Ordered /\ Cascaded /\ Waiting

\* Both searches find the rows downstream of i that have no status yet, and
\* both find the rows that depend directly on one they found: for a running
\* row i they agree, although SQLite does not go through existing rows.
LEMMA SameSuspended ==
    ASSUME TypeInv, Linked, Ordered, Cascaded, NEW i \in Row, status[i] = "running"
    PROVE  /\ SuspendedSqlite(i) = SuspendedPostgres(i)
           /\ SuspendedPostgres(i) \subseteq {j \in Row : status[j] = "none"}
           /\ \A a, b \in Row :
                /\ Edge(a, b) /\ status[a] = "none"
                /\ b = i \/ b \in SuspendedPostgres(i)
                => a \in SuspendedPostgres(i)
<1> DEFINE Closed(D, stop) == \A u \in Row \ stop : (\E v \in D : Edge(u, v)) => u \in D
<1>1. \A stop : \A j \in Row : j \in Downstream(i, stop) <=>
          \A D \in SUBSET Row : (i \in D /\ Closed(D, stop)) => j \in D
  BY DEF Downstream, Edge
<1>2. \A stop : Downstream(i, stop) \subseteq Row /\ i \in Downstream(i, stop)
  BY DEF Downstream
<1>3. Existing \subseteq Row /\ i \in Existing
      /\ \A j \in Row : j \notin Existing <=> status[j] = "none"
  BY DEF Existing
<1>4. ASSUME NEW a \in Row, NEW b \in Row, Edge(a, b), b \in Downstream(i, {})
      PROVE  a \in Downstream(i, {})
  <2>1. ASSUME NEW D \in SUBSET Row, i \in D, Closed(D, {}) PROVE a \in D
    <3>1. b \in D
      BY <1>1, <1>4, <2>1
    <3> QED BY <3>1, <1>4, <2>1
  <2> QED BY <1>1, <2>1
<1>5. SuspendedSqlite(i) \subseteq SuspendedPostgres(i)
  <2> SUFFICES ASSUME NEW j \in SuspendedSqlite(i) PROVE j \in SuspendedPostgres(i)
    OBVIOUS
  <2>1. j \in Row /\ j # i /\ j \in Downstream(i, Existing)
    BY <1>2 DEF SuspendedSqlite
  <2>2. j \notin Existing
    <3> DEFINE D == (Row \ Existing) \cup {i}
    <3>1. D \in SUBSET Row /\ i \in D /\ Closed(D, Existing)
      OBVIOUS
    <3>2. j \in D
      <4> HIDE DEF D, Closed
      <4> QED BY <1>1, <2>1, <3>1
    <3> QED BY <2>1, <3>2
  <2>3. \A D \in SUBSET Row : Closed(D, {}) => Closed(D, Existing)
    OBVIOUS
  <2>4. j \in Downstream(i, {})
    BY <1>1, <2>1, <2>3
  <2> QED BY <2>2, <2>4 DEF SuspendedPostgres
<1>6. SuspendedPostgres(i) \subseteq SuspendedSqlite(i)
  <2> SUFFICES ASSUME NEW j \in SuspendedPostgres(i) PROVE j \in SuspendedSqlite(i)
    OBVIOUS
  <2>1. j \in Row /\ j \notin Existing /\ j # i /\ j \in Downstream(i, {})
    BY <1>2, <1>3 DEF SuspendedPostgres
  <2>2. ASSUME NEW D \in SUBSET Row, i \in D, Closed(D, Existing) PROVE j \in D
    <3> DEFINE New == {k \in D : k = i \/ status[k] = "none"}
               Old == {k \in Row : status[k] = "suspended"}
               E == New \cup Old
    <3>1. E \in SUBSET Row /\ i \in E
      BY <2>2
    <3>2. ASSUME NEW u \in Row, NEW v \in E, Edge(u, v) PROVE u \in E
      <4>1. v \in Row
        BY <3>1
      <4>2. CASE v \in Old
        BY <3>2, <4>1, <4>2 DEF Cascaded
      <4>3. CASE v \in New
        <5>1. status[v] \in {"running", "none"}
          BY <4>3
        <5>2. status[u] \in {"none", "suspended"}
          BY <3>2, <4>1, <5>1 DEF Ordered, TypeInv, StatusSet
        <5>3. status[u] = "none" => u \in D
          BY <1>3, <2>2, <3>2, <4>3
        <5> QED BY <5>2, <5>3
      <4> QED BY <4>2, <4>3
    <3>3. j \in E
      <4> HIDE DEF E
      <4> QED BY <1>1, <2>1, <3>1, <3>2
    <3> QED BY <2>1, <1>3, <3>3
  <2>3. j \in Downstream(i, Existing)
    BY <1>1, <2>1, <2>2
  <2> QED BY <2>1, <2>3 DEF SuspendedSqlite
<1>7. SuspendedPostgres(i) \subseteq {j \in Row : status[j] = "none"}
  BY <1>2, <1>3 DEF SuspendedPostgres
<1>8. ASSUME NEW a \in Row, NEW b \in Row, Edge(a, b), status[a] = "none",
             b = i \/ b \in SuspendedPostgres(i)
      PROVE  a \in SuspendedPostgres(i)
  <2>1. b \in Downstream(i, {})
    BY <1>2, <1>8 DEF SuspendedPostgres
  <2> QED BY <1>3, <1>4, <1>8, <2>1 DEF SuspendedPostgres
<1> QED BY <1>5, <1>6, <1>7, <1>8

\* A run starts with the rows that depend on nothing.
LEMMA StoreKeeps ==
    ASSUME TypeInv, Store
    PROVE  Linked' /\ Ordered' /\ Cascaded' /\ Waiting'
<1>1. UNCHANGED obj /\ Row' = Row /\ tasks' = tasks
  BY DEF Store, Row, tasks
<1>2. PICK connection :
         /\ \A i \in Row : connection[i] \in createDependencyConnection(i)
         /\ deps' = [p \in UNION {{i} \X DOMAIN tasks[i].runAfter : i \in Row} |->
                         connection[p[1]][p[2]]]
  BY DEF Store
<1>3. Linked'
  <2>1. \A k : k \in DOMAIN deps' <=>
                 \E i \in Row : \E n \in DOMAIN tasks[i].runAfter : k = <<i, n>>
    BY <1>2
  <2>2. ASSUME NEW i \in Row, NEW n \in DOMAIN tasks[i].runAfter
        PROVE  \E a, b \in Row : /\ deps'[<<i, n>>] = <<a, b>>
                                 /\ tasks[a].name = tasks[i].name
                                 /\ tasks[b].name = tasks[i].runAfter[n]
    <3> DEFINE after == tasks[i].runAfter
    <3>1. deps'[<<i, n>>] = connection[i][n]
      BY <1>2
    <3>2. connection[i] \in createDependencyConnection(i)
      BY <1>2
    <3> DEFINE Self == {j \in RowsOf(tasks[i].name) : tasks[j].version = tasks[i].version}
               Dep == {f \in [ToSet(after) -> Row] :
                          \A name \in ToSet(after) : f[name] \in Extremes(RowsOf(name))}
               C(self, dep) == [k \in DOMAIN after |-> <<self, dep[after[k]]>>]
    <3>8. createDependencyConnection(i) = {C(self, dep) : self \in Self, dep \in Dep}
      BY DEF createDependencyConnection
    <3>3. PICK self \in Self, dep \in Dep : connection[i] = C(self, dep)
      <4> HIDE DEF Self, Dep, C
      <4> QED BY <3>2, <3>8
    <3>4. after[n] \in ToSet(after)
      BY DEF ToSet
    <3>5. connection[i][n] = <<self, dep[after[n]]>>
      BY <3>3
    <3>6. self \in Row /\ tasks[self].name = tasks[i].name
      BY <3>3 DEF RowsOf
    <3>7. dep[after[n]] \in Row /\ tasks[dep[after[n]]].name = after[n]
      BY <3>3, <3>4 DEF Extremes, RowsOf
    <3> QED BY <3>1, <3>5, <3>6, <3>7
  <2> QED BY <1>1, <2>1, <2>2 DEF Linked
<1>4. \A a \in Row : status'[a] = IF \E b \in Row : Edge(a, b)' THEN "none" ELSE "running"
  <2> TAKE a \in Row
  <2>1. a \in StartingTasks(deps') <=> ~ \E b \in Row : Edge(a, b)'
    <3>1. \A k \in DOMAIN deps' : \E c, d \in Row : deps'[k] = <<c, d>> /\ Edge(c, d)'
      BY <1>1, <1>3 DEF Linked, Edge, ToSet
    <3>2. \A b : Edge(a, b)' => \E k \in DOMAIN deps' : deps'[k] = <<a, b>>
      BY DEF Edge, ToSet
    <3>3. (\E k \in DOMAIN deps' : deps'[k][1] = a) <=> \E b \in Row : Edge(a, b)'
      BY <3>1, <3>2
    <3> QED BY <3>3 DEF StartingTasks
  <2> QED BY <2>1 DEF Store
<1> QED BY <1>1, <1>3, <1>4 DEF Ordered, Cascaded, Waiting

LEMMA SucceedKeeps ==
    ASSUME TypeInv, Linked, Ordered, Cascaded, Waiting, NEW i \in Row, Succeed(i)
    PROVE  Linked' /\ Ordered' /\ Cascaded' /\ Waiting'
<1> DEFINE marked == [status EXCEPT ![i] = "success"]
           new == getRunnableTasks(marked)
<1>1. UNCHANGED <<obj, deps>>
  BY DEF Succeed
<1>2. Row' = Row /\ \A a, b : Edge(a, b)' <=> Edge(a, b)
  BY <1>1, LinkedStays
<1>3. Linked'
  BY <1>1, LinkedStays
<1>4. status[i] = "running" /\ status \in [Row -> StatusSet]
  BY DEF Succeed, TypeInv
<1>5. \A j \in Row : marked[j] = IF j = i THEN "success" ELSE status[j]
  BY <1>4
<1>6. \A j \in Row : status'[j] = IF j \in new THEN "running" ELSE marked[j]
  BY DEF Succeed
<1>7. \A j \in Row : j \in new <=>
          /\ marked[j] = "none"
          /\ \E b \in Row : Edge(j, b)
          /\ \A b \in Row : Edge(j, b) => marked[b] = "success"
  <2> HIDE DEF marked
  <2> QED BY Runnable
<1> HIDE DEF marked, new
<1>8. \A j \in Row : status'[j] = "success" <=> marked[j] = "success"
  BY <1>6, <1>7
<1>9. Ordered'
  <2> SUFFICES ASSUME NEW a \in Row, NEW b \in Row, Edge(a, b),
                      status'[a] \in {"running", "success", "failed"}
               PROVE  status'[b] = "success"
    BY <1>2 DEF Ordered
  <2>1. CASE a \in new
    BY <1>7, <1>8, <2>1
  <2>2. CASE a \notin new
    <3>1. status[a] \in {"running", "success", "failed"}
      BY <1>4, <1>5, <1>6, <2>2
    <3>2. status[b] = "success"
      BY <3>1 DEF Ordered
    <3> QED BY <1>4, <1>5, <1>8, <3>2
  <2> QED BY <2>1, <2>2
<1>10. Cascaded'
  <2> SUFFICES ASSUME NEW a \in Row, NEW b \in Row, Edge(a, b),
                      status'[b] \in {"failed", "suspended"}
               PROVE  status'[a] = "suspended"
    BY <1>2 DEF Cascaded
  <2>1. status[b] \in {"failed", "suspended"}
    BY <1>5, <1>6
  <2>2. status[a] = "suspended"
    BY <2>1 DEF Cascaded
  <2> QED BY <1>4, <1>5, <1>6, <1>7, <2>2
<1>11. Waiting'
  <2> SUFFICES ASSUME NEW a \in Row, status'[a] = "none"
               PROVE  \E b \in Row : Edge(a, b) /\ status'[b] # "success"
    BY <1>2 DEF Waiting
  <2>1. a \notin new /\ marked[a] = "none" /\ status[a] = "none"
    BY <1>5, <1>6
  <2>2. \E b \in Row : Edge(a, b)
    BY <2>1 DEF Waiting
  <2> QED BY <1>7, <1>8, <2>1, <2>2
<1> QED BY <1>3, <1>9, <1>10, <1>11

LEMMA FailKeeps ==
    ASSUME TypeInv, Linked, Ordered, Cascaded, Waiting, NEW i \in Row, Fail(i)
    PROVE  Linked' /\ Ordered' /\ Cascaded' /\ Waiting'
<1> DEFINE new == SuspendedPostgres(i)
<1>1. UNCHANGED <<obj, deps>>
  BY DEF Fail
<1>2. Row' = Row /\ \A a, b : Edge(a, b)' <=> Edge(a, b)
  BY <1>1, LinkedStays
<1>3. Linked'
  BY <1>1, LinkedStays
<1>4. status[i] = "running" /\ status \in [Row -> StatusSet]
  BY DEF Fail, TypeInv
<1>5. /\ new \subseteq {j \in Row : status[j] = "none"}
      /\ \A a, b \in Row : (Edge(a, b) /\ status[a] = "none" /\ (b = i \/ b \in new)) => a \in new
      /\ SuspendedSqlite(i) = new
  BY <1>4, SameSuspended
<1>6. \A j \in Row : status'[j] = IF j = i THEN "failed"
                                  ELSE IF j \in new THEN "suspended" ELSE status[j]
  BY <1>5 DEF Fail
<1> HIDE DEF new
<1>7. Ordered'
  <2> SUFFICES ASSUME NEW a \in Row, NEW b \in Row, Edge(a, b),
                      status'[a] \in {"running", "success", "failed"}
               PROVE  status'[b] = "success"
    BY <1>2 DEF Ordered
  <2>1. status[a] \in {"running", "success", "failed"}
    BY <1>4, <1>6
  <2>2. status[b] = "success"
    BY <2>1 DEF Ordered
  <2> QED BY <1>4, <1>5, <1>6, <2>2
<1>8. Cascaded'
  <2> SUFFICES ASSUME NEW a \in Row, NEW b \in Row, Edge(a, b),
                      status'[b] \in {"failed", "suspended"}
               PROVE  status'[a] = "suspended"
    BY <1>2 DEF Cascaded
  <2>1. CASE b = i \/ b \in new
    <3>1. status[b] \in {"none", "running"}
      BY <1>4, <1>5, <2>1
    <3>2. status[a] \in {"none", "suspended"}
      BY <1>4, <3>1 DEF Ordered, StatusSet
    <3> QED BY <1>4, <1>5, <1>6, <2>1, <3>2
  <2>2. CASE status[b] \in {"failed", "suspended"}
    <3>1. status[a] = "suspended"
      BY <2>2 DEF Cascaded
    <3> QED BY <1>4, <1>5, <1>6, <3>1
  <2> QED BY <1>6, <2>1, <2>2
<1>9. Waiting'
  <2> SUFFICES ASSUME NEW a \in Row, status'[a] = "none"
               PROVE  \E b \in Row : Edge(a, b) /\ status'[b] # "success"
    BY <1>2 DEF Waiting
  <2>1. status[a] = "none"
    BY <1>6
  <2>2. PICK b \in Row : Edge(a, b) /\ status[b] # "success"
    BY <2>1 DEF Waiting
  <2> QED BY <1>6, <2>2
<1> QED BY <1>3, <1>7, <1>8, <1>9

LEMMA AlwaysRun == Spec => []RunInv
<1>1. Init => RunInv
  BY DEF Init, RunInv
<1>2. TypeInv /\ RunInv /\ [Next]_vars => RunInv'
  <2> SUFFICES ASSUME TypeInv, RunInv, [Next]_vars PROVE RunInv'
    OBVIOUS
  <2>1. CASE UNCHANGED vars
    <3>1. UNCHANGED <<obj, deps>> /\ UNCHANGED <<pc, status>>
      BY <2>1 DEF vars
    <3>2. Linked => Linked' /\ Row' = Row /\ \A a, b : Edge(a, b)' <=> Edge(a, b)
      BY <3>1, LinkedStays
    <3> QED BY <3>1, <3>2 DEF RunInv, Ordered, Cascaded, Waiting
  <2>2. CASE ProcessDSL \/ Validate
    BY <2>2 DEF ProcessDSL, Validate, RunInv
  <2>3. CASE Store
    BY <2>3, StoreKeeps DEF RunInv
  <2>4. ASSUME NEW i \in Row, Succeed(i) PROVE RunInv'
    <3>1. pc = "run"
      BY <2>4 DEF Succeed
    <3> QED BY <2>4, <3>1, SucceedKeeps DEF RunInv
  <2>5. ASSUME NEW i \in Row, Fail(i) PROVE RunInv'
    <3>1. pc = "run"
      BY <2>5 DEF Fail
    <3> QED BY <2>5, <3>1, FailKeeps DEF RunInv
  <2> QED BY <2>1, <2>2, <2>3, <2>4, <2>5 DEF Next
<1> QED BY <1>1, <1>2, AlwaysTypes, PTL DEF Spec

-----------------------------------------------------------------------------
(* The results.                                                            *)

\* Names that are as many as the tasks tell the tasks apart.
LEMMA NamesDiffer ==
    ASSUME TypeInv, Cardinality(Names(tasks)) = Len(tasks),
           NEW i \in Row, NEW j \in Row, tasks[i].name = tasks[j].name
    PROVE  i = j
<1> DEFINE name == [k \in Row |-> tasks[k].name]
<1>1. name \in Surjection(Row, Names(tasks))
  BY DEF Surjection, Names, Row
<1>2. IsFiniteSet(Row) /\ Cardinality(Row) = Len(tasks)
  <2>1. Len(tasks) \in Nat /\ Row = 1..Len(tasks)
    BY DEF TypeInv
  <2>2. IsFiniteSet(1..Len(tasks)) /\ Cardinality(1..Len(tasks)) = Len(tasks)
    <3>1. \A n \in Nat : IsFiniteSet(1..n) /\ Cardinality(1..n) = n
      BY FS_Interval
    <3> QED BY <2>1, <3>1
  <2> QED BY <2>1, <2>2
<1>3. name \in Injection(Row, Names(tasks))
  BY <1>1, <1>2, FS_Surjection
<1>4. name[i] = name[j]
  OBVIOUS
<1> HIDE DEF name
<1> QED BY <1>3, <1>4 DEF Injection, IsInjective

\* A task has run only if everything it runs after has succeeded, for every
\* DAG whose tasks have different names, of any size, and whichever tasks fail
\* (createDependencyConnection, getRunnableTasks).
THEOREM AlwaysRunsAfter == Spec => []RunsAfter
<1>1. TypeInv /\ RunInv => RunsAfter
  <2> SUFFICES ASSUME TypeInv, RunInv, Cardinality(Names(tasks)) = Len(tasks),
                      NEW i \in Row, status[i] \notin {"none", "suspended"},
                      NEW j \in Row, tasks[j].name \in ToSet(tasks[i].runAfter)
               PROVE  status[j] = "success"
    BY DEF RunsAfter
  <2>1. pc = "run"
    BY DEF TypeInv
  <2>2. status[i] \in {"running", "success", "failed"}
    BY DEF TypeInv, StatusSet
  <2>3. PICK n \in DOMAIN tasks[i].runAfter : tasks[i].runAfter[n] = tasks[j].name
    BY DEF ToSet
  <2>4. PICK a \in Row, b \in Row : /\ <<i, n>> \in DOMAIN deps /\ deps[<<i, n>>] = <<a, b>>
                                    /\ tasks[a].name = tasks[i].name
                                    /\ tasks[b].name = tasks[i].runAfter[n]
    BY <2>1 DEF RunInv, Linked
  <2>5. a = i /\ b = j
    BY <2>3, <2>4, NamesDiffer
  <2>6. Edge(i, j)
    BY <2>4, <2>5 DEF Edge, ToSet
  <2> QED BY <2>1, <2>2, <2>6 DEF RunInv, Ordered
<1> QED BY <1>1, AlwaysTypes, AlwaysRun, PTL

\* Whichever task of whichever DAG fails next, SQLite's search, which stops at
\* the tasks that have a row, and Postgres' recursive query, which leaves them
\* out afterwards, suspend the same tasks (MarkConnectingTasksAsSuspended of
\* the two managers).
THEOREM AlwaysManagersAgree == Spec => []ManagersAgree
<1>1. TypeInv /\ RunInv => ManagersAgree
  BY SameSuspended DEF RunInv, ManagersAgree
<1> QED BY <1>1, AlwaysTypes, AlwaysRun, PTL

-----------------------------------------------------------------------------
(* The graph of a DSL.                                                     *)

\* The edges into a task, and the place of one among them.
Into(edges, name) == {i \in DOMAIN edges : edges[i][2] = name}
Place(edges, name, i) == Cardinality({j \in Into(edges, name) : j <= i})

\* The places of the edges into a task are 1, 2, ... without a gap.
LEMMA Places ==
    ASSUME NEW edges \in Seq(STRING \X STRING), NEW name
    PROVE  /\ Cardinality(Into(edges, name)) \in Nat
           /\ \A i \in Into(edges, name) :
                Place(edges, name, i) \in 1..Cardinality(Into(edges, name))
           /\ \A i, j \in Into(edges, name) :
                Place(edges, name, i) = Place(edges, name, j) => i = j
           /\ \A k \in 1..Cardinality(Into(edges, name)) :
                \E i \in Into(edges, name) : Place(edges, name, i) = k
<1> DEFINE S == Into(edges, name)
           Upto(i) == {j \in S : j <= i}
           n == Cardinality(S)
           place == [i \in S |-> Cardinality(Upto(i))]
<1>1. IsFiniteSet(S) /\ S \subseteq Nat
  <2>1. DOMAIN edges = 1..Len(edges) /\ Len(edges) \in Nat
    OBVIOUS
  <2>2. IsFiniteSet(1..Len(edges))
    BY <2>1, FS_Interval
  <2>3. S \subseteq 1..Len(edges)
    BY <2>1 DEF Into
  <2> QED BY <2>2, <2>3, FS_Subset
<1>2. n \in Nat
  BY <1>1, FS_CardinalityType
<1>3. \A i \in S : IsFiniteSet(Upto(i)) /\ Cardinality(Upto(i)) \in Nat
                 /\ Cardinality(Upto(i)) <= n
  <2> TAKE i \in S
  <2>1. Upto(i) \subseteq S
    OBVIOUS
  <2> HIDE DEF S, Upto
  <2> QED BY <1>1, <2>1, FS_Subset, FS_CardinalityType
<1>4. \A i \in S : Cardinality(Upto(i)) >= 1
  <2> TAKE i \in S
  <2>1. i \in Upto(i)
    BY <1>1
  <2> HIDE DEF S, Upto
  <2>2. Cardinality(Upto(i)) # 0
    BY <1>3, <2>1, FS_EmptySet
  <2> QED BY <1>3, <2>2
<1>5. ASSUME NEW i \in S, NEW j \in S, i < j
      PROVE  Cardinality(Upto(i)) < Cardinality(Upto(j))
  <2>1. i \in Nat /\ j \in Nat
    BY <1>1
  <2>2. Upto(i) \subseteq Upto(j) /\ j \in Upto(j) /\ j \notin Upto(i)
    BY <1>1, <1>5, <2>1
  <2> HIDE DEF S, Upto
  <2>3. Upto(i) # Upto(j)
    BY <2>2
  <2>4. Cardinality(Upto(i)) <= Cardinality(Upto(j)) /\ Cardinality(Upto(i)) # Cardinality(Upto(j))
    BY <1>3, <2>2, <2>3, FS_Subset
  <2> QED BY <1>3, <2>4
<1>6. place \in Injection(S, 1..n)
  <2>1. place \in [S -> 1..n]
    <3> HIDE DEF S, Upto, n
    <3> QED BY <1>2, <1>3, <1>4
  <2>2. ASSUME NEW i \in S, NEW j \in S, place[i] = place[j] PROVE i = j
    <3>1. i \in Nat /\ j \in Nat /\ Cardinality(Upto(i)) = Cardinality(Upto(j))
      BY <1>1, <2>2
    <3>2. Cardinality(Upto(i)) \in Nat /\ ~ (i < j) /\ ~ (j < i)
      <4> HIDE DEF S, Upto
      <4> QED BY <1>3, <1>5, <3>1
    <3> QED BY <3>1, <3>2
  <2> HIDE DEF place, S, n
  <2> QED BY <2>1, <2>2 DEF Injection, IsInjective
<1>7. IsFiniteSet(1..n) /\ Cardinality(1..n) = n
  <2>1. \A m \in Nat : IsFiniteSet(1..m) /\ Cardinality(1..m) = m
    BY FS_Interval
  <2> HIDE DEF n
  <2> QED BY <1>2, <2>1
<1>8. place \in Surjection(S, 1..n)
  <2> HIDE DEF place
  <2> QED BY <1>6, <1>7, FS_Injection
<1>9. \A i \in S : place[i] = Place(edges, name, i)
  BY DEF Place
<1> HIDE DEF place, S
<1> QED BY <1>2, <1>6, <1>8, <1>9 DEF Injection, IsInjective, Surjection, S

\* What a task of the DSL runs after: the sources of the edges into it.
LEMMA RunAfterIsGraph ==
    ASSUME NEW edges \in Seq(STRING \X STRING), NEW name
    PROVE  LET after == buildDependencyMap(edges, name)
           IN  /\ \A k \in DOMAIN after :
                    \E i \in DOMAIN edges : edges[i][2] = name /\ edges[i][1] = after[k]
               /\ \A i \in DOMAIN edges : edges[i][2] = name =>
                    \E k \in DOMAIN after : after[k] = edges[i][1]
<1> DEFINE S == Into(edges, name)
           n == Cardinality(S)
           nth(k) == CHOOSE i \in S : Place(edges, name, i) = k
           after == buildDependencyMap(edges, name)
<1>1. after = [k \in 1..n |-> edges[nth(k)][1]]
  BY DEF buildDependencyMap, Into, Place
<1>2. \A i \in S : i \in DOMAIN edges /\ edges[i][2] = name
  BY DEF Into
<1>3. \A i \in DOMAIN edges : edges[i][2] = name => i \in S
  BY DEF Into
<1>4. \A k \in 1..n : nth(k) \in S /\ Place(edges, name, nth(k)) = k
  <2> TAKE k \in 1..n
  <2>1. \E i \in S : Place(edges, name, i) = k
    BY Places
  <2> HIDE DEF S
  <2> QED BY <2>1
<1>5. \A i \in S : Place(edges, name, i) \in 1..n /\ nth(Place(edges, name, i)) = i
  <2> TAKE i \in S
  <2>1. Place(edges, name, i) \in 1..n
    BY Places
  <2>2. \A j \in S : Place(edges, name, i) = Place(edges, name, j) => i = j
    BY Places
  <2> HIDE DEF S, n, nth
  <2> QED BY <1>4, <2>1, <2>2
<1> HIDE DEF S, n, nth, after
<1>6. DOMAIN after = 1..n /\ \A k \in 1..n : after[k] = edges[nth(k)][1]
  BY <1>1
<1>7. \A k \in DOMAIN after :
          \E i \in DOMAIN edges : edges[i][2] = name /\ edges[i][1] = after[k]
  BY <1>2, <1>4, <1>6
<1>8. \A i \in DOMAIN edges : edges[i][2] = name =>
          \E k \in DOMAIN after : after[k] = edges[i][1]
  BY <1>3, <1>5, <1>6
<1> QED BY <1>7, <1>8 DEF after

\* Past processDSL, what the tasks of a DSL run after is its graph.
Parsed ==
    obj.dsl /\ pc \notin {"dsl", "badDsl"} =>
        /\ obj.edges \in Seq(STRING \X STRING)
        /\ \A i \in Row : tasks[i].runAfter = buildDependencyMap(obj.edges, tasks[i].name)

LEMMA AlwaysParsed == Spec => []Parsed
<1>1. Init => Parsed
  BY DEF Init, Parsed
<1>2. TypeInv /\ Parsed /\ [Next]_vars => Parsed'
  <2> SUFFICES ASSUME TypeInv, Parsed, [Next]_vars PROVE Parsed'
    OBVIOUS
  <2>1. CASE ProcessDSL /\ pc' # "badDsl"
    <3>1. obj \in DagObject /\ obj' = Merged(obj)
      BY <2>1 DEF ProcessDSL, TypeInv
    <3>2. /\ obj.edges \in Seq(STRING \X STRING) /\ obj'.edges = obj.edges
          /\ obj.tasks \in Seq(TaskSpec)
          /\ obj'.tasks = [i \in DOMAIN obj.tasks |-> createTaskSpec(obj.tasks[i], obj.edges)]
      BY <3>1, ConvertKeeps DEF DagObject
    <3>3. ASSUME NEW i \in Row'
          PROVE  tasks'[i].runAfter = buildDependencyMap(obj.edges, tasks'[i].name)
      <4>1. i \in DOMAIN obj.tasks /\ tasks'[i] = createTaskSpec(obj.tasks[i], obj.edges)
        BY <3>2 DEF Row, tasks
      <4>2. obj.tasks[i] \in TaskSpec
        BY <3>2, <4>1
      <4> QED BY <4>1, <4>2 DEF createTaskSpec, TaskSpec
    <3> QED BY <3>2, <3>3 DEF Parsed
  <2>2. CASE pc' = "badDsl"
    BY <2>2 DEF Parsed
  <2>3. CASE UNCHANGED obj /\ ~ProcessDSL
    <3>1. pc' \in {"dsl", "badDsl"} <=> pc \in {"dsl", "badDsl"}
      BY <2>3 DEF Next, vars, Validate, Store, Succeed, Fail
    <3> QED BY <2>3, <3>1 DEF Parsed, tasks, Row
  <2>4. ProcessDSL \/ UNCHANGED obj
    BY DEF Next, vars, Validate, Store, Succeed, Fail
  <2> QED BY <2>1, <2>2, <2>3, <2>4
<1> QED BY <1>1, <1>2, AlwaysTypes, PTL DEF Spec

\* The rows of Dependencies are the edges of the DSL's graph between its tasks,
\* for every DSL, however its edges are ordered or repeated
\* (buildDependencyMap, processDSL and createDependencyConnection).
THEOREM AlwaysGraphIsStored == Spec => []GraphIsStored
<1>1. TypeInv /\ RunInv /\ Parsed => GraphIsStored
  <2> SUFFICES ASSUME TypeInv, RunInv, Parsed, obj.dsl, pc = "run"
               PROVE  {<<tasks[d[1]].name, tasks[d[2]].name>> : d \in ToSet(deps)} =
                      {<<e[2], e[1]>> : e \in {e \in ToSet(obj.edges) : e[2] \in Names(tasks)}}
    BY DEF GraphIsStored
  <2>1. Linked
    BY DEF RunInv
  <2>2. /\ obj.edges \in Seq(STRING \X STRING)
        /\ \A i \in Row : tasks[i].runAfter = buildDependencyMap(obj.edges, tasks[i].name)
    BY DEF Parsed
  <2>3. ASSUME NEW d \in ToSet(deps)
        PROVE  \E e \in ToSet(obj.edges) : /\ e[2] \in Names(tasks)
                  /\ <<e[2], e[1]>> = <<tasks[d[1]].name, tasks[d[2]].name>>
    <3>1. PICK p \in DOMAIN deps : deps[p] = d
      BY DEF ToSet
    <3>2. PICK i \in Row : \E k \in DOMAIN tasks[i].runAfter : p = <<i, k>>
      BY <2>1 DEF Linked
    <3>7. PICK k \in DOMAIN tasks[i].runAfter : p = <<i, k>>
      BY <3>2
    <3>3. PICK a \in Row, b \in Row : /\ deps[<<i, k>>] = <<a, b>>
                                      /\ tasks[a].name = tasks[i].name
                                      /\ tasks[b].name = tasks[i].runAfter[k]
      BY <2>1 DEF Linked
    <3>4. PICK n \in DOMAIN obj.edges : /\ obj.edges[n][2] = tasks[i].name
                                       /\ obj.edges[n][1] = tasks[i].runAfter[k]
      BY <2>2, RunAfterIsGraph
    <3>5. obj.edges[n] \in ToSet(obj.edges) /\ tasks[i].name \in Names(tasks)
      BY DEF ToSet, Names, Row
    <3>6. d[1] = a /\ d[2] = b
      BY <3>1, <3>3, <3>7
    <3> QED BY <3>3, <3>4, <3>5, <3>6
  <2>4. ASSUME NEW e \in ToSet(obj.edges), e[2] \in Names(tasks)
        PROVE  \E d \in ToSet(deps) : <<e[2], e[1]>> = <<tasks[d[1]].name, tasks[d[2]].name>>
    <3>1. PICK n \in DOMAIN obj.edges : obj.edges[n] = e
      BY DEF ToSet
    <3>2. PICK i \in Row : tasks[i].name = e[2]
      BY <2>4 DEF Names, Row
    <3>3. PICK k \in DOMAIN tasks[i].runAfter : tasks[i].runAfter[k] = e[1]
      BY <2>2, <3>1, <3>2, RunAfterIsGraph
    <3>4. PICK a \in Row, b \in Row : /\ <<i, k>> \in DOMAIN deps
                                      /\ deps[<<i, k>>] = <<a, b>>
                                      /\ tasks[a].name = tasks[i].name
                                      /\ tasks[b].name = tasks[i].runAfter[k]
      BY <2>1 DEF Linked
    <3>5. <<a, b>> \in ToSet(deps) /\ <<a, b>>[1] = a /\ <<a, b>>[2] = b
      BY <3>4 DEF ToSet
    <3>6. <<e[2], e[1]>> = <<tasks[<<a, b>>[1]].name, tasks[<<a, b>>[2]].name>>
      BY <3>2, <3>3, <3>4
    <3> QED BY <3>5, <3>6
  <2> QED BY <2>3, <2>4
<1> QED BY <1>1, AlwaysTypes, AlwaysRun, AlwaysParsed, PTL

\* A set of numbers has a least one.
LEMMA Least ==
    ASSUME NEW S \in SUBSET Nat, S # {}
    PROVE  \E n \in S : \A m \in S : n <= m
<1> DEFINE R == OpToRel(<, Nat)
<1>1. \A n, m \in Nat : <<m, n>> \in R <=> m < n
  BY DEF OpToRel
<1>2. IsWellFoundedOn(R, Nat)
  BY NatLessThanWellFounded
<1> HIDE DEF R
<1>3. PICK n \in S : \A m \in S : ~ (<<m, n>> \in R)
  BY <1>2, WFMin
<1>4. ASSUME NEW m \in S PROVE n <= m
  <2>1. n \in Nat /\ m \in Nat
    OBVIOUS
  <2>2. ~ (m < n)
    BY <1>1, <1>3, <2>1
  <2> QED BY <2>1, <2>2
<1> QED BY <1>4

\* A run stops only when every task has ended, on every DAG without cycles:
\* when nothing runs, no row is left that neither became runnable nor was
\* suspended (getDependencyCounts against getMetDependencies, and the cascade
\* of MarkConnectingTasksAsSuspended), even where several rows share a name.
THEOREM AcyclicRunsToTheEnd == Spec => [](Acyclic(tasks) => AcceptedRunsToTheEnd)
<1>1. TypeInv /\ RunInv => (Acyclic(tasks) => AcceptedRunsToTheEnd)
  <2> SUFFICES ASSUME TypeInv, RunInv, Acyclic(tasks), pc = "run",
                      \A i \in Row : status[i] # "running",
                      NEW left \in Row, status[left] = "none"
               PROVE  FALSE
    BY DEF AcceptedRunsToTheEnd
  <2> DEFINE Left == {i \in Row : status[i] = "none"}
             all == AllNames(tasks)
  <2>1. Linked /\ Ordered /\ Cascaded /\ Waiting
    BY DEF RunInv
  <2>2. PICK rank \in [all -> 1..Cardinality(all)] :
           \A i \in Row : \A dep \in ToSet(tasks[i].runAfter) : rank[dep] < rank[tasks[i].name]
    BY DEF Acyclic, Row
  <2>3. \A i \in Row : rank[tasks[i].name] \in Nat
    <3>1. \A i \in Row : tasks[i].name \in all
      BY DEF AllNames, Names, Row
    <3>2. \A x \in all : rank[x] \in 1..Cardinality(all)
      OBVIOUS
    <3>3. 1..Cardinality(all) \subseteq Nat
      OBVIOUS
    <3> HIDE DEF all
    <3> QED BY <3>1, <3>2, <3>3
  <2>4. PICK i \in Left : \A j \in Left : rank[tasks[i].name] <= rank[tasks[j].name]
    <3> DEFINE S == {rank[tasks[k].name] : k \in Left}
    <3>1. S \in SUBSET Nat /\ S # {}
      BY <2>3
    <3>2. PICK n \in S : \A m \in S : n <= m
      <4> HIDE DEF S
      <4> QED BY <3>1, Least
    <3> QED BY <3>2
  <2>5. PICK b \in Row : Edge(i, b) /\ status[b] # "success"
    BY <2>1 DEF Waiting
  <2>6. PICK k \in Row : /\ tasks[i].name = tasks[k].name
                         /\ tasks[b].name \in ToSet(tasks[k].runAfter)
    BY <2>1, <2>5, EdgeRows
  <2>7. rank[tasks[b].name] < rank[tasks[i].name]
    BY <2>2, <2>6
  <2>8. status[b] # "none"
    BY <2>3, <2>4, <2>7
  <2>9. status[b] \in {"failed", "suspended"}
    BY <2>5, <2>8 DEF TypeInv, StatusSet
  <2> QED BY <2>1, <2>5, <2>9 DEF Cascaded
<1> QED BY <1>1, AlwaysTypes, AlwaysRun, PTL

=============================================================================
