------------------------- MODULE DagCatalogue_proofs ------------------------
(***************************************************************************)
(* Theorems about DagCatalogue, for any number of DAGs, DagTasks, edits,   *)
(* ticks and faults, any names and namespaces, and both managers.          *)
(***************************************************************************)
EXTENDS DagCatalogue, FiniteSetTheorems, TLAPS

DagRow == [id : Nat, dag : Dag, version : Nat, body : Body, suspended : BOOLEAN,
           active : BOOLEAN, nextTime : Nat]

\* The tables are a record; only the rows of DAGs need their types.
IsTables(t) == t \in [dags : SUBSET DagRow, dagTasks : {t.dagTasks}, tasks : {t.tasks},
                      runs : {t.runs}, taskRuns : {t.taskRuns}, next : Nat]

-----------------------------------------------------------------------------
(* The rows of DAGs.                                                       *)

OneActive(rows) == \A r, s \in rows :
    r.active /\ r.dag = s.dag => s = r \/ (s.version < r.version /\ ~s.active)
HasNewest(rows) == \A r \in rows : \E s \in rows :
    s.dag = r.dag /\ \A u \in rows : u.dag = r.dag => u.version <= s.version
UniqueIds(rows) == \A r, s \in rows : r.id = s.id => r = s
RowsOK(rows) == OneActive(rows) /\ HasNewest(rows) /\ UniqueIds(rows)

Of(rows, d) == {r \in rows : r.dag = d}
None(rows, d) == Of(rows, d) = {}
Holds(rows, d, spec) ==
    \E r \in Highest(Of(rows, d)) : r.body = spec.body /\ r.suspended = spec.suspended

\* A statement that updates rows in place.
Updates(g, rows) == /\ g \in [rows -> DagRow]
                    /\ \A r \in rows : /\ g[r].id = r.id /\ g[r].dag = r.dag
                                       /\ g[r].version = r.version /\ g[r].active = r.active

LEMMA UpdateKeepsRows ==
    ASSUME NEW rows \in SUBSET DagRow, NEW g, Updates(g, rows), RowsOK(rows)
    PROVE  {g[r] : r \in rows} \in SUBSET DagRow /\ RowsOK({g[r] : r \in rows})
<1> DEFINE new == {g[r] : r \in rows}
<1>1. new \in SUBSET DagRow BY DEF Updates
<1>2. OneActive(new)
  <2> SUFFICES ASSUME NEW r \in rows, NEW s \in rows, g[r].active, g[r].dag = g[s].dag
               PROVE  g[s] = g[r] \/ (g[s].version < g[r].version /\ ~g[s].active)
      BY DEF OneActive
  <2>1. s = r \/ (s.version < r.version /\ ~s.active) BY DEF RowsOK, OneActive, Updates
  <2> QED BY <2>1 DEF Updates
<1>3. HasNewest(new)
  <2> SUFFICES ASSUME NEW r \in rows
               PROVE  \E s \in rows : g[s].dag = g[r].dag
                         /\ \A u \in rows : g[u].dag = g[r].dag => g[u].version <= g[s].version
      BY DEF HasNewest
  <2>1. PICK s \in rows : s.dag = r.dag /\ \A u \in rows : u.dag = r.dag => u.version <= s.version
        BY DEF RowsOK, HasNewest
  <2> QED BY <2>1 DEF Updates
<1>4. UniqueIds(new) BY DEF RowsOK, UniqueIds, Updates
<1> QED BY <1>1, <1>2, <1>3, <1>4 DEF RowsOK

LEMMA UpdateKeepsHolds ==
    ASSUME NEW rows \in SUBSET DagRow, NEW g, Updates(g, rows), NEW d, NEW spec,
           \A r \in Of(rows, d) : g[r].body = r.body /\ g[r].suspended = r.suspended
    PROVE  /\ Holds(rows, d, spec) => Holds({g[r] : r \in rows}, d, spec)
           /\ None(rows, d) => None({g[r] : r \in rows}, d)
<1>1. ASSUME Holds(rows, d, spec) PROVE Holds({g[r] : r \in rows}, d, spec)
  <2>1. PICK r \in Highest(Of(rows, d)) : r.body = spec.body /\ r.suspended = spec.suspended
        BY <1>1 DEF Holds
  <2>2. r \in Of(rows, d) /\ \A s \in Of(rows, d) : s.version <= r.version BY DEF Highest
  <2>3. g[r] \in Highest(Of({g[x] : x \in rows}, d)) BY <2>2 DEF Highest, Of, Updates
  <2> QED BY <2>1, <2>2, <2>3 DEF Holds
<1> QED BY <1>1 DEF None, Of, Updates

-----------------------------------------------------------------------------
(* The operations of the managers on the tables.                           *)

\* Ids are handed out in order and not again.
Fresh(t) == /\ \A r \in t.dags : r.id < t.next
            /\ \A x \in t.tasks : x.id \in Nat /\ x.id < t.next
            /\ \A x \in t.dagTasks : x.task \in Nat /\ x.task < t.next

LEMMA SetDags ==
    ASSUME NEW t, IsTables(t), NEW x \in SUBSET DagRow
    PROVE  LET new == [t EXCEPT !.dags = x]
           IN  /\ IsTables(new) /\ new.dags = x /\ new.tasks = t.tasks
               /\ new.dagTasks = t.dagTasks /\ new.next = t.next
BY DEF IsTables

LEMMA CascadeFacts ==
    ASSUME NEW t, IsTables(t)
    PROVE  /\ IsTables(Cascade(t)) /\ Cascade(t).dags = t.dags /\ Cascade(t).tasks = t.tasks
           /\ Cascade(t).dagTasks \subseteq t.dagTasks /\ Cascade(t).next = t.next
<1> DEFINE x == {u \in t.dagTasks : /\ \E r \in t.dags : r.id = u.dag
                                     /\ \E v \in t.tasks : v.id = u.task}
           y == {r \in t.runs : \E u \in t.dags : u.id = r.dag}
           z == {u \in t.taskRuns : /\ \E r \in y : r.obj = u.run
                                    /\ \E v \in x : IsTask(v, u.task)}
<1>1. Cascade(t) = [t EXCEPT !.dagTasks = x, !.runs = y, !.taskRuns = z] BY DEF Cascade
<1>2. x \subseteq t.dagTasks OBVIOUS
<1> HIDE DEF x, y, z
<1> QED BY <1>1, <1>2 DEF IsTables

LEMMA DeleteDAGFacts ==
    ASSUME NEW t, IsTables(t), NEW d
    PROVE  LET new == DeleteDAG(t, d)
           IN  /\ IsTables(new) /\ new.dags = t.dags \ Of(t.dags, d) /\ new.tasks \subseteq t.tasks
               /\ new.dagTasks \subseteq t.dagTasks /\ new.next = t.next
<1>0. {r \in t.dags : r.dag # d} = t.dags \ Of(t.dags, d) /\ t.dags \in SUBSET DagRow
      BY DEF Of, IsTables
<1>1. CASE backend = "postgres"
  <2> DEFINE less == [t EXCEPT !.dags = {r \in t.dags : r.dag # d},
                               !.tasks = t.tasks \ InlineTasks(t, d)]
  <2>1. /\ IsTables(less) /\ less.dags = t.dags \ Of(t.dags, d) /\ less.tasks \subseteq t.tasks
        /\ less.dagTasks = t.dagTasks /\ less.next = t.next
        BY <1>0 DEF IsTables
  <2>2. DeleteDAG(t, d) = Cascade(less) BY <1>1 DEF DeleteDAG, DeleteDAGPostgres
  <2> HIDE DEF less
  <2> QED BY <2>1, <2>2, CascadeFacts
<1>2. CASE backend # "postgres"
  <2> DEFINE ids == {r.id : r \in {r \in t.dags : r.dag = d}}
             a == {x \in t.dagTasks : x.dag \notin ids}
             b == {r \in t.runs : r.dag \notin ids}
             c == {x \in t.taskRuns : \A r \in t.runs : r.obj = x.run => r.dag \notin ids}
  <2>1. /\ DeleteDAG(t, d) = [t EXCEPT !.dags = {r \in t.dags : r.dag # d},
                                       !.tasks = t.tasks \ InlineTasks(t, d),
                                       !.dagTasks = a, !.runs = b, !.taskRuns = c]
        /\ a \subseteq t.dagTasks
        BY <1>2 DEF DeleteDAG, DeleteDAGSqlite
  <2> HIDE DEF a, b, c
  <2> QED BY <1>0, <2>1 DEF IsTables
<1> QED BY <1>1, <1>2

LEMMA DeleteTaskFacts ==
    ASSUME NEW t, IsTables(t), NEW name
    PROVE  LET new == DeleteTask(t, name)
           IN  /\ IsTables(new) /\ new.dags = t.dags /\ new.tasks \subseteq t.tasks
               /\ new.dagTasks \subseteq t.dagTasks /\ new.next = t.next
<1> DEFINE less == DeleteTaskSqlite(t, name)
<1>1. /\ IsTables(less) /\ less.dags = t.dags /\ less.tasks \subseteq t.tasks
      /\ less.dagTasks = t.dagTasks /\ less.next = t.next
      BY DEF IsTables, DeleteTaskSqlite
<1>2. DeleteTask(t, name) \in {less, Cascade(less)}
      BY DEF DeleteTask, DeleteTaskPostgres
<1> HIDE DEF less
<1> QED BY <1>1, <1>2, CascadeFacts

LEMMA AddTaskFacts ==
    ASSUME NEW t, IsTables(t), NEW name, NEW body
    PROVE  LET new == AddTask(t, name, body)
           IN  \/ new = t
               \/ /\ IsTables(new) /\ new.dags = t.dags /\ new.dagTasks = t.dagTasks
                  /\ new.next = t.next + 1
                  /\ \E row : row.id = t.next /\ new.tasks = t.tasks \cup {row}
<1> SUFFICES ASSUME AddTask(t, name, body) # t
             PROVE  LET new == AddTask(t, name, body)
                    IN  /\ IsTables(new) /\ new.dags = t.dags /\ new.dagTasks = t.dagTasks
                        /\ new.next = t.next + 1
                        /\ \E row : row.id = t.next /\ new.tasks = t.tasks \cup {row}
    OBVIOUS
<1>1. PICK version :
        AddTask(t, name, body) =
            [t EXCEPT !.tasks = t.tasks \cup {[id |-> t.next, name |-> name,
                                               version |-> version, body |-> body]},
                      !.next = t.next + 1]
      BY DEF AddTask
<1> DEFINE row == [id |-> t.next, name |-> name, version |-> version, body |-> body]
<1>2. row.id = t.next OBVIOUS
<1> HIDE DEF row
<1>3. AddTask(t, name, body) = [t EXCEPT !.tasks = t.tasks \cup {row}, !.next = t.next + 1]
      BY <1>1 DEF row
<1>4. t.next + 1 \in Nat BY DEF IsTables
<1> QED BY <1>2, <1>3, <1>4 DEF IsTables

\* When a manager finds the parameters of all references, it finds their tasks:
\* the map of Postgres is as long as the list only if nothing is missing.
LEMMA RefsFound ==
    ASSUME NEW t, NEW body \in Body, GetTaskRefsParameters(t, body)
    PROVE  \A i \in DOMAIN Refs[body] : RefRows(t, Refs[body][i]) # {}
<1> DEFINE s == Refs[body]
           R == Range(s)
<1>1. s \in Seq(DagTask \X Nat) BY CatalogueAssumption
<1>2. DOMAIN s = 1..Len(s) /\ Len(s) \in Nat BY <1>1
<1>3. Found(t, body) \subseteq R BY DEF Found
<1>4. Found(t, body) = R
  <2>1. CASE backend = "postgres"
    <3>1. Cardinality(Found(t, body)) = Len(s)
          BY <2>1 DEF GetTaskRefsParameters, GetTaskRefsParametersPostgres
    <3>2. IsFiniteSet(1..Len(s)) /\ Cardinality(1..Len(s)) = Len(s)
      <4>1. 1 \in Int /\ Len(s) \in Int BY <1>2
      <4>2. /\ IsFiniteSet(1..Len(s))
            /\ Cardinality(1..Len(s)) = IF 1 > Len(s) THEN 0 ELSE Len(s) - 1 + 1
            BY <4>1, FS_Interval
      <4> QED BY <1>2, <4>2
    <3>3. s \in Surjection(1..Len(s), R)
      <4>1. s \in [1..Len(s) -> R] BY <1>1, <1>2 DEF Range
      <4> QED BY <1>2, <4>1 DEF Surjection, Range
    <3>4. IsFiniteSet(R) /\ Cardinality(R) <= Len(s)
      <4> HIDE DEF s, R
      <4> QED BY <3>2, <3>3, FS_Surjection
    <3>5. Cardinality(Found(t, body)) <= Cardinality(R) BY <1>3, <3>4, FS_Subset
    <3>6. Cardinality(R) = Cardinality(Found(t, body))
      <4>1. Cardinality(R) \in Nat BY <3>4, FS_CardinalityType
      <4> QED BY <1>2, <3>1, <3>4, <3>5, <4>1
    <3> QED BY <1>3, <3>4, <3>6, FS_Subset
  <2>2. CASE backend # "postgres"
        BY <2>2 DEF GetTaskRefsParameters, GetTaskRefsParametersSqlite
  <2> QED BY <2>1, <2>2
<1>5. \A i \in DOMAIN s : s[i] \in Found(t, body) BY <1>4 DEF Range
<1> QED BY <1>5 DEF Found

LEMMA InsertTasksFacts ==
    ASSUME NEW t, IsTables(t), NEW id \in Nat, id + 1 < t.next + 2, NEW body \in Body,
           \A x \in t.tasks : x.id \in Nat /\ x.id < t.next + 2,
           \A x \in t.dagTasks : x.task \in Nat /\ x.task < t.next + 2,
           \A i \in DOMAIN Refs[body] : RefRows(t, Refs[body][i]) # {}
    PROVE  LET new == insertTasks(t, id, body)
           IN  /\ IsTables(new) /\ new.dags = t.dags /\ new.next = t.next + 2
               /\ \A x \in new.tasks : x.id \in Nat /\ x.id < new.next
               /\ \A x \in new.dagTasks : x.task \in Nat /\ x.task < new.next
<1> DEFINE refs == {[dag |-> id, pos |-> i,
                     task |-> (CHOOSE x \in RefRows(t, Refs[body][i]) : TRUE).id]
                        : i \in DOMAIN Refs[body]}
           own == [dag |-> id, pos |-> 0, task |-> id + 1]
           tasks == t.tasks \cup {InlineTask(id + 1)}
           uses == t.dagTasks \cup {own} \cup refs
<1>1. insertTasks(t, id, body) = [t EXCEPT !.tasks = tasks, !.dagTasks = uses, !.next = t.next + 2]
      BY DEF insertTasks
<1>2. \A x \in refs : x.task \in Nat /\ x.task < t.next + 2
  <2> SUFFICES ASSUME NEW i \in DOMAIN Refs[body]
               PROVE  LET x == CHOOSE x \in RefRows(t, Refs[body][i]) : TRUE
                      IN  x.id \in Nat /\ x.id < t.next + 2
      OBVIOUS
  <2>1. \A x \in RefRows(t, Refs[body][i]) : x \in t.tasks BY DEF RefRows
  <2> QED BY <2>1
<1>3. \A x \in tasks : x.id \in Nat /\ x.id < t.next + 2 BY DEF InlineTask
<1>4. \A x \in uses : x.task \in Nat /\ x.task < t.next + 2
  <2>1. own.task = id + 1 OBVIOUS
  <2> HIDE DEF refs, own
  <2> QED BY <1>2, <2>1
<1>5. t.next + 2 \in Nat BY DEF IsTables
<1> HIDE DEF tasks, uses
<1> QED BY <1>1, <1>3, <1>4, <1>5 DEF IsTables

\* A new row above all others of its DAG.
LEMMA AddKeepsRows ==
    ASSUME NEW rows \in SUBSET DagRow, RowsOK(rows), NEW new \in DagRow,
           \A r \in rows : r.id # new.id,
           \A r \in Of(rows, new.dag) : r.version < new.version /\ ~r.active
    PROVE  /\ RowsOK(rows \cup {new}) /\ new \in Highest(Of(rows \cup {new}, new.dag))
           /\ \A e \in Dag \ {new.dag} : Of(rows \cup {new}, e) = Of(rows, e)
<1>1. OneActive(rows \cup {new}) BY DEF RowsOK, OneActive, Of
<1>2. new \in Highest(Of(rows \cup {new}, new.dag)) BY DEF Highest, Of, DagRow
<1>3. HasNewest(rows \cup {new})
  <2> SUFFICES ASSUME NEW r \in rows \cup {new}
               PROVE  \E s \in rows \cup {new} : s.dag = r.dag
                         /\ \A u \in rows \cup {new} : u.dag = r.dag => u.version <= s.version
      BY DEF HasNewest
  <2>1. CASE r.dag = new.dag BY <1>2, <2>1 DEF Highest, Of
  <2>2. CASE r.dag # new.dag BY <2>2 DEF RowsOK, HasNewest
  <2> QED BY <2>1, <2>2
<1>4. UniqueIds(rows \cup {new}) BY DEF RowsOK, UniqueIds
<1> QED BY <1>1, <1>2, <1>3, <1>4 DEF RowsOK, Of

\* Only the newest version can be active, so it is enough to set that one inactive.
LEMMA InactiveFacts ==
    ASSUME NEW rows \in SUBSET DagRow, RowsOK(rows), NEW d \in Dag,
           NEW newest \in Highest(Of(rows, d))
    PROVE  LET out == setInactive(rows, d, newest.version)
           IN  /\ out \in SUBSET DagRow /\ RowsOK(out)
               /\ \A r \in Of(out, d) : r.version <= newest.version /\ ~r.active
               /\ \A e \in Dag \ {d} : Of(out, e) = Of(rows, e)
               /\ \A r \in out : \E s \in rows : r.id = s.id /\ r.nextTime = s.nextTime
<1> DEFINE off(r) == IF r.dag = d /\ r.version = newest.version
                     THEN [r EXCEPT !.active = FALSE] ELSE r
           out == setInactive(rows, d, newest.version)
<1>1. out = {off(r) : r \in rows} BY DEF setInactive
<1>2. ASSUME NEW r \in rows
      PROVE  /\ off(r) \in DagRow /\ off(r).id = r.id /\ off(r).dag = r.dag
             /\ off(r).version = r.version /\ off(r).nextTime = r.nextTime
             /\ (r.dag # d => off(r) = r)
             /\ (r.dag = d => ~off(r).active /\ r.version <= newest.version)
  <2>1. r \in DagRow OBVIOUS
  <2>2. /\ off(r) \in DagRow /\ off(r).id = r.id /\ off(r).dag = r.dag
        /\ off(r).version = r.version /\ off(r).nextTime = r.nextTime
        /\ (r.dag # d => off(r) = r)
        BY <2>1 DEF DagRow
  <2>3. newest \in rows /\ newest.dag = d /\ \A x \in Of(rows, d) : x.version <= newest.version
        BY DEF Highest, Of
  <2>4. ASSUME r.dag = d PROVE ~off(r).active /\ r.version <= newest.version
    <3>1. r.version <= newest.version BY <2>3, <2>4 DEF Of
    <3>2. CASE r.version = newest.version BY <2>1, <2>4, <3>2 DEF DagRow
    <3>3. CASE r.version # newest.version
      <4>1. ~r.active
        <5>1. SUFFICES ASSUME r.active PROVE FALSE OBVIOUS
        <5>2. newest = r \/ newest.version < r.version BY <2>3, <2>4, <5>1 DEF RowsOK, OneActive
        <5>3. r.version \in Nat /\ newest.version \in Nat BY <2>3 DEF DagRow
        <5> QED BY <3>1, <3>3, <5>2, <5>3
      <4> QED BY <2>4, <3>1, <3>3, <4>1
    <3> QED BY <3>1, <3>2, <3>3
  <2> QED BY <2>2, <2>4
<1> HIDE DEF off, out
<1>3. out \in SUBSET DagRow /\ \A r \in out : \E s \in rows : r.id = s.id /\ r.nextTime = s.nextTime
      BY <1>1, <1>2
<1>4. /\ \A r \in Of(out, d) : r.version <= newest.version /\ ~r.active
      /\ \A e \in Dag \ {d} : Of(out, e) = Of(rows, e)
  <2>1. \A r \in Of(out, d) : r.version <= newest.version /\ ~r.active BY <1>1, <1>2 DEF Of
  <2>2. ASSUME NEW e \in Dag \ {d} PROVE Of(out, e) = Of(rows, e)
        BY <1>1, <1>2 DEF Of
  <2> QED BY <2>1, <2>2
<1>5. OneActive(out)
  <2> SUFFICES ASSUME NEW r \in rows, NEW s \in rows, off(r).active, off(r).dag = off(s).dag
               PROVE  off(s) = off(r) \/ (off(s).version < off(r).version /\ ~off(s).active)
      BY <1>1 DEF OneActive
  <2>1. r.dag # d /\ s.dag # d /\ off(r) = r /\ off(s) = s BY <1>2
  <2> QED BY <2>1 DEF RowsOK, OneActive
<1>6. HasNewest(out)
  <2> SUFFICES ASSUME NEW r \in rows
               PROVE  \E s \in rows : off(s).dag = off(r).dag
                        /\ \A u \in rows : off(u).dag = off(r).dag => off(u).version <= off(s).version
      BY <1>1 DEF HasNewest
  <2>1. PICK s \in rows : s.dag = r.dag /\ \A u \in rows : u.dag = r.dag => u.version <= s.version
        BY DEF RowsOK, HasNewest
  <2> QED BY <1>2, <2>1
<1>7. UniqueIds(out)
  <2> SUFFICES ASSUME NEW r \in rows, NEW s \in rows, off(r).id = off(s).id PROVE off(r) = off(s)
      BY <1>1 DEF UniqueIds
  <2>1. r = s BY <1>2 DEF RowsOK, UniqueIds
  <2> QED BY <2>1
<1>8. /\ out \in SUBSET DagRow /\ RowsOK(out)
      /\ \A r \in Of(out, d) : r.version <= newest.version /\ ~r.active
      /\ \A e \in Dag \ {d} : Of(out, e) = Of(rows, e)
      /\ \A r \in out : \E s \in rows : r.id = s.id /\ r.nextTime = s.nextTime
      BY <1>3, <1>4, <1>5, <1>6, <1>7 DEF RowsOK
<1> QED BY <1>8 DEF out

\* InsertDAG: a new version, or another value of "suspended" in the rows of the DAG.
LEMMA InsertDAGFacts ==
    ASSUME NEW t, IsTables(t), RowsOK(t.dags), Fresh(t), NEW d \in Dag, NEW spec \in DAGSpec,
           Storable(t, d, spec), clock \in Nat
    PROVE  LET out == InsertDAG(t, d, spec)
           IN  /\ IsTables(out) /\ RowsOK(out.dags) /\ Fresh(out) /\ t.next <= out.next
               /\ Holds(out.dags, d, spec)
               /\ \A e \in Dag \ {d} : Of(out.dags, e) = Of(t.dags, e)
               /\ \A r \in out.dags : \/ r.id >= t.next
                                      \/ \E s \in t.dags : r.id = s.id /\ r.nextTime = s.nextTime
<1> DEFINE rows == t.dags
           version == NextVersion(t, d)
           new == NewDag(t.next, d, spec, version)
           added == insertDAG(t, d, spec, version)
<1>0. rows \in SUBSET DagRow /\ t.next \in Nat BY DEF IsTables
<1>1. GetDag(t, d) = Highest(Of(rows, d)) BY DEF GetDag, Of
<1>2. CASE \E r \in GetDag(t, d) : r.body = spec.body
  <2> DEFINE g == [r \in rows |-> IF r.dag = d THEN [r EXCEPT !.suspended = spec.suspended] ELSE r]
             after == {g[r] : r \in rows}
  <2>1. \A r \in rows : /\ g[r] \in DagRow /\ g[r].id = r.id /\ g[r].dag = r.dag
                        /\ g[r].version = r.version /\ g[r].active = r.active
                        /\ g[r].body = r.body /\ g[r].nextTime = r.nextTime
                        /\ (r.dag # d => g[r] = r) /\ (r.dag = d => g[r].suspended = spec.suspended)
    <3> TAKE r \in rows
    <3>1. r \in DagRow /\ spec.suspended \in BOOLEAN BY <1>0 DEF DAGSpec
    <3> QED BY <3>1 DEF DagRow
  <2>2. Updates(g, rows) BY <2>1 DEF Updates
  <2>3. InsertDAG(t, d, spec) = [t EXCEPT !.dags = after]
    <3>1. InsertDAG(t, d, spec) = setSuspended(t, d, spec.suspended) BY <1>2 DEF InsertDAG
    <3>2. after = {IF r.dag = d THEN [r EXCEPT !.suspended = spec.suspended] ELSE r : r \in t.dags}
          OBVIOUS
    <3> HIDE DEF after
    <3> QED BY <3>1, <3>2 DEF setSuspended
  <2> HIDE DEF g
  <2>4. after \in SUBSET DagRow /\ RowsOK(after) BY <1>0, <2>2, UpdateKeepsRows
  <2>5. Holds(after, d, spec)
    <3>1. PICK r \in Highest(Of(rows, d)) : r.body = spec.body BY <1>1, <1>2
    <3>2. r \in rows /\ r.dag = d /\ \A s \in Of(rows, d) : s.version <= r.version
          BY DEF Highest, Of
    <3>3. g[r] \in Highest(Of(after, d)) BY <2>1, <3>2 DEF Highest, Of
    <3> QED BY <2>1, <3>1, <3>2, <3>3 DEF Holds
  <2>6. \A e \in Dag \ {d} : Of(after, e) = Of(rows, e)
    <3> TAKE e \in Dag \ {d}
    <3> QED BY <2>1 DEF Of
  <2>7. \A r \in after : \E s \in rows : r.id = s.id /\ r.nextTime = s.nextTime BY <2>1
  <2> HIDE DEF after
  <2> DEFINE out == [t EXCEPT !.dags = after]
  <2>8. /\ IsTables(out) /\ out.dags = after /\ out.tasks = t.tasks
        /\ out.dagTasks = t.dagTasks /\ out.next = t.next
        BY <2>4, SetDags
  <2> HIDE DEF out
  <2>9. Fresh(out) BY <2>7, <2>8 DEF Fresh
  <2> QED BY <1>0, <2>3, <2>4, <2>5, <2>6, <2>7, <2>8, <2>9 DEF out
<1>3. CASE ~\E r \in GetDag(t, d) : r.body = spec.body
  <2>0. GetTaskRefsParameters(t, spec.body) BY <1>3 DEF Storable, SameHash
  <2>1. \/ GetDag(t, d) = {} /\ version = 0
        \/ \E r \in GetDag(t, d) : version = r.version + 1
        BY DEF NextVersion
  <2>2. version \in Nat
    <3>1. \A r \in GetDag(t, d) : r.version \in Nat BY <1>0, <1>1 DEF Highest, Of, DagRow
    <3> QED BY <2>1, <3>1
  <2> HIDE DEF version
  <2>3. /\ new \in DagRow /\ new.id = t.next /\ new.dag = d /\ new.version = version
        /\ new.body = spec.body /\ new.suspended = spec.suspended
    <3>1. clock + Period \in Nat BY CatalogueAssumption
    <3>2. spec.body \in Body /\ spec.suspended \in BOOLEAN BY DEF DAGSpec
    <3> QED BY <1>0, <2>2, <3>1, <3>2 DEF NewDag, DagRow
  <2> HIDE DEF new
  <2>4. /\ IsTables(added) /\ added.dags = rows \cup {new} /\ added.next = t.next + 2
        /\ \A x \in added.tasks : x.id \in Nat /\ x.id < added.next
        /\ \A x \in added.dagTasks : x.task \in Nat /\ x.task < added.next
    <3> DEFINE more == [t EXCEPT !.dags = rows \cup {new}]
    <3>1. rows \cup {new} \in SUBSET DagRow BY <1>0, <2>3
    <3>2. /\ IsTables(more) /\ more.dags = rows \cup {new} /\ more.tasks = t.tasks
          /\ more.dagTasks = t.dagTasks /\ more.next = t.next
          BY <3>1, SetDags
    <3>3. added = insertTasks(more, t.next, spec.body) BY DEF insertDAG, new
    <3> HIDE DEF more
    <3>4. \A i \in DOMAIN Refs[spec.body] : RefRows(more, Refs[spec.body][i]) # {}
      <4>1. spec.body \in Body BY DEF DAGSpec
      <4>2. \A i \in DOMAIN Refs[spec.body] : RefRows(t, Refs[spec.body][i]) # {}
            BY <2>0, <4>1, RefsFound
      <4> QED BY <3>2, <4>2 DEF RefRows
    <3>5. /\ t.next + 1 < more.next + 2 /\ spec.body \in Body
          /\ \A x \in more.tasks : x.id \in Nat /\ x.id < more.next + 2
          /\ \A x \in more.dagTasks : x.task \in Nat /\ x.task < more.next + 2
      <4>1. \A n \in Nat : n < t.next => n < t.next + 2 BY <1>0
      <4> QED BY <1>0, <3>2, <4>1 DEF Fresh, DAGSpec
    <3> HIDE DEF added
    <3> QED BY <1>0, <3>2, <3>3, <3>4, <3>5, InsertTasksFacts
  <2> HIDE DEF added
  <2>5. \A r \in rows : r.id # t.next BY <1>0 DEF Fresh, DagRow
  <2>6. ASSUME NEW out, IsTables(out), NEW base \in SUBSET DagRow, RowsOK(base),
               out.dags = base \cup {new}, out.next = added.next, out.tasks = added.tasks,
               out.dagTasks = added.dagTasks,
               \A r \in base : \E s \in rows : r.id = s.id /\ r.nextTime = s.nextTime,
               \A r \in Of(base, d) : r.version < version /\ ~r.active,
               \A e \in Dag \ {d} : Of(base, e) = Of(rows, e)
        PROVE  /\ IsTables(out) /\ RowsOK(out.dags) /\ Fresh(out) /\ t.next <= out.next
               /\ Holds(out.dags, d, spec)
               /\ \A e \in Dag \ {d} : Of(out.dags, e) = Of(t.dags, e)
               /\ \A r \in out.dags : \/ r.id >= t.next
                                      \/ \E s \in t.dags : r.id = s.id /\ r.nextTime = s.nextTime
    <3>1. \A r \in base : r.id # new.id BY <2>3, <2>5, <2>6
    <3>2. /\ RowsOK(base \cup {new}) /\ new \in Highest(Of(base \cup {new}, d))
          /\ \A e \in Dag \ {d} : Of(base \cup {new}, e) = Of(base, e)
      <4>1. \A r \in Of(base, new.dag) : r.version < new.version /\ ~r.active BY <2>3, <2>6
      <4> QED BY <2>3, <2>6, <3>1, <4>1, AddKeepsRows
    <3>3. Holds(out.dags, d, spec) BY <2>3, <2>6, <3>2 DEF Holds
    <3>4. Fresh(out)
      <4>1. \A r \in out.dags : r.id < t.next + 2
        <5>1. \A s \in rows : s.id \in Nat /\ s.id < t.next BY <1>0 DEF Fresh, DagRow
        <5>2. \A r \in base : r.id \in Nat /\ r.id < t.next BY <2>6, <5>1
        <5> QED BY <1>0, <2>3, <2>6, <5>2
      <4> QED BY <2>4, <2>6, <4>1 DEF Fresh
    <3>5. new.id >= t.next /\ t.next <= out.next BY <1>0, <2>3, <2>4, <2>6
    <3> QED BY <2>6, <3>2, <3>3, <3>4, <3>5
  <2>7. CASE GetDag(t, d) = {} /\ version = 0
    <3>1. Of(rows, d) = {}
      <4> SUFFICES ASSUME NEW r \in Of(rows, d) PROVE FALSE OBVIOUS
      <4>1. PICK s \in rows : s.dag = d /\ \A u \in rows : u.dag = d => u.version <= s.version
            BY DEF RowsOK, HasNewest, Of
      <4>2. s \in Highest(Of(rows, d)) BY <4>1 DEF Highest, Of
      <4> QED BY <1>1, <2>7, <4>2
    <3>2. InsertDAG(t, d, spec) = added BY <1>3, <2>7 DEF InsertDAG, added, version
    <3> QED BY <1>0, <2>4, <2>6, <3>1, <3>2
  <2>8. ASSUME NEW newest \in GetDag(t, d), version = newest.version + 1
        PROVE  LET out == InsertDAG(t, d, spec)
               IN  /\ IsTables(out) /\ RowsOK(out.dags) /\ Fresh(out) /\ t.next <= out.next
                   /\ Holds(out.dags, d, spec)
                   /\ \A e \in Dag \ {d} : Of(out.dags, e) = Of(t.dags, e)
                   /\ \A r \in out.dags : \/ r.id >= t.next
                                          \/ \E s \in t.dags : r.id = s.id /\ r.nextTime = s.nextTime
    <3> DEFINE base == setInactive(rows, d, newest.version)
               out == [added EXCEPT !.dags = base \cup {new}]
    <3>1. newest.version \in Nat BY <1>0, <1>1 DEF Highest, Of, DagRow
    <3>2. /\ base \in SUBSET DagRow /\ RowsOK(base)
          /\ \A r \in Of(base, d) : r.version <= newest.version /\ ~r.active
          /\ \A e \in Dag \ {d} : Of(base, e) = Of(rows, e)
          /\ \A r \in base : \E s \in rows : r.id = s.id /\ r.nextTime = s.nextTime
          BY <1>0, <1>1, InactiveFacts
    <3>3. setInactive(rows \cup {new}, d, newest.version) = base \cup {new}
      <4>1. new.version # newest.version BY <2>3, <2>8, <3>1
      <4> QED BY <4>1 DEF setInactive
    <3>4. version # 0 /\ version - 1 = newest.version BY <2>8, <3>1
    <3>5. InsertDAG(t, d, spec) = [added EXCEPT !.dags = setInactive(added.dags, d, version - 1)]
          BY <1>3, <3>4 DEF InsertDAG, added, version
    <3>6. InsertDAG(t, d, spec) = out BY <2>4, <3>3, <3>4, <3>5
    <3>7. \A r \in Of(base, d) : r.version < version /\ ~r.active
      <4>1. \A r \in base : r.version \in Nat BY <3>2 DEF DagRow
      <4> QED BY <2>8, <3>1, <3>2, <4>1 DEF Of
    <3> HIDE DEF base
    <3>8. /\ IsTables(out) /\ out.dags = base \cup {new} /\ out.tasks = added.tasks
          /\ out.dagTasks = added.dagTasks /\ out.next = added.next
      <4>1. base \cup {new} \in SUBSET DagRow BY <2>3, <3>2
      <4> QED BY <2>4, <4>1, SetDags
    <3> HIDE DEF out
    <3> QED BY <2>6, <3>2, <3>6, <3>7, <3>8
  <2> QED BY <2>1, <2>7, <2>8
<1> QED BY <1>2, <1>3

-----------------------------------------------------------------------------
(* The tables in every state.                                              *)

DbOK == IsTables(db) /\ RowsOK(db.dags) /\ Fresh(db)
Phase == {"none", "Failed", "Successful"}
Busy == [pc : {"check", "store", "finalise", "delete", "unfinalise", "Failed", "Successful"},
         dag : Dag, spec : DAGSpec \cup {NoSpec}, phase : Phase, names : SUBSET DagTask]
RecOK == \/ dagRec = DagIdle
         \/ /\ dagRec \in Busy
            /\ (dagRec.spec = NoSpec <=> dagRec.pc \in {"delete", "unfinalise"})
ObjType == /\ dagObj \in [Dag -> DAGSpec \cup {NoSpec}]
           /\ dagStatus \in [Dag -> Phase] /\ phases \in [Dag -> SUBSET Phase]

CInv == clock \in Nat /\ DbOK /\ RecOK /\ ObjType

all == <<backend, dagObj, dagStatus, phases, taskObj, dagQueue, taskQueue, dagRuns, runQueue, db,
         dagRec, taskRec, runRec, clock, creating, up, unnoticed, edits, faults>>

\* The groups of variables, spelled out.
LEMMA Groups ==
    /\ (UNCHANGED vars <=> UNCHANGED all)
    /\ (UNCHANGED status <=> UNCHANGED <<dagStatus, phases>>)
    /\ (UNCHANGED objects <=> UNCHANGED <<dagObj, dagStatus, phases, taskObj>>)
    /\ (UNCHANGED runs <=> UNCHANGED <<dagRuns, runQueue>>)
    /\ (UNCHANGED queues <=> UNCHANGED <<dagQueue, taskQueue, dagRuns, runQueue>>)
    /\ (UNCHANGED scheduler <=> UNCHANGED <<clock, creating>>)
    /\ (UNCHANGED process <=> UNCHANGED <<up, unnoticed>>)
BY DEF vars, all, status, objects, runs, queues, scheduler, process

\* Steps that do not concern the definitions in the tables.
Quiet == /\ IsTables(db') /\ db'.dags = db.dags /\ db'.tasks = db.tasks
         /\ db'.dagTasks = db.dagTasks /\ db'.next = db.next

UserStep == \/ \E d \in Dag : ApplyDag(d) \/ DeleteDagObject(d)
            \/ \E t \in DagTask : ApplyTask(t) \/ DeleteTaskObject(t)
RunStep  == RunReconcile \/ InsertRun \/ FetchStartingTasks \/ EnqueueTask \/ RunFails
            \/ RunReconciled

LEMMA Steps ==
    ASSUME [Next]_vars
    PROVE  \/ UserStep \/ (\E d \in Dag : DagReconcile(d)) \/ (\E t \in DagTask : TaskReconcile(t))
           \/ CheckDag \/ StoreDag \/ FinaliseRefs \/ MarkDag \/ HandleDagDeletion
           \/ UnfinaliseRefs \/ StoreTask \/ ProcessDags \/ ScheduleDagRun \/ RunStep
           \/ Crash \/ Start \/ UNCHANGED vars
BY DEF Next, UserStep, RunStep

LEMMA UserFrame ==
    ASSUME UserStep
    PROVE  UNCHANGED <<backend, dagRuns, runQueue, db, dagRec, clock, creating>>
BY Groups DEF UserStep, ApplyDag, DeleteDagObject, ApplyTask, DeleteTaskObject

LEMMA RunFrame ==
    ASSUME CInv, RunStep
    PROVE  /\ UNCHANGED <<backend, dagObj, dagStatus, phases, taskObj, dagQueue, taskQueue, dagRuns,
                          dagRec, clock, creating, up, unnoticed>>
           /\ Quiet
<1> USE Groups
<1>0. IsTables(db) BY DEF CInv, DbOK
<1>1. UNCHANGED <<backend, dagObj, dagStatus, phases, taskObj, dagQueue, taskQueue, dagRuns,
                  dagRec, clock, creating, up, unnoticed>>
      BY DEF RunStep, RunReconcile, InsertRun, FetchStartingTasks, EnqueueTask, RunFails,
             RunReconciled
<1>2. db' = db => Quiet BY <1>0 DEF Quiet
<1>3. RunReconcile \/ FetchStartingTasks \/ RunFails \/ RunReconciled => db' = db
      BY DEF RunReconcile, FetchStartingTasks, RunFails, RunReconciled
<1>4. ASSUME InsertRun PROVE Quiet
  <2>1. db' = db \/ db' = CreateDAGRun(db, runRec.obj) BY <1>4 DEF InsertRun
  <2>2. CreateDAGRun(db, runRec.obj) # db =>
           \E x : CreateDAGRun(db, runRec.obj) = [db EXCEPT !.runs = x]
        BY DEF CreateDAGRun
  <2>3. ASSUME NEW x, db' = [db EXCEPT !.runs = x] PROVE Quiet BY <1>0, <2>3 DEF IsTables, Quiet
  <2> QED BY <1>2, <2>1, <2>2, <2>3
<1>5. ASSUME EnqueueTask PROVE Quiet
  <2>1. db' = db \/ \E x : db' = [db EXCEPT !.taskRuns = x] BY <1>5 DEF EnqueueTask
  <2>2. ASSUME NEW x, db' = [db EXCEPT !.taskRuns = x] PROVE Quiet
        BY <1>0, <2>2 DEF IsTables, Quiet
  <2> QED BY <1>2, <2>1, <2>2
<1> QED BY <1>1, <1>2, <1>3, <1>4, <1>5 DEF RunStep

\* The tick updates rows in place; with SQLite it moves the due ones on.
LEMMA TickFacts ==
    ASSUME CInv, ProcessDags
    PROVE  \E g : /\ Updates(g, db.dags) /\ IsTables(db') /\ db'.dags = {g[r] : r \in db.dags}
                  /\ db'.tasks = db.tasks /\ db'.dagTasks = db.dagTasks /\ db'.next = db.next
                  /\ \A r \in db.dags : g[r].body = r.body /\ g[r].suspended = r.suspended
                  /\ backend = "sqlite" => \A r \in db.dags :
                        g[r].nextTime = IF r \in Due(db.dags, clock + 1)
                                        THEN clock + 1 + Period ELSE r.nextTime
<1> DEFINE rows == db.dags
           now == clock + 1
           moves(r) == r \in Due(rows, now) /\ (backend = "postgres" => r.id = 0)
           g == [r \in rows |-> IF moves(r) THEN [r EXCEPT !.nextTime = now + Period] ELSE r]
           after == {g[r] : r \in rows}
<1>1. rows \in SUBSET DagRow /\ IsTables(db) BY DEF CInv, DbOK, IsTables
<1>2. now + Period \in Nat BY CatalogueAssumption DEF CInv
<1>3. ASSUME NEW r \in rows
      PROVE  /\ g[r] \in DagRow /\ g[r].id = r.id /\ g[r].dag = r.dag
             /\ g[r].version = r.version /\ g[r].active = r.active
             /\ g[r].body = r.body /\ g[r].suspended = r.suspended
             /\ g[r].nextTime = IF moves(r) THEN now + Period ELSE r.nextTime
  <2> HIDE DEF moves, now
  <2> QED BY <1>1, <1>2 DEF DagRow
<1>4. db' = [db EXCEPT !.dags = after]
  <2>1. CASE backend = "postgres"
    <3>1. after = AdvancePostgres(rows, now) BY <2>1 DEF AdvancePostgres
    <3> HIDE DEF after
    <3> QED BY <2>1, <3>1 DEF ProcessDags
  <2>2. CASE backend # "postgres"
    <3>1. after = AdvanceSqlite(rows, now) BY <2>2 DEF AdvanceSqlite
    <3> HIDE DEF after
    <3> QED BY <2>2, <3>1 DEF ProcessDags
  <2> QED BY <2>1, <2>2
<1>5. Updates(g, rows) BY <1>3 DEF Updates
<1>6. after \in SUBSET DagRow BY <1>3
<1>7. backend = "sqlite" => \A r \in rows :
         g[r].nextTime = IF r \in Due(rows, now) THEN now + Period ELSE r.nextTime
      BY <1>3
<1>8. /\ IsTables(db') /\ db'.dags = after /\ db'.tasks = db.tasks
      /\ db'.dagTasks = db.dagTasks /\ db'.next = db.next
  <2> HIDE DEF after
  <2> QED BY <1>1, <1>4, <1>6, SetDags
<1> HIDE DEF g
<1> QED BY <1>3, <1>5, <1>7, <1>8

LEMMA RemoveKeepsRows ==
    ASSUME NEW rows \in SUBSET DagRow, RowsOK(rows), NEW d
    PROVE  RowsOK(rows \ Of(rows, d))
<1>1. HasNewest(rows \ Of(rows, d))
  <2> SUFFICES ASSUME NEW r \in rows, r.dag # d
               PROVE  \E s \in rows \ Of(rows, d) : s.dag = r.dag
                         /\ \A u \in rows \ Of(rows, d) : u.dag = r.dag => u.version <= s.version
      BY DEF HasNewest, Of
  <2>1. PICK s \in rows : s.dag = r.dag /\ \A u \in rows : u.dag = r.dag => u.version <= s.version
        BY DEF RowsOK, HasNewest
  <2> QED BY <2>1 DEF Of
<1> QED BY <1>1 DEF RowsOK, OneActive, UniqueIds

LEMMA DbStep == CInv /\ [Next]_vars => DbOK'
<1> SUFFICES ASSUME CInv, [Next]_vars PROVE DbOK' OBVIOUS
<1> USE Groups
<1>0. /\ IsTables(db) /\ RowsOK(db.dags) /\ Fresh(db) /\ db.dags \in SUBSET DagRow
      /\ db.next \in Nat /\ RecOK /\ clock \in Nat
      BY DEF CInv, DbOK, IsTables
<1>1. ASSUME UNCHANGED db PROVE DbOK' BY <1>0, <1>1 DEF DbOK
<1>2. ASSUME Quiet PROVE DbOK' BY <1>0, <1>2 DEF DbOK, Quiet, Fresh
<1>3. ASSUME NEW less, IsTables(less), RowsOK(less.dags), less.dags \subseteq db.dags,
             less.tasks \subseteq db.tasks, less.dagTasks \subseteq db.dagTasks,
             less.next = db.next, db' = less
      PROVE  DbOK'
      BY <1>0, <1>3 DEF DbOK, Fresh
<1>4. ASSUME StoreDag PROVE DbOK'
  <2>1. CASE UNCHANGED db BY <1>1, <2>1
  <2>2. CASE ~UNCHANGED db
    <3>1. /\ dagRec.pc = "store" /\ Storable(db, dagRec.dag, dagRec.spec)
          /\ db' = InsertDAG(db, dagRec.dag, dagRec.spec)
          BY <1>4, <2>2 DEF StoreDag
    <3>2. dagRec.dag \in Dag /\ dagRec.spec \in DAGSpec
          BY <1>0, <3>1 DEF RecOK, Busy, DagIdle
    <3> QED BY <1>0, <3>1, <3>2, InsertDAGFacts DEF DbOK
  <2> QED BY <2>1, <2>2
<1>5. ASSUME HandleDagDeletion PROVE DbOK'
  <2> DEFINE less == DeleteDAG(db, dagRec.dag)
  <2>1. /\ IsTables(less) /\ less.dags = db.dags \ Of(db.dags, dagRec.dag)
        /\ less.tasks \subseteq db.tasks /\ less.dagTasks \subseteq db.dagTasks
        /\ less.next = db.next
        BY <1>0, DeleteDAGFacts
  <2>2. RowsOK(less.dags) BY <1>0, <2>1, RemoveKeepsRows
  <2>3. db' = less \/ db' = db BY <1>5 DEF HandleDagDeletion
  <2> HIDE DEF less
  <2> QED BY <1>1, <1>3, <2>1, <2>2, <2>3
<1>6. ASSUME StoreTask PROVE DbOK'
  <2>1. CASE db' = AddTask(db, taskRec.task, taskRec.body)
    <3> DEFINE more == AddTask(db, taskRec.task, taskRec.body)
    <3>1. \/ more = db
          \/ /\ IsTables(more) /\ more.dags = db.dags /\ more.dagTasks = db.dagTasks
             /\ more.next = db.next + 1
             /\ \E row : row.id = db.next /\ more.tasks = db.tasks \cup {row}
          BY <1>0, AddTaskFacts
    <3>2. ASSUME more # db PROVE DbOK'
      <4>1. PICK row : row.id = db.next /\ more.tasks = db.tasks \cup {row} BY <3>1, <3>2
      <4>2. \A n \in Nat : n < db.next => n < db.next + 1 BY <1>0
      <4>3. \A r \in db.dags : r.id \in Nat BY <1>0 DEF DagRow
      <4>4. Fresh(more) BY <1>0, <3>1, <3>2, <4>1, <4>2, <4>3 DEF Fresh
      <4> QED BY <1>0, <2>1, <3>1, <3>2, <4>4 DEF DbOK
    <3> QED BY <1>1, <2>1, <3>2
  <2>2. CASE db' = DeleteTask(db, taskRec.task)
    <3> DEFINE less == DeleteTask(db, taskRec.task)
    <3>1. /\ IsTables(less) /\ less.dags = db.dags /\ less.tasks \subseteq db.tasks
          /\ less.dagTasks \subseteq db.dagTasks /\ less.next = db.next
          BY <1>0, DeleteTaskFacts
    <3> HIDE DEF less
    <3> QED BY <1>0, <1>3, <2>2, <3>1 DEF less
  <2> QED BY <1>1, <1>6, <2>1, <2>2 DEF StoreTask
<1>7. ASSUME ProcessDags PROVE DbOK'
  <2>1. PICK g : /\ Updates(g, db.dags) /\ IsTables(db') /\ db'.dags = {g[r] : r \in db.dags}
                 /\ db'.tasks = db.tasks /\ db'.dagTasks = db.dagTasks /\ db'.next = db.next
        BY <1>7, TickFacts
  <2>2. RowsOK(db'.dags) BY <1>0, <2>1, UpdateKeepsRows
  <2>3. \A r \in db'.dags : r.id < db'.next BY <1>0, <2>1 DEF Updates, Fresh
  <2> QED BY <1>0, <2>1, <2>2, <2>3 DEF DbOK, Fresh
<1>8. UserStep => UNCHANGED db BY UserFrame
<1>9. \/ \E d \in Dag : DagReconcile(d) 
      \/ \E t \in DagTask : TaskReconcile(t)
      \/ CheckDag \/ FinaliseRefs \/ MarkDag \/ UnfinaliseRefs \/ ScheduleDagRun
      \/ Crash \/ Start \/ UNCHANGED vars
      => UNCHANGED db
      BY DEF DagReconcile, TaskReconcile, CheckDag, FinaliseRefs, MarkDag, UnfinaliseRefs,
             ScheduleDagRun, Crash, Start, all
<1>10. RunStep => Quiet BY RunFrame
<1> QED BY <1>1, <1>2, <1>4, <1>5, <1>6, <1>7, <1>8, <1>9, <1>10, Steps

LEMMA RecStep == CInv /\ [Next]_vars => RecOK' /\ ObjType' /\ clock' \in Nat
<1> SUFFICES ASSUME CInv, [Next]_vars PROVE RecOK' /\ ObjType' /\ clock' \in Nat OBVIOUS
<1> USE Groups
<1>0. RecOK /\ ObjType /\ clock \in Nat BY DEF CInv
<1>1. ASSUME UNCHANGED <<dagRec, dagObj, dagStatus, phases, clock>>
      PROVE  RecOK' /\ ObjType' /\ clock' \in Nat
      BY <1>0, <1>1 DEF RecOK, ObjType
<1>2. ASSUME UserStep PROVE RecOK' /\ ObjType' /\ clock' \in Nat
  <2>1. dagRec' = dagRec /\ clock' = clock BY <1>2, UserFrame
  <2>2. ObjType'
        BY <1>0, <1>2 DEF UserStep, ApplyDag, DeleteDagObject, ApplyTask, DeleteTaskObject, ObjType,
                          Phase
  <2> QED BY <1>0, <2>1, <2>2 DEF RecOK
<1>3. ASSUME NEW d \in Dag, DagReconcile(d) PROVE RecOK' /\ ObjType' /\ clock' \in Nat
  <2>1. UNCHANGED <<dagObj, dagStatus, phases, clock>> BY <1>3 DEF DagReconcile
  <2>2. dagObj[d] \in DAGSpec \cup {NoSpec} /\ phases[d] \subseteq Phase BY <1>0 DEF ObjType
  <2>3. RecOK' BY <1>3, <2>2 DEF DagReconcile, RecOK, Busy
  <2> QED BY <1>0, <2>1, <2>3 DEF ObjType
<1>4. ASSUME CheckDag \/ StoreDag \/ FinaliseRefs \/ MarkDag \/ UnfinaliseRefs
             \/ HandleDagDeletion
      PROVE  RecOK' /\ ObjType' /\ clock' \in Nat
  <2>1. dagObj' = dagObj /\ clock' = clock
        BY <1>4 DEF CheckDag, StoreDag, FinaliseRefs, MarkDag, UnfinaliseRefs, HandleDagDeletion
  <2>2. dagStatus' \in [Dag -> Phase] /\ phases' \in [Dag -> SUBSET Phase]
    <3>1. CASE MarkDag BY <1>0, <3>1 DEF MarkDag, PatchPhase, ObjType, Phase
    <3>2. CASE ~MarkDag
      <4>1. UNCHANGED <<dagStatus, phases>>
            BY <1>4, <3>2 DEF CheckDag, StoreDag, FinaliseRefs, UnfinaliseRefs, HandleDagDeletion
      <4> QED BY <1>0, <4>1 DEF ObjType
    <3> QED BY <3>1, <3>2
  <2>3. RecOK'
    <3>1. CASE dagRec' = DagIdle BY <3>1 DEF RecOK
    <3>2. CASE dagRec' # DagIdle
      <4>1. \/ /\ dagRec.pc = "check"
               /\ \E pc \in {"store", "Failed"} : dagRec' = [dagRec EXCEPT !.pc = pc]
            \/ /\ dagRec.pc = "store"
               /\ \E pc \in {"finalise", "Failed"} : dagRec' = [dagRec EXCEPT !.pc = pc]
            \/ dagRec.pc = "finalise" /\ dagRec' = [dagRec EXCEPT !.pc = "Successful"]
            \/ \E names \in SUBSET DagTask : /\ dagRec.pc = "delete"
                  /\ dagRec' = [dagRec EXCEPT !.pc = "unfinalise", !.names = names]
        <5>1. CASE CheckDag BY <5>1 DEF CheckDag
        <5>2. CASE StoreDag BY <3>2, <5>2 DEF StoreDag
        <5>3. CASE FinaliseRefs BY <5>3 DEF FinaliseRefs
        <5>4. CASE HandleDagDeletion
              BY <3>2, <5>4 DEF HandleDagDeletion, DagAgain, UnusedTaskNames, TaskDeletionData
        <5>5. CASE MarkDag \/ UnfinaliseRefs
              BY <3>2, <5>5 DEF MarkDag, DagAgain, UnfinaliseRefs
        <5> QED BY <1>4, <5>1, <5>2, <5>3, <5>4, <5>5
      <4>2. dagRec # DagIdle
        <5>1. dagRec.pc \in {"check", "store", "finalise", "delete"} BY <4>1
        <5> QED BY <5>1 DEF DagIdle
      <4>3. /\ dagRec \in Busy
            /\ (dagRec.spec = NoSpec <=> dagRec.pc \in {"delete", "unfinalise"})
            BY <1>0, <4>2 DEF RecOK
      <4> QED BY <4>1, <4>3 DEF RecOK, Busy
    <3> QED BY <3>1, <3>2
  <2> QED BY <1>0, <2>1, <2>2, <2>3 DEF ObjType
<1>5. ASSUME ProcessDags PROVE RecOK' /\ ObjType' /\ clock' \in Nat
  <2>1. UNCHANGED <<dagRec, dagObj, dagStatus, phases>> /\ clock' = clock + 1
        BY <1>5 DEF ProcessDags
  <2> QED BY <1>0, <2>1 DEF RecOK, ObjType
<1>6. \/ \E t \in DagTask : TaskReconcile(t)
      \/ StoreTask \/ ScheduleDagRun \/ Start \/ UNCHANGED vars
      => UNCHANGED <<dagRec, dagObj, dagStatus, phases, clock>>
      BY DEF TaskReconcile, StoreTask, ScheduleDagRun, Start, all
<1>7. RunStep => UNCHANGED <<dagRec, dagObj, dagStatus, phases, clock>> BY RunFrame
<1>8. ASSUME Crash PROVE RecOK' /\ ObjType' /\ clock' \in Nat
  <2>1. UNCHANGED <<dagObj, dagStatus, phases, clock>> /\ dagRec' = DagIdle BY <1>8 DEF Crash
  <2> QED BY <1>0, <2>1 DEF RecOK, ObjType
<1> QED BY <1>1, <1>2, <1>3, <1>4, <1>5, <1>6, <1>7, <1>8, Steps

LEMMA CInit == Init => CInv
<1> SUFFICES ASSUME Init PROVE CInv OBVIOUS
<1>1. PICK body \in TaskBody, order \in [Stored -> 1..Cardinality(Stored)] :
        db = [dags |-> {}, dagTasks |-> {}, runs |-> {}, taskRuns |-> {},
              tasks |-> {[id |-> order[t], name |-> t, version |-> 1, body |-> body]
                         : t \in Stored},
              next |-> 1 + Cardinality(Stored)]
      BY DEF Init
<1>2. Cardinality(Stored) \in Nat BY CatalogueAssumption, FS_CardinalityType
<1> DEFINE rows == {[id |-> order[t], name |-> t, version |-> 1, body |-> body] : t \in Stored}
<1>3. \A x \in rows : x.id \in Nat /\ x.id < 1 + Cardinality(Stored) BY <1>2
<1>4. db = [dags |-> {}, dagTasks |-> {}, runs |-> {}, taskRuns |-> {}, tasks |-> rows,
            next |-> 1 + Cardinality(Stored)]
      BY <1>1
<1> HIDE DEF rows
<1>5. IsTables(db) BY <1>2, <1>4 DEF IsTables
<1>6. Fresh(db) /\ RowsOK(db.dags)
      BY <1>2, <1>3, <1>4 DEF Fresh, RowsOK, OneActive, HasNewest, UniqueIds
<1>7. RecOK /\ ObjType /\ clock \in Nat BY DEF Init, RecOK, ObjType, Phase
<1> QED BY <1>5, <1>6, <1>7 DEF CInv, DbOK

LEMMA CNext == CInv /\ [Next]_vars => CInv'
BY DbStep, RecStep DEF CInv

\* Editing, deleting and creating a DAG again leave one active version of it
\* at most, and that is its newest (InsertDAG sets only the version before
\* the new one inactive).
THEOREM ActiveIsNewest == Spec => []OneActiveVersion
<1>1. CInv => OneActiveVersion BY DEF CInv, DbOK, RowsOK, OneActive, OneActiveVersion
<1> QED BY <1>1, CInit, CNext, PTL DEF Spec

-----------------------------------------------------------------------------
(* Finalizers.                                                             *)

TaskType == taskObj \in [DagTask -> [body : TaskBody \cup {"none"}, deleting : BOOLEAN,
                                     finalizer : BOOLEAN]]
NamesUnused == dagRec.pc = "unfinalise" =>
                  \A t \in dagRec.names, d \in Dag : t \notin TaskDeletionData(db, d)
FInv == CInv /\ TaskType /\ NamesUnused

\* No statement but InsertDAG makes a DAG refer to a DagTask.
LEMMA UsesShrink ==
    ASSUME NEW t, NEW u,
           \A r \in u.dags : \E s \in t.dags : s.id = r.id /\ s.dag = r.dag,
           u.dagTasks \subseteq t.dagTasks,
           \A x \in u.dagTasks, row \in u.tasks : x.task = row.id => row \in t.tasks
    PROVE  \A d \in Dag : TaskDeletionData(u, d) \subseteq TaskDeletionData(t, d)
<1> SUFFICES ASSUME NEW d \in Dag, NEW name \in TaskDeletionData(u, d)
             PROVE  name \in TaskDeletionData(t, d)
    OBVIOUS
<1>1. PICK r \in u.dags, x \in u.dagTasks, row \in u.tasks :
        r.dag = d /\ x.dag = r.id /\ x.task = row.id /\ row.name = name
      BY DEF TaskDeletionData
<1>2. PICK s \in t.dags : s.id = r.id /\ s.dag = r.dag OBVIOUS
<1>3. x \in t.dagTasks /\ row \in t.tasks /\ name \in DagTask BY <1>1 DEF TaskDeletionData
<1> QED BY <1>1, <1>2, <1>3 DEF TaskDeletionData

LEMMA NamesStep == FInv /\ [Next]_vars => NamesUnused'
<1> SUFFICES ASSUME FInv, [Next]_vars, dagRec'.pc = "unfinalise",
                    NEW t \in dagRec'.names, NEW d \in Dag
             PROVE  t \notin TaskDeletionData(db', d)
    BY DEF NamesUnused
<1> USE Groups
<1>0. CInv /\ IsTables(db) /\ Fresh(db) /\ RecOK BY DEF FInv, CInv, DbOK
<1>1. CASE HandleDagDeletion
  <2>1. /\ db' = DeleteDAG(db, dagRec.dag) /\ dagRec.pc = "delete"
        /\ dagRec' = [dagRec EXCEPT !.pc = "unfinalise",
                                    !.names = UnusedTaskNames(db, dagRec.dag)]
    <3>1. dagRec' # DagIdle BY DEF DagIdle
    <3> QED BY <1>1, <3>1 DEF HandleDagDeletion, DagAgain
  <2>2. dagRec \in Busy BY <1>0, <2>1 DEF RecOK, DagIdle
  <2>3. dagRec'.names = UnusedTaskNames(db, dagRec.dag) BY <2>1, <2>2 DEF Busy
  <2>4. /\ db'.dags = db.dags \ Of(db.dags, dagRec.dag) /\ db'.tasks \subseteq db.tasks
        /\ db'.dagTasks \subseteq db.dagTasks
        BY <1>0, <2>1, DeleteDAGFacts
  <2>5. CASE d = dagRec.dag BY <2>4, <2>5 DEF TaskDeletionData, Of
  <2>6. CASE d # dagRec.dag
    <3>1. t \notin TaskDeletionData(db, d) BY <2>3, <2>6 DEF UnusedTaskNames
    <3>2. TaskDeletionData(db', d) \subseteq TaskDeletionData(db, d) BY <2>4, UsesShrink
    <3> QED BY <3>1, <3>2
  <2> QED BY <2>5, <2>6
<1>2. ASSUME dagRec' = dagRec, TaskDeletionData(db', d) \subseteq TaskDeletionData(db, d)
      PROVE  t \notin TaskDeletionData(db', d)
      BY <1>2 DEF FInv, NamesUnused
<1>3. CASE StoreTask
  <2>1. dagRec' = dagRec BY <1>3 DEF StoreTask
  <2>2. CASE db' = AddTask(db, taskRec.task, taskRec.body)
    <3>1. CASE db' = db BY <1>2, <2>1, <3>1
    <3>2. CASE db' # db
      <4>1. /\ db'.dags = db.dags /\ db'.dagTasks = db.dagTasks
            /\ \E row : row.id = db.next /\ db'.tasks = db.tasks \cup {row}
            BY <1>0, <2>2, <3>2, AddTaskFacts
      <4>2. \A x \in db'.dagTasks, row \in db'.tasks : x.task = row.id => row \in db.tasks
            BY <1>0, <4>1 DEF Fresh
      <4> QED BY <1>2, <2>1, <4>1, <4>2, UsesShrink
    <3> QED BY <3>1, <3>2
  <2>3. CASE db' = DeleteTask(db, taskRec.task)
    <3>1. /\ db'.dags = db.dags /\ db'.tasks \subseteq db.tasks
          /\ db'.dagTasks \subseteq db.dagTasks
          BY <1>0, <2>3, DeleteTaskFacts
    <3> QED BY <1>2, <2>1, <3>1, UsesShrink
  <2>4. CASE db' = db BY <1>2, <2>1, <2>4
  <2> QED BY <1>3, <2>2, <2>3, <2>4 DEF StoreTask
<1>4. CASE ProcessDags
  <2>1. PICK g : /\ Updates(g, db.dags) /\ db'.dags = {g[r] : r \in db.dags}
                 /\ db'.tasks = db.tasks /\ db'.dagTasks = db.dagTasks
        BY <1>0, <1>4, TickFacts
  <2>2. \A r \in db'.dags : \E s \in db.dags : s.id = r.id /\ s.dag = r.dag
        BY <2>1 DEF Updates
  <2>3. dagRec' = dagRec BY <1>4 DEF ProcessDags
  <2> QED BY <1>2, <2>1, <2>2, <2>3, UsesShrink
<1>5. CASE RunStep
  <2>1. dagRec' = dagRec /\ db'.dags = db.dags /\ db'.tasks = db.tasks /\ db'.dagTasks = db.dagTasks
        BY <1>0, <1>5, RunFrame DEF Quiet
  <2> QED BY <1>2, <2>1, UsesShrink
<1>6. CASE UserStep BY <1>2, <1>6, UserFrame
<1>7. \/ \E e \in Dag : DagReconcile(e)
      \/ CheckDag \/ StoreDag \/ FinaliseRefs \/ MarkDag \/ UnfinaliseRefs \/ Crash
      => dagRec'.pc # "unfinalise"
  <2>1. StoreDag \/ CheckDag \/ FinaliseRefs => dagRec \in Busy
        BY <1>0 DEF CheckDag, StoreDag, FinaliseRefs, RecOK, DagIdle
  <2>2. CheckDag \/ StoreDag \/ FinaliseRefs => dagRec'.pc # "unfinalise"
        BY <2>1 DEF CheckDag, StoreDag, FinaliseRefs, DagIdle, Busy
  <2> QED BY <2>2 DEF DagReconcile, MarkDag, DagAgain, UnfinaliseRefs, Crash, DagIdle
<1>8. CASE (\E x \in DagTask : TaskReconcile(x)) \/ ScheduleDagRun \/ Start \/ UNCHANGED vars
  <2>1. dagRec' = dagRec /\ db' = db BY <1>8 DEF TaskReconcile, ScheduleDagRun, Start, all
  <2> QED BY <1>2, <2>1
<1> QED BY <1>1, <1>3, <1>4, <1>5, <1>6, <1>7, <1>8, Steps

\* What a step does to one DagTask object.
LEMMA TaskObjStep ==
    ASSUME FInv, [Next]_vars
    PROVE  /\ TaskType'
           /\ \A t \in DagTask : taskObj[t].finalizer /\ ~taskObj'[t].finalizer
                 => \A d \in Dag : t \notin TaskDeletionData(db, d)
<1> USE Groups
<1>0. TaskType /\ CInv BY DEF FInv
<1> DEFINE T == [body : TaskBody \cup {"none"}, deleting : BOOLEAN, finalizer : BOOLEAN]
           Keeps == taskObj' \in [DagTask -> T]
                    /\ \A t \in DagTask : taskObj'[t].finalizer \/ ~taskObj[t].finalizer
<1>1. taskObj \in [DagTask -> T] BY <1>0 DEF TaskType
<1>2. NoTask \in T BY DEF NoTask
<1>3. ASSUME NEW t \in DagTask, ApplyTask(t) PROVE Keeps BY <1>1, <1>3 DEF ApplyTask
<1>4. ASSUME NEW t \in DagTask, DeleteTaskObject(t) PROVE Keeps
      BY <1>1, <1>2, <1>4 DEF DeleteTaskObject
<1>5. ASSUME FinaliseRefs PROVE Keeps BY <1>1, <1>5 DEF FinaliseRefs
<1>6. ASSUME UNCHANGED taskObj PROVE Keeps BY <1>1, <1>6
<1>7. Keeps => /\ TaskType'
               /\ \A t \in DagTask : taskObj[t].finalizer /\ ~taskObj'[t].finalizer
                     => \A d \in Dag : t \notin TaskDeletionData(db, d)
      BY DEF TaskType
<1>8. ASSUME UnfinaliseRefs
      PROVE  /\ TaskType'
             /\ \A t \in DagTask : taskObj[t].finalizer /\ ~taskObj'[t].finalizer
                   => \A d \in Dag : t \notin TaskDeletionData(db, d)
  <2>0. PICK freed \in SUBSET Freeable :
          LET gone == {t \in freed : taskObj[t].deleting}
          IN  taskObj' = [t \in DagTask |->
                            IF t \in gone THEN NoTask
                            ELSE IF t \in freed THEN [taskObj[t] EXCEPT !.finalizer = FALSE]
                            ELSE taskObj[t]]
        BY <1>8 DEF UnfinaliseRefs
  <2> DEFINE gone == {t \in freed : taskObj[t].deleting}
  <2>1. /\ dagRec.pc = "unfinalise"
        /\ taskObj' = [t \in DagTask |->
                          IF t \in gone THEN NoTask
                          ELSE IF t \in freed THEN [taskObj[t] EXCEPT !.finalizer = FALSE]
                          ELSE taskObj[t]]
        BY <1>8, <2>0 DEF UnfinaliseRefs
  <2>2. freed \subseteq dagRec.names /\ gone \subseteq freed BY DEF Freeable
  <2> HIDE DEF gone
  <2>3. taskObj' \in [DagTask -> T] BY <1>1, <1>2, <2>1
  <2>4. \A t \in DagTask : taskObj[t].finalizer /\ ~taskObj'[t].finalizer => t \in dagRec.names
        BY <2>1, <2>2
  <2> QED BY <2>1, <2>3, <2>4 DEF FInv, NamesUnused, TaskType
<1>9. (\E d \in Dag : ApplyDag(d) \/ DeleteDagObject(d) \/ DagReconcile(d)) => UNCHANGED taskObj
      BY DEF ApplyDag, DeleteDagObject, DagReconcile
<1>10. \/ \E t \in DagTask : TaskReconcile(t)
       \/ CheckDag \/ StoreDag \/ MarkDag \/ HandleDagDeletion \/ StoreTask \/ ProcessDags
       \/ ScheduleDagRun \/ Crash \/ Start \/ UNCHANGED vars
       => UNCHANGED taskObj
       BY DEF TaskReconcile, CheckDag, StoreDag, MarkDag, HandleDagDeletion, StoreTask,
              ProcessDags, ScheduleDagRun, Crash, Start, all
<1>11. RunStep => UNCHANGED taskObj BY <1>0, RunFrame
<1> HIDE DEF Keeps
<1> QED BY <1>3, <1>4, <1>5, <1>6, <1>7, <1>8, <1>9, <1>10, <1>11, Steps DEF UserStep

LEMMA FInit == Init => FInv
<1> SUFFICES ASSUME Init PROVE FInv OBVIOUS
<1>1. NamesUnused BY DEF Init, NamesUnused, DagIdle
<1>2. TaskType
  <2>1. PICK body \in TaskBody :
          taskObj = [t \in DagTask |-> IF t \in Stored
                                       THEN [NoTask EXCEPT !.body = body] ELSE NoTask]
        BY DEF Init
  <2> QED BY <2>1 DEF TaskType, NoTask
<1> QED BY <1>1, <1>2, CInit DEF FInv

LEMMA FNext == FInv /\ [Next]_vars => FInv'
BY CNext, NamesStep, TaskObjStep DEF FInv

\* A DagTask loses its finalizer only when no DAG refers to it, although
\* the users of a task are counted in one transaction and the finalizers
\* removed after it, while the other reconciler stores and deletes tasks.
THEOREM FinalizersKept == Spec => FinalizerKeptWhileUsed
<1>1. FInv /\ [Next]_vars
         => [\A t \in DagTask : taskObj[t].finalizer /\ ~taskObj'[t].finalizer
                => \A d \in Dag : NsOf[d] = TaskNs => t \notin TaskDeletionData(db, d)]_vars
      BY TaskObjStep
<1> QED BY <1>1, FInit, FNext, PTL DEF Spec, FinalizerKeptWhileUsed

-----------------------------------------------------------------------------
(* The schedule.                                                           *)

Objs == dagRuns \cup {c.obj : c \in creating}

\* An occurrence that has its DagRun lies before the row's next one.
Past(o, t) == /\ o.dag \in Nat /\ o.dag < t.next /\ o.occurrence \in Nat
              /\ \A r \in t.dags : r.id = o.dag => o.occurrence < r.nextTime

OccurrenceInv ==
    backend = "sqlite" =>
        /\ \A o \in Objs : Past(o, db)
        /\ \A o, p \in Objs : o.dag = p.dag /\ o.occurrence = p.occurrence => o = p
        /\ \A c \in creating : c = [obj |-> c.obj, attempt |-> c.attempt]

LEMMA OccurrenceStep == CInv /\ OccurrenceInv /\ [Next]_vars => OccurrenceInv'
<1> SUFFICES ASSUME CInv, OccurrenceInv, [Next]_vars PROVE OccurrenceInv' OBVIOUS
<1> USE Groups
<1>0. /\ IsTables(db) /\ RowsOK(db.dags) /\ Fresh(db) /\ db.dags \in SUBSET DagRow
      /\ db.next \in Nat /\ RecOK /\ clock \in Nat
      BY DEF CInv, DbOK, IsTables
<1>1. backend' = backend
  <2>1. RunStep \/ UserStep => backend' = backend BY RunFrame, UserFrame
  <2> QED BY <2>1, Steps
          DEF DagReconcile, TaskReconcile, CheckDag, StoreDag, FinaliseRefs, MarkDag,
              HandleDagDeletion, UnfinaliseRefs, StoreTask, ProcessDags, ScheduleDagRun, Crash,
              Start, all
<1> SUFFICES ASSUME backend = "sqlite" PROVE OccurrenceInv' BY <1>1 DEF OccurrenceInv
<1>2. /\ \A o \in Objs : Past(o, db)
      /\ \A o, p \in Objs : o.dag = p.dag /\ o.occurrence = p.occurrence => o = p
      /\ \A c \in creating : c = [obj |-> c.obj, attempt |-> c.attempt]
      BY DEF OccurrenceInv
<1>3. ASSUME UNCHANGED <<dagRuns, creating>>, db'.next \in Nat, db.next <= db'.next,
             \A r \in db'.dags : \/ r.id >= db.next
                                 \/ \E s \in db.dags : r.id = s.id /\ r.nextTime = s.nextTime
      PROVE  OccurrenceInv'
  <2>1. ASSUME NEW o \in Objs, Past(o, db) PROVE Past(o, db')
    <3>1. o.dag \in Nat /\ o.dag < db.next /\ o.occurrence \in Nat BY <2>1 DEF Past
    <3>2. o.dag < db'.next BY <1>0, <1>3, <3>1
    <3>3. ASSUME NEW r \in db'.dags, r.id = o.dag PROVE o.occurrence < r.nextTime
      <4>1. ~(r.id >= db.next) BY <1>0, <3>1, <3>3
      <4>2. PICK s \in db.dags : r.id = s.id /\ r.nextTime = s.nextTime BY <1>3, <3>3, <4>1
      <4> QED BY <2>1, <3>3, <4>2 DEF Past
    <3> QED BY <3>1, <3>2, <3>3 DEF Past
  <2>2. Objs' = Objs BY <1>3 DEF Objs
  <2> QED BY <1>2, <1>3, <2>1, <2>2 DEF OccurrenceInv
<1>4. ASSUME UNCHANGED <<dagRuns, creating>>, db'.dags \subseteq db.dags, db'.next \in Nat,
             db.next <= db'.next
      PROVE  OccurrenceInv'
      BY <1>3, <1>4
<1>5. CASE ProcessDags
  <2> DEFINE now == clock + 1
             due == Due(db.dags, now)
             fresh == {DagRunOf(r, now) : r \in due}
  <2>1. PICK g : /\ Updates(g, db.dags) /\ db'.dags = {g[r] : r \in db.dags} /\ db'.next = db.next
                 /\ \A r \in db.dags : g[r].nextTime = IF r \in due THEN now + Period
                                                                    ELSE r.nextTime
        BY <1>5, TickFacts
  <2>2. /\ dagRuns' = dagRuns
        /\ creating' = creating \cup {Creation(r, now) : r \in due}
        BY <1>5 DEF ProcessDags
  <2>3. /\ due \subseteq db.dags
        /\ \A r \in due : /\ r.nextTime <= now /\ r.id \in Nat /\ r.id < db.next /\ r.nextTime \in Nat
                          /\ DagRunOf(r, now).dag = r.id
                          /\ DagRunOf(r, now).occurrence = r.nextTime
        BY <1>0 DEF Due, DagRunOf, Fresh, DagRow
  <2>4. Objs' = Objs \cup fresh
    <3>1. \A r \in due : Creation(r, now).obj = DagRunOf(r, now) BY DEF Creation
    <3> HIDE DEF now, due
    <3>2. {c.obj : c \in creating \cup {Creation(r, now) : r \in due}}
             = {c.obj : c \in creating} \cup fresh
          BY <3>1
    <3> QED BY <2>2, <3>2 DEF Objs
  <2>5. now \in Nat /\ Period \in Nat /\ Period > 0 BY <1>0, CatalogueAssumption
  <2>6. \A r \in db.dags : r.nextTime \in Nat /\ r.id \in Nat BY <1>0 DEF DagRow
  <2>7. \A c \in creating' : c = [obj |-> c.obj, attempt |-> c.attempt]
        BY <1>2, <2>2 DEF Creation
  <2> HIDE DEF now, due
  <2>8. \A o \in Objs : Past(o, db')
    <3> SUFFICES ASSUME NEW o \in Objs PROVE Past(o, db') OBVIOUS
    <3>1. Past(o, db) BY <1>2
    <3>2. ASSUME NEW r \in db.dags, g[r].id = o.dag PROVE o.occurrence < g[r].nextTime
      <4>1. o.occurrence \in Nat /\ o.occurrence < r.nextTime BY <2>1, <3>1, <3>2 DEF Past, Updates
      <4>2. r \in due => r.nextTime <= now BY <2>3
      <4> QED BY <2>1, <2>5, <2>6, <4>1, <4>2
    <3> QED BY <2>1, <3>1, <3>2 DEF Past
  <2>9. \A o \in fresh : Past(o, db')
    <3> SUFFICES ASSUME NEW q \in due PROVE Past(DagRunOf(q, now), db') OBVIOUS
    <3>1. ASSUME NEW r \in db.dags, g[r].id = q.id PROVE q.nextTime < g[r].nextTime
      <4>1. r = q BY <1>0, <2>1, <2>3, <3>1 DEF RowsOK, UniqueIds, Updates
      <4> QED BY <2>1, <2>3, <2>5, <4>1
    <3> QED BY <2>1, <2>3, <3>1 DEF Past
  <2>10. \A o, p \in Objs \cup fresh : o.dag = p.dag /\ o.occurrence = p.occurrence => o = p
    <3>1. ASSUME NEW q \in due, NEW o \in Objs, o.dag = q.id, o.occurrence = q.nextTime
          PROVE  FALSE
      <4>1. o.occurrence < q.nextTime BY <1>2, <2>3, <3>1 DEF Past
      <4> QED BY <2>3, <3>1, <4>1
    <3>2. ASSUME NEW q \in due, NEW r \in due, q.id = r.id PROVE q = r
          BY <1>0, <2>3, <3>2 DEF RowsOK, UniqueIds
    <3> QED BY <1>2, <2>3, <3>1, <3>2
  <2> QED BY <2>4, <2>7, <2>8, <2>9, <2>10 DEF OccurrenceInv
<1>6. CASE ScheduleDagRun
  <2>1. PICK c \in creating : CreateDagRun(c) BY <1>6 DEF ScheduleDagRun
  <2>2. c = [obj |-> c.obj, attempt |-> c.attempt] /\ c.obj \in Objs BY <1>2 DEF Objs
  <2> DEFINE again == [c EXCEPT !.attempt = @ + 1]
  <2>3. again = [obj |-> c.obj, attempt |-> c.attempt + 1] BY <2>2
  <2>4. /\ dagRuns' \subseteq dagRuns \cup {c.obj}
        /\ creating' \subseteq creating \cup {again}
        BY <2>1 DEF CreateDagRun, RetryCreation
  <2>5. again.obj = c.obj /\ again = [obj |-> again.obj, attempt |-> again.attempt] BY <2>3
  <2> HIDE DEF again
  <2>6. Objs' \subseteq Objs BY <2>2, <2>4, <2>5 DEF Objs
  <2>7. db' = db BY <1>6 DEF ScheduleDagRun
  <2>8. \A e \in creating' : e = [obj |-> e.obj, attempt |-> e.attempt] BY <1>2, <2>4, <2>5
  <2> QED BY <1>2, <2>6, <2>7, <2>8 DEF OccurrenceInv
<1>7. CASE StoreDag
  <2>1. UNCHANGED <<dagRuns, creating>> BY <1>7 DEF StoreDag
  <2>2. CASE UNCHANGED db BY <1>0, <1>4, <2>1, <2>2
  <2>3. CASE ~UNCHANGED db
    <3>1. /\ dagRec.pc = "store" /\ Storable(db, dagRec.dag, dagRec.spec)
          /\ db' = InsertDAG(db, dagRec.dag, dagRec.spec)
          BY <1>7, <2>3 DEF StoreDag
    <3>2. dagRec.dag \in Dag /\ dagRec.spec \in DAGSpec
          BY <1>0, <3>1 DEF RecOK, Busy, DagIdle
    <3>3. /\ IsTables(db') /\ db.next <= db'.next
          /\ \A r \in db'.dags : \/ r.id >= db.next
                                 \/ \E s \in db.dags : r.id = s.id /\ r.nextTime = s.nextTime
          BY <1>0, <3>1, <3>2, InsertDAGFacts
    <3>4. db'.next \in Nat BY <3>3 DEF IsTables
    <3> QED BY <1>3, <2>1, <3>3, <3>4
  <2> QED BY <2>2, <2>3
<1>8. CASE HandleDagDeletion
  <2>1. UNCHANGED <<dagRuns, creating>> /\ (db' = DeleteDAG(db, dagRec.dag) \/ db' = db)
        BY <1>8 DEF HandleDagDeletion
  <2>2. db'.dags \subseteq db.dags /\ db'.next = db.next BY <1>0, <2>1, DeleteDAGFacts
  <2> QED BY <1>0, <1>4, <2>1, <2>2
<1>9. CASE StoreTask
  <2>1. UNCHANGED <<dagRuns, creating>> BY <1>9 DEF StoreTask
  <2>2. db'.dags = db.dags /\ (db'.next = db.next \/ db'.next = db.next + 1)
        BY <1>0, <1>9, AddTaskFacts, DeleteTaskFacts DEF StoreTask
  <2>3. db'.next \in Nat /\ db.next <= db'.next BY <1>0, <2>2
  <2> QED BY <1>4, <2>1, <2>2, <2>3
<1>10. CASE RunStep
  <2>1. UNCHANGED <<dagRuns, creating>> /\ db'.dags = db.dags /\ db'.next = db.next
        BY <1>10, RunFrame DEF Quiet
  <2> QED BY <1>0, <1>4, <2>1
<1>11. \/ UserStep
       \/ \E d \in Dag : DagReconcile(d)
       \/ \E t \in DagTask : TaskReconcile(t)
       \/ CheckDag \/ FinaliseRefs \/ MarkDag \/ UnfinaliseRefs \/ Start \/ UNCHANGED vars
       => UNCHANGED <<dagRuns, creating, db>>
       BY UserFrame DEF DagReconcile, TaskReconcile, CheckDag, FinaliseRefs, MarkDag,
                        UnfinaliseRefs, Start, all
<1>12. ASSUME UNCHANGED <<dagRuns, creating, db>> PROVE OccurrenceInv' BY <1>0, <1>4, <1>12
<1>13. CASE Crash
  <2>1. UNCHANGED <<dagRuns, db>> /\ creating' = {} BY <1>13 DEF Crash
  <2>2. Objs' \subseteq Objs BY <2>1 DEF Objs
  <2> QED BY <1>2, <2>1, <2>2 DEF OccurrenceInv
<1> QED BY <1>5, <1>6, <1>7, <1>8, <1>9, <1>10, <1>11, <1>12, <1>13, Steps

\* With SQLite no occurrence of a schedule gets a second DagRun, however
\* often its creation fails after the object was made, the DAG is edited,
\* deleted or created again, and the ticks pass meanwhile.
THEOREM OccurrencesRunOnce == Spec => []OneRunPerOccurrence
<1>1. Init => OccurrenceInv BY DEF Init, OccurrenceInv, Objs
<1>2. OccurrenceInv => OneRunPerOccurrence BY DEF OccurrenceInv, OneRunPerOccurrence, Objs
<1> QED BY <1>1, <1>2, CInit, CNext, OccurrenceStep, PTL DEF Spec

-----------------------------------------------------------------------------
(* The DAG reconciler against edits.                                       *)

\* What is left when nothing is to be done for d ...
Settled(d) == IF dagObj[d] = NoSpec THEN d \in unnoticed \/ None(db.dags, d)
              ELSE "Failed" \in phases[d] \/ Holds(db.dags, d, dagObj[d])

\* ... and while it is being reconciled, and was not edited since: the phase
\* that was read is one the object has had with this spec.
InWork(d) == /\ dagRec.spec = dagObj[d]
             /\ dagRec.phase \in phases[d]
             /\ dagRec.pc \in {"finalise", "Successful"} => Holds(db.dags, d, dagRec.spec)
             /\ dagRec.pc = "unfinalise" => None(db.dags, d)

SyncInv ==
    /\ up \/ dagRec = DagIdle
    /\ \A d \in Dag : \/ d \in dagQueue
                      \/ dagRec # DagIdle /\ dagRec.dag = d /\ InWork(d)
                      \/ (dagRec = DagIdle \/ dagRec.dag # d) /\ Settled(d)

\* What concerns the DAGs and their reconciler, but for the tables.
dagPart == <<dagObj, phases, dagQueue, dagRec, up, unnoticed>>

\* A step of the reconciler that concerns the DAG it works on, and no other.
LEMMA WorkStep ==
    ASSUME ObjType, SyncInv, NEW e \in Dag, dagRec # DagIdle, dagRec.dag = e,
           UNCHANGED <<dagObj, dagQueue, up, unnoticed>>,
           \A d \in Dag \ {e} : /\ phases'[d] = phases[d]
                                /\ Of(db'.dags, d) = Of(db.dags, d),
           dagRec' = DagIdle \/ dagRec'.dag = e,
           InWork(e) => IF dagRec' = DagIdle THEN Settled(e)' ELSE InWork(e)'
    PROVE  SyncInv'
<1>1. up' BY DEF SyncInv
<1> SUFFICES ASSUME NEW d \in Dag, d \notin dagQueue
             PROVE  \/ dagRec' # DagIdle /\ dagRec'.dag = d /\ InWork(d)'
                    \/ (dagRec' = DagIdle \/ dagRec'.dag # d) /\ Settled(d)'
    BY <1>1 DEF SyncInv
<1>2. CASE d = e BY <1>2 DEF SyncInv
<1>3. CASE d # e
  <2>1. Settled(d) BY <1>3 DEF SyncInv
  <2>2. Settled(d)' BY <1>3, <2>1 DEF Settled, Holds, None
  <2> QED BY <1>3, <2>2
<1> QED BY <1>2, <1>3

\* An error: the DAG is queued again, and every other is as it was.
LEMMA AgainStep ==
    ASSUME SyncInv, dagRec # DagIdle, DagAgain, UNCHANGED <<dagObj, phases, db, up, unnoticed>>
    PROVE  SyncInv'
<1>1. dagRec' = DagIdle /\ dagQueue' = dagQueue \cup {dagRec.dag} BY DEF DagAgain
<1> SUFFICES ASSUME NEW d \in Dag, d \notin dagQueue, d # dagRec.dag PROVE Settled(d)'
    BY <1>1 DEF SyncInv
<1>2. Settled(d) BY DEF SyncInv
<1> QED BY <1>2 DEF Settled

LEMMA SyncStep == CInv /\ SyncInv /\ [Next]_vars => SyncInv'
<1> SUFFICES ASSUME CInv, SyncInv, [Next]_vars PROVE SyncInv' OBVIOUS
<1> USE Groups
<1>0. /\ IsTables(db) /\ RowsOK(db.dags) /\ Fresh(db) /\ db.dags \in SUBSET DagRow
      /\ RecOK /\ ObjType /\ clock \in Nat
      BY DEF CInv, DbOK, IsTables
<1>1. ASSUME UNCHANGED dagPart,
             \A d \in Dag : \A spec : Holds(db.dags, d, spec) => Holds(db'.dags, d, spec),
             \A d \in Dag : None(db.dags, d) => None(db'.dags, d)
      PROVE  SyncInv'
  <2>0. UNCHANGED <<dagObj, phases, dagQueue, dagRec, up, unnoticed>> BY <1>1 DEF dagPart
  <2> SUFFICES ASSUME NEW d \in Dag, d \notin dagQueue
               PROVE  \/ dagRec # DagIdle /\ dagRec.dag = d /\ InWork(d)'
                      \/ (dagRec = DagIdle \/ dagRec.dag # d) /\ Settled(d)'
      BY <2>0 DEF SyncInv
  <2>1. InWork(d) => InWork(d)' BY <1>1, <2>0 DEF InWork
  <2>2. Settled(d) => Settled(d)' BY <1>1, <2>0 DEF Settled
  <2> QED BY <2>1, <2>2 DEF SyncInv
<1>2. ASSUME UNCHANGED dagPart, db'.dags = db.dags PROVE SyncInv'
      BY <1>1, <1>2
<1>3. ASSUME NEW e \in Dag, ApplyDag(e) \/ DeleteDagObject(e) PROVE SyncInv'
  <2>1. /\ UNCHANGED <<db, dagRec, up>> /\ dagQueue \ {e} \subseteq dagQueue'
        /\ \A d \in Dag \ {e} : /\ dagObj'[d] = dagObj[d] /\ phases'[d] = phases[d]
                                /\ d \in unnoticed => d \in unnoticed'
        BY <1>0, <1>3 DEF ApplyDag, DeleteDagObject, ObjType
  <2>2. \/ e \in dagQueue'
        \/ ~up /\ dagObj'[e] = NoSpec /\ e \in unnoticed'
        BY <1>0, <1>3 DEF ApplyDag, DeleteDagObject, ObjType
  <2>3. e \in dagQueue' \/ (dagRec' = DagIdle /\ Settled(e)')
        BY <2>1, <2>2 DEF SyncInv, Settled
  <2>4. ASSUME NEW d \in Dag, d \notin dagQueue, d # e
        PROVE  \/ dagRec # DagIdle /\ dagRec.dag = d /\ InWork(d)'
               \/ (dagRec = DagIdle \/ dagRec.dag # d) /\ Settled(d)'
    <3>1. InWork(d) => InWork(d)' BY <2>1, <2>4 DEF InWork
    <3>2. Settled(d) => Settled(d)' BY <2>1, <2>4 DEF Settled
    <3> QED BY <2>4, <3>1, <3>2 DEF SyncInv
  <2> QED BY <2>1, <2>3, <2>4 DEF SyncInv
<1>4. ASSUME NEW e \in Dag, DagReconcile(e) PROVE SyncInv'
  <2>1. PICK phase \in phases[e] :
          dagRec' = [pc |-> IF dagObj[e] = NoSpec THEN "delete" ELSE "check",
                     dag |-> e, spec |-> dagObj[e], phase |-> phase, names |-> {}]
        BY <1>4 DEF DagReconcile
  <2>2. /\ UNCHANGED <<db, dagObj, phases, up, unnoticed>> /\ dagQueue' = dagQueue \ {e}
        /\ up /\ dagRec = DagIdle
        BY <1>0, <1>4 DEF DagReconcile, RecOK, Busy
  <2>3. dagRec' # DagIdle /\ dagRec'.dag = e /\ InWork(e)' BY <2>1, <2>2 DEF InWork, DagIdle
  <2>4. \A d \in Dag : d \notin dagQueue => Settled(d)' BY <2>2 DEF SyncInv, Settled
  <2> QED BY <2>2, <2>3, <2>4 DEF SyncInv
<1>6. ASSUME CheckDag \/ StoreDag \/ FinaliseRefs \/ MarkDag \/ HandleDagDeletion
             \/ UnfinaliseRefs
      PROVE  SyncInv'
  <2>1. dagRec # DagIdle /\ UNCHANGED <<dagObj, up, unnoticed>>
        BY <1>6 DEF CheckDag, StoreDag, FinaliseRefs, MarkDag, HandleDagDeletion,
                    UnfinaliseRefs, DagIdle
  <2>2. dagRec \in Busy /\ (dagRec.spec = NoSpec <=> dagRec.pc \in {"delete", "unfinalise"})
        BY <1>0, <2>1 DEF RecOK
  <2>3. PICK e \in Dag : e = dagRec.dag BY <2>2 DEF Busy
  \* A step that only moves on.
  <2>4. ASSUME NEW pc \in {"store", "Failed", "finalise", "Successful"},
               dagRec' = [dagRec EXCEPT !.pc = pc], UNCHANGED <<dagQueue, phases>>,
               \A d \in Dag \ {e} : Of(db'.dags, d) = Of(db.dags, d),
               pc \in {"finalise", "Successful"} /\ InWork(e) => Holds(db'.dags, e, dagRec.spec)
        PROVE  SyncInv'
    <3>1. /\ dagRec'.dag = e /\ dagRec'.spec = dagRec.spec /\ dagRec'.pc = pc
          /\ dagRec'.phase = dagRec.phase
          BY <2>2, <2>3, <2>4 DEF Busy
    <3>2. dagRec' # DagIdle BY <3>1 DEF DagIdle
    <3>3. InWork(e) => InWork(e)' BY <2>1, <2>4, <3>1 DEF InWork
    <3> QED BY <1>0, <2>1, <2>3, <2>4, <3>1, <3>2, <3>3, WorkStep
  <2>6. CASE CheckDag
    <3>1. PICK pc \in {"store", "Failed"} : dagRec' = [dagRec EXCEPT !.pc = pc]
          BY <2>6 DEF CheckDag
    <3>2. UNCHANGED <<dagQueue, phases, db>> BY <2>6 DEF CheckDag
    <3> QED BY <2>4, <3>1, <3>2
  <2>7. CASE StoreDag
    <3>0. /\ dagRec.pc = "store" /\ dagRec.spec \in DAGSpec /\ UNCHANGED <<dagQueue, phases>>
          BY <2>2, <2>7 DEF StoreDag, Busy
    <3>1. CASE dagRec' = [dagRec EXCEPT !.pc = "Failed"] /\ UNCHANGED db BY <2>4, <3>0, <3>1
    <3>2. CASE SameDag(db, e, dagRec.spec) /\ dagRec' = DagIdle /\ UNCHANGED db
      <4>1. Holds(db.dags, e, dagRec.spec) BY <3>2 DEF SameDag, Holds, GetDag, Of
      <4>2. InWork(e) => Settled(e)' BY <2>1, <2>2, <3>0, <3>2, <4>1 DEF InWork, Settled
      <4> QED BY <1>0, <2>1, <2>3, <3>0, <3>2, <4>2, WorkStep
    <3>3. CASE /\ Storable(db, e, dagRec.spec) /\ db' = InsertDAG(db, e, dagRec.spec)
               /\ dagRec' = [dagRec EXCEPT !.pc = "finalise"]
      <4>1. /\ Holds(db'.dags, e, dagRec.spec)
            /\ \A d \in Dag \ {e} : Of(db'.dags, d) = Of(db.dags, d)
            BY <1>0, <2>3, <3>0, <3>3, InsertDAGFacts
      <4> QED BY <2>4, <3>0, <3>3, <4>1
    <3> QED BY <2>3, <2>7, <3>1, <3>2, <3>3 DEF StoreDag
  <2>8. CASE FinaliseRefs
    <3>1. /\ dagRec.pc = "finalise" /\ UNCHANGED <<db, dagQueue, phases>>
          /\ dagRec' = [dagRec EXCEPT !.pc = "Successful"]
          BY <2>8 DEF FinaliseRefs
    <3>2. InWork(e) => Holds(db'.dags, e, dagRec.spec) BY <3>1 DEF InWork
    <3> QED BY <2>4, <3>1, <3>2
  <2>9. CASE HandleDagDeletion
    <3>1. CASE DagAgain /\ UNCHANGED db
      <4>1. phases' = phases BY <2>9 DEF HandleDagDeletion
      <4> QED BY <2>1, <3>1, <4>1, AgainStep
    <3>2. CASE /\ db' = DeleteDAG(db, e) /\ dagQueue' = dagQueue
               /\ dagRec' = [dagRec EXCEPT !.pc = "unfinalise", !.names = UnusedTaskNames(db, e)]
      <4>1. dagRec.pc = "delete" /\ phases' = phases BY <2>9 DEF HandleDagDeletion
      <4>2. db'.dags = db.dags \ Of(db.dags, e) BY <1>0, <3>2, DeleteDAGFacts
      <4>3. None(db'.dags, e) /\ \A d \in Dag \ {e} : Of(db'.dags, d) = Of(db.dags, d)
            BY <4>2 DEF None, Of
      <4>4. /\ dagRec'.dag = e /\ dagRec'.spec = dagRec.spec /\ dagRec'.pc = "unfinalise"
            /\ dagRec'.phase = dagRec.phase
            BY <2>2, <2>3, <3>2 DEF Busy
      <4>5. dagRec' # DagIdle BY <4>4 DEF DagIdle
      <4>6. InWork(e) => InWork(e)' BY <2>1, <4>1, <4>3, <4>4 DEF InWork
      <4> QED BY <1>0, <2>1, <2>3, <3>2, <4>1, <4>3, <4>4, <4>5, <4>6, WorkStep
    <3> QED BY <2>3, <2>9, <3>1, <3>2 DEF HandleDagDeletion
  <2>10. CASE UnfinaliseRefs
    <3>1. /\ dagRec.pc = "unfinalise" /\ UNCHANGED <<db, phases, dagQueue>> /\ dagRec' = DagIdle
          BY <2>10 DEF UnfinaliseRefs
    <3>2. InWork(e) => Settled(e)' BY <2>1, <2>2, <3>1 DEF InWork, Settled
    <3> QED BY <1>0, <2>1, <2>3, <3>1, <3>2, WorkStep
  <2>11. CASE MarkDag
    <3>1. db' = db /\ dagRec.pc \in {"Failed", "Successful"} BY <2>11 DEF MarkDag
    <3>2. CASE DagAgain /\ UNCHANGED <<dagStatus, phases>> BY <2>1, <3>1, <3>2, AgainStep
    <3>3. CASE /\ dagObj[e] # NoSpec /\ PatchPhase(e, dagRec.pc) /\ dagRec' = DagIdle
               /\ dagQueue' = dagQueue
      <4>1. \A d \in Dag \ {e} : phases'[d] = phases[d] BY <1>0, <3>3 DEF PatchPhase, ObjType
      <4>2. dagRec.phase \in phases[e] => dagRec.pc \in phases'[e]
            BY <1>0, <3>3 DEF PatchPhase, ObjType
      <4>3. InWork(e) => Settled(e)' BY <2>1, <3>1, <3>3, <4>2 DEF InWork, Settled
      <4> QED BY <1>0, <2>1, <2>3, <3>1, <3>3, <4>1, <4>3, WorkStep
    <3> QED BY <2>3, <2>11, <3>2, <3>3 DEF MarkDag
  <2> QED BY <1>6, <2>6, <2>7, <2>8, <2>9, <2>10, <2>11
<1>7. CASE ProcessDags
  <2>1. UNCHANGED dagPart BY <1>7 DEF ProcessDags, dagPart
  <2>2. PICK g : /\ Updates(g, db.dags) /\ db'.dags = {g[r] : r \in db.dags}
                 /\ \A r \in db.dags : g[r].body = r.body /\ g[r].suspended = r.suspended
        BY <1>7, TickFacts
  <2>3. ASSUME NEW d \in Dag, NEW spec
        PROVE  /\ Holds(db.dags, d, spec) => Holds(db'.dags, d, spec)
               /\ None(db.dags, d) => None(db'.dags, d)
    <3>1. \A r \in Of(db.dags, d) : g[r].body = r.body /\ g[r].suspended = r.suspended
          BY <2>2 DEF Of
    <3>2. /\ Holds(db.dags, d, spec) => Holds({g[r] : r \in db.dags}, d, spec)
          /\ None(db.dags, d) => None({g[r] : r \in db.dags}, d)
      <4>1. db.dags \in SUBSET DagRow /\ Updates(g, db.dags) BY <1>0, <2>2
      <4> QED BY ONLY <3>1, <4>1, UpdateKeepsHolds
    <3> QED BY <2>2, <3>2
  <2> QED BY <1>1, <2>1, <2>3
<1>8. CASE StoreTask
  <2>1. UNCHANGED dagPart BY <1>8 DEF StoreTask, dagPart
  <2>2. db'.dags = db.dags BY <1>0, <1>8, AddTaskFacts, DeleteTaskFacts DEF StoreTask
  <2> QED BY <1>2, <2>1, <2>2
<1>9. CASE RunStep
  <2>1. UNCHANGED dagPart /\ db'.dags = db.dags BY <1>9, RunFrame DEF Quiet, dagPart
  <2> QED BY <1>2, <2>1
<1>10. \/ \E t \in DagTask : ApplyTask(t) \/ DeleteTaskObject(t) \/ TaskReconcile(t)
       \/ ScheduleDagRun \/ UNCHANGED vars
       => UNCHANGED <<dagPart, db>>
       BY DEF ApplyTask, DeleteTaskObject, TaskReconcile, ScheduleDagRun, all, dagPart
<1>11. CASE Crash
  <2>1. /\ UNCHANGED <<dagObj, phases, db>> /\ dagRec' = DagIdle
        /\ dagQueue' = {d \in Dag : dagObj[d] # NoSpec}
        /\ unnoticed' = unnoticed \cup
              {d \in Dag : /\ dagObj[d] = NoSpec
                           /\ d \in dagQueue \/ (dagRec.pc # "idle" /\ dagRec.dag = d)}
        BY <1>11 DEF Crash
  <2>2. dagRec # DagIdle => dagRec.pc # "idle" BY <1>0 DEF RecOK, Busy
  <2>3. ASSUME NEW d \in Dag, dagObj[d] = NoSpec PROVE Settled(d)'
    <3>1. d \in dagQueue \/ (dagRec # DagIdle /\ dagRec.dag = d) \/ Settled(d)
          BY DEF SyncInv
    <3> QED BY <2>1, <2>2, <2>3, <3>1 DEF Settled
  <2> QED BY <2>1, <2>3 DEF SyncInv
<1>12. CASE Start
  <2>1. UNCHANGED <<dagObj, phases, dagQueue, dagRec, unnoticed, db>> /\ up' BY <1>12 DEF Start
  <2>2. \A d \in Dag : (InWork(d) => InWork(d)') /\ (Settled(d) => Settled(d)')
        BY <2>1 DEF InWork, Settled
  <2> QED BY <2>1, <2>2 DEF SyncInv
<1> QED BY <1>2, <1>3, <1>4, <1>6, <1>7, <1>8, <1>9, <1>10, <1>11, <1>12, Steps DEF UserStep

\* However edits, deletions, reconciliations, failing calls and restarts interleave, a DAG that
\* the reconciler is done with is in the tables as the object says, or has been "Failed" with
\* this spec; only a deletion that fell to a controller that was down leaves rows behind.
THEOREM ReconciledIsStored == Spec => []StoredOrFailed
<1>1. Init => SyncInv BY DEF Init, SyncInv, Settled, None, Of
<1>2. SyncInv => StoredOrFailed
  <2> SUFFICES ASSUME SyncInv, dagRec = DagIdle, NEW d \in Dag, d \notin dagQueue
               PROVE  IF dagObj[d] = NoSpec THEN d \in unnoticed \/ GetDag(db, d) = {}
                      ELSE "Failed" \in phases[d] \/ IsStored(d)
      BY DEF StoredOrFailed, AtRest
  <2>1. Settled(d) BY DEF SyncInv
  <2>2. GetDag(db, d) = Highest(Of(db.dags, d)) BY DEF GetDag, Of
  <2> QED BY <2>1, <2>2 DEF Settled, None, Holds, Highest, IsStored
<1> QED BY <1>1, <1>2, CInit, CNext, SyncStep, PTL DEF Spec

-----------------------------------------------------------------------------
(* The first rows of a run.                                                *)

\* No two DAGs have one name: the managers look versions up by name alone.
DistinctNames == \A d, e \in Dag : NameOf[d] = NameOf[e] => d = e

\* A run is of a version that is stored, under one name; a task of it has one row.
RunsOK(t) == /\ \A r \in t.runs : \E x \in t.dags : x.id = r.dag /\ NameOf[x.dag] = r.obj.name
             /\ \A r, s \in t.runs : r.obj = s.obj => r = s
             /\ \A x \in t.taskRuns : x = [run |-> x.run, task |-> x.task, copy |-> 0]

SameVersion(r, s) == r.id = s.id /\ r.dag = s.dag /\ r.version = s.version

\* What the operations on definitions may do to the runs and to what they would start:
\* nothing old gets another version, another task or comes back.
Ages(a, b) ==
    /\ \A r \in b.dags : r.id >= a.next \/ \E s \in a.dags : SameVersion(r, s)
    /\ \A r \in b.dags, s \in a.dags :
          NameOf[s.dag] = NameOf[r.dag] => \E u \in b.dags : SameVersion(u, s)
    /\ \A x \in b.dagTasks : x \in a.dagTasks \/ x.dag >= a.next
    /\ \A x \in b.tasks : x.id >= a.next \/ \E y \in a.tasks : y.id = x.id
    /\ b.runs \subseteq a.runs
    /\ \A r \in b.runs, s \in a.dags : s.id = r.dag => \E u \in b.dags : SameVersion(u, s)
    /\ b.taskRuns \subseteq a.taskRuns
    /\ \A x \in a.taskRuns : \/ x \in b.taskRuns
                             \/ FindRun(b, x.run) = {}
                             \/ ~\E y \in b.dagTasks : IsTask(y, x.task)

LEMMA AgedRuns ==
    ASSUME NEW a, NEW b, IsTables(a), IsTables(b), Fresh(a), RunsOK(a), Ages(a, b)
    PROVE  RunsOK(b)
<1>1. ASSUME NEW r \in b.runs PROVE \E x \in b.dags : x.id = r.dag /\ NameOf[x.dag] = r.obj.name
  <2>1. PICK s \in a.dags : s.id = r.dag /\ NameOf[s.dag] = r.obj.name
        BY DEF Ages, RunsOK
  <2>2. PICK u \in b.dags : SameVersion(u, s) BY <2>1 DEF Ages
  <2> QED BY <2>1, <2>2 DEF SameVersion
<1>2. \A r, s \in b.runs : r.obj = s.obj => r = s BY DEF Ages, RunsOK
<1>3. \A x \in b.taskRuns : x = [run |-> x.run, task |-> x.task, copy |-> 0]
      BY DEF Ages, RunsOK
<1> QED BY <1>1, <1>2, <1>3 DEF RunsOK

\* A run has nothing new to start, and keeps the rows of what it would start.
LEMMA AgedStarts ==
    ASSUME NEW a, NEW b, IsTables(a), IsTables(b), Fresh(a), RunsOK(a), Ages(a, b), NEW q,
           NEW task \in GetStartingTasks(b, q)
    PROVE  /\ task \in GetStartingTasks(a, q)
           /\ TaskRunExists(a, q, task) => TaskRunExists(b, q, task)
<1>0. a.next \in Nat /\ a.dags \in SUBSET DagRow /\ b.dags \in SUBSET DagRow BY DEF IsTables
<1>1. PICK x \in TasksOfRun(b, q) :
        /\ task = [dag |-> x.dag, pos |-> x.pos]
        /\ \E r \in dagNameToDagId(b, q.name) : r.id = x.dag
      BY DEF GetStartingTasks
<1>2. x \in b.dagTasks BY DEF TasksOfRun
<1>3. PICK run \in b.runs : run.obj = q /\ run.dag = x.dag BY DEF TasksOfRun, FindRun
<1>4. PICK t \in b.tasks : t.id = x.task BY DEF TasksOfRun
<1>5. PICK r \in b.dags : /\ NameOf[r.dag] = q.name /\ r.id = x.dag
                          /\ \A s \in b.dags : NameOf[s.dag] = q.name => s.version <= r.version
      BY <1>1 DEF dagNameToDagId, Highest
<1>6. run \in a.runs BY <1>3 DEF Ages
<1>7. x.dag \in Nat /\ x.dag < a.next
  <2>1. PICK s \in a.dags : s.id = run.dag BY <1>6 DEF RunsOK
  <2> QED BY <1>0, <1>3, <2>1 DEF Fresh, DagRow
<1>8. x \in a.dagTasks /\ x.task \in Nat /\ x.task < a.next
  <2>1. x \in a.dagTasks \/ x.dag >= a.next BY <1>2 DEF Ages
  <2>2. x \in a.dagTasks BY <1>0, <1>7, <2>1
  <2> QED BY <2>2 DEF Fresh
<1>9. \E y \in a.tasks : y.id = x.task
  <2>1. t.id >= a.next \/ \E y \in a.tasks : y.id = t.id BY <1>4 DEF Ages
  <2> QED BY <1>0, <1>4, <1>8, <2>1
<1>10. x \in TasksOfRun(a, q) BY <1>3, <1>6, <1>8, <1>9 DEF TasksOfRun, FindRun
<1>11. PICK s \in a.dags : SameVersion(r, s)
  <2>1. r.id >= a.next \/ \E s \in a.dags : SameVersion(r, s) BY <1>5 DEF Ages
  <2> QED BY <1>0, <1>5, <1>7, <2>1
<1>12. s \in dagNameToDagId(a, q.name)
  <2>1. NameOf[s.dag] = q.name BY <1>5, <1>11 DEF SameVersion
  <2>2. ASSUME NEW v \in a.dags, NameOf[v.dag] = q.name PROVE v.version <= s.version
    <3>1. PICK u \in b.dags : SameVersion(u, v) BY <1>5, <2>2 DEF Ages
    <3>2. u.version <= r.version BY <1>5, <2>2, <3>1 DEF SameVersion
    <3> QED BY <1>11, <3>1, <3>2 DEF SameVersion
  <2> QED BY <2>1, <2>2 DEF dagNameToDagId, Highest
<1>13. s.id = x.dag BY <1>5, <1>11 DEF SameVersion
<1>14. task \in GetStartingTasks(a, q) BY <1>1, <1>10, <1>12, <1>13 DEF GetStartingTasks
<1>15. ASSUME TaskRunExists(a, q, task) PROVE TaskRunExists(b, q, task)
  <2>1. PICK y \in a.taskRuns : y.run = q /\ y.task = task BY <1>15 DEF TaskRunExists
  <2>2. FindRun(b, y.run) # {} BY <1>3, <2>1 DEF FindRun
  <2>3. IsTask(x, y.task)
    <3>1. task.dag = x.dag /\ task.pos = x.pos BY <1>1
    <3> QED BY <2>1, <3>1 DEF IsTask
  <2>4. y \in b.taskRuns BY <1>2, <2>1, <2>2, <2>3 DEF Ages
  <2> QED BY <2>1, <2>4 DEF TaskRunExists
<1> QED BY <1>14, <1>15

\* Versions that are added or updated, and none removed.
Renews(a, b) == /\ \A r \in b.dags : r.id >= a.next \/ \E s \in a.dags : SameVersion(r, s)
                /\ \A s \in a.dags : \E u \in b.dags : SameVersion(u, s)
                /\ b.runs = a.runs /\ b.taskRuns = a.taskRuns

LEMMA RenewAges ==
    ASSUME NEW a, NEW b, Renews(a, b),
           \A x \in b.dagTasks : x \in a.dagTasks \/ x.dag >= a.next,
           \A x \in b.tasks : x.id >= a.next \/ \E y \in a.tasks : y.id = x.id
    PROVE  Ages(a, b)
BY DEF Renews, Ages

LEMMA CascadeRuns ==
    ASSUME NEW t, IsTables(t)
    PROVE  LET new == Cascade(t)
           IN  /\ new.runs = {r \in t.runs : \E x \in t.dags : x.id = r.dag}
               /\ new.taskRuns \subseteq t.taskRuns
               /\ \A x \in t.taskRuns : \/ x \in new.taskRuns
                                        \/ FindRun(new, x.run) = {}
                                        \/ ~\E y \in new.dagTasks : IsTask(y, x.task)
<1> DEFINE x == {u \in t.dagTasks : /\ \E r \in t.dags : r.id = u.dag
                                     /\ \E v \in t.tasks : v.id = u.task}
           y == {r \in t.runs : \E u \in t.dags : u.id = r.dag}
           z == {u \in t.taskRuns : /\ \E r \in y : r.obj = u.run
                                    /\ \E v \in x : IsTask(v, u.task)}
<1>1. Cascade(t) = [t EXCEPT !.dagTasks = x, !.runs = y, !.taskRuns = z] BY DEF Cascade
<1>2. /\ z \subseteq t.taskRuns
      /\ \A u \in t.taskRuns : u \in z \/ ~(\E r \in y : r.obj = u.run)
                                       \/ ~(\E v \in x : IsTask(v, u.task))
      OBVIOUS
<1>3. y = {r \in t.runs : \E u \in t.dags : u.id = r.dag} OBVIOUS
<1> HIDE DEF x, y, z
<1>4. Cascade(t).dagTasks = x /\ Cascade(t).runs = y /\ Cascade(t).taskRuns = z
      BY <1>1 DEF IsTables
<1> QED BY <1>2, <1>3, <1>4 DEF FindRun

\* A deleted DAG takes its runs with it.  This is where two DAGs of one name would matter:
\* the versions of the other would be the newest again.
LEMMA DeleteDAGAges ==
    ASSUME NEW t, IsTables(t), RowsOK(t.dags), RunsOK(t), NEW d, DistinctNames
    PROVE  Ages(t, DeleteDAG(t, d))
<1> DEFINE new == DeleteDAG(t, d)
           ids == {r.id : r \in {r \in t.dags : r.dag = d}}
<1>0. t.dags \in SUBSET DagRow BY DEF IsTables
<1>1. /\ IsTables(new) /\ new.dags = t.dags \ Of(t.dags, d) /\ new.tasks \subseteq t.tasks
      /\ new.dagTasks \subseteq t.dagTasks
      BY DeleteDAGFacts
<1>2. /\ new.runs \subseteq {r \in t.runs : r.dag \notin ids}
      /\ new.taskRuns \subseteq t.taskRuns
      /\ \A x \in t.taskRuns : \/ x \in new.taskRuns
                               \/ FindRun(new, x.run) = {}
                               \/ ~\E y \in new.dagTasks : IsTask(y, x.task)
  <2>1. CASE backend = "postgres"
    <3> DEFINE less == [t EXCEPT !.dags = {r \in t.dags : r.dag # d},
                                 !.tasks = t.tasks \ InlineTasks(t, d)]
    <3>0. {r \in t.dags : r.dag # d} \in SUBSET DagRow BY <1>0
    <3>1. /\ IsTables(less) /\ less.dags = {r \in t.dags : r.dag # d}
          /\ less.runs = t.runs /\ less.taskRuns = t.taskRuns
          BY <3>0 DEF IsTables
    <3>2. new = Cascade(less) BY <2>1 DEF DeleteDAG, DeleteDAGPostgres
    <3> HIDE DEF less, new
    <3>3. /\ new.runs = {r \in t.runs : \E x \in less.dags : x.id = r.dag}
          /\ new.taskRuns \subseteq t.taskRuns
          /\ \A x \in t.taskRuns : \/ x \in new.taskRuns
                                   \/ FindRun(new, x.run) = {}
                                   \/ ~\E y \in new.dagTasks : IsTask(y, x.task)
          BY <3>1, <3>2, CascadeRuns
    <3>4. ASSUME NEW x \in less.dags PROVE x.id \notin ids
      <4> SUFFICES ASSUME NEW r \in t.dags, r.dag = d, x.id = r.id PROVE FALSE OBVIOUS
      <4>1. x \in t.dags /\ x.dag # d BY <3>1
      <4> QED BY <4>1 DEF RowsOK, UniqueIds
    <3> QED BY <3>3, <3>4
  <2>2. CASE backend # "postgres"
    <3> DEFINE a == {x \in t.dagTasks : x.dag \notin ids}
               b == {r \in t.runs : r.dag \notin ids}
               c == {x \in t.taskRuns : \A r \in t.runs : r.obj = x.run => r.dag \notin ids}
    <3>1. new = [t EXCEPT !.dags = {r \in t.dags : r.dag # d},
                          !.tasks = t.tasks \ InlineTasks(t, d),
                          !.dagTasks = a, !.runs = b, !.taskRuns = c]
          BY <2>2 DEF DeleteDAG, DeleteDAGSqlite
    <3> HIDE DEF a, b, c, new
    <3>2. new.runs = b /\ new.taskRuns = c BY <3>1 DEF IsTables
    <3>3. ASSUME NEW x \in t.taskRuns, x \notin c PROVE FindRun(new, x.run) = {}
      <4>1. PICK r \in t.runs : r.obj = x.run /\ r.dag \in ids BY <3>3 DEF c
      <4>2. \A s \in b : s \in t.runs /\ s.dag \notin ids BY DEF b
      <4>3. \A s \in b : s.obj # x.run BY <4>1, <4>2 DEF RunsOK
      <4> QED BY <3>2, <4>3 DEF FindRun
    <3>4. b = {r \in t.runs : r.dag \notin ids} /\ c \subseteq t.taskRuns BY DEF b, c
    <3> QED BY <3>2, <3>3, <3>4
  <2> QED BY <2>1, <2>2
<1> HIDE DEF new
<1>3. \A r \in new.dags : r \in t.dags /\ r.dag # d BY <1>1 DEF Of
<1>4. \A r \in new.dags, s \in t.dags :
         NameOf[s.dag] = NameOf[r.dag] => \E u \in new.dags : SameVersion(u, s)
  <2> SUFFICES ASSUME NEW r \in new.dags, NEW s \in t.dags, NameOf[s.dag] = NameOf[r.dag]
               PROVE  \E u \in new.dags : SameVersion(u, s)
      OBVIOUS
  <2>1. r.dag \in Dag /\ s.dag \in Dag BY <1>0, <1>3 DEF DagRow
  <2>2. s.dag = r.dag BY <2>1 DEF DistinctNames
  <2>3. s \in new.dags BY <1>1, <1>3, <2>2 DEF Of
  <2> QED BY <2>3 DEF SameVersion
<1>5. \A r \in new.runs, s \in t.dags : s.id = r.dag => \E u \in new.dags : SameVersion(u, s)
  <2> SUFFICES ASSUME NEW r \in new.runs, NEW s \in t.dags, s.id = r.dag
               PROVE  \E u \in new.dags : SameVersion(u, s)
      OBVIOUS
  <2>1. s.dag # d BY <1>2
  <2>2. s \in new.dags BY <1>1, <2>1 DEF Of
  <2> QED BY <2>2 DEF SameVersion
<1>6. \A r \in new.dags : \E s \in t.dags : SameVersion(r, s) BY <1>3 DEF SameVersion
<1>7. Ages(t, new) BY <1>1, <1>2, <1>4, <1>5, <1>6 DEF Ages
<1> QED BY <1>7 DEF new

LEMMA DeleteTaskAges ==
    ASSUME NEW t, IsTables(t), RunsOK(t), NEW name
    PROVE  Ages(t, DeleteTask(t, name))
<1> DEFINE less == DeleteTaskSqlite(t, name)
           new == DeleteTask(t, name)
<1>1. /\ IsTables(less) /\ less.dags = t.dags /\ less.tasks \subseteq t.tasks
      /\ less.dagTasks = t.dagTasks /\ less.runs = t.runs /\ less.taskRuns = t.taskRuns
      BY DEF IsTables, DeleteTaskSqlite
<1>2. new \in {less, Cascade(less)} BY DEF DeleteTask, DeleteTaskPostgres
<1>3. /\ IsTables(new) /\ new.dags = t.dags /\ new.tasks \subseteq t.tasks
      /\ new.dagTasks \subseteq t.dagTasks
      BY DeleteTaskFacts
<1> HIDE DEF less, new
<1>4. /\ new.runs \subseteq t.runs /\ new.taskRuns \subseteq t.taskRuns
      /\ \A x \in t.taskRuns : \/ x \in new.taskRuns
                               \/ FindRun(new, x.run) = {}
                               \/ ~\E y \in new.dagTasks : IsTask(y, x.task)
  <2>1. CASE new = less BY <1>1, <2>1
  <2>2. CASE new = Cascade(less)
    <3>1. new.runs \subseteq t.runs BY <1>1, <2>2, CascadeRuns
    <3> QED BY <1>1, <2>2, <3>1, CascadeRuns
  <2> QED BY <1>2, <2>1, <2>2
<1>5. \A s \in t.dags : SameVersion(s, s) BY DEF SameVersion
<1>6. Ages(t, new) BY <1>3, <1>4, <1>5 DEF Ages
<1> QED BY <1>6 DEF new

LEMMA AddTaskAges ==
    ASSUME NEW t, IsTables(t), NEW name, NEW body
    PROVE  Ages(t, AddTask(t, name, body))
<1> DEFINE new == AddTask(t, name, body)
<1>0. \A s \in t.dags : SameVersion(s, s) BY DEF SameVersion
<1>1. CASE new = t
  <2>1. Renews(t, new) BY <1>0, <1>1 DEF Renews
  <2> HIDE DEF new
  <2>2. Ages(t, new) BY <1>1, <2>1, RenewAges
  <2> QED BY <2>2 DEF new
<1>2. CASE new # t
  <2>1. PICK version :
        new = [t EXCEPT !.tasks = t.tasks \cup {[id |-> t.next, name |-> name,
                                                 version |-> version, body |-> body]},
                        !.next = t.next + 1]
        BY <1>2 DEF AddTask
  <2>2. PICK row : row = [id |-> t.next, name |-> name, version |-> version, body |-> body] OBVIOUS
  <2>3. row.id >= t.next BY <2>2 DEF IsTables
  <2>4. new = [t EXCEPT !.tasks = t.tasks \cup {row}, !.next = t.next + 1] BY <2>1, <2>2
  <2> HIDE DEF new
  <2>5. /\ new.dags = t.dags /\ new.runs = t.runs /\ new.taskRuns = t.taskRuns
        /\ new.dagTasks = t.dagTasks /\ new.tasks = t.tasks \cup {row}
        BY <2>4 DEF IsTables
  <2>6. Renews(t, new) BY <1>0, <2>5 DEF Renews
  <2>7. Ages(t, new) BY <2>3, <2>5, <2>6, RenewAges
  <2> QED BY <2>7 DEF new
<1> QED BY <1>1, <1>2

LEMMA InsertDAGAges ==
    ASSUME NEW t, IsTables(t), RowsOK(t.dags), NEW d \in Dag, NEW spec \in DAGSpec
    PROVE  Ages(t, InsertDAG(t, d, spec))
<1> DEFINE out == InsertDAG(t, d, spec)
           version == NextVersion(t, d)
           row == NewDag(t.next, d, spec, version)
           added == insertDAG(t, d, spec, version)
<1>0. t.dags \in SUBSET DagRow /\ t.next \in Nat BY DEF IsTables
<1>1. \A s : SameVersion(s, s) BY DEF SameVersion
<1>2. CASE \E r \in GetDag(t, d) : r.body = spec.body
  <2> DEFINE on(r) == IF r.dag = d THEN [r EXCEPT !.suspended = spec.suspended] ELSE r
             after == {on(r) : r \in t.dags}
  <2>1. \A r \in t.dags : SameVersion(on(r), r) BY <1>0 DEF SameVersion, DagRow
  <2>2. out = [t EXCEPT !.dags = after] BY <1>2 DEF InsertDAG, setSuspended
  <2> HIDE DEF on
  <2>3. /\ \A r \in after : \E s \in t.dags : SameVersion(r, s)
        /\ \A s \in t.dags : \E u \in after : SameVersion(u, s)
        BY <2>1
  <2> HIDE DEF after, out
  <2>4. /\ out.dags = after /\ out.runs = t.runs /\ out.taskRuns = t.taskRuns
        /\ out.dagTasks = t.dagTasks /\ out.tasks = t.tasks
        BY <2>2 DEF IsTables
  <2>5. Renews(t, out) BY <2>3, <2>4 DEF Renews
  <2>6. Ages(t, out) BY <2>4, <2>5, RenewAges
  <2> QED BY <2>6 DEF out
<1>3. CASE ~\E r \in GetDag(t, d) : r.body = spec.body
  <2>1. row.id = t.next BY DEF NewDag
  <2>2. PICK uses, tasks :
          /\ added = [t EXCEPT !.dags = t.dags \cup {row}, !.tasks = tasks, !.dagTasks = uses,
                               !.next = t.next + 2]
          /\ \A x \in uses : x \in t.dagTasks \/ x.dag = t.next
          /\ \A x \in tasks : x \in t.tasks \/ x.id = t.next + 1
    <3> DEFINE more == [t EXCEPT !.dags = t.dags \cup {row}]
               refs == {[dag |-> t.next, pos |-> i,
                         task |-> (CHOOSE x \in RefRows(more, Refs[spec.body][i]) : TRUE).id]
                            : i \in DOMAIN Refs[spec.body]}
               own == [dag |-> t.next, pos |-> 0, task |-> t.next + 1]
               tasks == t.tasks \cup {InlineTask(t.next + 1)}
               uses == t.dagTasks \cup {own} \cup refs
    <3>1. added = insertTasks(more, t.next, spec.body) BY DEF insertDAG
    <3>2. /\ more.tasks = t.tasks /\ more.dagTasks = t.dagTasks /\ more.next = t.next
          BY DEF IsTables
    <3>3. insertTasks(more, t.next, spec.body) =
            [more EXCEPT !.tasks = more.tasks \cup {InlineTask(t.next + 1)},
                         !.dagTasks = more.dagTasks \cup {own} \cup refs,
                         !.next = more.next + 2]
          BY DEF insertTasks
    <3>4. added = [more EXCEPT !.tasks = tasks, !.dagTasks = uses, !.next = t.next + 2]
      <4> HIDE DEF more, refs, own
      <4> QED BY <3>1, <3>2, <3>3
    <3>5. \A x \in refs : x.dag = t.next OBVIOUS
    <3>6. own.dag = t.next OBVIOUS
    <3>7. InlineTask(t.next + 1).id = t.next + 1 BY DEF InlineTask
    <3>8. \A x \in uses : x \in t.dagTasks \/ x.dag = t.next
      <4> HIDE DEF refs, own
      <4> QED BY <3>5, <3>6
    <3>9. \A x \in tasks : x \in t.tasks \/ x.id = t.next + 1 BY <3>7
    <3> HIDE DEF uses, tasks
    <3>10. added = [t EXCEPT !.dags = t.dags \cup {row}, !.tasks = tasks, !.dagTasks = uses,
                             !.next = t.next + 2]
      <4> HIDE DEF row, added
      <4> QED BY <3>4 DEF IsTables
    <3> QED BY <3>8, <3>9, <3>10
  <2> HIDE DEF row, added
  <2>3. /\ added.dags = t.dags \cup {row} /\ added.runs = t.runs /\ added.taskRuns = t.taskRuns
        /\ added.dagTasks = uses /\ added.tasks = tasks
        BY <2>2 DEF IsTables
  <2>4. ASSUME NEW rows,
               /\ \A r \in rows : r.id = t.next \/ \E s \in t.dags : SameVersion(r, s)
               /\ \A s \in t.dags : \E u \in rows : SameVersion(u, s),
               out.dags = rows, out.runs = t.runs, out.taskRuns = t.taskRuns,
               out.dagTasks = uses, out.tasks = tasks
        PROVE  Ages(t, out)
    <3>1. t.next >= t.next /\ t.next + 1 >= t.next BY <1>0
    <3> HIDE DEF out
    <3>2. Renews(t, out) BY <2>4, <3>1 DEF Renews
    <3>3. \A x \in out.dagTasks : x \in t.dagTasks \/ x.dag >= t.next BY <2>2, <2>4, <3>1
    <3>4. \A x \in out.tasks : x.id >= t.next \/ \E y \in t.tasks : y.id = x.id
          BY <2>2, <2>4, <3>1
    <3> QED BY <3>2, <3>3, <3>4, RenewAges
  <2>5. CASE version = 0
    <3>1. out = added BY <1>3, <2>5 DEF InsertDAG, added
    <3>2. /\ \A r \in added.dags : r.id = t.next \/ \E s \in t.dags : SameVersion(r, s)
          /\ \A s \in t.dags : \E u \in added.dags : SameVersion(u, s)
          BY <1>1, <2>1, <2>3
    <3> HIDE DEF out
    <3>3. Ages(t, out) BY <2>3, <2>4, <3>1, <3>2
    <3> QED BY <3>3 DEF out
  <2>6. CASE version # 0
    <3> DEFINE off(r) == IF r.dag = d /\ r.version = version - 1
                         THEN [r EXCEPT !.active = FALSE] ELSE r
               rows == {off(r) : r \in t.dags \cup {row}}
    <3>1. out = [added EXCEPT !.dags = rows]
      <4>1. out = [added EXCEPT !.dags = setInactive(added.dags, d, version - 1)]
            BY <1>3, <2>6 DEF InsertDAG, added
      <4>2. setInactive(t.dags \cup {row}, d, version - 1) = rows BY DEF setInactive
      <4> HIDE DEF rows, out
      <4> QED BY <2>3, <4>1, <4>2
    <3>2. /\ \A r \in t.dags : SameVersion(off(r), r)
          /\ off(row).id = t.next
      <4>1. \A r \in t.dags : SameVersion(off(r), r) BY <1>0 DEF SameVersion, DagRow
      <4>2. off(row).id = t.next BY <2>1 DEF row, NewDag
      <4> QED BY <4>1, <4>2
    <3> HIDE DEF off
    <3>3. /\ \A r \in rows : r.id = t.next \/ \E s \in t.dags : SameVersion(r, s)
          /\ \A s \in t.dags : \E u \in rows : SameVersion(u, s)
          BY <3>2
    <3> HIDE DEF rows, out
    <3>4. /\ out.dags = rows /\ out.runs = t.runs /\ out.taskRuns = t.taskRuns
          /\ out.dagTasks = uses /\ out.tasks = tasks
          BY <2>2, <3>1 DEF IsTables
    <3>5. Ages(t, out) BY <2>4, <3>3, <3>4
    <3> QED BY <3>5 DEF out
  <2> QED BY <2>5, <2>6
<1> QED BY <1>2, <1>3

LEMMA TickAges ==
    ASSUME CInv, ProcessDags
    PROVE  Ages(db, db')
<1>1. PICK g : /\ Updates(g, db.dags) /\ db'.dags = {g[r] : r \in db.dags}
               /\ db'.tasks = db.tasks /\ db'.dagTasks = db.dagTasks
      BY TickFacts
<1>2. IsTables(db) BY DEF CInv, DbOK
<1>3. PICK rows : db' = [db EXCEPT !.dags = rows] BY DEF ProcessDags
<1>4. db'.runs = db.runs /\ db'.taskRuns = db.taskRuns BY <1>2, <1>3 DEF IsTables
<1>5. \A r \in db.dags : SameVersion(g[r], r) BY <1>1 DEF Updates, SameVersion
<1>6. /\ \A r \in db'.dags : \E s \in db.dags : SameVersion(r, s)
      /\ \A s \in db.dags : \E u \in db'.dags : SameVersion(u, s)
      BY <1>1, <1>5
<1>7. PICK b : b = db' OBVIOUS
<1>8. Renews(db, b) BY <1>4, <1>6, <1>7 DEF Renews
<1>9. Ages(db, b) BY <1>1, <1>7, <1>8, RenewAges
<1> QED BY <1>7, <1>9

\* The DagRun reconciler: what it works on is queued, and what it has still to do.
RunRecOK == \/ runRec = RunIdle
            \/ /\ runRec = [pc |-> runRec.pc, obj |-> runRec.obj, todo |-> runRec.todo]
               /\ runRec.pc \in {"create", "start", "rows"} /\ runRec.obj \in runQueue

\* A run that is off the queue has the rows of what it would start; one in the loop has
\* them but for what is still to do.
StartInv ==
    /\ RunsOK(db) /\ RunRecOK
    /\ \A q \in dagRuns \ runQueue : \A task \in GetStartingTasks(db, q) :
          TaskRunExists(db, q, task)
    /\ runRec.pc = "rows" => \A task \in GetStartingTasks(db, runRec.obj) :
          task \in runRec.todo \/ TaskRunExists(db, runRec.obj, task)

LEMMA StartAged ==
    ASSUME CInv, CInv', StartInv, Ages(db, db'), UNCHANGED <<dagRuns, runQueue, runRec>>
    PROVE  StartInv'
<1>1. IsTables(db) /\ Fresh(db) /\ RunsOK(db) /\ IsTables(db') BY DEF CInv, DbOK, StartInv
<1>2. PICK b : b = db' OBVIOUS
<1>3. RunsOK(b) BY <1>1, <1>2, AgedRuns
<1>4. ASSUME NEW q, NEW task \in GetStartingTasks(b, q)
      PROVE  /\ task \in GetStartingTasks(db, q)
             /\ TaskRunExists(db, q, task) => TaskRunExists(b, q, task)
      BY <1>1, <1>2, AgedStarts
<1>5. RunRecOK' BY DEF StartInv, RunRecOK
<1>6. \A q \in dagRuns \ runQueue : \A task \in GetStartingTasks(b, q) :
         TaskRunExists(b, q, task)
      BY <1>4 DEF StartInv
<1>7. runRec.pc = "rows" => \A task \in GetStartingTasks(b, runRec.obj) :
         task \in runRec.todo \/ TaskRunExists(b, runRec.obj, task)
      BY <1>4 DEF StartInv
<1> QED BY <1>2, <1>3, <1>5, <1>6, <1>7 DEF StartInv

\* The run's own row: no other run gets anything to start.
LEMMA InsertKeepsStarts ==
    ASSUME CInv, StartInv, InsertRun
    PROVE  StartInv'
<1> USE Groups
<1>1. /\ runRec.pc = "create" /\ UNCHANGED <<dagRuns, runQueue>> BY DEF InsertRun
<1>2. /\ runRec = [pc |-> runRec.pc, obj |-> runRec.obj, todo |-> runRec.todo]
      /\ runRec.obj \in runQueue
      BY <1>1 DEF StartInv, RunRecOK, RunIdle
<1>3. IsTables(db) BY DEF CInv, DbOK
<1>4. CASE dagNameToDagId(db, runRec.obj.name) = {}
  <2>1. runRec' = RunIdle /\ db' = db BY <1>4 DEF InsertRun
  <2>2. runRec'.pc # "rows" /\ RunRecOK' BY <2>1 DEF RunIdle, RunRecOK
  <2> QED BY <1>1, <2>1, <2>2 DEF StartInv
<1>5. CASE dagNameToDagId(db, runRec.obj.name) # {}
  <2>1. /\ db' = CreateDAGRun(db, runRec.obj)
        /\ runRec' = [runRec EXCEPT !.pc = "start"]
        BY <1>5 DEF InsertRun
  <2>2. runRec'.pc = "start" /\ RunRecOK'
    <3>1. PICK o, s, p : runRec = [pc |-> p, obj |-> o, todo |-> s] /\ o \in runQueue
          BY <1>2
    <3>2. runRec' = [pc |-> "start", obj |-> o, todo |-> s] BY <2>1, <3>1
    <3> QED BY <1>1, <3>1, <3>2 DEF RunRecOK
  <2>3. CASE db' = db BY <1>1, <2>2, <2>3 DEF StartInv
  <2>4. CASE db' # db
    <3>1. PICK newest : newest = CHOOSE r \in dagNameToDagId(db, runRec.obj.name) : TRUE OBVIOUS
    <3>2. newest \in dagNameToDagId(db, runRec.obj.name) BY <1>5, <3>1
    <3>3. newest \in db.dags /\ NameOf[newest.dag] = runRec.obj.name
          BY <3>2 DEF dagNameToDagId, Highest
    <3>4. PICK row : row = [obj |-> runRec.obj, dag |-> newest.id] OBVIOUS
    <3>5. row.obj = runRec.obj /\ row.dag = newest.id BY <3>4
    <3>6. /\ FindRun(db, runRec.obj) = {}
          /\ db' = [db EXCEPT !.runs = db.runs \cup {row}]
          BY <2>1, <2>4, <3>1, <3>4 DEF CreateDAGRun
    <3>7. /\ db'.runs = db.runs \cup {row} /\ db'.dags = db.dags /\ db'.tasks = db.tasks
          /\ db'.dagTasks = db.dagTasks /\ db'.taskRuns = db.taskRuns
          BY <1>3, <3>6 DEF IsTables
    <3>8. RunsOK(db')
      <4>1. \A r \in db.runs : r.obj # runRec.obj BY <3>6 DEF FindRun
      <4> QED BY <3>3, <3>5, <3>7, <4>1 DEF StartInv, RunsOK
    <3>9. ASSUME NEW q, q # runRec.obj
          PROVE  /\ GetStartingTasks(db', q) = GetStartingTasks(db, q)
                 /\ \A task : TaskRunExists(db', q, task) <=> TaskRunExists(db, q, task)
      <4>1. FindRun(db', q) = FindRun(db, q) BY <3>5, <3>7, <3>9 DEF FindRun
      <4>2. TasksOfRun(db', q) = TasksOfRun(db, q) BY <3>7, <4>1 DEF TasksOfRun
      <4>3. dagNameToDagId(db', q.name) = dagNameToDagId(db, q.name)
            BY <3>7 DEF dagNameToDagId
      <4> QED BY <3>7, <4>2, <4>3 DEF GetStartingTasks, TaskRunExists
    <3>10. \A q \in dagRuns \ runQueue : \A task \in GetStartingTasks(db', q) :
              TaskRunExists(db', q, task)
           BY <1>2, <3>9 DEF StartInv
    <3> QED BY <1>1, <2>2, <3>8, <3>10 DEF StartInv
  <2> QED BY <2>3, <2>4
<1> QED BY <1>4, <1>5

\* A row of Task_Runs: a second one is never inserted, a failed insertion is not missed.
LEMMA EnqueueKeepsStarts ==
    ASSUME CInv, StartInv, EnqueueTask
    PROVE  StartInv'
<1> USE Groups
<1>1. PICK task \in runRec.todo :
        /\ runRec' = [runRec EXCEPT !.todo = runRec.todo \ {task}]
        /\ IF TaskRunExists(db, runRec.obj, task) THEN UNCHANGED db
           ELSE db' = [db EXCEPT !.taskRuns = db.taskRuns \cup {[run |-> runRec.obj,
                        task |-> task, copy |-> Cardinality(TaskRuns(runRec.obj, task))]}]
      BY DEF EnqueueTask
<1>2. runRec.pc = "rows" /\ UNCHANGED <<dagRuns, runQueue>> BY DEF EnqueueTask
<1>3. PICK o, s : runRec = [pc |-> "rows", obj |-> o, todo |-> s] /\ o \in runQueue
      BY <1>2 DEF StartInv, RunRecOK, RunIdle
<1>4. runRec.obj = o /\ runRec.todo = s BY <1>3
<1>5. runRec' = [pc |-> "rows", obj |-> o, todo |-> s \ {task}] BY <1>1, <1>3, <1>4
<1>6. runRec'.pc = "rows" /\ runRec'.obj = o /\ runRec'.todo = s \ {task} /\ RunRecOK'
      BY <1>2, <1>3, <1>5 DEF RunRecOK
<1>7. /\ db'.runs = db.runs /\ db'.dags = db.dags /\ db'.tasks = db.tasks
      /\ db'.dagTasks = db.dagTasks
      /\ db.taskRuns \subseteq db'.taskRuns /\ TaskRunExists(db', o, task)
      /\ \A x \in db'.taskRuns : x \in db.taskRuns \/ x = [run |-> o, task |-> task, copy |-> 0]
  <2>1. CASE TaskRunExists(db, o, task)
    <3>1. db' = db BY <1>1, <1>4, <2>1
    <3> QED BY <2>1, <3>1
  <2>2. CASE ~TaskRunExists(db, o, task)
    <3>1. TaskRuns(o, task) = {} BY <2>2 DEF TaskRuns, TaskRunExists
    <3>2. Cardinality(TaskRuns(o, task)) = 0 BY <3>1, FS_EmptySet
    <3>3. PICK row : row = [run |-> o, task |-> task, copy |-> 0] OBVIOUS
    <3>4. db' = [db EXCEPT !.taskRuns = db.taskRuns \cup {row}]
          BY <1>1, <1>4, <2>2, <3>2, <3>3
    <3>5. row.run = o /\ row.task = task BY <3>3
    <3>6. /\ db'.runs = db.runs /\ db'.dags = db.dags /\ db'.tasks = db.tasks
          /\ db'.dagTasks = db.dagTasks /\ db'.taskRuns = db.taskRuns \cup {row}
          BY <3>4 DEF CInv, DbOK, IsTables
    <3> QED BY <3>3, <3>5, <3>6 DEF TaskRunExists
  <2> QED BY <2>1, <2>2
<1>8. ASSUME NEW q
      PROVE  /\ GetStartingTasks(db', q) = GetStartingTasks(db, q)
             /\ \A x : TaskRunExists(db, q, x) => TaskRunExists(db', q, x)
  <2>1. FindRun(db', q) = FindRun(db, q) BY <1>7 DEF FindRun
  <2>2. TasksOfRun(db', q) = TasksOfRun(db, q) BY <1>7, <2>1 DEF TasksOfRun
  <2>3. dagNameToDagId(db', q.name) = dagNameToDagId(db, q.name)
        BY <1>7 DEF dagNameToDagId
  <2>4. GetStartingTasks(db', q) = GetStartingTasks(db, q) BY <2>2, <2>3 DEF GetStartingTasks
  <2>5. ASSUME NEW x, TaskRunExists(db, q, x) PROVE TaskRunExists(db', q, x)
        BY <1>7, <2>5 DEF TaskRunExists
  <2> QED BY <2>4, <2>5
<1>9. RunsOK(db')
  <2>1. RunsOK(db) BY DEF StartInv
  <2>2. PICK row : row = [run |-> o, task |-> task, copy |-> 0] OBVIOUS
  <2>3. row = [run |-> row.run, task |-> row.task, copy |-> 0] BY <2>2
  <2>4. \A x \in db'.taskRuns : x \in db.taskRuns \/ x = row BY <1>7, <2>2
  <2>5. \A x \in db'.taskRuns : x = [run |-> x.run, task |-> x.task, copy |-> 0]
        BY <2>1, <2>3, <2>4 DEF RunsOK
  <2> QED BY <1>7, <2>1, <2>5 DEF RunsOK
<1>10. \A q \in dagRuns \ runQueue : \A x \in GetStartingTasks(db', q) :
          TaskRunExists(db', q, x)
       BY <1>8 DEF StartInv
<1>11. \A x \in GetStartingTasks(db', o) : x \in s \ {task} \/ TaskRunExists(db', o, x)
  <2> TAKE x \in GetStartingTasks(db', o)
  <2>1. CASE x = task BY <1>7, <2>1
  <2>2. CASE x # task
    <3>1. x \in s \/ TaskRunExists(db, o, x) BY <1>2, <1>4, <1>8 DEF StartInv
    <3> QED BY <1>8, <2>2, <3>1
  <2> QED BY <2>1, <2>2
<1> QED BY <1>2, <1>6, <1>9, <1>10, <1>11 DEF StartInv

LEMMA RunKeepsStarts ==
    ASSUME CInv, StartInv, RunStep
    PROVE  StartInv'
<1> USE Groups
<1>0. /\ dagRuns' = dagRuns
      BY RunFrame
<1>1. CASE RunReconcile
  <2>1. PICK q \in runQueue :
          /\ runRec.pc = "idle"
          /\ IF dagNameToDagId(db, q.name) = {}
             THEN runQueue' = runQueue \ {q} /\ UNCHANGED runRec
             ELSE /\ runRec' = [pc |-> "create", obj |-> q, todo |-> {}]
                  /\ UNCHANGED runQueue
          /\ UNCHANGED db
        BY <1>1 DEF RunReconcile
  <2>2. runRec = RunIdle BY <2>1 DEF StartInv, RunRecOK
  <2>3. CASE dagNameToDagId(db, q.name) = {}
    <3>1. GetStartingTasks(db, q) = {} BY <2>3 DEF GetStartingTasks
    <3>2. RunRecOK' /\ runRec'.pc # "rows" BY <2>1, <2>2, <2>3 DEF RunRecOK
    <3> QED BY <1>0, <2>1, <2>3, <3>1, <3>2 DEF StartInv
  <2>4. CASE dagNameToDagId(db, q.name) # {}
    <3>1. runRec' = [pc |-> "create", obj |-> q, todo |-> {}] /\ runQueue' = runQueue
          BY <2>1, <2>4
    <3>2. RunRecOK' /\ runRec'.pc # "rows" BY <2>1, <3>1 DEF RunRecOK
    <3> QED BY <1>0, <2>1, <3>1, <3>2 DEF StartInv
  <2> QED BY <2>3, <2>4
<1>2. CASE FetchStartingTasks
  <2>1. /\ runRec.pc = "start" /\ UNCHANGED <<runQueue, db>>
        /\ runRec' = [runRec EXCEPT !.pc = "rows", !.todo = GetStartingTasks(db, runRec.obj)]
        BY <1>2 DEF FetchStartingTasks
  <2>2. PICK o, s : runRec = [pc |-> "start", obj |-> o, todo |-> s] /\ o \in runQueue
        BY <2>1 DEF StartInv, RunRecOK, RunIdle
  <2>3. PICK todo : todo = GetStartingTasks(db, o) OBVIOUS
  <2>4. runRec' = [pc |-> "rows", obj |-> o, todo |-> todo]
    <3>1. runRec.obj = o BY <2>2
    <3>2. runRec' = [runRec EXCEPT !.pc = "rows", !.todo = todo] BY <2>1, <2>3, <3>1
    <3> QED BY <2>2, <3>2
  <2>5. runRec'.pc = "rows" /\ runRec'.obj = o /\ runRec'.todo = todo BY <2>4
  <2>6. RunRecOK'
    <3>1. runRec'.obj \in runQueue' BY <2>1, <2>2, <2>5
    <3> QED BY <2>4, <2>5, <3>1 DEF RunRecOK
  <2> QED BY <1>0, <2>1, <2>3, <2>5, <2>6 DEF StartInv
<1>3. CASE RunFails
  <2>1. runRec' = RunIdle /\ UNCHANGED <<runQueue, db>> BY <1>3 DEF RunFails
  <2>2. RunRecOK' /\ runRec'.pc # "rows" BY <2>1 DEF RunRecOK, RunIdle
  <2> QED BY <1>0, <2>1, <2>2 DEF StartInv
<1>4. CASE RunReconciled
  <2>1. /\ runRec.pc = "rows" /\ runRec.todo = {} /\ runRec' = RunIdle
        /\ runQueue' = runQueue \ {runRec.obj} /\ UNCHANGED db
        BY <1>4 DEF RunReconciled
  <2>2. RunRecOK' /\ runRec'.pc # "rows" BY <2>1 DEF RunRecOK, RunIdle
  <2> QED BY <1>0, <2>1, <2>2 DEF StartInv
<1>5. CASE InsertRun BY <1>5, InsertKeepsStarts
<1>6. CASE EnqueueTask BY <1>6, EnqueueKeepsStarts
<1> QED BY <1>1, <1>2, <1>3, <1>4, <1>5, <1>6 DEF RunStep

LEMMA StartStep ==
    ASSUME DistinctNames
    PROVE  CInv /\ CInv' /\ StartInv /\ [Next]_vars => StartInv'
<1> SUFFICES ASSUME CInv, CInv', StartInv, [Next]_vars PROVE StartInv' OBVIOUS
<1> USE Groups
<1>0. /\ IsTables(db) /\ RowsOK(db.dags) /\ RecOK /\ RunsOK(db) BY DEF CInv, DbOK, StartInv
<1>1. ASSUME UNCHANGED <<db, dagRuns, runQueue, runRec>> PROVE StartInv'
      BY <1>1 DEF StartInv, RunRecOK
<1>2. CASE UserStep
      BY <1>1, <1>2 DEF UserStep, ApplyDag, DeleteDagObject, ApplyTask, DeleteTaskObject
<1>3. CASE \/ \E d \in Dag : DagReconcile(d)
           \/ \E t \in DagTask : TaskReconcile(t)
           \/ CheckDag \/ FinaliseRefs \/ MarkDag \/ UnfinaliseRefs \/ Start \/ UNCHANGED vars
      BY <1>1, <1>3 DEF DagReconcile, TaskReconcile, CheckDag, FinaliseRefs, MarkDag,
                        UnfinaliseRefs, Start, all
<1>4. CASE StoreDag
  <2>1. UNCHANGED <<dagRuns, runQueue, runRec>> BY <1>4 DEF StoreDag
  <2>2. CASE db' = db BY <1>1, <2>1, <2>2
  <2>3. CASE db' # db
    <3>1. dagRec.pc = "store" /\ db' = InsertDAG(db, dagRec.dag, dagRec.spec)
          BY <1>4, <2>3 DEF StoreDag
    <3>2. dagRec.dag \in Dag /\ dagRec.spec \in DAGSpec
          BY <1>0, <3>1 DEF RecOK, Busy, DagIdle
    <3>3. Ages(db, db') BY <1>0, <3>1, <3>2, InsertDAGAges
    <3> QED BY <2>1, <3>3, StartAged
  <2> QED BY <2>2, <2>3
<1>5. CASE HandleDagDeletion
  <2>1. UNCHANGED <<dagRuns, runQueue, runRec>> /\ (db' = DeleteDAG(db, dagRec.dag) \/ db' = db)
        BY <1>5 DEF HandleDagDeletion
  <2>2. CASE db' = DeleteDAG(db, dagRec.dag)
    <3>1. Ages(db, db') BY <1>0, <2>2, DeleteDAGAges
    <3> QED BY <2>1, <3>1, StartAged
  <2>3. CASE db' = db BY <1>1, <2>1, <2>3
  <2> QED BY <2>1, <2>2, <2>3
<1>6. CASE StoreTask
  <2>1. /\ UNCHANGED <<dagRuns, runQueue, runRec>>
        /\ \/ db' = AddTask(db, taskRec.task, taskRec.body)
           \/ db' = DeleteTask(db, taskRec.task)
           \/ db' = db
        BY <1>6 DEF StoreTask
  <2>2. CASE db' # db
    <3>1. Ages(db, db') BY <1>0, <2>1, <2>2, AddTaskAges, DeleteTaskAges
    <3> QED BY <2>1, <3>1, StartAged
  <2>3. CASE db' = db BY <1>1, <2>1, <2>3
  <2> QED BY <2>2, <2>3
<1>7. CASE ProcessDags
  <2>1. UNCHANGED <<dagRuns, runQueue, runRec>> BY <1>7 DEF ProcessDags
  <2>2. Ages(db, db') BY <1>7, TickAges
  <2> QED BY <2>1, <2>2, StartAged
<1>8. CASE ScheduleDagRun
  <2>1. /\ runQueue' = runQueue \cup (dagRuns' \ dagRuns) /\ UNCHANGED <<db, runRec>>
        BY <1>8 DEF ScheduleDagRun
  <2>2. dagRuns' \ runQueue' \subseteq dagRuns \ runQueue BY <2>1
  <2>3. RunRecOK' BY <2>1 DEF StartInv, RunRecOK
  <2> QED BY <2>1, <2>2, <2>3 DEF StartInv
<1>9. CASE RunStep BY <1>9, RunKeepsStarts
<1>10. CASE Crash
  <2>1. UNCHANGED <<db, dagRuns>> /\ runQueue' = dagRuns /\ runRec' = RunIdle BY <1>10 DEF Crash
  <2>2. RunRecOK' /\ runRec'.pc # "rows" BY <2>1 DEF RunRecOK, RunIdle
  <2> QED BY <2>1, <2>2 DEF StartInv
<1> QED BY <1>2, <1>3, <1>4, <1>5, <1>6, <1>7, <1>8, <1>9, <1>10, Steps

\* When the DagRun reconciler is done with a run, every task the run would start has its row
\* and only one: through failed insertions and repeated reconciliations, new versions,
\* deletions of DAGs and of DagTasks, and with both managers.  No two DAGs may have one
\* name: with two, the deletion of one brings the versions of the other back.
THEOREM RunsStartOnce ==
    ASSUME DistinctNames
    PROVE  Spec => []StartedOnce
<1>1. Init => StartInv
  <2> SUFFICES ASSUME Init PROVE StartInv OBVIOUS
  <2>1. PICK tasks, next : db = [dags |-> {}, dagTasks |-> {}, runs |-> {}, taskRuns |-> {},
                                 tasks |-> tasks, next |-> next]
        BY DEF Init
  <2>2. RunsOK(db) BY <2>1 DEF RunsOK
  <2>3. dagRuns = {} /\ runRec = RunIdle /\ runRec.pc # "rows" BY DEF Init, RunIdle
  <2> QED BY <2>2, <2>3 DEF StartInv, RunRecOK
<1>2. Spec => [](CInv /\ StartInv)
  <2>1. CInv /\ CInv' /\ StartInv /\ [Next]_vars => StartInv' BY StartStep
  <2> QED BY <1>1, <2>1, CInit, CNext, PTL DEF Spec
<1>3. StartInv => StartedOnce
  <2> SUFFICES ASSUME StartInv, NEW q \in dagRuns \ runQueue,
                      NEW task \in GetStartingTasks(db, q)
               PROVE  Cardinality(TaskRuns(q, task)) = 1
      BY DEF StartedOnce
  <2>1. PICK x \in db.taskRuns : x.run = q /\ x.task = task BY DEF StartInv, TaskRunExists
  <2>2. \A y \in TaskRuns(q, task) : y = x
    <3> TAKE y \in TaskRuns(q, task)
    <3>1. y \in db.taskRuns /\ y.run = q /\ y.task = task BY DEF TaskRuns
    <3>2. /\ y = [run |-> y.run, task |-> y.task, copy |-> 0]
          /\ x = [run |-> x.run, task |-> x.task, copy |-> 0]
          BY <3>1 DEF StartInv, RunsOK
    <3> QED BY <2>1, <3>1, <3>2
  <2>3. TaskRuns(q, task) = {x} BY <2>1, <2>2 DEF TaskRuns
  <2> QED BY <2>3, FS_Singleton
<1> QED BY <1>2, <1>3, PTL

=============================================================================
