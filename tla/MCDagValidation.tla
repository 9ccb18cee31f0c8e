-------------------------- MODULE MCDagValidation --------------------------
(* Model checking of DagValidation: the objects that are applied.           *)
EXTENDS DagValidation

Task(name, runAfter) ==
    [name |-> name, version |-> 1, ref |-> FALSE, filled |-> TRUE,
     runAfter |-> runAfter, params |-> {}]

Dag(ts) == [dsl |-> FALSE, tasks |-> ts, edges |-> <<>>, params |-> <<>>,
            dslParams |-> <<>>]

\* Every graph of three tasks that each run after up to two others, the same
\* one twice and one that does not exist included.
Lists == LET S == {"a", "b", "c", "ghost"}
         IN  {<<>>} \cup {<<x>> : x \in S} \cup {<<x, y>> : x, y \in S}
Graphs3 == {Dag(<<Task("a", x), Task("b", y), Task("c", z)>>) : x, y, z \in Lists}

\* Every graph of four tasks that each run after up to two.
Pairs   == {SetToSeq(S) : S \in {T \in SUBSET {"a", "b", "c", "d"} : Cardinality(T) <= 2}}
Graphs4 == {Dag(<<Task("a", w), Task("b", x), Task("c", y), Task("d", z)>>) :
                w, x, y, z \in Pairs}

\* Tasks that share a name, some of them references of two versions.
Kinds  == {[Task(name, runAfter) EXCEPT !.ref = (kind > 0), !.version = IF kind = 2 THEN 2 ELSE 1] :
               name \in {"a", "b"}, kind \in 0..2, runAfter \in {<<>>, <<"a">>, <<"b">>}}
Shared == {Dag(<<x, y, z>>) : x, y, z \in Kinds}

\* Fields and parameters, and a DAG without tasks.
Parameters == {<<>>} \cup {<<[name |-> "p", default |-> d]>> :
                              d \in {"value", "secret", "both", "none"}}
Fields == {[Dag(<<[Task("a", <<>>) EXCEPT !.filled = f, !.params = ps]>>) EXCEPT !.params = params] :
               f \in BOOLEAN, ps \in SUBSET {"p", "q"}, params \in Parameters}
          \cup {Dag(<<>>)}

\* One to three tasks in the DSL, with up to two edges.
Edge  == {"a", "b", "c", "ghost"} \X {"a", "b", "c", "ghost"}
Edges == {<<>>} \cup {<<e>> : e \in Edge} \cup {<<e, f>> : e, f \in Edge}
Defs  == {SubSeq(<<Task("a", <<>>), Task("b", <<>>), Task("c", <<>>)>>, 1, n) : n \in 1..3}
Dsl   == {[dsl |-> TRUE, tasks |-> ts, edges |-> edges, params |-> <<>>,
           dslParams |-> <<>>] : ts \in Defs, edges \in Edges}

\* A DSL of two tasks with parameters, in an object that has some of its own.
DslFields ==
    {[dsl |-> TRUE, tasks |-> <<[Task("a", <<>>) EXCEPT !.params = ps], Task("b", <<>>)>>,
      edges |-> <<<<"a", "b">>>>, params |-> own, dslParams |-> params] :
          ps \in SUBSET {"p", "q"}, own, params \in Parameters}

Families == {Graphs3, Graphs4, Shared, Fields, Dsl, DslFields}
=============================================================================
