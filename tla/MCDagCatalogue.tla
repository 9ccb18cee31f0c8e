--------------------------- MODULE MCDagCatalogue ---------------------------
(* Model checking of DagCatalogue: two DAGs of one namespace that refer to  *)
(* the same DagTask, once or twice.                                         *)
EXTENDS DagCatalogue, TLC

CONSTANTS t, twice, ref

Names    == [x \in Dag |-> x]
OneNs    == [x \in Dag |-> "n"]
BodyRefs == (twice :> <<<<t, 1>>, <<t, 1>>>>) @@ (ref :> <<<<t, 1>>>>)

Dags == Permutations(Dag)
=============================================================================
