-------------------------- MODULE MCDagRunProgress --------------------------
(* Model checking of DagRunProgress: small DAGs.                            *)
EXTENDS DagRunProgress, TLC

CONSTANTS A, B, C  \* tasks

JoinDeps == (A :> {}) @@ (B :> {}) @@ (C :> {A, B})

\* Another run of the DAG, whose run_id is 4.
OtherRun == {4} \X {A, B, C}

Handlers == Permutations(Handler)

=============================================================================
