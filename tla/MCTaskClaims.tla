---------------------------- MODULE MCTaskClaims ----------------------------
(* Model checking of TaskClaims: symmetry sets for the safety runs.         *)
EXTENDS TaskClaims, TLC

Symmetry == Permutations(Worker) \cup Permutations(TaskRun)
            \cup Permutations(Claim) \cup Permutations(Pod)

=============================================================================
