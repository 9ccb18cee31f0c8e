-------------------------- MODULE TaskClaims_proofs --------------------------
(***************************************************************************)
(* Theorems about TaskClaims, for any number of workers, rows, goroutines  *)
(* and pods and any number of faults.                                      *)
(***************************************************************************)
EXTENDS TaskClaims, FiniteSetTheorems, TLAPS

-----------------------------------------------------------------------------
(* The inductive invariant.                                                *)

\* An idle slot holds nothing; a goroutine has a row that exists and a
\* worker, and once allocated a pod of that row which nobody adopted.
RoutinesOK ==
    \A g \in Claim :
        /\ routine[g].pc = "idle" => routine[g] = Idle
        /\ routine[g].pc # "idle" => /\ routine[g].row \in TaskRun
                                     /\ routine[g].worker \in Worker
                                     /\ status[routine[g].row] # "absent"
        /\ routine[g].pc = "allocated" =>
              /\ routine[g].pod \in Pod
              /\ podRow[routine[g].pod] = routine[g].row
              /\ routine[g].pod \notin adopted

\* No two goroutines hold the same pod.
PodsDistinct ==
    \A g, h \in Claim :
        /\ routine[g].pc = "allocated"
        /\ routine[h].pc = "allocated"
        /\ routine[g].pod = routine[h].pod
        => g = h

\* A pod has a row from its creation on, and only for a row that exists.
PodsOK ==
    \A p \in Pod : /\ podPhase[p] = "none" <=> podRow[p] = NULL
                   /\ podRow[p] # NULL => status[podRow[p]] # "absent"

\* A row waiting for its retry claim exists.
RetryingOK == \A w \in Worker : retrying[w] # NULL => status[retrying[w]] # "absent"

\* The row of an adopted pod is neither pending nor claimed, for ever.
AdoptedIsFinal ==
    \A p \in adopted : /\ podRow[p] # NULL
                       /\ status[podRow[p]] \notin {"absent", "pending"}
                       /\ claimedBy[podRow[p]] = NULL

\* The poller's goroutines of worker w.
Polled(w) == {g \in Claim : /\ routine[g].worker = w
                            /\ routine[g].polled}

IInv == /\ TypeOK
        /\ RoutinesOK
        /\ PodsDistinct
        /\ PodsOK
        /\ RetryingOK
        /\ AdoptedIsFinal
        /\ InFlightBounded
        /\ AdoptedAtMostOnce

-----------------------------------------------------------------------------
(* The fields of the records.                                              *)

\* An idle slot has no row, no worker and is not counted.
LEMMA IdleFields == /\ Idle.pc = "idle"
                    /\ Idle.row = NULL
                    /\ Idle.worker = NULL
                    /\ Idle.polled = FALSE
BY DEF Idle

-----------------------------------------------------------------------------
(* Return(g), shared by four actions.                                      *)

\* When processClaim returns, the slot is free again and the count inFlight
\* stays exact.
LEMMA ReturnOK ==
    ASSUME IInv, NEW g \in Claim, routine[g].pc # "idle", Return(g)
    PROVE  /\ routine' \in [Claim -> Routine]
           /\ routine'[g] = Idle
           /\ \A h \in Claim \ {g} : routine'[h] = routine[h]
           /\ inFlight' \in [Worker -> Nat]
           /\ InFlightBounded'
<1>0. PICK v \in Worker : v = routine[g].worker
  BY DEF IInv, RoutinesOK
<1>1. /\ routine \in [Claim -> Routine]
      /\ inFlight \in [Worker -> Nat]
  BY DEF IInv, TypeOK
<1>2. routine' \in [Claim -> Routine]
  BY <1>1 DEF Return, Idle, Routine
<1>3. /\ routine'[g] = Idle
      /\ \A h \in Claim \ {g} : routine'[h] = routine[h]
  BY <1>1 DEF Return
<1>4. \A w \in Worker : /\ IsFiniteSet(Polled(w))
                        /\ Cardinality(Polled(w)) \in Nat
  BY ClaimAssumption, FS_Subset, FS_CardinalityType DEF Polled
<1>5. \A w \in Worker : /\ inFlight[w] = Cardinality(Polled(w))
                        /\ inFlight[w] <= MaxConcurrentClaims
  BY DEF IInv, InFlightBounded, Polled
<1>6. CASE routine[g].polled
  <2>1. g \in Polled(v)
    BY <1>0, <1>6, <1>1 DEF Polled
  <2>2. Polled(v)' = Polled(v) \ {g}
    BY <1>0, <1>3, <1>6, <1>1, NullAssumption DEF Polled, Idle, Routine
  <2>3. \A w \in Worker \ {v} : Polled(w)' = Polled(w)
    BY <1>0, <1>3, <1>6, <1>1, NullAssumption DEF Polled, Idle, Routine
  <2>4. Cardinality(Polled(v) \ {g}) = Cardinality(Polled(v)) - 1
    BY <1>4, <1>1, <2>1, FS_RemoveElement
  <2>5. Cardinality(Polled(v) \ {g}) \in Nat
    BY <1>4, <1>1, <2>1, FS_RemoveElement, FS_CardinalityType
  <2>6. inFlight' = [inFlight EXCEPT ![v] = @ - 1]
    BY <1>0, <1>1, <1>6 DEF Return
  <2>7. inFlight' \in [Worker -> Nat]
    BY <2>6, <2>4, <2>5, <1>1, <1>5
  <2>8. \A w \in Worker : inFlight'[w] = Cardinality(Polled(w)')
    BY <2>2, <2>3, <2>4, <2>6, <1>1, <1>5
  <2>9. \A w \in Worker : inFlight'[w] <= MaxConcurrentClaims
    BY <2>6, <1>1, <1>5, BoundsAssumption
  <2> QED BY <1>2, <1>3, <2>7, <2>8, <2>9 DEF InFlightBounded, Polled
<1>7. CASE ~ routine[g].polled
  <2>1. inFlight' = inFlight
    BY <1>0, <1>1, <1>7 DEF Return
  <2>2. \A w \in Worker : Polled(w)' = Polled(w)
    BY <1>0, <1>3, <1>7, <1>1, NullAssumption DEF Polled, Idle, Routine
  <2>3. \A w \in Worker : inFlight'[w] = Cardinality(Polled(w)')
    BY <2>1, <2>2, <1>5
  <2> QED BY <1>1, <1>2, <1>3, <2>1, <2>3 DEF InFlightBounded, Polled, IInv
<1> QED BY <1>6, <1>7

-----------------------------------------------------------------------------
(* IInv is inductive: one lemma per group of actions.                      *)

\* A step that leaves rows, claims, goroutines and the rows of pods alone.
LEMMA FrameOK ==
    ASSUME IInv, TypeOK',
           UNCHANGED <<status, claimedBy, routine, inFlight, retrying, podRow,
                       adopted>>,
           \A p \in Pod : podPhase'[p] = "none" <=> podPhase[p] = "none"
    PROVE  IInv'
<1>1. RoutinesOK' /\ PodsDistinct'
  BY DEF IInv, RoutinesOK, PodsDistinct
<1>2. PodsOK' /\ RetryingOK'
  BY DEF IInv, PodsOK, RetryingOK
<1>3. InFlightBounded'
  BY DEF IInv, InFlightBounded
<1>4. AdoptedAtMostOnce' /\ AdoptedIsFinal'
  BY DEF IInv, AdoptedAtMostOnce, AdoptedIsFinal
<1> QED BY <1>1, <1>2, <1>3, <1>4 DEF IInv

\* The tables start empty.
LEMMA InitOK == Init => IInv
<1> SUFFICES ASSUME Init PROVE IInv
  OBVIOUS
<1>1. TypeOK
  BY BoundsAssumption DEF Init, TypeOK, Idle, Routine
<1>2. InFlightBounded
  <2>1. \A w \in Worker : Polled(w) = {}
    BY NullAssumption DEF Init, Polled, Idle
  <2> QED BY <2>1, FS_EmptySet, BoundsAssumption DEF Init, InFlightBounded, Polled
<1>3. RoutinesOK /\ PodsDistinct
  BY DEF Init, RoutinesOK, PodsDistinct, Idle
<1>4. PodsOK /\ RetryingOK
  BY DEF Init, PodsOK, RetryingOK
<1>5. AdoptedIsFinal /\ AdoptedAtMostOnce
  BY DEF Init, AdoptedIsFinal, AdoptedAtMostOnce
<1> QED BY <1>1, <1>2, <1>3, <1>4, <1>5 DEF IInv

\* Inserting a row, and what happens to a lease, touch neither goroutines
\* nor pods.
LEMMA RowStepsOK ==
    ASSUME IInv, NEW r \in TaskRun,
           AddPendingTaskRun(r) \/ LeaseExpires(r)
    PROVE  IInv'
<1>1. CASE AddPendingTaskRun(r)
  <2>1. TypeOK'
    BY <1>1 DEF IInv, TypeOK, AddPendingTaskRun, podVars
  <2>2. RoutinesOK' /\ PodsDistinct'
    BY <1>1 DEF IInv, TypeOK, AddPendingTaskRun, podVars, RoutinesOK, PodsDistinct
  <2>3. PodsOK' /\ RetryingOK'
    BY <1>1 DEF IInv, TypeOK, AddPendingTaskRun, podVars, PodsOK, RetryingOK
  <2>4. InFlightBounded' /\ AdoptedAtMostOnce'
    BY <1>1 DEF IInv, AddPendingTaskRun, podVars, InFlightBounded, AdoptedAtMostOnce
  <2>5. AdoptedIsFinal'
    BY <1>1 DEF IInv, TypeOK, AddPendingTaskRun, podVars, AdoptedIsFinal
  <2> QED BY <2>1, <2>2, <2>3, <2>4, <2>5 DEF IInv
<1>2. CASE LeaseExpires(r)
  <2>1. TypeOK'
    BY <1>2, BoundsAssumption DEF IInv, TypeOK, LeaseExpires, podVars
  <2> QED BY <1>2, <2>1, FrameOK DEF LeaseExpires, podVars
<1> QED BY <1>1, <1>2

\* Renewing a lease, and failing to.
LEMMA RenewStepsOK ==
    ASSUME IInv, NEW g \in Claim,
           RenewLease(g) \/ RenewLeaseFails(g)
    PROVE  IInv'
<1>1. CASE RenewLease(g)
  <2>1. routine[g].row \in TaskRun
    BY <1>1 DEF RenewLease, IInv, RoutinesOK
  <2>2. TypeOK'
    BY <1>1, <2>1 DEF IInv, TypeOK, RenewLease, podVars
  <2> QED BY <1>1, <2>2, FrameOK DEF RenewLease, podVars
<1>2. CASE RenewLeaseFails(g)
  <2>0. routine \in [Claim -> Routine]
    BY DEF IInv, TypeOK
  <2>1. routine' \in [Claim -> Routine]
    <3>1. [routine[g] EXCEPT !.renewing = FALSE] \in Routine
      BY <2>0 DEF Routine
    <3>2. routine' = [routine EXCEPT ![g] = [routine[g] EXCEPT !.renewing = FALSE]]
      BY <1>2 DEF RenewLeaseFails
    <3> QED BY <2>0, <3>1, <3>2
  <2>2. TypeOK'
    BY <1>2, <2>1, BoundsAssumption
    DEF IInv, TypeOK, RenewLeaseFails, dbVars, podVars
  <2>3. \A h \in Claim : /\ routine'[h].pc = routine[h].pc
                         /\ routine'[h].row = routine[h].row
                         /\ routine'[h].worker = routine[h].worker
                         /\ routine'[h].pod = routine[h].pod
                         /\ routine'[h].polled = routine[h].polled
                         /\ routine[h].pc = "idle" => routine'[h] = routine[h]
    BY <1>2, <2>0 DEF RenewLeaseFails, Routine
  <2>4. RoutinesOK' /\ PodsDistinct'
    BY <1>2, <2>3 DEF IInv, RenewLeaseFails, dbVars, podVars, RoutinesOK,
                      PodsDistinct
  <2>5. InFlightBounded'
    <3>1. \A w \in Worker : Polled(w)' = Polled(w)
      BY <2>3 DEF Polled
    <3> QED BY <1>2, <3>1 DEF IInv, InFlightBounded, Polled, RenewLeaseFails
  <2>6. PodsOK' /\ RetryingOK'
    BY <1>2 DEF IInv, RenewLeaseFails, dbVars, podVars, PodsOK, RetryingOK
  <2>7. AdoptedAtMostOnce' /\ AdoptedIsFinal'
    BY <1>2 DEF IInv, RenewLeaseFails, dbVars, podVars, AdoptedAtMostOnce,
                AdoptedIsFinal
  <2> QED BY <2>2, <2>4, <2>5, <2>6, <2>7 DEF IInv
<1> QED BY <1>1, <1>2

\* The poller claims a batch of rows.
LEMMA ClaimTasksOK ==
    ASSUME IInv, NEW w \in Worker, NEW G \in SUBSET IdleRoutines,
           NEW f \in [G -> TaskRun], ClaimTasks(w, G, f)
    PROVE  IInv'
<1>1. /\ routine \in [Claim -> Routine]
      /\ inFlight \in [Worker -> Nat]
      /\ G \in SUBSET Claim
      /\ \A g \in G : routine[g].pc = "idle" /\ routine[g] = Idle
  BY DEF IInv, TypeOK, IdleRoutines, RoutinesOK
<1>2. /\ IsFiniteSet(G)
      /\ Cardinality(G) \in Nat
      /\ \A v \in Worker : IsFiniteSet(Polled(v))
  BY <1>1, ClaimAssumption, FS_Subset, FS_CardinalityType DEF Polled
<1>3. routine' \in [Claim -> Routine]
  BY <1>1 DEF ClaimTasks, Started, Routine
<1>4. inFlight' \in [Worker -> Nat]
  BY <1>1, <1>2 DEF ClaimTasks
<1>5. TypeOK'
  BY <1>3, <1>4 DEF IInv, TypeOK, ClaimTasks, podVars
<1>6. /\ \A g \in G : routine'[g] = Started(f[g], w, TRUE)
      /\ \A g \in Claim \ G : routine'[g] = routine[g]
      /\ \A g \in G : status[f[g]] = "pending"
  BY <1>1, BackendAssumption DEF ClaimTasks, Claimable, ClaimableByID
<1>6a. ASSUME NEW g \in G
       PROVE  /\ routine'[g].pc = "claimed"
              /\ routine'[g].row = f[g]
              /\ routine'[g].worker = w
              /\ routine'[g].polled = TRUE
  <2>1. routine'[g] = Started(f[g], w, TRUE)
    BY <1>6
  <2> QED BY <2>1 DEF Started
<1>6b. \A g \in G : routine'[g].pc = "claimed"
  BY <1>6a
<1>7. RoutinesOK'
  <2>0. status' = status
    BY DEF ClaimTasks
  <2>1. ASSUME NEW g \in G
        PROVE  /\ routine'[g].pc = "claimed"
               /\ routine'[g].row \in TaskRun
               /\ routine'[g].worker \in Worker
               /\ status'[routine'[g].row] # "absent"
    <3>1. /\ routine'[g].pc = "claimed"
          /\ routine'[g].row = f[g]
          /\ routine'[g].worker = w
          /\ f[g] \in TaskRun
      BY <1>6a
    <3> QED BY <1>6, <2>0, <3>1
  <2> QED BY <1>6, <2>1 DEF IInv, RoutinesOK, ClaimTasks, podVars
<1>8. PodsDistinct'
  <2>1. \A g \in Claim : routine'[g].pc = "allocated" => routine'[g] = routine[g]
    BY <1>6, <1>6b
  <2> QED BY <2>1 DEF IInv, PodsDistinct
<1>9. InFlightBounded'
  <2>0. /\ \A g \in G : routine'[g].worker = w /\ routine'[g].polled
        /\ \A g \in G : routine[g].worker = NULL /\ ~ routine[g].polled
        /\ G \subseteq Claim
        /\ w # NULL
    BY <1>1, <1>6a, IdleFields, NullAssumption
  <2>1. Polled(w)' = Polled(w) \cup G
    BY <1>6, <2>0 DEF Polled
  <2>2. \A v \in Worker \ {w} : Polled(v)' = Polled(v)
    BY <1>6, <2>0, NullAssumption DEF Polled
  <2>3. Polled(w) \cap G = {}
    BY <2>0 DEF Polled
  <2>4. Cardinality(Polled(w) \cup G) = Cardinality(Polled(w)) + Cardinality(G)
    <3>1. Cardinality({}) = 0
      BY FS_EmptySet
    <3>2. /\ IsFiniteSet(Polled(w))
          /\ Cardinality(Polled(w)) \in Nat
      BY <1>2, FS_CardinalityType
    <3>3. Cardinality(Polled(w) \cup G) =
              Cardinality(Polled(w)) + Cardinality(G) - Cardinality(Polled(w) \cap G)
      BY <1>2, <3>2, FS_Union
    <3>4. Cardinality(Polled(w) \cap G) = 0
      BY <2>3, <3>1
    <3> QED BY <1>2, <3>2, <3>3, <3>4
  <2>5. \A v \in Worker : /\ inFlight[v] = Cardinality(Polled(v))
                          /\ inFlight[v] <= MaxConcurrentClaims
    BY DEF IInv, InFlightBounded, Polled
  <2>6. \A v \in Worker : inFlight'[v] = Cardinality(Polled(v)')
    BY <1>1, <2>1, <2>2, <2>4, <2>5 DEF ClaimTasks
  <2>7. \A v \in Worker : inFlight'[v] <= MaxConcurrentClaims
    BY <1>1, <1>2, <2>5, BoundsAssumption DEF ClaimTasks, ClaimLimit
  <2> QED BY <2>6, <2>7 DEF InFlightBounded, Polled
<1>10. PodsOK' /\ RetryingOK'
  BY DEF IInv, ClaimTasks, podVars, PodsOK, RetryingOK
<1>11. AdoptedAtMostOnce'
  BY DEF IInv, ClaimTasks, podVars, AdoptedAtMostOnce
<1>12. AdoptedIsFinal'
  BY <1>6 DEF IInv, TypeOK, ClaimTasks, podVars, AdoptedIsFinal
<1> QED BY <1>5, <1>7, <1>8, <1>9, <1>10, <1>11, <1>12 DEF IInv

\* processClaim gives up before it has a pod.
LEMMA AllocateTaskFailsOK ==
    ASSUME IInv, NEW g \in Claim, AllocateTaskFails(g)
    PROVE  IInv'
<1>1. /\ routine' \in [Claim -> Routine]
      /\ routine'[g] = Idle
      /\ \A h \in Claim \ {g} : routine'[h] = routine[h]
      /\ inFlight' \in [Worker -> Nat]
  BY ReturnOK DEF AllocateTaskFails
<1>2. InFlightBounded'
  BY ReturnOK DEF AllocateTaskFails
<1>3. TypeOK'
  BY <1>1 DEF IInv, TypeOK, AllocateTaskFails, dbVars, podVars
<1>4. RoutinesOK'
  BY <1>1, IdleFields
  DEF IInv, RoutinesOK, AllocateTaskFails, dbVars, podVars
<1>5. PodsDistinct'
  BY <1>1, IdleFields DEF IInv, PodsDistinct
<1>6. PodsOK' /\ RetryingOK'
  BY DEF IInv, PodsOK, RetryingOK, AllocateTaskFails, dbVars, podVars
<1>7. AdoptedIsFinal' /\ AdoptedAtMostOnce'
  BY DEF IInv, AdoptedIsFinal, AdoptedAtMostOnce,
         AllocateTaskFails, dbVars, podVars
<1> QED BY <1>2, <1>3, <1>4, <1>5, <1>6, <1>7 DEF IInv

\* processClaim creates a pod.
LEMMA AllocateTaskOK ==
    ASSUME IInv, NEW g \in Claim, NEW p \in Pod, AllocateTask(g, p)
    PROVE  IInv'
<1> DEFINE r == routine[g].row
<1>1. /\ routine \in [Claim -> Routine]
      /\ r \in TaskRun
      /\ status[r] # "absent"
      /\ podRow \in [Pod -> TaskRun \cup {NULL}]
      /\ podPhase \in [Pod -> {"none", "active", "succeeded", "failed", "gone"}]
      /\ podRow[p] = NULL
  BY DEF IInv, TypeOK, RoutinesOK, PodsOK, AllocateTask
<1>2. p \notin adopted
  BY <1>1 DEF IInv, AdoptedIsFinal
<1>3. [routine[g] EXCEPT !.pc = "allocated", !.pod = p] \in Routine
  <2>1. routine[g] \in Routine
    BY <1>1
  <2> QED BY <2>1 DEF Routine
<1>4. routine' = [routine EXCEPT ![g] = [routine[g] EXCEPT !.pc = "allocated", !.pod = p]]
  BY <1>1 DEF AllocateTask, Routine
<1>5. routine' \in [Claim -> Routine]
  BY <1>1, <1>3, <1>4
<1>6. TypeOK'
  BY <1>1, <1>5 DEF IInv, TypeOK, AllocateTask, dbVars
<1>7. /\ routine'[g].pc = "allocated"
      /\ routine'[g].row = r
      /\ routine'[g].worker = routine[g].worker
      /\ routine'[g].pod = p
      /\ routine'[g].polled = routine[g].polled
  BY <1>1, <1>4 DEF Routine
<1>8. \A h \in Claim \ {g} : routine'[h] = routine[h]
  BY <1>1, <1>4
<1>9. /\ podRow'[p] = r
      /\ \A q \in Pod \ {p} : podRow'[q] = podRow[q] /\ podPhase'[q] = podPhase[q]
      /\ podPhase'[p] = "active"
      /\ UNCHANGED <<status, claimedBy, adopted, retrying, inFlight>>
  BY <1>1 DEF AllocateTask, dbVars
<1>10. \A h \in Claim \ {g} : routine[h].pc = "allocated" => routine[h].pod \in Pod \ {p}
  BY <1>1, NullAssumption DEF IInv, RoutinesOK
<1>11. RoutinesOK'
  BY <1>1, <1>2, <1>7, <1>8, <1>9, <1>10
  DEF IInv, RoutinesOK, AllocateTask
<1>12. PodsDistinct'
  BY <1>7, <1>8, <1>10 DEF IInv, PodsDistinct
<1>13. PodsOK' /\ RetryingOK'
  BY <1>1, <1>9, NullAssumption DEF IInv, PodsOK, RetryingOK
<1>14. InFlightBounded'
  <2>1. \A w \in Worker : Polled(w)' = Polled(w)
    BY <1>7, <1>8 DEF Polled
  <2> QED BY <1>9, <2>1 DEF IInv, InFlightBounded, Polled
<1>15. AdoptedIsFinal' /\ AdoptedAtMostOnce'
  <2>1. \A q \in adopted : podRow'[q] = podRow[q]
    BY <1>2, <1>9 DEF IInv, TypeOK
  <2> QED BY <1>9, <2>1 DEF IInv, AdoptedIsFinal, AdoptedAtMostOnce
<1> QED BY <1>6, <1>11, <1>12, <1>13, <1>14, <1>15 DEF IInv

\* The claim is finalized: the worker still owns the row, so that no pod of
\* the row has been adopted before.
LEMMA FinalizeClaimToRunningOK ==
    ASSUME IInv, NEW g \in Claim, FinalizeClaimToRunning(g)
    PROVE  IInv'
<1>1. PICK r \in TaskRun : r = routine[g].row
  BY DEF IInv, RoutinesOK, FinalizeClaimToRunning
<1>2. PICK p \in Pod : p = routine[g].pod
  BY DEF IInv, RoutinesOK, FinalizeClaimToRunning
<1>3. /\ routine[g].pc = "allocated"
      /\ podRow[p] = r
      /\ p \notin adopted
      /\ claimedBy[r] # NULL
      /\ r # NULL
  BY <1>1, <1>2, NullAssumption
  DEF IInv, RoutinesOK, FinalizeClaimToRunning, OwnsClaim
<1>4. \A q \in adopted : podRow[q] # r
  BY <1>3 DEF IInv, AdoptedIsFinal
<1>5. /\ routine' \in [Claim -> Routine]
      /\ routine'[g] = Idle
      /\ \A h \in Claim \ {g} : routine'[h] = routine[h]
      /\ inFlight' \in [Worker -> Nat]
  BY <1>3, ReturnOK DEF FinalizeClaimToRunning
<1>6. InFlightBounded'
  BY <1>3, ReturnOK DEF FinalizeClaimToRunning
<1>7. TypeOK'
  BY <1>1, <1>2, <1>5 DEF IInv, TypeOK, FinalizeClaimToRunning, podVars
<1>8. /\ status'[r] = "running"
      /\ claimedBy'[r] = NULL
      /\ \A q \in TaskRun \ {r} : status'[q] = status[q] /\ claimedBy'[q] = claimedBy[q]
      /\ adopted' = adopted \cup {p}
      /\ UNCHANGED <<podRow, podPhase, retrying>>
  BY <1>1, <1>2 DEF IInv, TypeOK, FinalizeClaimToRunning, podVars
<1>9. RoutinesOK'
  <2>1. \A h \in Claim \ {g} : routine[h].pc = "allocated" => routine[h].pod # p
    BY <1>2, <1>3 DEF IInv, PodsDistinct
  <2> QED BY <1>5, <1>8, <2>1, IdleFields DEF IInv, RoutinesOK
<1>10. PodsDistinct'
  BY <1>5, IdleFields DEF IInv, PodsDistinct
<1>11. PodsOK'
  BY <1>8 DEF IInv, TypeOK, PodsOK
<1>12. RetryingOK'
  BY <1>8 DEF IInv, TypeOK, RetryingOK
<1>13. AdoptedIsFinal'
  BY <1>3, <1>4, <1>8 DEF IInv, TypeOK, AdoptedIsFinal
<1>14. AdoptedAtMostOnce'
  BY <1>3, <1>4, <1>8 DEF IInv, AdoptedAtMostOnce
<1> QED BY <1>6, <1>7, <1>9, <1>10, <1>11, <1>12, <1>13, <1>14 DEF IInv

\* The claim is lost: nothing is adopted.
LEMMA FinalizeClaimFailsOK ==
    ASSUME IInv, NEW g \in Claim, FinalizeClaimFails(g)
    PROVE  IInv'
<1>1. /\ routine' \in [Claim -> Routine]
      /\ routine'[g] = Idle
      /\ \A h \in Claim \ {g} : routine'[h] = routine[h]
      /\ inFlight' \in [Worker -> Nat]
  BY ReturnOK DEF FinalizeClaimFails
<1>2. InFlightBounded'
  BY ReturnOK DEF FinalizeClaimFails
<1>3. /\ podPhase' \in [Pod -> {"none", "active", "succeeded", "failed", "gone"}]
      /\ \A p \in Pod : podPhase'[p] = "none" <=> podPhase[p] = "none"
  BY DEF IInv, TypeOK, FinalizeClaimFails
<1>4. faults' \in 0..MaxFaults
  BY BoundsAssumption DEF IInv, TypeOK, FinalizeClaimFails
<1>5. TypeOK'
  BY <1>1, <1>3, <1>4 DEF IInv, TypeOK, FinalizeClaimFails, dbVars
<1>6. RoutinesOK' /\ PodsDistinct'
  BY <1>1, IdleFields
  DEF IInv, RoutinesOK, PodsDistinct, FinalizeClaimFails, dbVars
<1>7. PodsOK' /\ RetryingOK'
  BY <1>3 DEF IInv, PodsOK, RetryingOK, FinalizeClaimFails, dbVars
<1>8. AdoptedIsFinal' /\ AdoptedAtMostOnce'
  BY DEF IInv, AdoptedIsFinal, AdoptedAtMostOnce,
         FinalizeClaimFails, dbVars
<1> QED BY <1>2, <1>5, <1>6, <1>7, <1>8 DEF IInv

\* A pod ends, and the handlers that only set the status of its row.
LEMMA PodStepsOK ==
    ASSUME IInv, NEW p \in Pod,
           PodFinishes(p) \/ HandleSucceeded(p) \/ HandleFailedFinally(p)
    PROVE  IInv'
<1>1. CASE PodFinishes(p)
  <2>1. TypeOK' /\ \A q \in Pod : podPhase'[q] = "none" <=> podPhase[q] = "none"
    BY <1>1 DEF IInv, TypeOK, PodFinishes, dbVars
  <2> QED BY <1>1, <2>1, FrameOK DEF PodFinishes, dbVars
<1>2. CASE HandleSucceeded(p) \/ HandleFailedFinally(p)
  <2>1. PICK r \in TaskRun : r = podRow[p]
    BY <1>2 DEF IInv, TypeOK, PodsOK, HandleSucceeded, HandleFailedFinally
  <2>2. /\ podPhase' \in [Pod -> {"none", "active", "succeeded", "failed", "gone"}]
        /\ \A q \in Pod : podPhase'[q] = "none" <=> podPhase[q] = "none"
    BY <1>2 DEF IInv, TypeOK, HandleSucceeded, HandleFailedFinally, DeletePod
  <2>3. /\ status'[r] \in {"success", "failed"}
        /\ status' = [status EXCEPT ![r] = status'[r]]
        /\ \A q \in TaskRun \ {r} : status'[q] = status[q]
        /\ status[r] # "absent"
        /\ UNCHANGED <<claimedBy, lease, routine, inFlight, retrying, alive,
                       podRow, adopted, expiredOnce, faults>>
    BY <1>2, <2>1, NullAssumption
    DEF IInv, TypeOK, PodsOK, HandleSucceeded, HandleFailedFinally
  <2>4. TypeOK'
    BY <2>2, <2>3 DEF IInv, TypeOK
  <2>5. RoutinesOK' /\ PodsDistinct'
    BY <2>3 DEF IInv, RoutinesOK, PodsDistinct
  <2>6. PodsOK' /\ RetryingOK'
    BY <2>2, <2>3 DEF IInv, TypeOK, PodsOK, RetryingOK
  <2>7. InFlightBounded' /\ AdoptedAtMostOnce'
    BY <2>3 DEF IInv, InFlightBounded, AdoptedAtMostOnce
  <2>8. AdoptedIsFinal'
    BY <2>3 DEF IInv, TypeOK, AdoptedIsFinal
  <2> QED BY <2>4, <2>5, <2>6, <2>7, <2>8 DEF IInv
<1> QED BY <1>1, <1>2

\* The handler of a failed pod inserts a row for the retry.
LEMMA HandleFailedRetryOK ==
    ASSUME IInv, NEW p \in Pod, NEW w \in Worker, NEW r \in TaskRun,
           HandleFailedRetry(w, p, r)
    PROVE  IInv'
<1>1. /\ podPhase' \in [Pod -> {"none", "active", "succeeded", "failed", "gone"}]
      /\ \A q \in Pod : podPhase'[q] = "none" <=> podPhase[q] = "none"
  BY DEF IInv, TypeOK, HandleFailedRetry, DeletePod
<1>2. /\ status'[r] = "pending" /\ status[r] = "absent"
      /\ \A q \in TaskRun \ {r} : status'[q] = status[q]
      /\ retrying'[w] = r
      /\ \A v \in Worker \ {w} : retrying'[v] = retrying[v]
      /\ UNCHANGED <<claimedBy, lease, routine, inFlight, alive, podRow,
                     adopted, expiredOnce, faults>>
  BY DEF IInv, TypeOK, HandleFailedRetry
<1>3. TypeOK'
  BY <1>1 DEF IInv, TypeOK, HandleFailedRetry
<1>4. RoutinesOK' /\ PodsDistinct'
  BY <1>2 DEF IInv, RoutinesOK, PodsDistinct
<1>5. PodsOK'
  BY <1>1, <1>2 DEF IInv, TypeOK, PodsOK
<1>6. RetryingOK'
  BY <1>2 DEF IInv, TypeOK, RetryingOK
<1>7. InFlightBounded' /\ AdoptedAtMostOnce'
  BY <1>2 DEF IInv, InFlightBounded, AdoptedAtMostOnce
<1>8. AdoptedIsFinal'
  BY <1>2 DEF IInv, TypeOK, AdoptedIsFinal
<1> QED BY <1>3, <1>4, <1>5, <1>6, <1>7, <1>8 DEF IInv

\* The retry's own claim, which inFlight does not count.
LEMMA ClaimTaskByIDOK ==
    ASSUME IInv, NEW w \in Worker, NEW g \in Claim, ClaimTaskByID(w, g)
    PROVE  IInv'
<1>1. PICK r \in TaskRun : r = retrying[w]
  BY DEF IInv, TypeOK, ClaimTaskByID
<1>2. /\ routine \in [Claim -> Routine]
      /\ routine[g] = Idle
      /\ status[r] = "pending"
      /\ routine' = [routine EXCEPT ![g] = Started(r, w, FALSE)]
  BY <1>1 DEF IInv, TypeOK, RoutinesOK, ClaimTaskByID, ClaimableByID
<1>3. Started(r, w, FALSE) \in Routine
  BY DEF Started, Routine
<1>4. routine' \in [Claim -> Routine]
  BY <1>2, <1>3
<1>5. TypeOK'
  BY <1>1, <1>4 DEF IInv, TypeOK, ClaimTaskByID, podVars
<1>6. /\ routine'[g].pc = "claimed"
      /\ routine'[g].row = r
      /\ routine'[g].worker = w
      /\ routine'[g].polled = FALSE
  BY <1>2 DEF Started
<1>7. \A h \in Claim \ {g} : routine'[h] = routine[h]
  BY <1>2
<1>8. /\ claimedBy'[r] = w
      /\ \A q \in TaskRun \ {r} : claimedBy'[q] = claimedBy[q]
      /\ retrying'[w] = NULL
      /\ \A v \in Worker \ {w} : retrying'[v] = retrying[v]
      /\ UNCHANGED <<status, inFlight, podRow, podPhase, adopted>>
  BY <1>1 DEF IInv, TypeOK, ClaimTaskByID, podVars
<1>9. RoutinesOK'
  <2>1. /\ routine'[g].pc = "claimed"
        /\ routine'[g].row \in TaskRun
        /\ routine'[g].worker \in Worker
        /\ status'[routine'[g].row] # "absent"
    BY <1>2, <1>6, <1>8
  <2> QED BY <1>7, <1>8, <2>1 DEF IInv, RoutinesOK
<1>10. PodsDistinct'
  <2>1. routine'[g].pc # "allocated"
    BY <1>6
  <2> QED BY <1>7, <2>1 DEF IInv, PodsDistinct
<1>11. PodsOK' /\ RetryingOK'
  BY <1>8 DEF IInv, PodsOK, RetryingOK
<1>12. InFlightBounded'
  <2>1. \A v \in Worker : Polled(v)' = Polled(v)
    BY <1>2, <1>6, <1>7, IdleFields DEF Polled
  <2> QED BY <1>8, <2>1 DEF IInv, InFlightBounded, Polled
<1>13. AdoptedAtMostOnce'
  BY <1>8 DEF IInv, AdoptedAtMostOnce
<1>14. AdoptedIsFinal'
  BY <1>2, <1>8 DEF IInv, TypeOK, AdoptedIsFinal
<1> QED BY <1>5, <1>9, <1>10, <1>11, <1>12, <1>13, <1>14 DEF IInv

\* The retry's claim finds the row taken by a poller.
LEMMA ClaimTaskByIDFailsOK ==
    ASSUME IInv, NEW w \in Worker, ClaimTaskByIDFails(w)
    PROVE  IInv'
<1>1. TypeOK'
  BY DEF IInv, TypeOK, ClaimTaskByIDFails, dbVars, podVars
<1>2. RoutinesOK' /\ PodsDistinct'
  BY DEF IInv, RoutinesOK, PodsDistinct, ClaimTaskByIDFails, dbVars, podVars
<1>3. PodsOK'
  BY DEF IInv, PodsOK, ClaimTaskByIDFails, dbVars, podVars
<1>4. RetryingOK'
  BY DEF IInv, TypeOK, RetryingOK, ClaimTaskByIDFails, dbVars, podVars
<1>5. InFlightBounded'
  BY DEF IInv, InFlightBounded, ClaimTaskByIDFails
<1>6. AdoptedIsFinal' /\ AdoptedAtMostOnce'
  BY DEF IInv, AdoptedIsFinal, AdoptedAtMostOnce,
         ClaimTaskByIDFails, dbVars, podVars
<1> QED BY <1>1, <1>2, <1>3, <1>4, <1>5, <1>6 DEF IInv

\* A crash frees the goroutines of its worker and nothing else.
LEMMA CrashOK ==
    ASSUME IInv, NEW w \in Worker, Crash(w)
    PROVE  IInv'
<1>1. routine \in [Claim -> Routine] /\ Idle \in Routine
  BY DEF IInv, TypeOK, Idle, Routine
<1>2. \A g \in Claim : /\ routine[g].worker = w => routine'[g] = Idle
                       /\ routine[g].worker # w => routine'[g] = routine[g]
  BY DEF Crash
<1>3. routine' \in [Claim -> Routine]
  BY <1>1 DEF Crash
<1>4. TypeOK'
  BY <1>3, BoundsAssumption DEF IInv, TypeOK, Crash, dbVars, podVars
<1>5. RoutinesOK'
  BY <1>2, IdleFields DEF IInv, RoutinesOK, Crash, dbVars, podVars
<1>6. PodsDistinct'
  BY <1>2, IdleFields DEF IInv, PodsDistinct
<1>7. PodsOK'
  BY DEF IInv, PodsOK, Crash, dbVars, podVars
<1>8. RetryingOK'
  BY DEF IInv, TypeOK, RetryingOK, Crash, dbVars, podVars
<1>9. InFlightBounded'
  <2>1. Polled(w)' = {}
    BY <1>2, IdleFields, NullAssumption DEF Polled
  <2>2. \A v \in Worker \ {w} : Polled(v)' = Polled(v)
    BY <1>2, IdleFields, NullAssumption DEF Polled
  <2>3. /\ inFlight'[w] = 0
        /\ \A v \in Worker \ {w} : inFlight'[v] = inFlight[v]
    BY DEF IInv, TypeOK, Crash
  <2>4. \A v \in Worker : /\ inFlight[v] = Cardinality(Polled(v))
                          /\ inFlight[v] <= MaxConcurrentClaims
    BY DEF IInv, InFlightBounded, Polled
  <2>5. Cardinality({}) = 0
    BY FS_EmptySet
  <2>6. \A v \in Worker : /\ inFlight'[v] = Cardinality(Polled(v)')
                          /\ inFlight'[v] <= MaxConcurrentClaims
    BY <2>1, <2>2, <2>3, <2>4, <2>5, BoundsAssumption
  <2> QED BY <2>6 DEF InFlightBounded, Polled
<1>10. AdoptedIsFinal' /\ AdoptedAtMostOnce'
  BY DEF IInv, AdoptedIsFinal, AdoptedAtMostOnce, Crash,
         dbVars, podVars
<1> QED BY <1>4, <1>5, <1>6, <1>7, <1>8, <1>9, <1>10 DEF IInv

\* Every step of a worker, of Kubernetes or of time preserves IInv.
LEMMA NextOK == IInv /\ [Next]_vars => IInv'
<1> SUFFICES ASSUME IInv, [Next]_vars PROVE IInv'
  OBVIOUS
<1>1. CASE UNCHANGED vars
  <2>1. TypeOK'
    BY <1>1 DEF IInv, TypeOK, vars, dbVars, podVars
  <2> QED BY <1>1, <2>1, FrameOK DEF vars, dbVars, podVars
<1>2. ASSUME NEW r \in TaskRun, AddPendingTaskRun(r) \/ LeaseExpires(r)
      PROVE  IInv'
  BY <1>2, RowStepsOK
<1>3. ASSUME NEW w \in Worker, NEW G \in SUBSET IdleRoutines,
             NEW f \in [G -> TaskRun], ClaimTasks(w, G, f)
      PROVE  IInv'
  BY <1>3, ClaimTasksOK
<1>4. ASSUME NEW g \in Claim, RenewLease(g) \/ RenewLeaseFails(g)
      PROVE  IInv'
  BY <1>4, RenewStepsOK
<1>5. ASSUME NEW g \in Claim,
             AllocateTaskFails(g) \/ FinalizeClaimToRunning(g) \/ FinalizeClaimFails(g)
      PROVE  IInv'
  BY <1>5, AllocateTaskFailsOK, FinalizeClaimToRunningOK, FinalizeClaimFailsOK
<1>6. ASSUME NEW g \in Claim, NEW p \in Pod, AllocateTask(g, p)
      PROVE  IInv'
  BY <1>6, AllocateTaskOK
<1>7. ASSUME NEW p \in Pod,
             PodFinishes(p) \/ HandleSucceeded(p) \/ HandleFailedFinally(p)
      PROVE  IInv'
  BY <1>7, PodStepsOK
<1>8. ASSUME NEW p \in Pod, NEW w \in Worker, NEW r \in TaskRun,
             HandleFailedRetry(w, p, r)
      PROVE  IInv'
  BY <1>8, HandleFailedRetryOK
<1>9. ASSUME NEW w \in Worker, NEW g \in Claim, ClaimTaskByID(w, g)
      PROVE  IInv'
  BY <1>9, ClaimTaskByIDOK
<1>10. ASSUME NEW w \in Worker, ClaimTaskByIDFails(w) \/ Crash(w)
       PROVE  IInv'
  BY <1>10, ClaimTaskByIDFailsOK, CrashOK
<1> QED BY <1>1, <1>2, <1>3, <1>4, <1>5, <1>6, <1>7, <1>8, <1>9, <1>10 DEF Next

-----------------------------------------------------------------------------
(* The theorems.                                                           *)

\* IInv holds in every reachable state.
THEOREM Invariance == Spec => []IInv
BY InitOK, NextOK, PTL DEF Spec

\* Every variable keeps its type; in particular the deferred decrement of
\* processClaim never takes inFlight below zero.
THEOREM TypeCorrect == Spec => []TypeOK
<1>1. IInv => TypeOK
  BY DEF IInv
<1> QED BY <1>1, Invariance, PTL

\* However many workers claim a row, lose it and finish late, one pod at most
\* passes FinalizeClaimToRunning for it.
THEOREM AdoptionIsUnique == Spec => []AdoptedAtMostOnce
<1>1. IInv => AdoptedAtMostOnce
  BY DEF IInv
<1> QED BY <1>1, Invariance, PTL

\* The poller's counter is exact and within MaxConcurrentClaims.
THEOREM InFlightIsExact == Spec => []InFlightBounded
<1>1. IInv => InFlightBounded
  BY DEF IInv
<1> QED BY <1>1, Invariance, PTL

-----------------------------------------------------------------------------
(* With the Postgres manager a second pod needs an expired lease.          *)

ExpiryIsRecorded == \A r \in TaskRun : lease[r] = "expired" => r \in expiredOnce

\* As long as the lease of row r has never expired: one goroutine at most has
\* the row; while that goroutine has no pod, nor has the row; and a pending
\* row that nobody has claimed has neither goroutine nor pod.
OneGoroutine(r) ==
    \A g, h \in Claim : routine[g].row = r /\ routine[h].row = r => g = h
NoPodBefore(r) ==
    \A g \in Claim : routine[g].row = r /\ routine[g].pc = "claimed"
                     => \A p \in Pod : podRow[p] # r
Untouched(r) ==
    status[r] = "pending" /\ claimedBy[r] = NULL
    => /\ \A g \in Claim : routine[g].row # r
       /\ \A p \in Pod : podRow[p] # r
OnePod(r) ==
    \A p, q \in Pod : podRow[p] = r /\ podRow[q] = r => p = q

NeverExpired(r) ==
    r \notin expiredOnce =>
        OneGoroutine(r) /\ NoPodBefore(r) /\ Untouched(r) /\ OnePod(r)

Fresh == ExpiryIsRecorded /\ \A r \in TaskRun : NeverExpired(r)

\* A step for which no row changes hands: goroutines keep their rows or end,
\* no pod is created, and only absent rows become pending.
LEMMA QuietOK ==
    ASSUME IInv, Fresh, ExpiryIsRecorded',
           expiredOnce \subseteq expiredOnce',
           podRow' = podRow,
           \A g \in Claim : \/ /\ routine'[g].row = routine[g].row
                              /\ routine'[g].pc = routine[g].pc
                           \/ routine'[g].row = NULL,
           \A r \in TaskRun :
              status'[r] = "pending" /\ claimedBy'[r] = NULL =>
                 \/ status[r] = "pending" /\ claimedBy[r] = NULL
                 \/ status[r] = "absent"
    PROVE  Fresh'
<1> SUFFICES ASSUME NEW r \in TaskRun, r \notin expiredOnce'
             PROVE  OneGoroutine(r)' /\ NoPodBefore(r)' /\ Untouched(r)' /\ OnePod(r)'
  BY DEF Fresh, NeverExpired
<1>0. OneGoroutine(r) /\ NoPodBefore(r) /\ Untouched(r) /\ OnePod(r)
  BY DEF Fresh, NeverExpired
<1>1. r # NULL
  BY NullAssumption
<1>2. OneGoroutine(r)'
  BY <1>0, <1>1 DEF OneGoroutine
<1>3. NoPodBefore(r)'
  BY <1>0, <1>1 DEF NoPodBefore
<1>4. status[r] = "absent" => /\ \A g \in Claim : routine[g].row # r
                              /\ \A p \in Pod : podRow[p] # r
  BY <1>1, IdleFields DEF IInv, RoutinesOK, PodsOK
<1>5. Untouched(r)'
  BY <1>0, <1>1, <1>4 DEF Untouched
<1>6. OnePod(r)'
  BY <1>0 DEF OnePod
<1> QED BY <1>2, <1>3, <1>5, <1>6

\* Every step preserves Fresh when ClaimTasks is the one of Postgres.
LEMMA FreshNext ==
    ASSUME Backend = "postgres", IInv, Fresh, [Next]_vars
    PROVE  Fresh'
<1> USE NullAssumption
<1>0. /\ ExpiryIsRecorded
      /\ \A r \in TaskRun : NeverExpired(r)
  BY DEF Fresh
<1>1. CASE UNCHANGED vars
  BY <1>1, <1>0, QuietOK DEF vars, dbVars, podVars, ExpiryIsRecorded
<1>2. ASSUME NEW r \in TaskRun, AddPendingTaskRun(r) PROVE Fresh'
  BY <1>2, <1>0, QuietOK DEF AddPendingTaskRun, podVars, ExpiryIsRecorded, IInv, TypeOK
<1>3. ASSUME NEW r \in TaskRun, LeaseExpires(r) PROVE Fresh'
  <2>1. ExpiryIsRecorded'
    BY <1>0, <1>3 DEF LeaseExpires, ExpiryIsRecorded, IInv, TypeOK
  <2> QED BY <1>3, <2>1, QuietOK DEF LeaseExpires, podVars
<1>4. ASSUME NEW w \in Worker, NEW G \in SUBSET IdleRoutines,
             NEW f \in [G -> TaskRun], ClaimTasks(w, G, f)
      PROVE  Fresh'
  <2>1. ExpiryIsRecorded'
    BY <1>0, <1>4 DEF ClaimTasks, ExpiryIsRecorded, IInv, TypeOK
  <2>2. /\ \A g \in G : /\ status[f[g]] = "pending"
                        /\ claimedBy[f[g]] = NULL \/ f[g] \in expiredOnce
        /\ \A g, h \in G : f[g] = f[h] => g = h
        /\ UNCHANGED <<status, podRow, expiredOnce>>
        /\ G \subseteq Claim
    BY <1>0, <1>4 DEF ClaimTasks, Claimable, ClaimableByID, ExpiryIsRecorded,
                      podVars, IdleRoutines
  <2>3. \A g \in G : routine'[g].row = f[g]
    <3> SUFFICES ASSUME NEW g \in G PROVE routine'[g].row = f[g]
      OBVIOUS
    <3>1. routine'[g] = Started(f[g], w, TRUE)
      BY <1>4, <2>2 DEF ClaimTasks
    <3> QED BY <3>1 DEF Started
  <2>4. \A g \in Claim \ G : routine'[g] = routine[g]
    BY <1>4 DEF ClaimTasks
  <2>5. \A r \in TaskRun : claimedBy'[r] = NULL => claimedBy[r] = NULL /\ \A g \in G : f[g] # r
    BY <1>4 DEF ClaimTasks
  <2> SUFFICES ASSUME NEW r \in TaskRun, r \notin expiredOnce'
               PROVE  OneGoroutine(r)' /\ NoPodBefore(r)' /\ Untouched(r)' /\ OnePod(r)'
    BY <2>1 DEF Fresh, NeverExpired
  <2>6. OneGoroutine(r) /\ NoPodBefore(r) /\ Untouched(r) /\ OnePod(r)
    BY <1>0, <2>2 DEF NeverExpired
  <2>7. OnePod(r)'
    BY <2>2, <2>6 DEF OnePod
  <2>8. CASE \E g \in G : f[g] = r
    <3>1. /\ \A g \in Claim : routine[g].row # r
          /\ \A p \in Pod : podRow[p] # r
      BY <2>2, <2>6, <2>8 DEF Untouched
    <3>2. OneGoroutine(r)'
      BY <2>2, <2>3, <2>4, <3>1 DEF OneGoroutine
    <3>3. NoPodBefore(r)'
      BY <2>2, <3>1 DEF NoPodBefore
    <3>4. Untouched(r)'
      BY <2>5, <2>8 DEF Untouched
    <3> QED BY <2>7, <3>2, <3>3, <3>4
  <2>9. CASE ~ \E g \in G : f[g] = r
    <3>1. OneGoroutine(r)'
      BY <2>3, <2>4, <2>6, <2>9 DEF OneGoroutine
    <3>2. NoPodBefore(r)'
      BY <2>2, <2>3, <2>4, <2>6, <2>9 DEF NoPodBefore
    <3>3. Untouched(r)'
      BY <2>2, <2>3, <2>4, <2>5, <2>6, <2>9 DEF Untouched
    <3> QED BY <2>7, <3>1, <3>2, <3>3
  <2> QED BY <2>8, <2>9
<1>5. ASSUME NEW g \in Claim, RenewLease(g) PROVE Fresh'
  <2>1. ExpiryIsRecorded'
    BY <1>0, <1>5 DEF RenewLease, ExpiryIsRecorded, IInv, TypeOK
  <2> QED BY <1>5, <2>1, QuietOK DEF RenewLease, podVars
<1>6. ASSUME NEW g \in Claim, RenewLeaseFails(g) PROVE Fresh'
  <2>1. \A h \in Claim : /\ routine'[h].row = routine[h].row
                         /\ routine'[h].pc = routine[h].pc
    BY <1>6 DEF RenewLeaseFails, IInv, TypeOK, Routine
  <2> QED BY <1>0, <1>6, <2>1, QuietOK DEF RenewLeaseFails, dbVars, podVars,
                                           ExpiryIsRecorded
<1>7. ASSUME NEW g \in Claim, AllocateTaskFails(g) \/ FinalizeClaimFails(g)
      PROVE  Fresh'
  <2>1. /\ routine'[g].row = NULL
        /\ \A h \in Claim \ {g} : routine'[h] = routine[h]
    BY <1>7, ReturnOK, IdleFields DEF AllocateTaskFails, FinalizeClaimFails
  <2> QED BY <1>0, <1>7, <2>1, QuietOK
          DEF AllocateTaskFails, FinalizeClaimFails, dbVars, podVars,
              ExpiryIsRecorded
<1>8. ASSUME NEW g \in Claim, FinalizeClaimToRunning(g) PROVE Fresh'
  <2>1. /\ routine'[g].row = NULL
        /\ \A h \in Claim \ {g} : routine'[h] = routine[h]
    BY <1>8, ReturnOK, IdleFields DEF FinalizeClaimToRunning
  <2>2. /\ \A r \in TaskRun : status'[r] = "pending" =>
              status[r] = "pending" /\ claimedBy'[r] = claimedBy[r]
        /\ ExpiryIsRecorded'
    BY <1>0, <1>8 DEF FinalizeClaimToRunning, ExpiryIsRecorded, IInv, TypeOK
  <2> QED BY <1>8, <2>1, <2>2, QuietOK DEF FinalizeClaimToRunning, podVars
<1>9. ASSUME NEW g \in Claim, NEW p \in Pod, AllocateTask(g, p) PROVE Fresh'
  <2>1. PICK s \in TaskRun : s = routine[g].row
    BY <1>9 DEF AllocateTask, IInv, RoutinesOK
  <2>2. /\ podRow[p] = NULL
        /\ podRow'[p] = s
        /\ \A q \in Pod \ {p} : podRow'[q] = podRow[q]
        /\ UNCHANGED <<status, claimedBy, lease, expiredOnce>>
        /\ routine[g].pc = "claimed"
    BY <1>9, <2>1 DEF AllocateTask, dbVars, IInv, TypeOK, PodsOK
  <2>3. \A h \in Claim : /\ routine'[h].row = routine[h].row
                         /\ h # g => routine'[h].pc = routine[h].pc
    BY <1>9 DEF AllocateTask, IInv, TypeOK, Routine
  <2>4. routine'[g].pc = "allocated"
    BY <1>9 DEF AllocateTask, IInv, TypeOK, Routine
  <2>5. ExpiryIsRecorded'
    BY <1>0, <2>2 DEF ExpiryIsRecorded
  <2> SUFFICES ASSUME NEW r \in TaskRun, r \notin expiredOnce'
               PROVE  OneGoroutine(r)' /\ NoPodBefore(r)' /\ Untouched(r)' /\ OnePod(r)'
    BY <2>5 DEF Fresh, NeverExpired
  <2>6. OneGoroutine(r) /\ NoPodBefore(r) /\ Untouched(r) /\ OnePod(r)
    BY <1>0, <2>2 DEF NeverExpired
  <2>7. OneGoroutine(r)'
    BY <2>3, <2>6 DEF OneGoroutine
  <2>8. NoPodBefore(r)'
    BY <2>1, <2>2, <2>3, <2>4, <2>6 DEF NoPodBefore, OneGoroutine
  <2>9. Untouched(r)'
    BY <2>1, <2>2, <2>3, <2>6 DEF Untouched
  <2>10. OnePod(r)'
    BY <2>1, <2>2, <2>6 DEF OnePod, NoPodBefore
  <2> QED BY <2>7, <2>8, <2>9, <2>10
<1>10. ASSUME NEW p \in Pod, PodFinishes(p) PROVE Fresh'
  BY <1>0, <1>10, QuietOK DEF PodFinishes, dbVars, ExpiryIsRecorded
<1>11. ASSUME NEW p \in Pod, HandleSucceeded(p) \/ HandleFailedFinally(p)
       PROVE  Fresh'
  <2>1. \A r \in TaskRun : status'[r] = "pending" => status[r] = "pending"
    BY <1>11 DEF HandleSucceeded, HandleFailedFinally, IInv, TypeOK
  <2> QED BY <1>0, <1>11, <2>1, QuietOK
          DEF HandleSucceeded, HandleFailedFinally, ExpiryIsRecorded
<1>12. ASSUME NEW p \in Pod, NEW w \in Worker, NEW r \in TaskRun,
              HandleFailedRetry(w, p, r)
       PROVE  Fresh'
  <2>1. \A s \in TaskRun : status'[s] = "pending" => status[s] \in {"pending", "absent"}
    BY <1>12 DEF HandleFailedRetry, IInv, TypeOK
  <2> QED BY <1>0, <1>12, <2>1, QuietOK DEF HandleFailedRetry, ExpiryIsRecorded
<1>13. ASSUME NEW w \in Worker, NEW g \in Claim, ClaimTaskByID(w, g)
       PROVE  Fresh'
  <2>1. PICK s \in TaskRun : s = retrying[w]
    BY <1>13 DEF ClaimTaskByID, IInv, TypeOK
  <2>2. /\ status[s] = "pending"
        /\ claimedBy[s] = NULL \/ s \in expiredOnce
        /\ UNCHANGED <<status, podRow, expiredOnce>>
        /\ claimedBy'[s] = w
        /\ \A r \in TaskRun \ {s} : claimedBy'[r] = claimedBy[r]
    BY <1>0, <1>13, <2>1 DEF ClaimTaskByID, ClaimableByID, ExpiryIsRecorded,
                             podVars, IInv, TypeOK
  <2>3. ExpiryIsRecorded'
    BY <1>0, <1>13, <2>1 DEF ClaimTaskByID, ExpiryIsRecorded, IInv, TypeOK
  <2>4. routine'[g].row = s
    BY <1>13, <2>1 DEF ClaimTaskByID, Started, IInv, TypeOK
  <2>5. \A h \in Claim \ {g} : routine'[h] = routine[h]
    BY <1>13 DEF ClaimTaskByID, IInv, TypeOK
  <2> SUFFICES ASSUME NEW r \in TaskRun, r \notin expiredOnce'
               PROVE  OneGoroutine(r)' /\ NoPodBefore(r)' /\ Untouched(r)' /\ OnePod(r)'
    BY <2>3 DEF Fresh, NeverExpired
  <2>6. OneGoroutine(r) /\ NoPodBefore(r) /\ Untouched(r) /\ OnePod(r)
    BY <1>0, <2>2 DEF NeverExpired
  <2>7. r = s => /\ \A h \in Claim : routine[h].row # r
                 /\ \A p \in Pod : podRow[p] # r
    BY <2>2, <2>6 DEF Untouched
  <2>8. OneGoroutine(r)'
    BY <2>4, <2>5, <2>6, <2>7 DEF OneGoroutine
  <2>9. NoPodBefore(r)'
    BY <2>2, <2>4, <2>5, <2>6, <2>7 DEF NoPodBefore
  <2>10. Untouched(r)'
    BY <2>2, <2>4, <2>5, <2>6, <2>7 DEF Untouched
  <2>11. OnePod(r)'
    BY <2>2, <2>6 DEF OnePod
  <2> QED BY <2>8, <2>9, <2>10, <2>11
<1>14. ASSUME NEW w \in Worker, ClaimTaskByIDFails(w) PROVE Fresh'
  BY <1>0, <1>14, QuietOK DEF ClaimTaskByIDFails, dbVars, podVars, ExpiryIsRecorded
<1>15. ASSUME NEW w \in Worker, Crash(w) PROVE Fresh'
  <2>1. \A g \in Claim : \/ routine'[g] = routine[g]
                         \/ routine'[g].row = NULL
    BY <1>15, IdleFields DEF Crash
  <2> QED BY <1>0, <1>15, <2>1, QuietOK DEF Crash, dbVars, podVars, ExpiryIsRecorded
<1> QED BY <1>1, <1>2, <1>3, <1>4, <1>5, <1>6, <1>7, <1>8, <1>9, <1>10, <1>11,
           <1>12, <1>13, <1>14, <1>15 DEF Next

\* With the Postgres manager, ClaimTasks and ClaimTaskByID hand a row to a
\* second goroutine, and so create a second pod for it, only after its lease
\* has expired.
THEOREM SecondPodNeedsExpiryPostgres ==
    ASSUME Backend = "postgres"
    PROVE  Spec => []SecondPodNeedsExpiry
<1>1. Init => Fresh
  <2> SUFFICES ASSUME Init PROVE Fresh
    OBVIOUS
  <2>1. /\ \A g \in Claim : routine[g].row = NULL
        /\ \A p \in Pod : podRow[p] = NULL
        /\ ExpiryIsRecorded
    BY IdleFields DEF Init, ExpiryIsRecorded
  <2> QED BY <2>1, NullAssumption
          DEF Fresh, NeverExpired, OneGoroutine, NoPodBefore, Untouched, OnePod
<1>2. IInv /\ Fresh /\ [Next]_vars => Fresh'
  BY FreshNext
<1>3. IInv /\ Fresh => SecondPodNeedsExpiry
  BY DEF Fresh, NeverExpired, OnePod, SecondPodNeedsExpiry, IInv, TypeOK
<1> QED BY <1>1, <1>2, <1>3, Invariance, PTL DEF Spec

-----------------------------------------------------------------------------
(* Without faults no pod is left behind.                                   *)

\* As long as nothing has failed, every goroutine renews the live lease of a
\* row that its worker has claimed and that no other goroutine works on.
Owned ==
    faults = 0 =>
        /\ \A g \in Claim : routine[g].pc # "idle" =>
              routine[g].renewing /\ OwnsClaim(g) /\ lease[routine[g].row] = "live"
        /\ \A g, h \in Claim : /\ routine[g].pc # "idle" /\ routine[h].pc # "idle"
                               /\ routine[g].row = routine[h].row
                               => g = h

\* A step that starts no goroutine, and leaves alone the rows of those that go
\* on, the claims of those rows and the pods that were not adopted.
LEMMA CalmOK ==
    ASSUME IInv, Owned, StrayNeedsFault, faults' = 0 => faults = 0, adopted \subseteq adopted',
           \A g \in Claim : routine'[g] = routine[g] \/ routine'[g].pc = "idle",
           \A g \in Claim : routine'[g].pc # "idle" =>
              /\ claimedBy'[routine[g].row] = claimedBy[routine[g].row]
              /\ lease'[routine[g].row] = lease[routine[g].row],
           \A p \in Pod : podPhase'[p] = "active" =>
              /\ podPhase[p] = "active"
              /\ \A g \in Claim : routine[g].pc = "allocated" /\ routine[g].pod = p
                    => routine'[g] = routine[g] \/ p \in adopted'
    PROVE  Owned' /\ StrayNeedsFault'
<1> SUFFICES ASSUME faults' = 0 PROVE Owned' /\ StrayNeedsFault'
  BY DEF Owned, StrayNeedsFault
<1>1. faults = 0
  OBVIOUS
<1>2. \A g \in Claim : routine'[g].pc # "idle" =>
          /\ routine'[g] = routine[g] /\ routine[g].pc # "idle"
          /\ OwnsClaim(g)' <=> OwnsClaim(g)
  BY DEF OwnsClaim
<1>3. Owned'
  BY <1>1, <1>2 DEF Owned
<1>4. StrayNeedsFault'
  <2> SUFFICES ASSUME NEW p \in Pod, podPhase'[p] = "active", p \notin adopted'
               PROVE  \E g \in Claim : /\ routine'[g].pc = "allocated" /\ routine'[g].pod = p
                                       /\ OwnsClaim(g)'
    BY DEF StrayNeedsFault
  <2>1. PICK g \in Claim : /\ routine[g].pc = "allocated" /\ routine[g].pod = p
                           /\ OwnsClaim(g)
    BY <1>1 DEF StrayNeedsFault
  <2>2. routine'[g] = routine[g] /\ routine'[g].pc # "idle"
    BY <2>1
  <2> QED BY <1>2, <2>1, <2>2
<1> QED BY <1>3, <1>4

\* Row r is claimed for a goroutine that was idle: if it could be claimed,
\* nobody worked on it.
LEMMA FreeRow ==
    ASSUME IInv, Owned, faults = 0, NEW r \in TaskRun, ClaimableByID(r)
    PROVE  \A g \in Claim : routine[g].pc # "idle" => routine[g].row # r
<1> SUFFICES ASSUME NEW g \in Claim, routine[g].pc # "idle", routine[g].row = r PROVE FALSE
  OBVIOUS
<1>1. claimedBy[r] = routine[g].worker /\ lease[r] = "live" /\ routine[g].worker \in Worker
  BY DEF Owned, OwnsClaim, IInv, RoutinesOK
<1> QED BY <1>1, NullAssumption DEF ClaimableByID

\* The goroutines of G are started by worker w for the rows f[g], which nobody
\* worked on.
LEMMA StartOK ==
    ASSUME IInv, Owned, StrayNeedsFault, NEW w \in Worker, NEW G \in SUBSET IdleRoutines,
           NEW f \in [G -> TaskRun], NEW polled \in BOOLEAN,
           \A g \in G : ClaimableByID(f[g]),
           \A g, h \in G : f[g] = f[h] => g = h,
           \A g \in G : /\ routine'[g] = Started(f[g], w, polled)
                        /\ claimedBy'[f[g]] = w /\ lease'[f[g]] = "live",
           \A g \in Claim \ G : routine'[g] = routine[g],
           \A r \in TaskRun : (\A g \in G : f[g] # r) =>
              claimedBy'[r] = claimedBy[r] /\ lease'[r] = lease[r],
           UNCHANGED <<podVars, adopted, faults>>
    PROVE  Owned' /\ StrayNeedsFault'
<1> SUFFICES ASSUME faults = 0 PROVE Owned' /\ StrayNeedsFault'
  BY DEF Owned, StrayNeedsFault
<1>1. \A g \in G : \A h \in Claim : routine[h].pc # "idle" => routine[h].row # f[g]
  BY FreeRow
<1>2. \A g \in G : /\ g \in Claim /\ routine[g].pc = "idle"
                   /\ routine'[g].pc = "claimed" /\ routine'[g].row = f[g]
                   /\ routine'[g].worker = w /\ routine'[g].renewing
  <2> TAKE g \in G
  <2>1. g \in Claim /\ routine[g].pc = "idle"
    BY DEF IdleRoutines
  <2>2. routine'[g] = Started(f[g], w, polled)
    OBVIOUS
  <2> QED BY <2>1, <2>2 DEF Started
<1>3. \A g \in Claim \ G : routine'[g].pc # "idle" =>
          /\ routine[g].row \in TaskRun /\ \A h \in G : f[h] # routine[g].row
          /\ claimedBy'[routine[g].row] = claimedBy[routine[g].row]
          /\ lease'[routine[g].row] = lease[routine[g].row]
  BY <1>1 DEF IInv, RoutinesOK
<1>4. \A g \in Claim \ G : routine'[g].pc # "idle" => (OwnsClaim(g)' <=> OwnsClaim(g))
  BY <1>3 DEF OwnsClaim
<1>5. \A g \in Claim : routine'[g].pc # "idle" =>
          routine'[g].renewing /\ OwnsClaim(g)' /\ lease'[routine'[g].row] = "live"
  <2> SUFFICES ASSUME NEW g \in Claim, routine'[g].pc # "idle"
               PROVE  routine'[g].renewing /\ OwnsClaim(g)' /\ lease'[routine'[g].row] = "live"
    OBVIOUS
  <2>1. CASE g \in G
    BY <1>2, <2>1 DEF OwnsClaim
  <2>2. CASE g \notin G
    BY <1>3, <1>4, <2>2 DEF Owned
  <2> QED BY <2>1, <2>2
<1>6. \A g, h \in Claim : /\ routine'[g].pc # "idle" /\ routine'[h].pc # "idle"
                          /\ routine'[g].row = routine'[h].row
                          => g = h
  <2>1. \A g, h \in Claim \ G : /\ routine[g].pc # "idle" /\ routine[h].pc # "idle"
                                /\ routine[g].row = routine[h].row
                                => g = h
    BY DEF Owned
  <2>2. \A g \in Claim : routine'[g].pc # "idle" =>
            \/ g \in G /\ routine'[g].row = f[g]
            \/ g \notin G /\ routine[g].pc # "idle" /\ routine'[g].row = routine[g].row
    BY <1>2
  <2> QED BY <1>1, <2>1, <2>2
<1>7. StrayNeedsFault'
  <2> SUFFICES ASSUME NEW p \in Pod, podPhase[p] = "active", p \notin adopted
               PROVE  \E g \in Claim : /\ routine'[g].pc = "allocated" /\ routine'[g].pod = p
                                       /\ OwnsClaim(g)'
    BY DEF StrayNeedsFault, podVars
  <2>1. PICK g \in Claim : /\ routine[g].pc = "allocated" /\ routine[g].pod = p
                           /\ OwnsClaim(g)
    BY DEF StrayNeedsFault
  <2>2. g \notin G /\ routine'[g] = routine[g]
    BY <1>2, <2>1
  <2> QED BY <1>4, <2>1, <2>2
<1> QED BY <1>5, <1>6, <1>7 DEF Owned

\* Every step preserves both when ClaimTasks is the one of Postgres.
LEMMA OwnedNext ==
    ASSUME Backend = "postgres", IInv, Owned, StrayNeedsFault, [Next]_vars
    PROVE  Owned' /\ StrayNeedsFault'
<1>0. routine \in [Claim -> Routine] /\ podPhase \in [Pod -> {"none", "active", "succeeded", "failed", "gone"}]
      /\ faults \in Nat
  BY BoundsAssumption DEF IInv, TypeOK
<1>1. CASE UNCHANGED vars
  BY <1>1, CalmOK DEF vars, dbVars, podVars
<1>2. ASSUME NEW r \in TaskRun, AddPendingTaskRun(r) PROVE Owned' /\ StrayNeedsFault'
  BY <1>2, CalmOK DEF AddPendingTaskRun, podVars
<1>3. ASSUME NEW r \in TaskRun, LeaseExpires(r) PROVE Owned' /\ StrayNeedsFault'
  <2>1. CASE faults' = 0
    <3>1. faults = 0 /\ ~BeingRenewed(r)
      BY <1>0, <1>3, <2>1 DEF LeaseExpires
    <3>2. \A g \in Claim : routine[g].pc # "idle" => routine[g].row # r
      BY <3>1 DEF Owned, BeingRenewed, OwnsClaim
    <3>3. \A s \in TaskRun \ {r} : lease'[s] = lease[s]
      BY <1>3 DEF LeaseExpires, IInv, TypeOK
    <3>4. \A g \in Claim : routine[g].pc # "idle" => lease'[routine[g].row] = lease[routine[g].row]
      BY <3>2, <3>3 DEF IInv, RoutinesOK
    <3> QED BY <1>3, <3>1, <3>4, CalmOK DEF LeaseExpires, podVars
  <2>2. CASE faults' # 0
    BY <2>2 DEF Owned, StrayNeedsFault
  <2> QED BY <2>1, <2>2
<1>4. ASSUME NEW w \in Worker, NEW G \in SUBSET IdleRoutines,
             NEW f \in [G -> TaskRun], ClaimTasks(w, G, f)
      PROVE  Owned' /\ StrayNeedsFault'
  <2>1. G \subseteq Claim /\ \A g \in G : f[g] \in TaskRun /\ ClaimableByID(f[g])
    BY <1>4 DEF ClaimTasks, Claimable, IdleRoutines
  <2>2. \A g \in G : /\ routine'[g] = Started(f[g], w, TRUE)
                     /\ claimedBy'[f[g]] = w /\ lease'[f[g]] = "live"
    BY <1>4, <2>1 DEF ClaimTasks
  <2>3. /\ \A g \in Claim \ G : routine'[g] = routine[g]
        /\ \A r \in TaskRun : (\A g \in G : f[g] # r) =>
              claimedBy'[r] = claimedBy[r] /\ lease'[r] = lease[r]
    BY <1>4 DEF ClaimTasks
  <2>4. /\ \A g, h \in G : f[g] = f[h] => g = h
        /\ UNCHANGED <<podVars, adopted, faults>>
    BY <1>4 DEF ClaimTasks
  <2> QED BY <2>1, <2>2, <2>3, <2>4, StartOK
<1>5. ASSUME NEW g \in Claim, RenewLease(g) PROVE Owned' /\ StrayNeedsFault'
  <2>1. UNCHANGED <<claimedBy, routine, podPhase, adopted, faults>>
    BY <1>5 DEF RenewLease, podVars
  <2>2. \A r \in TaskRun : lease[r] = "live" => lease'[r] = "live"
    BY <1>5 DEF RenewLease, IInv, TypeOK
  <2>3. \A h \in Claim : routine[h].pc # "idle" => routine[h].row \in TaskRun
    BY DEF IInv, RoutinesOK
  <2>4. Owned'
    BY <2>1, <2>2, <2>3 DEF Owned, OwnsClaim
  <2> QED BY <2>1, <2>4 DEF StrayNeedsFault, OwnsClaim
<1>6. ASSUME NEW g \in Claim, RenewLeaseFails(g) \/ FinalizeClaimFails(g)
      PROVE  Owned' /\ StrayNeedsFault'
  <2>1. faults' # 0
    <3>1. CASE faults = 0
      <4>1. OwnsClaim(g)
        BY <1>6, <3>1 DEF Owned, RenewLeaseFails, FinalizeClaimFails
      <4> QED BY <1>0, <1>6, <4>1 DEF RenewLeaseFails, FinalizeClaimFails
    <3>2. CASE faults # 0
      BY <1>0, <1>6, <3>2 DEF RenewLeaseFails, FinalizeClaimFails
    <3> QED BY <3>1, <3>2
  <2> QED BY <2>1 DEF Owned, StrayNeedsFault
<1>7. ASSUME NEW g \in Claim, AllocateTaskFails(g) PROVE Owned' /\ StrayNeedsFault'
  <2>1. /\ routine'[g].pc = "idle" /\ routine[g].pc = "claimed"
        /\ \A h \in Claim \ {g} : routine'[h] = routine[h]
    BY <1>7, ReturnOK, IdleFields DEF AllocateTaskFails
  <2>2. UNCHANGED <<claimedBy, lease, podPhase, adopted, faults>>
    BY <1>7 DEF AllocateTaskFails, dbVars, podVars
  <2> QED BY <2>1, <2>2, CalmOK
<1>8. ASSUME NEW g \in Claim, FinalizeClaimToRunning(g) PROVE Owned' /\ StrayNeedsFault'
  <2>1. /\ routine'[g].pc = "idle" /\ routine[g].pc = "allocated"
        /\ \A h \in Claim \ {g} : routine'[h] = routine[h]
    BY <1>8, ReturnOK, IdleFields DEF FinalizeClaimToRunning
  <2>2. /\ UNCHANGED <<podPhase, faults>> /\ adopted' = adopted \cup {routine[g].pod}
        /\ \A r \in TaskRun \ {routine[g].row} : claimedBy'[r] = claimedBy[r] /\ lease'[r] = lease[r]
    BY <1>8 DEF FinalizeClaimToRunning, podVars, IInv, TypeOK
  <2>3. CASE faults = 0
    <3>1. \A h \in Claim : routine'[h].pc # "idle" =>
              routine[h].row \in TaskRun \ {routine[g].row}
      BY <2>1, <2>3 DEF Owned, IInv, RoutinesOK
    <3> QED BY <2>1, <2>2, <3>1, CalmOK
  <2>4. CASE faults # 0
    BY <2>2, <2>4 DEF Owned, StrayNeedsFault
  <2> QED BY <2>3, <2>4
<1>9. ASSUME NEW g \in Claim, NEW p \in Pod, AllocateTask(g, p)
      PROVE  Owned' /\ StrayNeedsFault'
  <2>1. /\ routine[g].pc = "claimed" /\ UNCHANGED <<claimedBy, lease, adopted, faults>>
        /\ \A q \in Pod \ {p} : podPhase'[q] = podPhase[q]
    BY <1>0, <1>9 DEF AllocateTask, dbVars
  <2>2. \A h \in Claim : /\ routine'[h].row = routine[h].row
                         /\ routine'[h].worker = routine[h].worker
                         /\ routine'[h].renewing = routine[h].renewing
                         /\ h # g => routine'[h] = routine[h]
    BY <1>0, <1>9 DEF AllocateTask, Routine
  <2>3. routine'[g].pc = "allocated" /\ routine'[g].pod = p
    BY <1>0, <1>9 DEF AllocateTask, Routine
  <2>4. \A h \in Claim : OwnsClaim(h)' <=> OwnsClaim(h)
    BY <2>1, <2>2 DEF OwnsClaim
  <2>5. Owned'
    BY <2>1, <2>2, <2>3, <2>4 DEF Owned
  <2>6. StrayNeedsFault'
    <3> SUFFICES ASSUME faults = 0, NEW q \in Pod, podPhase'[q] = "active", q \notin adopted
                 PROVE  \E h \in Claim : /\ routine'[h].pc = "allocated" /\ routine'[h].pod = q
                                         /\ OwnsClaim(h)'
      BY <2>1 DEF StrayNeedsFault
    <3>1. CASE q = p
      <4>1. OwnsClaim(g)
        BY <2>1 DEF Owned
      <4> QED BY <2>3, <2>4, <3>1, <4>1
    <3>2. CASE q # p
      <4>1. PICK h \in Claim : /\ routine[h].pc = "allocated" /\ routine[h].pod = q
                               /\ OwnsClaim(h)
        BY <2>1, <3>2 DEF StrayNeedsFault
      <4> QED BY <2>1, <2>2, <2>4, <4>1
    <3> QED BY <3>1, <3>2
  <2> QED BY <2>5, <2>6
<1>10. ASSUME NEW p \in Pod,
              \/ PodFinishes(p) \/ HandleSucceeded(p) \/ HandleFailedFinally(p)
              \/ \E w \in Worker, r \in TaskRun : HandleFailedRetry(w, p, r)
       PROVE  Owned' /\ StrayNeedsFault'
  <2>1. UNCHANGED <<claimedBy, lease, routine, adopted, faults>>
    BY <1>10 DEF PodFinishes, HandleSucceeded, HandleFailedFinally, HandleFailedRetry, dbVars
  <2>2. \A q \in Pod : podPhase'[q] = "active" => podPhase[q] = "active"
    BY <1>0, <1>10 DEF PodFinishes, HandleSucceeded, HandleFailedFinally, HandleFailedRetry,
                       DeletePod
  <2> QED BY <2>1, <2>2, CalmOK
<1>11. ASSUME NEW w \in Worker, NEW g \in Claim, ClaimTaskByID(w, g)
       PROVE  Owned' /\ StrayNeedsFault'
  <2>1. PICK r \in TaskRun : r = retrying[w] /\ ClaimableByID(r)
    BY <1>11 DEF ClaimTaskByID, IInv, TypeOK
  <2> DEFINE G == {g}
             f == [h \in G |-> r]
  <2>2. G \in SUBSET IdleRoutines /\ f \in [G -> TaskRun] /\ \A h \in G : h = g /\ f[h] = r
    BY <1>11 DEF ClaimTaskByID, IdleRoutines
  <2>3. /\ routine'[g] = Started(r, w, FALSE) /\ claimedBy'[r] = w /\ lease'[r] = "live"
        /\ \A h \in Claim \ {g} : routine'[h] = routine[h]
        /\ \A s \in TaskRun \ {r} : claimedBy'[s] = claimedBy[s] /\ lease'[s] = lease[s]
        /\ UNCHANGED <<podVars, adopted, faults>>
    BY <1>11, <2>1 DEF ClaimTaskByID, IInv, TypeOK
  <2>4. /\ \A h \in G : ClaimableByID(f[h])
        /\ \A h, k \in G : f[h] = f[k] => h = k
        /\ \A h \in G : /\ routine'[h] = Started(f[h], w, FALSE)
                        /\ claimedBy'[f[h]] = w /\ lease'[f[h]] = "live"
        /\ \A h \in Claim \ G : routine'[h] = routine[h]
        /\ \A s \in TaskRun : (\A h \in G : f[h] # s) =>
              claimedBy'[s] = claimedBy[s] /\ lease'[s] = lease[s]
    <3>1. g \in G
      OBVIOUS
    <3>2. \A h : h \in Claim \ G => h \in Claim \ {g}
      OBVIOUS
    <3> HIDE DEF G, f
    <3> QED BY <2>1, <2>2, <2>3, <3>1, <3>2
  <2> HIDE DEF G, f
  <2> QED BY <2>2, <2>3, <2>4, StartOK
<1>12. ASSUME NEW w \in Worker, ClaimTaskByIDFails(w) PROVE Owned' /\ StrayNeedsFault'
  BY <1>12, CalmOK DEF ClaimTaskByIDFails, dbVars, podVars
<1>13. ASSUME NEW w \in Worker, Crash(w) PROVE Owned' /\ StrayNeedsFault'
  <2>1. faults' # 0
    BY <1>0, <1>13 DEF Crash
  <2> QED BY <2>1 DEF Owned, StrayNeedsFault
<1> QED BY <1>1, <1>2, <1>3, <1>4, <1>5, <1>6, <1>7, <1>8, <1>9, <1>10, <1>11, <1>12, <1>13
        DEF Next

\* With the Postgres manager, a pod is at work that nobody adopted and nobody
\* is about to adopt only after a crash, a late renewal or a failed call:
\* pollers, retries and events alone, in any order and number, leave none.
THEOREM StrayNeedsFaultPostgres ==
    ASSUME Backend = "postgres"
    PROVE  Spec => []StrayNeedsFault
<1>1. Init => Owned /\ StrayNeedsFault
  BY IdleFields DEF Init, Owned, StrayNeedsFault
<1>2. IInv /\ Owned /\ StrayNeedsFault /\ [Next]_vars => Owned' /\ StrayNeedsFault'
  BY OwnedNext
<1> QED BY <1>1, <1>2, Invariance, PTL DEF Spec

=============================================================================
