-------------------------- MODULE DagRunEnd_proofs --------------------------
(***************************************************************************)
(* A run of a DAG does not stall: when its rows, pods, events and handlers *)
(* are at rest, the run has an outcome, every task is accounted for and    *)
(* the workspace is gone.                                                  *)
(*                                                                         *)
(* The argument follows a task from its row to its end.  Nothing is lost   *)
(* on the way from a pod that ended to the handler that writes it down     *)
(* (Tracked); the failure of a row reaches everything downstream of it     *)
(* (Cascades); the last success that a task waits for starts it (Chosen);  *)
(* the counters hold what was written (Counts) and the handler that        *)
(* completes them goes on to look at them (Noticed).  Finalize may         *)
(* overwrite the status of a row that has ended, so the invariants speak   *)
(* of the histories succeededRows and givenUp, and Written says what the   *)
(* status can still be.                                                    *)
(***************************************************************************)
EXTENDS DagRunProgress_proofs, WellFoundedInduction

-----------------------------------------------------------------------------
(* What a step leaves alone.                                               *)

\* The rows whose pod succeeded or whose task a handler gave up.
Ended(k) == pods[k].phase = "succeeded" \/ k \in givenUp

\* No task has ended twice.
EndsOnce ==
    \A j, k \in DOMAIN rows : rows[j].task = rows[k].task /\ Ended(j) /\ Ended(k) => j = k

LEMMA OnceEndsOnce ==
    ASSUME IInv, OnceEach
    PROVE  EndsOnce
BY DEF OnceEach, EndsOnce, Ended, Retried, IInv, StatusOK, RowOK

LEMMA EndsNoTwins ==
    ASSUME EndsOnce
    PROVE  NoTwins
BY DEF EndsOnce, NoTwins, Ended

LEMMA EndsOnceBefore ==
    ASSUME Kept, givenUp \subseteq givenUp', EndsOnce'
    PROVE  EndsOnce
<1>1. \A k \in DOMAIN rows : Ended(k) => Ended(k)'
  BY DEF Ended, Kept, Ends
<1> QED BY <1>1 DEF EndsOnce, Kept

\* The step of a handler that gives up, or goes on after an error.
Faulty(h) == \/ HandlerAborts(h)
             \/ MarkFailedFails(h)
             \/ \E k \in DOMAIN rows : TakeMisconfiguredFails(h, k)

LEMMA NoFaultBefore ==
    ASSUME IInv, [Next]_vars, faults' = 0
    PROVE  faults = 0 /\ \A h \in Handler : ~ Faulty(h)
<1> USE TypeParts
<1>0. faults \in Nat
  OBVIOUS
<1>1. \A h \in Handler : ~ Faulty(h)
  BY <1>0 DEF Faulty, HandlerAborts, MarkFailedFails, TakeMisconfiguredFails
<1>2. CASE UNCHANGED vars
  BY <1>1, <1>2 DEF vars
<1>3. ASSUME NEW t \in Task, StartTask(t) PROVE faults = 0
  BY <1>3, StartTaskEffect
<1>4. ASSUME NEW k \in DOMAIN rows,
             StartPod(k) \/ Finalize(k) \/ PodFinishes(k) \/ Redeliver(k) \/ PodGone(k)
      PROVE  faults = 0
  BY <1>4, StartPodEffect, FinalizeEffect, PodFinishesEffect, RedeliverEffect, PodGoneEffect
<1>5. ASSUME NEW h \in Handler, Advance(h) PROVE faults = 0
  BY <1>5 DEF Advance, TakeSucceeded, TakeFailed, TakeMisconfigured, MarkSuccess, AddNext,
              CheckDone, RetryAdd, RetryClaim, RetryIncrement, MarkFailed, CascadeRead,
              CascadeWrite
<1> QED BY <1>1, <1>2, <1>3, <1>4, <1>5 DEF Next, Faulty

\* What a step with a fault leaves alone.
LEMMA FaultyEffect ==
    ASSUME IInv, NEW h \in Handler, Faulty(h)
    PROVE  /\ SameCounts /\ UNCHANGED <<rows, suspendedRows, pvc, redelivered, succeededRows,
                                        overwritten>>
           /\ faults' = faults + 1 /\ givenUp \subseteq givenUp'
<1>1. CASE HandlerAborts(h)
  BY <1>1, HandlerAbortsEffect DEF SameEnds
<1>2. CASE MarkFailedFails(h)
  BY <1>2, MarkFailedFailsEffect
<1>3. ASSUME NEW k \in DOMAIN rows, TakeMisconfiguredFails(h, k)
      PROVE  /\ SameCounts /\ SameEnds /\ faults' = faults + 1
             /\ UNCHANGED <<rows, suspendedRows, pvc, redelivered>>
  BY <1>3, TakeMisconfiguredFailsEffect
<1> QED BY <1>1, <1>2, <1>3 DEF Faulty, SameEnds

\* What was written stays so in the histories.
LEMMA EndsStay ==
    ASSUME IInv, [Next]_vars
    PROVE  succeededRows \subseteq succeededRows' /\ overwritten \subseteq overwritten'
<1> DEFINE Goal == succeededRows \subseteq succeededRows' /\ overwritten \subseteq overwritten'
<1>1. CASE UNCHANGED vars
  BY <1>1 DEF vars, counters
<1>2. ASSUME NEW t \in Task, StartTask(t) PROVE Goal
  BY <1>2, StartTaskEffect DEF SameEnds
<1>3. ASSUME NEW k \in DOMAIN rows,
             StartPod(k) \/ Finalize(k) \/ PodFinishes(k) \/ Redeliver(k) \/ PodGone(k)
      PROVE  Goal
  BY <1>3, StartPodEffect, FinalizeEffect, PodFinishesEffect, RedeliverEffect, PodGoneEffect
     DEF SameEnds
<1>4. ASSUME NEW h \in Handler, NEW k \in DOMAIN rows,
             TakeSucceeded(h, k) \/ TakeFailed(h, k) \/ TakeMisconfigured(h, k)
      PROVE  Goal
  BY <1>4, TakeSucceededEffect, TakeFailedEffect, TakeMisconfiguredEffect DEF SameEnds
<1>5. ASSUME NEW h \in Handler, MarkSuccess(h) \/ MarkFailed(h) PROVE Goal
  BY <1>5, MarkSuccessEffect, MarkFailedEffect
<1>6. ASSUME NEW h \in Handler, NEW t \in Task, AddNext(h, t) PROVE Goal
  BY <1>6, AddNextEffect DEF SameEnds
<1>7. ASSUME NEW h \in Handler, RetryAdd(h) \/ RetryClaim(h) \/ RetryIncrement(h) PROVE Goal
  BY <1>7, RetryAddEffect, RetryClaimEffect, RetryIncrementEffect DEF SameEnds
<1>8. ASSUME NEW h \in Handler, CheckDone(h) \/ CascadeRead(h) \/ CascadeWrite(h) PROVE Goal
  BY <1>8, CheckDoneEffect, CascadeReadEffect, CascadeWriteEffect DEF SameEnds
<1>9. ASSUME NEW h \in Handler, Faulty(h) PROVE Goal
  BY <1>9, FaultyEffect
<1> QED
  BY <1>1, <1>2, <1>3, <1>4, <1>5, <1>6, <1>7, <1>8, <1>9 DEF Next, Advance, Faulty

\* Only the cascade writes suspended rows.
LEMMA SuspendedRowsStay ==
    ASSUME IInv, [Next]_vars
    PROVE  \/ suspendedRows' = suspendedRows /\ suspendedCount' = suspendedCount
           \/ \E h \in Handler : CascadeWrite(h)
<1>1. CASE UNCHANGED vars
  BY <1>1 DEF vars, counters, counts
<1>2. ASSUME NEW t \in Task, StartTask(t)
      PROVE  suspendedRows' = suspendedRows /\ suspendedCount' = suspendedCount
  BY <1>2, StartTaskEffect DEF SameCounts
<1>3. ASSUME NEW k \in DOMAIN rows,
             StartPod(k) \/ Finalize(k) \/ PodFinishes(k) \/ Redeliver(k) \/ PodGone(k)
      PROVE  suspendedRows' = suspendedRows /\ suspendedCount' = suspendedCount
  BY <1>3, StartPodEffect, FinalizeEffect, PodFinishesEffect, RedeliverEffect, PodGoneEffect
     DEF SameCounts
<1>4. ASSUME NEW h \in Handler, Advance(h), ~ CascadeWrite(h)
      PROVE  suspendedRows' = suspendedRows /\ suspendedCount' = suspendedCount
  BY <1>4 DEF Advance, TakeSucceeded, TakeFailed, TakeMisconfigured, MarkSuccess, AddNext,
              CheckDone, RetryAdd, RetryClaim, RetryIncrement, MarkFailed, CascadeRead,
              MarkTaskAsFailed, counters, counts
<1>5. ASSUME NEW h \in Handler, Faulty(h)
      PROVE  suspendedRows' = suspendedRows /\ suspendedCount' = suspendedCount
  BY <1>5, FaultyEffect DEF SameCounts
<1> QED BY <1>1, <1>2, <1>3, <1>4, <1>5 DEF Next, Faulty

LEMMA SuspensionStays ==
    ASSUME IInv, [Next]_vars, NEW t \in Task
    PROVE  suspendedRows[t] \in Nat /\ suspendedRows'[t] \in Nat
           /\ suspendedRows[t] <= suspendedRows'[t]
<1> USE TypeParts
<1>1. suspendedRows[t] \in Nat
  OBVIOUS
<1>2. CASE suspendedRows' = suspendedRows
  BY <1>1, <1>2
<1>3. ASSUME NEW h \in Handler, CascadeWrite(h)
      PROVE  suspendedRows'[t] \in {suspendedRows[t], suspendedRows[t] + 1}
  BY <1>3, CascadeWriteEffect
<1> QED BY <1>1, <1>2, <1>3, SuspendedRowsStay

LEMMA SuspendedOnceBefore ==
    ASSUME IInv, [Next]_vars, SuspendedOnce'
    PROVE  SuspendedOnce
BY SuspensionStays DEF SuspendedOnce

\* A row of a task stays.
LEMMA ExistsStays ==
    ASSUME IInv, [Next]_vars, NEW t \in Task, TaskRunExists(t)
    PROVE  TaskRunExists(t)'
<1>1. CASE suspendedRows[t] > 0
  BY <1>1, SuspensionStays DEF TaskRunExists
<1>2. CASE \E i \in DOMAIN rows : rows[i].task = t
  BY <1>2, Keeps DEF Kept, TaskRunExists
<1> QED BY <1>1, <1>2 DEF TaskRunExists

-----------------------------------------------------------------------------
(* The counters have counted at least what the tables hold.                *)

\* Every success was counted, and so was every failure unless an error kept it
\* from being written; a count that decides the outcome of the run has set its
\* status.
Counts ==
    /\ Cardinality(succeededRows) <= successfulCount
    /\ faults = 0 => Cardinality(givenUp) <= failedCount
    /\ Cardinality(Suspended) <= suspendedCount
    /\ failedCount > 0 \/ TaskCount <= successfulCount => runStatus # "running"

LEMMA RowSets ==
    ASSUME IInv
    PROVE  /\ IsFiniteSet(succeededRows) /\ Cardinality(succeededRows) \in Nat
           /\ IsFiniteSet(givenUp) /\ Cardinality(givenUp) \in Nat
           /\ IsFiniteSet(Suspended) /\ Cardinality(Suspended) \in Nat
BY SomeRows, SomeTasks, TypeParts DEF Suspended

\* A set that grows by at most one element.
LEMMA OneMore ==
    ASSUME NEW S, IsFiniteSet(S), NEW T, NEW x, T \subseteq S \cup {x}
    PROVE  IsFiniteSet(T) /\ Cardinality(T) <= Cardinality(S) + 1
<1>1. /\ IsFiniteSet(S \cup {x}) /\ Cardinality(S) \in Nat
      /\ Cardinality(S \cup {x}) \in {Cardinality(S), Cardinality(S) + 1}
  BY FS_AddElement, FS_CardinalityType
<1>2. /\ IsFiniteSet(T) /\ Cardinality(T) \in Nat
      /\ Cardinality(T) <= Cardinality(S \cup {x})
  BY <1>1, FS_Subset, FS_CardinalityType
<1> QED BY <1>1, <1>2

\* A step that counts nothing and ends no row.
LEMMA CountsKept ==
    ASSUME IInv, Counts, SameCounts,
           UNCHANGED <<succeededRows, suspendedRows>>, faults' = 0 => faults = 0,
           faults' = 0 => givenUp' = givenUp
    PROVE  Counts'
<1>1. Suspended' = Suspended
  BY DEF Suspended
<1> QED BY <1>1, RowSets, TypeParts DEF Counts, SameCounts

LEMMA NextCounts ==
    ASSUME IInv, Counts, [Next]_vars
    PROVE  Counts'
<1> USE TypeParts
<1>1. CASE suspendedRows' = suspendedRows /\ SameCounts /\ SameEnds /\ faults' = faults
  BY <1>1, CountsKept DEF SameEnds
<1>2. CASE UNCHANGED vars
  BY <1>1, <1>2 DEF vars, counters, counts, SameCounts, SameEnds
<1>3. ASSUME NEW t \in Task, StartTask(t) PROVE Counts'
  BY <1>1, <1>3, StartTaskEffect
<1>4. ASSUME NEW k \in DOMAIN rows, StartPod(k) \/ PodFinishes(k) \/ Redeliver(k) \/ PodGone(k)
      PROVE  Counts'
  BY <1>1, <1>4, StartPodEffect, PodFinishesEffect, RedeliverEffect, PodGoneEffect
<1>5. ASSUME NEW k \in DOMAIN rows, Finalize(k) PROVE Counts'
  BY <1>5, FinalizeEffect, CountsKept
<1>6. ASSUME NEW h \in Handler, NEW k \in DOMAIN rows, TakeSucceeded(h, k) \/ TakeFailed(h, k)
      PROVE  Counts'
  BY <1>1, <1>6, TakeSucceededEffect, TakeFailedEffect
<1>7. ASSUME NEW i, givenUp' = givenUp \cup {i}, failedCount' = failedCount + 1,
             runStatus' = "failed",
             UNCHANGED <<succeededRows, successfulCount, suspendedCount, suspendedRows, faults>>
      PROVE  Counts'
  <2>1. Suspended' = Suspended
    BY <1>7 DEF Suspended
  <2>2. Cardinality(givenUp') <= Cardinality(givenUp) + 1 /\ Cardinality(givenUp') \in Nat
    BY <1>7, RowSets, OneMore, FS_CardinalityType
  <2> QED BY <1>7, <2>1, <2>2, RowSets DEF Counts
<1>8. ASSUME NEW h \in Handler, NEW k \in DOMAIN rows, TakeMisconfigured(h, k) PROVE Counts'
  BY <1>7, <1>8, TakeMisconfiguredEffect
<1>9. ASSUME NEW h \in Handler, MarkFailed(h) PROVE Counts'
  BY <1>7, <1>9, MarkFailedEffect
<1>10. ASSUME NEW h \in Handler, MarkSuccess(h) PROVE Counts'
  <2>1. /\ succeededRows' = succeededRows \cup {handler[h].row}
        /\ successfulCount' = successfulCount + 1
        /\ runStatus' = IF IsLastSuccess THEN "success" ELSE runStatus
        /\ UNCHANGED <<givenUp, failedCount, suspendedCount, suspendedRows, faults>>
    BY <1>10, MarkSuccessEffect
  <2>2. Suspended' = Suspended
    BY <2>1 DEF Suspended
  <2>3. /\ Cardinality(succeededRows') <= Cardinality(succeededRows) + 1
        /\ Cardinality(succeededRows') \in Nat
    BY <2>1, RowSets, OneMore, FS_CardinalityType
  <2>4. failedCount' > 0 \/ TaskCount <= successfulCount' => runStatus' # "running"
    BY <2>1, TaskCountType DEF Counts, IsLastSuccess, TaskCount
  <2> QED BY <2>1, <2>2, <2>3, <2>4, RowSets DEF Counts
<1>11. ASSUME NEW h \in Handler, NEW t \in Task, AddNext(h, t) PROVE Counts'
  BY <1>1, <1>11, AddNextEffect
<1>12. ASSUME NEW h \in Handler, CheckDone(h) \/ CascadeRead(h) PROVE Counts'
  BY <1>1, <1>12, CheckDoneEffect, CascadeReadEffect
<1>13. ASSUME NEW h \in Handler, RetryAdd(h) \/ RetryClaim(h) \/ RetryIncrement(h) PROVE Counts'
  BY <1>1, <1>13, RetryAddEffect, RetryClaimEffect, RetryIncrementEffect
<1>14. ASSUME NEW h \in Handler, Faulty(h) PROVE Counts'
  BY <1>14, FaultyEffect, CountsKept
<1>15. ASSUME NEW h \in Handler, CascadeWrite(h) PROVE Counts'
  <2> DEFINE todo == handler[h].todo
  <2>1. /\ todo \subseteq Task /\ suspendedCount' = suspendedCount + Cardinality(todo)
        /\ \A t \in Task : suspendedRows'[t] = IF t \in todo THEN suspendedRows[t] + 1
                                               ELSE suspendedRows[t]
        /\ UNCHANGED <<succeededRows, givenUp, successfulCount, failedCount, runStatus, faults>>
    BY <1>15, CascadeWriteEffect, BusyRow DEF SameEnds
  <2> HIDE DEF todo
  <2>2. Suspended' \subseteq Suspended \cup todo
    BY <2>1 DEF Suspended
  <2>3. /\ IsFiniteSet(todo) /\ Cardinality(todo) \in Nat
        /\ IsFiniteSet(Suspended) /\ Cardinality(Suspended) \in Nat
    BY <2>1, SomeTasks DEF Suspended
  <2>4. Cardinality(Suspended') <= Cardinality(Suspended) + Cardinality(todo)
    <3>1. /\ IsFiniteSet(Suspended \cup todo) /\ Cardinality(Suspended \cap todo) \in Nat
          /\ Cardinality(Suspended \cup todo) = Cardinality(Suspended) + Cardinality(todo)
                                                - Cardinality(Suspended \cap todo)
      BY <2>3, FS_Union, FS_Intersection, FS_CardinalityType
    <3>2. /\ Cardinality(Suspended') <= Cardinality(Suspended \cup todo)
          /\ Cardinality(Suspended') \in Nat /\ Cardinality(Suspended \cup todo) \in Nat
      BY <2>2, <3>1, FS_Subset, FS_CardinalityType
    <3> QED BY <2>3, <3>1, <3>2
  <2>5. Cardinality(Suspended') \in Nat
    BY SomeTasks DEF Suspended
  <2> QED BY <2>1, <2>3, <2>4, <2>5 DEF Counts
<1> QED
  BY <1>2, <1>3, <1>4, <1>5, <1>6, <1>8, <1>9, <1>10, <1>11, <1>12, <1>13, <1>14, <1>15
     DEF Next, Advance, Faulty

LEMMA AlwaysCounts ==
    ASSUME Task # {}
    PROVE  Spec => []Counts
<1>1. ASSUME Init PROVE Counts
  <2>1. succeededRows = {} /\ givenUp = {} /\ Suspended = {}
    BY <1>1 DEF Init, Suspended
  <2>2. TaskCount \in Nat /\ TaskCount # 0
    BY TaskCountType, DagAssumption, FS_EmptySet DEF TaskCount
  <2> QED BY <1>1, <2>1, <2>2, FS_EmptySet DEF Counts, Init
<1> QED BY <1>1, NextCounts, AlwaysI, PTL DEF Spec

-----------------------------------------------------------------------------
(* The pods and their events.                                              *)

\* A number that is not that of a row has no pod.  Without repeated events, a
\* pod whose event is waiting has not been deleted.
Present ==
    /\ \A k \in 1..MaxRows : k \notin DOMAIN rows => pods[k].phase = "none"
    /\ redelivered = 0 =>
          \A k \in 1..MaxRows : pods[k].events > 0 \/ pods[k].phase \notin Ends
                                    => pods[k].presence = "present"

LEMMA PresenceStays ==
    ASSUME IInv, NEW k \in DOMAIN rows, StartPod(k) \/ Finalize(k) \/ PodFinishes(k)
    PROVE  pods'[k].presence = pods[k].presence
<1>1. TypeOK /\ k \in 1..MaxRows /\ pods \in [1..MaxRows -> PodRecord]
  BY Domain, TypeParts DEF IInv
<1>2. PICK q \in PodRecord : q = pods[k]
  BY <1>1
<1>3. CASE StartPod(k)
  <2>1. PICK q1 : q1 = [q EXCEPT !.phase = "active"]
    OBVIOUS
  <2>2. pods' = [pods EXCEPT ![k] = q1]
    BY <1>2, <1>3, <2>1 DEF StartPod
  <2>3. q1.presence = q.presence
    BY <2>1, PodFields
  <2> QED BY <1>1, <1>2, <2>2, <2>3
<1>4. CASE Finalize(k)
  <2>1. PICK q1 : q1 = [q EXCEPT !.adopted = TRUE]
    OBVIOUS
  <2>2. pods' = [pods EXCEPT ![k] = q1]
    BY <1>2, <1>4, <2>1 DEF Finalize
  <2>3. q1.presence = q.presence
    BY <2>1, PodFields
  <2> QED BY <1>1, <1>2, <2>2, <2>3
<1>5. CASE PodFinishes(k)
  <2>1. PICK phase \in Ends : pods' = [pods EXCEPT ![k].phase = phase, ![k].events = @ + 1]
    BY <1>5 DEF PodFinishes, Ends
  <2>2. PICK q1 \in PodRecord : q1 = [q EXCEPT !.phase = phase]
    BY PodFields DEF PodRecord, Ends
  <2>3. PICK q2 : q2 = [q1 EXCEPT !.events = q1.events + 1]
    OBVIOUS
  <2>4. pods' = [pods EXCEPT ![k] = q2]
    BY <1>2, <2>1, <2>2, <2>3
  <2>5. q1.presence = q.presence
    BY <2>2, PodFields
  <2>6. q2.presence = q1.presence
    BY <2>3, PodFields
  <2> QED BY <1>1, <1>2, <2>4, <2>5, <2>6
<1> QED BY <1>3, <1>4, <1>5

\* The pods change one at a time, and only those of rows.
LEMMA PodSetPresent ==
    ASSUME IInv, Present, Kept, NEW k \in DOMAIN rows, NEW phase, NEW events, NEW adopted,
           PodSet(k, phase, events, adopted), redelivered' = redelivered,
           redelivered = 0 => (events > 0 \/ phase \notin Ends => pods'[k].presence = "present")
    PROVE  Present'
<1>1. /\ pods'[k].phase = phase /\ pods'[k].events = events
      /\ \A j \in 1..MaxRows : j # k => pods'[j] = pods[j]
  BY DEF PodSet
<1>2. DOMAIN rows \subseteq DOMAIN rows'
  BY DEF Kept
<1>3. ASSUME NEW j \in 1..MaxRows, j \notin DOMAIN rows' PROVE pods'[j].phase = "none"
  BY <1>1, <1>2, <1>3 DEF Present
<1>4. ASSUME redelivered' = 0, NEW j \in 1..MaxRows,
             pods'[j].events > 0 \/ pods'[j].phase \notin Ends
      PROVE  pods'[j].presence = "present"
  <2>1. CASE j = k
    BY <1>1, <1>4, <2>1
  <2>2. CASE j # k
    BY <1>1, <1>4, <2>2 DEF Present
  <2> QED BY <2>1, <2>2
<1> QED BY <1>3, <1>4 DEF Present

LEMMA PodsStayPresent ==
    ASSUME IInv, Present, Kept, pods' = pods, redelivered' = redelivered
    PROVE  Present'
BY DEF Present, Kept

LEMMA NextPresent ==
    ASSUME IInv, Present, CountInv, [Next]_vars
    PROVE  Present'
<1> USE TypeParts
<1>0. /\ Kept /\ DOMAIN rows \subseteq 1..MaxRows
      /\ redelivered = 0 => \A k \in DOMAIN rows : pods[k].events \in Nat /\ pods[k].events <= 1
  BY Keeps, Domain DEF CountInv, EventsOnce, PodRecord
<1>1. CASE pods' = pods /\ redelivered' = redelivered
  BY <1>0, <1>1, PodsStayPresent
<1>2. CASE UNCHANGED vars
  BY <1>1, <1>2 DEF vars
<1>3. ASSUME NEW t \in Task, StartTask(t) PROVE Present'
  BY <1>1, <1>3, StartTaskEffect
<1>4. ASSUME NEW k \in DOMAIN rows, StartPod(k) PROVE Present'
  <2>1. /\ pods[k].phase = "none" /\ redelivered' = redelivered
        /\ PodSet(k, "active", pods[k].events, pods[k].adopted)
    BY <1>4, StartPodEffect
  <2>2. redelivered = 0 => pods'[k].presence = "present"
    BY <1>0, <1>4, <2>1, PresenceStays DEF Present, Ends
  <2> QED BY <1>0, <2>1, <2>2, PodSetPresent
<1>5. ASSUME NEW k \in DOMAIN rows, Finalize(k) PROVE Present'
  <2>1. /\ PodSet(k, pods[k].phase, pods[k].events, TRUE) /\ redelivered' = redelivered
    BY <1>5, FinalizeEffect
  <2>2. redelivered = 0 => (pods[k].events > 0 \/ pods[k].phase \notin Ends
                              => pods'[k].presence = "present")
    BY <1>0, <1>5, PresenceStays DEF Present
  <2> QED BY <1>0, <2>1, <2>2, PodSetPresent
<1>6. ASSUME NEW k \in DOMAIN rows, PodFinishes(k) PROVE Present'
  <2>1. PICK phase \in Ends : PodSet(k, phase, pods[k].events + 1, pods[k].adopted)
    BY <1>6, PodFinishesEffect
  <2>2. pods[k].phase = "active" /\ redelivered' = redelivered
    BY <1>6, PodFinishesEffect
  <2>3. redelivered = 0 => pods'[k].presence = "present"
    BY <1>0, <1>6, <2>2, PresenceStays DEF Present, Ends
  <2> QED BY <1>0, <2>1, <2>2, <2>3, PodSetPresent
<1>7. ASSUME NEW k \in DOMAIN rows, Redeliver(k) PROVE Present'
  <2>1. /\ redelivered' = redelivered + 1
        /\ PodSet(k, pods[k].phase, pods[k].events + 1, pods[k].adopted)
    BY <1>7, RedeliverEffect
  <2>2. redelivered' # 0
    BY <2>1
  <2>3. \A j \in 1..MaxRows : j \notin DOMAIN rows' => pods'[j].phase = "none"
    BY <1>0, <2>1 DEF PodSet, Present, Kept
  <2> QED BY <2>2, <2>3 DEF Present
<1>8. ASSUME NEW k \in DOMAIN rows, PodGone(k) PROVE Present'
  <2>1. /\ PodSet(k, pods[k].phase, pods[k].events, pods[k].adopted)
        /\ redelivered' = redelivered /\ pods[k].presence = "terminating"
    BY <1>8, PodGoneEffect DEF PodGone
  <2>2. redelivered = 0 => ~ (pods[k].events > 0 \/ pods[k].phase \notin Ends)
    BY <1>0, <2>1 DEF Present
  <2> QED BY <1>0, <2>1, <2>2, PodSetPresent
<1>9. ASSUME NEW h \in Handler, NEW k \in DOMAIN rows,
             \/ TakeSucceeded(h, k) \/ TakeFailed(h, k)
             \/ TakeMisconfigured(h, k) \/ TakeMisconfiguredFails(h, k)
      PROVE  Present'
  <2>1. /\ PodSet(k, pods[k].phase, pods[k].events - 1, pods[k].adopted)
        /\ redelivered' = redelivered /\ pods[k].phase \in Ends
    BY <1>9, TakeSucceededEffect, TakeFailedEffect, TakeMisconfiguredEffect,
       TakeMisconfiguredFailsEffect DEF Ends
  <2>2. redelivered = 0 => ~ (pods[k].events - 1 > 0)
    BY <1>0
  <2> QED BY <1>0, <2>1, <2>2, PodSetPresent
<1>10. ASSUME NEW h \in Handler, MarkSuccess(h) PROVE Present'
  BY <1>1, <1>10, MarkSuccessEffect
<1>11. ASSUME NEW h \in Handler, NEW t \in Task, AddNext(h, t) PROVE Present'
  BY <1>1, <1>11, AddNextEffect
<1>12. ASSUME NEW h \in Handler,
              \/ CheckDone(h) \/ RetryAdd(h) \/ RetryClaim(h) \/ RetryIncrement(h)
              \/ MarkFailed(h) \/ CascadeRead(h) \/ CascadeWrite(h) \/ HandlerAborts(h)
              \/ MarkFailedFails(h)
       PROVE  Present'
  BY <1>1, <1>12, CheckDoneEffect, RetryAddEffect, RetryClaimEffect, RetryIncrementEffect,
     MarkFailedEffect, CascadeReadEffect, CascadeWriteEffect, HandlerAbortsEffect,
     MarkFailedFailsEffect
<1> QED
  BY <1>2, <1>3, <1>4, <1>5, <1>6, <1>7, <1>8, <1>9, <1>10, <1>11, <1>12 DEF Next, Advance

LEMMA AlwaysPresent == Spec => []Present
<1>1. Init => Present
  BY DEF Init, Present, NoPod
<1> QED BY <1>1, NextPresent, AlwaysI, AlwaysCount, PTL DEF Spec

-----------------------------------------------------------------------------
(* From the end of a pod to the handler that writes it down.               *)

\* A handler is at one of these steps, for row k.
Works(steps, k) == \E h \in Handler : handler[h].pc \in steps /\ handler[h].row = k

\* The success or the failure of the pod of row k was written down, or its
\* event waits, or a handler has it, or the task was given another row.
TrackedRow(k) ==
    /\ pods[k].phase = "succeeded" =>
          \/ k \in succeededRows \/ pods[k].events > 0
          \/ Works({"markSuccess"}, k)
    /\ pods[k].phase = "failed" =>
          \/ k \in givenUp \/ pods[k].events > 0
          \/ Works({"retryAdd", "markFailed"}, k)
          \/ \E j \in DOMAIN rows : j > k /\ rows[j].task = rows[k].task

\* Without repeated events, configuration errors and handlers that give up, no
\* end of a pod is lost.
Tracked == CountedOnce /\ faults = 0 => \A k \in DOMAIN rows : TrackedRow(k)

LEMMA RedeliveredBefore ==
    ASSUME IInv, [Next]_vars
    PROVE  redelivered' = redelivered \/ redelivered' = redelivered + 1
<1>1. CASE UNCHANGED vars
  BY <1>1 DEF vars
<1>2. ASSUME NEW t \in Task, StartTask(t) PROVE redelivered' = redelivered
  BY <1>2, StartTaskEffect
<1>3. ASSUME NEW k \in DOMAIN rows,
             StartPod(k) \/ Finalize(k) \/ PodFinishes(k) \/ Redeliver(k) \/ PodGone(k)
      PROVE  redelivered' = redelivered \/ redelivered' = redelivered + 1
  BY <1>3, StartPodEffect, FinalizeEffect, PodFinishesEffect, RedeliverEffect, PodGoneEffect
<1>4. ASSUME NEW h \in Handler, Advance(h) PROVE redelivered' = redelivered
  BY <1>4 DEF Advance, TakeSucceeded, TakeFailed, TakeMisconfigured, MarkSuccess, AddNext,
              CheckDone, RetryAdd, RetryClaim, RetryIncrement, MarkFailed, CascadeRead,
              CascadeWrite
<1>5. ASSUME NEW h \in Handler, Faulty(h) PROVE redelivered' = redelivered
  BY <1>5, FaultyEffect
<1> QED BY <1>1, <1>2, <1>3, <1>4, <1>5 DEF Next, Faulty

LEMMA TrackedRowKept ==
    ASSUME Kept, NEW k \in DOMAIN rows, TrackedRow(k),
           k \in succeededRows => k \in succeededRows', k \in givenUp => k \in givenUp',
           pods'[k].phase = pods[k].phase, pods'[k].events = pods[k].events,
           \A h \in Handler :
               handler[h].pc \in {"markSuccess", "retryAdd", "markFailed"} /\ handler[h].row = k
                   => handler'[h] = handler[h]
    PROVE  TrackedRow(k)'
<1>1. Works({"markSuccess"}, k) => Works({"markSuccess"}, k)'
  BY DEF Works
<1>2. Works({"retryAdd", "markFailed"}, k) => Works({"retryAdd", "markFailed"}, k)'
  BY DEF Works
<1>3. (\E j \in DOMAIN rows : j > k /\ rows[j].task = rows[k].task)
        => \E j \in DOMAIN rows' : j > k /\ rows'[j].task = rows'[k].task
  BY DEF Kept
<1> QED BY <1>1, <1>2, <1>3 DEF TrackedRow

\* The handlers stay, or one moves that held no end of a pod.
LEMMA TrackedKept ==
    ASSUME Kept, \A k \in DOMAIN rows : TrackedRow(k), DOMAIN rows' = DOMAIN rows,
           pods' = pods, succeededRows \subseteq succeededRows', givenUp \subseteq givenUp',
           \A h \in Handler : handler[h].pc \in {"markSuccess", "retryAdd", "markFailed"}
                   => handler'[h] = handler[h]
    PROVE  \A k \in DOMAIN rows' : TrackedRow(k)'
BY TrackedRowKept

\* A pod changes, and the handlers that hold the end of another one stay.
LEMMA TrackedPod ==
    ASSUME IInv, Kept, \A j \in DOMAIN rows : TrackedRow(j), DOMAIN rows' = DOMAIN rows,
           NEW k \in DOMAIN rows, TrackedRow(k)',
           \A j \in 1..MaxRows : j # k => pods'[j] = pods[j],
           succeededRows \subseteq succeededRows', givenUp \subseteq givenUp',
           \A h \in Handler : handler[h].pc \in {"markSuccess", "retryAdd", "markFailed"}
                   => handler'[h] = handler[h] \/ handler[h].row = k
    PROVE  \A j \in DOMAIN rows' : TrackedRow(j)'
<1> SUFFICES ASSUME NEW j \in DOMAIN rows, j # k PROVE TrackedRow(j)'
  OBVIOUS
<1>1. j \in 1..MaxRows
  BY Domain DEF IInv
<1>2. pods'[j] = pods[j]
  BY <1>1
<1> QED BY <1>2, TrackedRowKept

\* A row is added, which has no pod.
LEMMA TrackedAdds ==
    ASSUME IInv, Kept, Present, \A j \in DOMAIN rows : TrackedRow(j), NEW t, RowAdded(t),
           pods' = pods, succeededRows \subseteq succeededRows', givenUp \subseteq givenUp', NEW k,
           k \in DOMAIN rows => TrackedRow(k)',
           \A h \in Handler : handler[h].pc \in {"markSuccess", "retryAdd", "markFailed"}
                   => handler'[h] = handler[h] \/ handler[h].row = k
    PROVE  \A j \in DOMAIN rows' : TrackedRow(j)'
<1> SUFFICES ASSUME NEW j \in DOMAIN rows' PROVE TrackedRow(j)'
  OBVIOUS
<1>1. CASE j \in DOMAIN rows /\ j # k
  BY <1>1, TrackedRowKept
<1>2. CASE j \notin DOMAIN rows
  <2>1. j = Len(rows') /\ Len(rows') \in 1..MaxRows
    <3>1. Len(rows) \in Nat /\ MaxRows \in Nat
      BY Domain, Bounds DEF IInv
    <3> QED BY <1>2, <3>1 DEF RowAdded
  <2>2. pods'[j].phase = "none"
    BY <1>2, <2>1 DEF Present
  <2> QED BY <2>2 DEF TrackedRow
<1> QED BY <1>1, <1>2

LEMMA NextTracked ==
    ASSUME IInv, IInv', Present, Tracked, [Next]_vars
    PROVE  Tracked'
<1> SUFFICES ASSUME CountedOnce', faults' = 0
             PROVE  \A k \in DOMAIN rows' : TrackedRow(k)'
  BY DEF Tracked
<1>0. /\ Kept /\ DOMAIN rows \subseteq 1..MaxRows /\ CountedOnce /\ redelivered' = redelivered
      /\ faults = 0 /\ \A h \in Handler : ~ Faulty(h)
      /\ succeededRows \subseteq succeededRows' /\ givenUp \subseteq givenUp'
  BY Keeps, Domain, RedeliveredBefore, CountedOnceBefore, NoFaultBefore, EndsStay, GivenUpStays
     DEF IInv
<1>t. \A k \in DOMAIN rows : TrackedRow(k)
  BY <1>0 DEF Tracked
<1>1. CASE UNCHANGED vars
  BY <1>0, <1>1, <1>t, TrackedKept DEF vars
<1>2. ASSUME NEW t \in Task, StartTask(t) PROVE \A k \in DOMAIN rows' : TrackedRow(k)'
  <2>1. RowAdded(t) /\ pods' = pods /\ handler' = handler
    BY <1>2, StartTaskEffect
  <2>2. 0 \notin DOMAIN rows
    BY <1>0
  <2> QED BY <1>0, <1>t, <2>1, <2>2, TrackedAdds
<1>3. ASSUME NEW k \in DOMAIN rows, StartPod(k) PROVE \A j \in DOMAIN rows' : TrackedRow(j)'
  <2>1. PodSet(k, "active", pods[k].events, pods[k].adopted) /\ rows' = rows /\ handler' = handler
    BY <1>3, StartPodEffect
  <2>2. TrackedRow(k)'
    BY <2>1 DEF PodSet, TrackedRow
  <2> QED BY <1>0, <1>t, <2>1, <2>2, TrackedPod DEF PodSet
<1>4. ASSUME NEW k \in DOMAIN rows, Finalize(k) PROVE \A j \in DOMAIN rows' : TrackedRow(j)'
  <2>1. /\ StatusSet(k, "running") /\ handler' = handler
        /\ PodSet(k, pods[k].phase, pods[k].events, TRUE)
    BY <1>4, FinalizeEffect
  <2>2. TrackedRow(k)'
    BY <1>0, <1>t, <2>1, TrackedRowKept DEF PodSet
  <2> QED BY <1>0, <1>t, <2>1, <2>2, TrackedPod DEF PodSet, StatusSet
<1>5. ASSUME NEW k \in DOMAIN rows, PodFinishes(k) PROVE \A j \in DOMAIN rows' : TrackedRow(j)'
  <2>1. PICK phase \in Ends : PodSet(k, phase, pods[k].events + 1, pods[k].adopted)
    BY <1>5, PodFinishesEffect
  <2>2. rows' = rows /\ handler' = handler
    BY <1>5, PodFinishesEffect
  <2>3. pods'[k].events > 0
    BY <1>0, <2>1, TypeParts DEF PodSet, PodRecord
  <2>4. TrackedRow(k)'
    BY <2>3 DEF TrackedRow
  <2> QED BY <1>0, <1>t, <2>1, <2>2, <2>4, TrackedPod DEF PodSet
<1>6. ASSUME NEW k \in DOMAIN rows, Redeliver(k) PROVE FALSE
  BY <1>0, <1>6, RedeliverEffect, TypeParts
<1>7. ASSUME NEW k \in DOMAIN rows, PodGone(k) PROVE \A j \in DOMAIN rows' : TrackedRow(j)'
  <2>1. /\ PodSet(k, pods[k].phase, pods[k].events, pods[k].adopted)
        /\ rows' = rows /\ handler' = handler
    BY <1>7, PodGoneEffect
  <2>2. TrackedRow(k)'
    BY <1>0, <1>t, <2>1, TrackedRowKept DEF PodSet
  <2> QED BY <1>0, <1>t, <2>1, <2>2, TrackedPod DEF PodSet
<1>8. ASSUME NEW h \in Handler, NEW k \in DOMAIN rows, TakeSucceeded(h, k)
      PROVE  \A j \in DOMAIN rows' : TrackedRow(j)'
  <2>1. /\ handler[h].pc = "free" /\ pods[k].events > 0 /\ pods[k].phase = "succeeded"
        /\ PodSet(k, pods[k].phase, pods[k].events - 1, pods[k].adopted) /\ rows' = rows
    BY <1>8, TakeSucceededEffect
  <2>2. pods[k].presence = "present"
    BY <1>0, <2>1 DEF Present, CountedOnce
  <2>3. Begin(h, k, "markSuccess")
    BY <1>8, <2>2 DEF TakeSucceeded
  <2>4. Moves(h, "markSuccess", k, k, {})
    <3>1. k \in Nat /\ "markSuccess" \in Steps /\ TypeOK
      BY <1>0 DEF Steps, IInv
    <3> QED BY <2>3, <3>1, BeginMoves
  <2>5. TrackedRow(k)'
    BY <2>1, <2>4 DEF TrackedRow, Works, Moves, PodSet
  <2> QED BY <1>0, <1>t, <2>1, <2>4, <2>5, TrackedPod DEF PodSet, Moves
<1>9. ASSUME NEW h \in Handler, NEW k \in DOMAIN rows, TakeFailed(h, k)
      PROVE  \A j \in DOMAIN rows' : TrackedRow(j)'
  <2>1. /\ handler[h].pc = "free" /\ pods[k].phase = "failed" /\ rows' = rows
        /\ PodSet(k, pods[k].phase, pods[k].events - 1, pods[k].adopted)
    BY <1>9, TakeFailedEffect
  <2>2. PICK pc \in {"retryAdd", "markFailed"} : Moves(h, pc, k, k, {})
    BY <1>9, TakeFailedEffect
  <2>3. TrackedRow(k)'
    BY <2>1, <2>2 DEF TrackedRow, Works, Moves, PodSet
  <2> QED BY <1>0, <1>t, <2>1, <2>2, <2>3, TrackedPod DEF PodSet, Moves
<1>10. ASSUME NEW h \in Handler, NEW k \in DOMAIN rows, TakeMisconfigured(h, k) PROVE FALSE
  BY <1>0, <1>10, TakeMisconfiguredEffect DEF CountedOnce
<1>11. ASSUME NEW h \in Handler, MarkSuccess(h) PROVE \A j \in DOMAIN rows' : TrackedRow(j)'
  <2>1. PICK i \in DOMAIN rows : i = handler[h].row /\ handler[h].pod = i
    BY <1>11, BusyRow DEF MarkSuccess, IInv, HandlerOK
  <2>2. PICK next : Moves(h, IF next = {} THEN "checkDone" ELSE "addNext",
                          handler[h].pod, handler[h].row, next)
    BY <1>11, MarkSuccessEffect
  <2>3. /\ StatusSet(i, "success") /\ pods' = pods /\ pods[i].phase = "succeeded"
        /\ i \in succeededRows'
    BY <1>11, <2>1, MarkSuccessEffect DEF IInv, HandlerOK
  <2>4. TrackedRow(i)'
    BY <2>3 DEF StatusSet, TrackedRow
  <2> QED BY <1>0, <1>t, <2>1, <2>2, <2>3, <2>4, TrackedPod DEF StatusSet, Moves
<1>12. ASSUME NEW h \in Handler, NEW t \in Task, AddNext(h, t)
       PROVE  \A j \in DOMAIN rows' : TrackedRow(j)'
  <2>1. RowAdded(t) /\ pods' = pods /\ handler[h].pc = "addNext"
    BY <1>12, AddNextEffect
  <2>2. \A g \in Handler : g # h => handler'[g] = handler[g]
    BY <1>12, AddNextEffect DEF Moves
  <2>3. 0 \notin DOMAIN rows
    BY <1>0
  <2> QED BY <1>0, <1>t, <2>1, <2>2, <2>3, TrackedAdds
<1>13. ASSUME NEW h \in Handler, RetryAdd(h) PROVE \A j \in DOMAIN rows' : TrackedRow(j)'
  <2>1. PICK i \in DOMAIN rows : i = handler[h].row
    BY <1>13, BusyRow DEF RetryAdd
  <2>2. RowAdded(rows[i].task) /\ pods' = pods
    BY <1>13, <2>1, RetryAddEffect
  <2>3. \A g \in Handler : g # h => handler'[g] = handler[g]
    BY <1>13, RetryAddEffect DEF Moves
  <2>4. pods[i].phase = "failed"
    BY <1>13, <2>1 DEF RetryAdd, IInv, HandlerOK
  <2>5. /\ Len(rows') \in DOMAIN rows' /\ Len(rows') > i
        /\ rows'[Len(rows')].task = rows'[i].task
    <3>1. i \in 1..Len(rows) /\ Len(rows) \in Nat
      BY Domain DEF IInv
    <3> QED BY <2>2, <3>1 DEF RowAdded
  <2>6. TrackedRow(i)'
    BY <2>2, <2>4, <2>5 DEF TrackedRow
  <2> QED BY <1>0, <1>t, <2>1, <2>2, <2>3, <2>6, TrackedAdds
<1>14. ASSUME NEW h \in Handler, MarkFailed(h) PROVE \A j \in DOMAIN rows' : TrackedRow(j)'
  <2>1. PICK i \in DOMAIN rows : i = handler[h].row
    BY <1>14, BusyRow DEF MarkFailed
  <2>2. StatusSet(i, "failed") /\ pods' = pods /\ i \in givenUp'
    BY <1>14, <2>1, MarkFailedEffect
  <2>3. \A g \in Handler : g # h => handler'[g] = handler[g]
    BY <1>14, MarkFailedEffect DEF Moves
  <2>4. pods[i].phase # "succeeded"
    BY <1>14, <2>1 DEF MarkFailed, IInv, HandlerOK
  <2>5. TrackedRow(i)'
    BY <2>2, <2>4 DEF StatusSet, TrackedRow
  <2> QED BY <1>0, <1>t, <2>1, <2>2, <2>3, <2>5, TrackedPod DEF StatusSet
<1>15. ASSUME NEW h \in Handler, \/ CheckDone(h) \/ RetryClaim(h) \/ RetryIncrement(h)
                                 \/ CascadeRead(h) \/ CascadeWrite(h)
       PROVE  \A j \in DOMAIN rows' : TrackedRow(j)'
  <2>1. /\ handler[h].pc \notin {"markSuccess", "retryAdd", "markFailed"} /\ pods' = pods
        /\ \A g \in Handler : g # h => handler'[g] = handler[g]
    BY <1>15, CheckDoneEffect, RetryClaimEffect, RetryIncrementEffect, CascadeReadEffect,
       CascadeWriteEffect DEF Moves
  <2>2. DOMAIN rows' = DOMAIN rows
    BY <1>15, CheckDoneEffect, RetryClaimEffect, RetryIncrementEffect, CascadeReadEffect,
       CascadeWriteEffect
  <2> QED BY <1>0, <1>t, <2>1, <2>2, TrackedKept
<1> QED
  BY <1>0, <1>1, <1>2, <1>3, <1>4, <1>5, <1>6, <1>7, <1>8, <1>9, <1>10, <1>11, <1>12, <1>13,
     <1>14, <1>15 DEF Next, Advance, Faulty

LEMMA AlwaysTracked == Spec => []Tracked
<1>1. Init => Tracked
  BY DEF Init, Tracked
<1> QED BY <1>1, NextTracked, AlwaysI, AlwaysPresent, PTL DEF Spec

-----------------------------------------------------------------------------
(* From a row that was given up to the suspension of what comes after.      *)

\* Task t has a row, or the cascade that starts at row k is on its way to it.
Reached(k, t) ==
    \/ TaskRunExists(t)
    \/ Works({"markFailed", "cascadeRead"}, k)
    \/ \E h \in Handler : /\ handler[h].pc = "cascadeWrite" /\ handler[h].row = k
                          /\ t \in handler[h].todo

\* Unless handlers give up, every failure reaches everything downstream.
Cascades ==
    faults = 0 =>
        \A k \in givenUp : \A t \in Downstream(rows[k].task) : Reached(k, t)

LEMMA DownstreamType == \A u : Downstream(u) \subseteq Task
BY DEF Downstream

\* The handlers that cascade stay, or go on to read.
LEMMA CascadesKept ==
    ASSUME IInv, [Next]_vars,
           \A k \in givenUp : \A t \in Downstream(rows[k].task) : Reached(k, t),
           \A k \in givenUp' : k \in givenUp \/ Works({"markFailed", "cascadeRead"}, k)',
           \A h \in Handler :
               handler[h].pc \in {"markFailed", "cascadeRead", "cascadeWrite"} =>
                   \/ handler'[h] = handler[h]
                   \/ handler'[h].pc = "cascadeRead" /\ handler'[h].row = handler[h].row
                        /\ handler[h].pc # "cascadeWrite"
    PROVE  \A k \in givenUp' : \A t \in Downstream(rows'[k].task) : Reached(k, t)'
<1> SUFFICES ASSUME NEW k \in givenUp', NEW t \in Downstream(rows'[k].task)
             PROVE  Reached(k, t)'
  OBVIOUS
<1>1. CASE Works({"markFailed", "cascadeRead"}, k)'
  BY <1>1 DEF Reached
<1>2. CASE k \in givenUp
  <2>1. k \in DOMAIN rows /\ rows'[k].task = rows[k].task /\ t \in Task
    BY <1>2, Keeps, DownstreamType, TypeParts DEF Kept
  <2>2. Reached(k, t)
    BY <1>2, <2>1
  <2>3. CASE TaskRunExists(t)
    BY <2>1, <2>3, ExistsStays DEF Reached
  <2>4. CASE Works({"markFailed", "cascadeRead"}, k)
    <3>1. PICK h \in Handler : /\ handler[h].pc \in {"markFailed", "cascadeRead"}
                               /\ handler[h].row = k
      BY <2>4 DEF Works
    <3>2. handler'[h].pc \in {"markFailed", "cascadeRead"} /\ handler'[h].row = k
      BY <3>1
    <3> QED BY <3>2 DEF Reached, Works
  <2>5. ASSUME NEW h \in Handler, handler[h].pc = "cascadeWrite", handler[h].row = k,
               t \in handler[h].todo
        PROVE  Reached(k, t)'
    BY <2>5 DEF Reached
  <2> QED BY <2>2, <2>3, <2>4, <2>5 DEF Reached
<1> QED BY <1>1, <1>2

LEMMA NextCascades ==
    ASSUME IInv, Cascades, [Next]_vars
    PROVE  Cascades'
<1> DEFINE Goal == \A k \in givenUp' : \A t \in Downstream(rows'[k].task) : Reached(k, t)'
<1> SUFFICES ASSUME faults' = 0 PROVE Goal
  BY DEF Cascades
<1>0. /\ \A h \in Handler : ~ Faulty(h)
      /\ \A k \in givenUp : \A t \in Downstream(rows[k].task) : Reached(k, t)
  BY NoFaultBefore DEF Cascades
<1>k. ASSUME givenUp' \subseteq givenUp,
             \A h \in Handler :
                 handler[h].pc \in {"markFailed", "cascadeRead", "cascadeWrite"} =>
                     handler'[h] = handler[h]
      PROVE  Goal
  BY <1>0, <1>k, CascadesKept
<1> HIDE DEF Goal
<1>s. ASSUME SameEnds PROVE givenUp' \subseteq givenUp
  BY <1>s DEF SameEnds
<1>1. CASE UNCHANGED vars
  BY <1>1, <1>k DEF vars, counters
<1>2. ASSUME NEW t \in Task, StartTask(t) PROVE Goal
  BY <1>2, <1>k, <1>s, StartTaskEffect
<1>3. ASSUME NEW k \in DOMAIN rows, StartPod(k) \/ PodFinishes(k) \/ Redeliver(k) \/ PodGone(k)
      PROVE  Goal
  BY <1>3, <1>k, <1>s, StartPodEffect, PodFinishesEffect, RedeliverEffect, PodGoneEffect
<1>4. ASSUME NEW k \in DOMAIN rows, Finalize(k) PROVE Goal
  BY <1>4, <1>k, FinalizeEffect
<1>5. ASSUME NEW h \in Handler, NEW k \in DOMAIN rows, TakeSucceeded(h, k) \/ TakeFailed(h, k)
      PROVE  Goal
  <2>1. handler[h].pc = "free" /\ SameEnds
    BY <1>5, TakeSucceededEffect, TakeFailedEffect
  <2>2. \A g \in Handler : g # h => handler'[g] = handler[g]
    BY <1>5, TakeSucceededEffect, TakeFailedEffect DEF Moves
  <2> QED BY <1>k, <1>s, <2>1, <2>2
<1>6. ASSUME NEW h \in Handler, NEW k \in DOMAIN rows, TakeMisconfigured(h, k) PROVE Goal
  <2>1. /\ handler[h].pc = "free" /\ givenUp' = givenUp \cup {k}
        /\ Moves(h, "markFailed", k, k, {})
    BY <1>6, TakeMisconfiguredEffect
  <2>2. Works({"markFailed", "cascadeRead"}, k)'
    BY <2>1 DEF Works, Moves
  <2>3. \A j \in givenUp' : j \in givenUp \/ j = k
    BY <2>1
  <2> QED BY <1>0, <2>1, <2>2, <2>3, CascadesKept DEF Moves, Goal
<1>7. ASSUME NEW h \in Handler, MarkSuccess(h) PROVE Goal
  <2>1. givenUp' \subseteq givenUp /\ handler[h].pc = "markSuccess"
    BY <1>7, MarkSuccessEffect
  <2>2. \A g \in Handler : g # h => handler'[g] = handler[g]
    BY <1>7, MarkSuccessEffect DEF Moves
  <2> QED BY <1>k, <2>1, <2>2
<1>8. ASSUME NEW h \in Handler, NEW t \in Task, AddNext(h, t) PROVE Goal
  <2>1. handler[h].pc = "addNext" /\ givenUp' \subseteq givenUp
    BY <1>8, AddNextEffect DEF SameEnds
  <2>2. \A g \in Handler : g # h => handler'[g] = handler[g]
    BY <1>8, AddNextEffect DEF Moves
  <2> QED BY <1>k, <2>1, <2>2
<1>9. ASSUME NEW h \in Handler, CheckDone(h) \/ RetryClaim(h) PROVE Goal
  <2>1. /\ handler[h].pc \in {"checkDone", "retryClaim"} /\ SameEnds
        /\ \A g \in Handler : g # h => handler'[g] = handler[g]
    BY <1>9, CheckDoneEffect, RetryClaimEffect DEF Moves
  <2> QED BY <1>k, <1>s, <2>1
<1>10. ASSUME NEW h \in Handler, RetryAdd(h) \/ RetryIncrement(h) PROVE Goal
  <2>1. givenUp' \subseteq givenUp
    BY <1>10, RetryAddEffect, RetryIncrementEffect DEF SameEnds
  <2>2. /\ handler[h].pc \in {"retryAdd", "retryIncrement"}
        /\ \A g \in Handler : g # h => handler'[g] = handler[g]
    BY <1>10, RetryAddEffect, RetryIncrementEffect DEF Moves
  <2> QED BY <1>k, <2>1, <2>2
<1>11. ASSUME NEW h \in Handler, MarkFailed(h) PROVE Goal
  <2>1. /\ handler[h].pc = "markFailed" /\ givenUp' = givenUp \cup {handler[h].row}
        /\ Moves(h, "cascadeRead", handler[h].pod, handler[h].row, handler[h].todo)
    BY <1>11, MarkFailedEffect
  <2>2. Works({"markFailed", "cascadeRead"}, handler[h].row)'
    BY <2>1 DEF Works, Moves
  <2>3. \A j \in givenUp' : j \in givenUp \/ j = handler[h].row
    BY <2>1
  <2> QED BY <1>0, <2>1, <2>2, <2>3, CascadesKept DEF Moves, Goal
<1>12. ASSUME NEW h \in Handler, CascadeRead(h) PROVE Goal
  <2>1. PICK todo \in SUBSET Task :
            /\ todo = {t \in Downstream(rows[handler[h].row].task) : ~ TaskRunExists(t)}
            /\ Moves(h, IF todo = {} THEN "checkDone" ELSE "cascadeWrite",
                     handler[h].pod, handler[h].row, todo)
    BY <1>12, CascadeReadEffect
  <2>2. rows' = rows /\ suspendedRows' = suspendedRows /\ givenUp' = givenUp
    BY <1>12, CascadeReadEffect DEF SameEnds
  <2> SUFFICES ASSUME NEW k \in givenUp, NEW t \in Downstream(rows[k].task)
               PROVE  Reached(k, t)'
    BY <2>2 DEF Goal
  <2>3. CASE TaskRunExists(t)
    BY <2>2, <2>3 DEF Reached, TaskRunExists
  <2>4. CASE k = handler[h].row /\ ~ TaskRunExists(t)
    <3>1. t \in todo
      BY <2>1, <2>4
    <3> QED BY <2>1, <2>4, <3>1 DEF Reached, Moves
  <2>5. CASE k # handler[h].row /\ ~ TaskRunExists(t)
    <3>1. Reached(k, t)
      BY <1>0
    <3>2. \A g \in Handler : handler[g].row = k => handler'[g] = handler[g]
      BY <2>1, <2>5 DEF Moves
    <3> QED BY <2>5, <3>1, <3>2 DEF Reached, Works
  <2> QED BY <2>3, <2>4, <2>5
<1>13. ASSUME NEW h \in Handler, CascadeWrite(h) PROVE Goal
  <2>1. /\ rows' = rows /\ handler[h].pc = "cascadeWrite" /\ givenUp' = givenUp
        /\ \A t \in Task : suspendedRows'[t] = IF t \in handler[h].todo THEN suspendedRows[t] + 1
                                               ELSE suspendedRows[t]
        /\ \A g \in Handler : g # h => handler'[g] = handler[g]
    BY <1>13, CascadeWriteEffect DEF Moves, SameEnds
  <2> SUFFICES ASSUME NEW k \in givenUp, NEW t \in Downstream(rows[k].task)
               PROVE  Reached(k, t)'
    BY <2>1 DEF Goal
  <2>2. t \in Task /\ suspendedRows[t] \in Nat
    BY DownstreamType, TypeParts
  <2>3. CASE TaskRunExists(t)
    BY <2>2, <2>3, ExistsStays DEF Reached
  <2>4. CASE t \in handler[h].todo
    BY <2>1, <2>2, <2>4 DEF Reached, TaskRunExists
  <2>5. CASE ~ TaskRunExists(t) /\ t \notin handler[h].todo
    <3>1. Reached(k, t)
      BY <1>0
    <3> QED BY <2>1, <2>5, <3>1 DEF Reached, Works
  <2> QED BY <2>3, <2>4, <2>5
<1> QED
  BY <1>0, <1>1, <1>2, <1>3, <1>4, <1>5, <1>6, <1>7, <1>8, <1>9, <1>10, <1>11, <1>12, <1>13
     DEF Next, Advance, Faulty

LEMMA AlwaysCascades == Spec => []Cascades
<1>1. Init => Cascades
  BY DEF Init, Cascades
<1> QED BY <1>1, NextCascades, AlwaysI, PTL DEF Spec

-----------------------------------------------------------------------------
(* What Finalize may make of an end.                                       *)

\* The status of a row that has ended says so, or Finalize came too late and
\* has overwritten it.
Written ==
    /\ \A k \in succeededRows : rows[k].status \in {"success", "running"}
    /\ faults = 0 => \A k \in givenUp : rows[k].status \in {"failed", "running"}

LEMMA WrittenKept ==
    ASSUME IInv, Written, SameEnds, faults' = faults,
           \A k \in DOMAIN rows : rows'[k].status = rows[k].status
    PROVE  Written'
BY TypeParts DEF Written, SameEnds

LEMMA NextWritten ==
    ASSUME IInv, Written, [Next]_vars
    PROVE  Written'
<1> USE TypeParts
<1>0. /\ succeededRows \subseteq DOMAIN rows /\ givenUp \subseteq DOMAIN rows
      /\ \A k \in succeededRows : pods[k].phase = "succeeded"
      /\ \A k \in givenUp : pods[k].phase \in {"failed", "misconfigured"}
  BY DEF IInv, StatusOK, RowOK
<1>1. CASE UNCHANGED vars
  BY <1>1, WrittenKept DEF vars, counters, SameEnds
<1>2. ASSUME NEW t \in Task, StartTask(t) PROVE Written'
  BY <1>2, StartTaskEffect, WrittenKept DEF RowAdded
<1>3. ASSUME NEW k \in DOMAIN rows, StartPod(k) \/ PodFinishes(k) \/ Redeliver(k) \/ PodGone(k)
      PROVE  Written'
  BY <1>3, StartPodEffect, PodFinishesEffect, RedeliverEffect, PodGoneEffect, WrittenKept
<1>4. ASSUME NEW k \in DOMAIN rows, Finalize(k) PROVE Written'
  <2>1. StatusSet(k, "running") /\ UNCHANGED <<succeededRows, givenUp, faults>>
    BY <1>4, FinalizeEffect
  <2> QED BY <1>0, <2>1 DEF Written, StatusSet
<1>5. ASSUME NEW h \in Handler, NEW k \in DOMAIN rows, TakeSucceeded(h, k) \/ TakeFailed(h, k)
      PROVE  Written'
  BY <1>5, TakeSucceededEffect, TakeFailedEffect, WrittenKept
<1>6. ASSUME NEW i \in DOMAIN rows, pods[i].phase \in {"failed", "misconfigured"},
             StatusSet(i, "failed"), givenUp' = givenUp \cup {i},
             UNCHANGED <<succeededRows, faults>>
      PROVE  Written'
  BY <1>0, <1>6 DEF Written, StatusSet
<1>7. ASSUME NEW h \in Handler, NEW k \in DOMAIN rows, TakeMisconfigured(h, k) PROVE Written'
  BY <1>6, <1>7, TakeMisconfiguredEffect
<1>8. ASSUME NEW h \in Handler, MarkFailed(h) PROVE Written'
  <2>1. PICK i \in DOMAIN rows : i = handler[h].row
    BY <1>8, BusyRow DEF MarkFailed
  <2>2. pods[i].phase \in {"failed", "misconfigured"}
    BY <1>8, <2>1 DEF MarkFailed, IInv, HandlerOK
  <2> QED BY <1>6, <1>8, <2>1, <2>2, MarkFailedEffect
<1>9. ASSUME NEW h \in Handler, MarkSuccess(h) PROVE Written'
  <2>1. PICK i \in DOMAIN rows : i = handler[h].row /\ handler[h].pod = i
    BY <1>9, BusyRow DEF MarkSuccess, IInv, HandlerOK
  <2>2. /\ StatusSet(i, "success") /\ succeededRows' = succeededRows \cup {i}
        /\ UNCHANGED <<givenUp, faults>>
    BY <1>9, <2>1, MarkSuccessEffect
  <2>3. pods[i].phase = "succeeded"
    BY <1>9, <2>1 DEF MarkSuccess, IInv, HandlerOK
  <2> QED BY <1>0, <2>1, <2>2, <2>3 DEF Written, StatusSet
<1>10. ASSUME NEW h \in Handler, NEW t \in Task, AddNext(h, t) PROVE Written'
  BY <1>10, AddNextEffect, WrittenKept DEF RowAdded
<1>11. ASSUME NEW h \in Handler, RetryAdd(h) \/ RetryClaim(h) \/ RetryIncrement(h) PROVE Written'
  BY <1>11, RetryAddEffect, RetryClaimEffect, RetryIncrementEffect, WrittenKept DEF RowAdded
<1>12. ASSUME NEW h \in Handler, CheckDone(h) \/ CascadeRead(h) \/ CascadeWrite(h) PROVE Written'
  BY <1>12, CheckDoneEffect, CascadeReadEffect, CascadeWriteEffect, WrittenKept
<1>13. ASSUME NEW h \in Handler, Faulty(h) PROVE Written'
  <2>1. rows' = rows /\ succeededRows' = succeededRows /\ faults' # 0
    BY <1>13, FaultyEffect
  <2> QED BY <2>1 DEF Written
<1> QED
  BY <1>1, <1>2, <1>3, <1>4, <1>5, <1>7, <1>8, <1>9, <1>10, <1>11, <1>12, <1>13
     DEF Next, Advance, Faulty

LEMMA AlwaysWritten == Spec => []Written
<1>1. Init => Written
  BY DEF Init, Written
<1> QED BY <1>1, NextWritten, AlwaysI, PTL DEF Spec

-----------------------------------------------------------------------------
(* From the success of a row to the start of what waited for it.           *)

\* A handler is about to start t.
Due(t) == \E h \in Handler : handler[h].pc = "addNext" /\ t \in handler[h].todo

AllDepsSucceeded(t) ==
    Deps[t] # {} /\ \A d \in Deps[t] : \E k \in succeededRows : rows[k].task = d

\* Unless handlers give up, successes are counted twice or overwritten, or ids
\* are confused, a task whose dependencies have all succeeded has a row or gets
\* one.
Chosen ==
    redelivered = 0 /\ faults = 0 /\ NoTwins /\ overwritten = {} /\ IdsApart =>
        \A t \in Task : AllDepsSucceeded(t) => TaskRunExists(t) \/ Due(t)

\* A count of the successes of different tasks that has found each dependency.
LEMMA MetAll ==
    ASSUME NEW rs, IsFiniteSet(DOMAIN rs), NEW t \in Task,
           \A k \in DOMAIN rs : rs[k].task # t,
           \A d \in Deps[t] : \E k \in DOMAIN rs : rs[k].task = d /\ rs[k].status = "success",
           \A j, k \in DOMAIN rs : rs[j].task = rs[k].task /\ rs[j].status = "success"
                                      /\ rs[k].status = "success" => j = k
    PROVE  MetDependencies(rs, t) = Cardinality(Deps[t])
<1> DEFINE S == {k \in DOMAIN rs : rs[k].task \in Deps[t] /\ rs[k].status = "success"}
           f == [k \in S |-> rs[k].task]
<1>1. MetDependencies(rs, t) = Cardinality(S)
  BY DEF MetDependencies
<1>2. IsFiniteSet(S)
  BY FS_Subset
<1>3. f \in Surjection(S, Deps[t]) /\ f \in Injection(S, Deps[t])
  BY DEF Surjection, Injection, IsInjective
<1>4. Cardinality(S) = Cardinality(Deps[t])
  <2> HIDE DEF S, f
  <2> QED BY <1>2, <1>3, FS_Surjection
<1> QED BY <1>1, <1>4

\* A step that starts nothing and brings no success.
LEMMA ChosenKept ==
    ASSUME IInv, [Next]_vars, NEW t \in Task, AllDepsSucceeded(t)',
           AllDepsSucceeded(t) => TaskRunExists(t) \/ Due(t),
           succeededRows' \subseteq succeededRows,
           \A h \in Handler : handler[h].pc = "addNext" => handler'[h] = handler[h]
    PROVE  TaskRunExists(t)' \/ Due(t)'
<1>1. AllDepsSucceeded(t)
  <2>1. \A k \in succeededRows : rows'[k].task = rows[k].task
    BY Keeps, TypeParts DEF Kept
  <2> QED BY <2>1 DEF AllDepsSucceeded
<1>2. CASE TaskRunExists(t)
  BY <1>2, ExistsStays
<1>3. CASE Due(t)
  BY <1>3 DEF Due
<1> QED BY <1>1, <1>2, <1>3

LEMMA AddNextDue ==
    ASSUME IInv, NEW h \in Handler, NEW t \in Task, AddNext(h, t), NEW u \in Task,
           u \in handler[h].todo, u # t
    PROVE  handler'[h].pc = "addNext" /\ u \in handler'[h].todo
<1>1. handler[h].pc = "addNext" /\ handler' = [handler EXCEPT ![h].todo = @ \ {t}]
  BY DEF AddNext
<1>2. TypeOK /\ handler[h].todo \ {t} \in SUBSET Task /\ "addNext" \in Steps
  BY HandlerType DEF IInv, Steps
<1>3. Moves(h, handler[h].pc, handler[h].pod, handler[h].row, handler[h].todo \ {t})
  <2>1. PICK todo \in SUBSET Task : todo = handler[h].todo \ {t}
    BY <1>2
  <2>2. handler' = [handler EXCEPT ![h].todo = todo]
    BY <1>1, <2>1
  <2>3. Moves(h, handler[h].pc, handler[h].pod, handler[h].row, todo)
    BY <1>2, <2>2, GoOnMoves
  <2> QED BY <2>1, <2>3
<1> QED BY <1>1, <1>3 DEF Moves

\* The success that was missing.
LEMMA MarkSuccessChooses ==
    ASSUME IInv, IInv', CountInv, NoTwins', redelivered = 0, IdsApart, overwritten' = {},
           [Next]_vars, NEW h \in Handler, MarkSuccess(h), NEW t \in Task, AllDepsSucceeded(t)',
           ~ TaskRunExists(t)'
    PROVE  Due(t)'
<1> USE TypeParts
<1>0. Kept /\ NoTwins
  BY Keeps, TwinsStay
<1>1. PICK i \in DOMAIN rows : i = handler[h].row /\ handler[h].pod = i
  BY BusyRow DEF MarkSuccess, IInv, HandlerOK
<1>2. PICK next \in SUBSET Task :
         /\ next = IF IsLastSuccess THEN {} ELSE RunnableTasks(rows', handler[h].row)
         /\ Moves(h, IF next = {} THEN "checkDone" ELSE "addNext",
                  handler[h].pod, handler[h].row, next)
  BY MarkSuccessEffect
<1>3. \A k \in DOMAIN rows' : rows'[k].task # t
  BY DEF TaskRunExists
<1>4. ~ IsLastSuccess
  <2> SUFFICES ASSUME IsLastSuccess PROVE FALSE
    OBVIOUS
  <2> DEFINE S == Counted \cup {i}
  <2>1. Counted \subseteq DOMAIN rows /\ i \notin Counted
    BY <1>1 DEF Counted, MarkSuccess
  <2>2. S \subseteq DOMAIN rows /\ \A k \in S : pods[k].phase = "succeeded"
    BY <1>1, <2>1 DEF Counted, IInv, HandlerOK, MarkSuccess
  <2>3. IsFiniteSet(Counted) /\ Cardinality(Counted) \in Nat
        /\ Cardinality(S) = Cardinality(Counted) + 1
    BY <2>1, SomeRows, FS_AddElement
  <2>4. TaskCount = successfulCount + 1 /\ successfulCount <= Cardinality(Counted)
    BY DEF IsLastSuccess, TaskCount, CountInv
  <2>5. TaskCount <= Cardinality(S)
    BY <2>3, <2>4
  <2>6. Succeeded(t)
    <3> HIDE DEF S
    <3> QED BY <1>0, <2>2, <2>5, NoTwinsBound
  <2> QED BY <1>0, <1>3, <2>6 DEF Succeeded, Kept
<1>5. MetDependencies(rows', t) = Cardinality(Deps[t])
  <2>1. IsFiniteSet(DOMAIN rows')
    <3>1. StatusSet(handler[h].row, "success")
      BY MarkSuccessEffect
    <3>2. DOMAIN rows' = DOMAIN rows
      BY <3>1 DEF StatusSet
    <3> QED BY <3>2, SomeRows
  <2>2. \A d \in Deps[t] : \E k \in DOMAIN rows' : rows'[k].task = d /\ rows'[k].status = "success"
    <3>1. \A k \in succeededRows' : k \in DOMAIN rows' /\ rows'[k].status = "success"
      BY DEF IInv, TypeOK, StatusOK, RowOK
    <3> QED BY <3>1 DEF AllDepsSucceeded
  <2>3. \A j, k \in DOMAIN rows' : rows'[j].task = rows'[k].task /\ rows'[j].status = "success"
                                      /\ rows'[k].status = "success" => j = k
    BY DEF NoTwins, IInv, StatusOK, RowOK
  <2> QED BY <1>3, <2>1, <2>2, <2>3, MetAll
<1>6. ~ RunHasRow(rows', i, t)
  BY <1>1 DEF RunHasRow, IdsApart
<1>7. t \in next
  BY <1>1, <1>2, <1>4, <1>5, <1>6 DEF RunnableTasks, AllDepsSucceeded
<1> QED BY <1>2, <1>7 DEF Due, Moves

LEMMA NextChosen ==
    ASSUME IInv, IInv', CountInv, Chosen, [Next]_vars
    PROVE  Chosen'
<1> SUFFICES ASSUME redelivered' = 0, faults' = 0, NoTwins', overwritten' = {}, IdsApart',
                    NEW t \in Task, AllDepsSucceeded(t)'
             PROVE  TaskRunExists(t)' \/ Due(t)'
  BY DEF Chosen
<1> DEFINE Goal == TaskRunExists(t)' \/ Due(t)'
<1>0. /\ redelivered = 0 /\ faults = 0 /\ NoTwins /\ Kept /\ overwritten = {} /\ IdsApart
      /\ \A h \in Handler : ~ Faulty(h)
  <2>1. redelivered \in Nat
    BY TypeParts
  <2>2. Kept
    BY Keeps
  <2>3. IdsApart
    BY <2>2 DEF Kept, IdsApart
  <2> QED BY <2>1, <2>2, <2>3, RedeliveredBefore, NoFaultBefore, TwinsStay, EndsStay
<1>1. AllDepsSucceeded(t) => TaskRunExists(t) \/ Due(t)
  BY <1>0 DEF Chosen
<1>k. ASSUME succeededRows' \subseteq succeededRows,
             \A h \in Handler : handler[h].pc = "addNext" => handler'[h] = handler[h]
      PROVE  Goal
  BY <1>1, <1>k, ChosenKept
<1> HIDE DEF Goal
<1>s. ASSUME SameEnds PROVE succeededRows' \subseteq succeededRows
  BY <1>s DEF SameEnds
<1>2. ASSUME UNCHANGED vars PROVE Goal
  BY <1>2, <1>k DEF vars, counters
<1>3. ASSUME NEW u \in Task, StartTask(u) PROVE Goal
  BY <1>3, <1>k, <1>s, StartTaskEffect
<1>4. ASSUME NEW k \in DOMAIN rows, StartPod(k) \/ PodFinishes(k) \/ Redeliver(k) \/ PodGone(k)
      PROVE  Goal
  BY <1>4, <1>k, <1>s, StartPodEffect, PodFinishesEffect, RedeliverEffect, PodGoneEffect
<1>5. ASSUME NEW k \in DOMAIN rows, Finalize(k) PROVE Goal
  BY <1>5, <1>k, FinalizeEffect
<1>6. ASSUME NEW h \in Handler, NEW k \in DOMAIN rows, TakeSucceeded(h, k) \/ TakeFailed(h, k)
      PROVE  Goal
  <2>1. handler[h].pc = "free" /\ SameEnds
    BY <1>6, TakeSucceededEffect, TakeFailedEffect
  <2>2. \A g \in Handler : g # h => handler'[g] = handler[g]
    BY <1>6, TakeSucceededEffect, TakeFailedEffect DEF Moves
  <2> QED BY <1>k, <1>s, <2>1, <2>2
<1>7. ASSUME NEW h \in Handler, NEW k \in DOMAIN rows, TakeMisconfigured(h, k) PROVE Goal
  <2>1. /\ handler[h].pc = "free" /\ succeededRows' \subseteq succeededRows
        /\ Moves(h, "markFailed", k, k, {})
    BY <1>7, TakeMisconfiguredEffect
  <2> QED BY <1>k, <2>1 DEF Moves
<1>8. ASSUME NEW h \in Handler, MarkSuccess(h) PROVE Goal
  BY <1>0, <1>8, MarkSuccessChooses DEF Goal
<1>9. ASSUME NEW h \in Handler, NEW u \in Task, AddNext(h, u) PROVE Goal
  <2>1. handler[h].pc = "addNext" /\ RowAdded(u)
    BY <1>9, AddNextEffect
  <2>2. \A g \in Handler : g # h => handler'[g] = handler[g]
    BY <1>9, AddNextEffect DEF Moves
  <2>3. succeededRows' \subseteq succeededRows
    BY <1>9, AddNextEffect DEF SameEnds
  <2>4. CASE u = t
    BY <2>1, <2>4 DEF Goal, TaskRunExists, RowAdded
  <2>5. CASE u # t
    <3>1. AllDepsSucceeded(t)
      <4>1. \A k \in succeededRows : rows'[k].task = rows[k].task
        BY <1>0, TypeParts DEF Kept
      <4> QED BY <2>3, <4>1 DEF AllDepsSucceeded
    <3>2. CASE TaskRunExists(t)
      BY <3>2, ExistsStays DEF Goal
    <3>3. ASSUME NEW g \in Handler, handler[g].pc = "addNext", t \in handler[g].todo PROVE Due(t)'
      <4>1. CASE g = h
        BY <1>9, <2>5, <3>3, <4>1, AddNextDue DEF Due
      <4>2. CASE g # h
        BY <2>2, <3>3, <4>2 DEF Due
      <4> QED BY <4>1, <4>2
    <3> QED BY <1>1, <3>1, <3>2, <3>3 DEF Goal, Due
  <2> QED BY <2>4, <2>5
<1>10. ASSUME NEW h \in Handler,
              CheckDone(h) \/ RetryClaim(h) \/ CascadeRead(h) \/ CascadeWrite(h) PROVE Goal
  <2>1. /\ handler[h].pc \in {"checkDone", "retryClaim", "cascadeRead", "cascadeWrite"}
        /\ SameEnds /\ \A g \in Handler : g # h => handler'[g] = handler[g]
    BY <1>10, CheckDoneEffect, RetryClaimEffect, CascadeReadEffect, CascadeWriteEffect DEF Moves
  <2> QED BY <1>k, <1>s, <2>1
<1>11. ASSUME NEW h \in Handler, RetryAdd(h) \/ RetryIncrement(h) PROVE Goal
  <2>1. succeededRows' \subseteq succeededRows
    BY <1>11, RetryAddEffect, RetryIncrementEffect DEF SameEnds
  <2>2. /\ handler[h].pc \in {"retryAdd", "retryIncrement"}
        /\ \A g \in Handler : g # h => handler'[g] = handler[g]
    BY <1>11, RetryAddEffect, RetryIncrementEffect DEF Moves
  <2> QED BY <1>k, <2>1, <2>2
<1>12. ASSUME NEW h \in Handler, MarkFailed(h) PROVE Goal
  <2>1. /\ handler[h].pc = "markFailed" /\ succeededRows' \subseteq succeededRows
        /\ Moves(h, "cascadeRead", handler[h].pod, handler[h].row, handler[h].todo)
    BY <1>12, MarkFailedEffect
  <2> QED BY <1>k, <2>1 DEF Moves
<1> QED
  BY <1>0, <1>2, <1>3, <1>4, <1>5, <1>6, <1>7, <1>8, <1>9, <1>10, <1>11, <1>12
     DEF Next, Advance, Goal, Faulty

LEMMA AlwaysChosen == Spec => []Chosen
<1>1. Init => Chosen
  BY DEF Init, Chosen, AllDepsSucceeded
<1> QED BY <1>1, NextChosen, AlwaysI, AlwaysCount, PTL DEF Spec

-----------------------------------------------------------------------------
(* The counters never exceed the number of tasks.                          *)

\* A suspended task is downstream of a failure, and has no other row.
LEMMA EndsSuspendedWaits ==
    ASSUME IInv, OrderInv, SuspendInv, EndsOnce
    PROVE  SuspendedNeverRuns
<1> SUFFICES ASSUME NEW i \in DOMAIN rows, suspendedRows[rows[i].task] # 0
             PROVE  FALSE
  BY DEF SuspendedNeverRuns
<1>1. rows[i].task \in Task /\ suspendedRows[rows[i].task] > 0
  BY Domain, TypeParts DEF IInv, Row
<1>2. PICK k \in givenUp : rows[i].task \in Downstream(rows[k].task)
  BY <1>1 DEF SuspendInv
<1>3. k \in DOMAIN rows /\ pods[k].phase \in {"failed", "misconfigured"}
  BY <1>2, TypeParts DEF IInv, StatusOK, RowOK
<1>4. ~ Succeeded(rows[k].task)
  BY <1>2, <1>3 DEF Succeeded, EndsOnce, Ended
<1>5. DependencyOrder
  BY EndsNoTwins DEF OrderInv
<1> QED
  BY <1>2, <1>4, <1>5, DownstreamWaits

\* Rows of different tasks and other tasks are together at most all tasks.
LEMMA SumBound ==
    ASSUME IInv, NEW S, S \subseteq DOMAIN rows,
           \A j, k \in S : rows[j].task = rows[k].task => j = k,
           NEW W, W \subseteq Task, \A k \in S : rows[k].task \notin W
    PROVE  Cardinality(S) + Cardinality(W) <= TaskCount
<1> DEFINE tasks == {rows[k].task : k \in S}
           f == [k \in S |-> rows[k].task]
<1>1. tasks \subseteq Task
  BY Domain DEF IInv, Row
<1>2. f \in Surjection(S, tasks) /\ f \in Injection(S, tasks)
  BY DEF Surjection, Injection, IsInjective
<1>3. IsFiniteSet(S) /\ Cardinality(S) \in Nat
  BY SomeRows
<1>4. tasks \cap W = {}
  OBVIOUS
<1> HIDE DEF f, tasks
<1>5. Cardinality(tasks) = Cardinality(S)
  BY <1>2, <1>3, FS_Surjection
<1>6. /\ IsFiniteSet(tasks) /\ Cardinality(tasks) \in Nat
      /\ IsFiniteSet(W) /\ Cardinality(W) \in Nat
  BY <1>1, SomeTasks
<1>7. Cardinality(tasks \cup W) = Cardinality(tasks) + Cardinality(W)
  <2>1. Cardinality(tasks \cup W)
          = Cardinality(tasks) + Cardinality(W) - Cardinality(tasks \cap W)
    BY <1>6, FS_Union
  <2>2. Cardinality(tasks \cap W) = 0
    BY <1>4, FS_EmptySet
  <2> QED BY <1>6, <2>1, <2>2
<1>8. Cardinality(tasks \cup W) <= TaskCount
  <2>1. tasks \cup W \in SUBSET Task
    BY <1>1
  <2> QED BY <2>1, DagAssumption, FS_Subset DEF TaskCount
<1> QED BY <1>3, <1>5, <1>6, <1>7, <1>8, TaskCountType

\* The sum of two disjoint sets of rows.
LEMMA RowsApart ==
    ASSUME IInv, NEW S, NEW T, S \subseteq DOMAIN rows, T \subseteq DOMAIN rows, S \cap T = {}
    PROVE  /\ Cardinality(S) \in Nat /\ Cardinality(T) \in Nat
           /\ Cardinality(S \cup T) = Cardinality(S) + Cardinality(T)
<1>1. /\ IsFiniteSet(S) /\ Cardinality(S) \in Nat
      /\ IsFiniteSet(T) /\ Cardinality(T) \in Nat
  BY SomeRows
<1>2. Cardinality(S \cup T) = Cardinality(S) + Cardinality(T) - Cardinality(S \cap T)
  BY <1>1, FS_Union
<1>3. Cardinality(S \cap T) = 0
  BY FS_EmptySet
<1> QED BY <1>1, <1>2, <1>3

\* A task whose dependencies have all succeeded is not downstream of one that
\* has not.
LEMMA DueNotDownstream ==
    ASSUME DependencyOrder, NEW f, ~ Succeeded(f), NEW t \in Task,
           \A d \in Deps[t] : Succeeded(d)
    PROVE  t \notin Downstream(f)
<1> DEFINE D == {v \in Task : \E d \in Deps[v] : ~ Succeeded(d)}
<1>1. \A v \in D : ~ Succeeded(v)
  BY DEF DependencyOrder, Succeeded
<1>2. \A v \in Task : Deps[v] \cap (D \cup {f}) # {} => v \in D
  BY <1>1
<1>3. D \in SUBSET Task /\ t \notin D
  OBVIOUS
<1> QED BY <1>2, <1>3 DEF Downstream

\* The counters have counted rows of different tasks, and suspended ones.
LEMMA AtMostAll ==
    ASSUME IInv, OrderInv, SuspendInv, CountInv, FailInv, SuspendCount,
           CountedOnce, EndsOnce, SuspendedOnce
    PROVE  successfulCount + failedCount + suspendedCount <= TaskCount
<1>1. /\ Counted \subseteq DOMAIN rows /\ givenUp \subseteq DOMAIN rows
      /\ Counted \cap givenUp = {} /\ Suspended \subseteq Task
  BY TypeParts DEF Counted, Suspended, IInv, StatusOK, RowOK
<1> DEFINE S == Counted \cup givenUp
<1>2. \A j, k \in S : rows[j].task = rows[k].task => j = k
  BY <1>1 DEF Counted, EndsOnce, Ended
<1>3. \A k \in S : rows[k].task \notin Suspended
  <2>1. SuspendedNeverRuns
    BY EndsSuspendedWaits
  <2> QED BY <1>1, <2>1 DEF SuspendedNeverRuns, Suspended
<1>4. /\ Cardinality(Counted) \in Nat /\ Cardinality(givenUp) \in Nat
      /\ Cardinality(S) = Cardinality(Counted) + Cardinality(givenUp)
  BY <1>1, RowsApart
<1>5. Cardinality(S) + Cardinality(Suspended) <= TaskCount
  <2>1. S \subseteq DOMAIN rows
    BY <1>1
  <2> HIDE DEF S
  <2> QED BY <1>1, <1>2, <1>3, <2>1, SumBound
<1>6. /\ successfulCount <= Cardinality(Counted) /\ failedCount <= Cardinality(givenUp)
      /\ suspendedCount <= Cardinality(Suspended) /\ Cardinality(Suspended) \in Nat
  BY RowSets DEF CountInv, FailInv, SuspendCount, CountedOnce
<1> HIDE DEF S
<1> QED BY <1>4, <1>5, <1>6, TypeParts, TaskCountType

-----------------------------------------------------------------------------
(* The handler that completes the counters looks at them.                  *)

Looking == {"cascadeRead", "cascadeWrite", "checkDone"}

\* Unless handlers give up or ends are counted twice, counters that add up
\* were seen to do so, or a handler is on its way to see it.
Noticed ==
    CountedOnce /\ faults = 0 /\ EndsOnce /\ SuspendedOnce /\ AllTasksDone =>
        ~ pvc \/ \E h \in Handler : handler[h].pc \in Looking

LEMMA NoticedKept ==
    ASSUME IInv, SameCounts, pvc' = pvc, AllTasksDone',
           AllTasksDone => ~ pvc \/ \E h \in Handler : handler[h].pc \in Looking,
           \A h \in Handler : handler[h].pc \in Looking => handler'[h] = handler[h]
    PROVE  ~ pvc' \/ \E h \in Handler : handler'[h].pc \in Looking
<1>1. AllTasksDone
  BY DEF SameCounts, AllTasksDone
<1> QED BY <1>1

\* A success that makes a task runnable does not complete the run.
LEMMA NextNotDone ==
    ASSUME IInv, OrderInv, SuspendInv, CountInv, FailInv, SuspendCount, Tracked, Written,
           CountedOnce, faults = 0, EndsOnce, SuspendedOnce,
           NEW h \in Handler, MarkSuccess(h), NEW t \in RunnableTasks(rows', handler[h].row)
    PROVE  ~ AllTasksDone'
<1> USE TypeParts
<1>1. PICK i \in DOMAIN rows : i = handler[h].row /\ handler[h].pod = i
  BY BusyRow DEF MarkSuccess, IInv, HandlerOK
<1>2. StatusSet(i, "success")
  BY <1>1, MarkSuccessEffect
<1>3. /\ successfulCount' = successfulCount + 1
      /\ UNCHANGED <<failedCount, suspendedCount>>
  BY MarkSuccessEffect
<1>4. handler[h].pc = "markSuccess" /\ pods[i].phase = "succeeded"
  BY <1>1 DEF MarkSuccess, IInv, HandlerOK
<1>5. NoTwins /\ DependencyOrder /\ SuspendedNeverRuns
  BY EndsNoTwins, EndsSuspendedWaits DEF OrderInv
<1>6. /\ t \in Task /\ Deps[t] # {}
      /\ MetDependencies(rows', t) = Cardinality(Deps[t])
  BY DEF RunnableTasks
<1>7. \A k \in DOMAIN rows' : rows'[k].task = t =>
                                  rows'[k].status \notin {"running", "success", "failed"}
  <2>1. Cardinality(Deps[t]) # 0
    <3>1. IsFiniteSet(Deps[t])
      BY <1>6, DagAssumption, SomeTasks
    <3> QED BY <1>6, <3>1, FS_EmptySet
  <2> QED BY <1>6, <2>1 DEF MetDependencies
<1>8. \A d \in Deps[t] : Succeeded(d)
  <2>1. PICK rs, ps : rs = rows' /\ ps = pods
    OBVIOUS
  <2>2. \A k \in DOMAIN rs : rs[k].status = "success" => ps[k].phase = "succeeded"
    <3>1. \A k \in DOMAIN rows : rows[k].status = "success" => pods[k].phase = "succeeded"
      BY DEF IInv, StatusOK, RowOK
    <3> QED BY <1>2, <1>4, <2>1, <3>1 DEF StatusSet
  <2>3. \A j, k \in DOMAIN rs :
            rs[j].task = rs[k].task /\ ps[j].phase = "succeeded"
                /\ ps[k].phase = "succeeded" => j = k
    <3>1. DOMAIN rs = DOMAIN rows /\ \A k \in DOMAIN rows : rs[k].task = rows[k].task
      BY <1>2, <2>1 DEF StatusSet
    <3> HIDE TypeParts
    <3> QED BY <1>5, <2>1, <3>1 DEF NoTwins
  <2>4. MetDependencies(rs, t) = Cardinality(Deps[t])
    BY <1>6, <2>1
  <2>5. ASSUME NEW d \in Deps[t]
        PROVE  \E k \in DOMAIN rs : rs[k].task = d /\ ps[k].phase = "succeeded"
    <3> HIDE TypeParts
    <3> QED BY <1>6, <2>2, <2>3, <2>4, AllMet
  <2> QED BY <1>2, <2>1, <2>5 DEF StatusSet, Succeeded
<1>9. t \notin Suspended
  <2> SUFFICES ASSUME suspendedRows[t] > 0 PROVE FALSE
    BY DEF Suspended
  <2>1. PICK k \in givenUp : t \in Downstream(rows[k].task)
    BY <1>6 DEF SuspendInv
  <2>2. ~ Succeeded(rows[k].task)
    BY <2>1 DEF Succeeded, EndsOnce, Ended, IInv, StatusOK, RowOK
  <2> QED BY <1>5, <1>6, <1>8, <2>1, <2>2, DueNotDownstream
<1> DEFINE C == Counted \cup {i}
           S == C \cup givenUp
           W == Suspended \cup {t}
<1>10. /\ Counted \subseteq DOMAIN rows /\ i \notin Counted /\ i \notin givenUp
       /\ givenUp \subseteq DOMAIN rows /\ Counted \cap givenUp = {}
  BY <1>1, <1>4 DEF Counted, IInv, StatusOK, RowOK
<1>11. \A k \in Counted : k \in succeededRows
  <2> SUFFICES ASSUME NEW k \in Counted PROVE k \in succeededRows
    OBVIOUS
  <2>1. k \in DOMAIN rows /\ pods[k].phase = "succeeded" /\ pods[k].events = 0
    BY DEF Counted
  <2>2. ~ Works({"markSuccess"}, k)
    BY DEF Counted, Works, IInv, HandlerOK
  <2>3. TrackedRow(k)
    BY <2>1 DEF Tracked
  <2> QED BY <2>1, <2>2, <2>3 DEF TrackedRow
<1>12. \A k \in S : rows[k].task # t
  <2>1. rows'[i].status = "success" /\ rows'[i].task = rows[i].task /\ DOMAIN rows' = DOMAIN rows
    BY <1>2 DEF StatusSet
  <2>2. rows[i].task # t
    BY <1>7, <2>1
  <2>3. ASSUME NEW k \in Counted \cup givenUp PROVE rows[k].task # t
    <3>1. k \in DOMAIN rows /\ rows[k].status \in {"running", "success", "failed"}
      BY <1>10, <1>11 DEF Written
    <3>2. k # i /\ rows'[k].status = rows[k].status /\ rows'[k].task = rows[k].task
      BY <1>2, <1>10, <3>1 DEF StatusSet
    <3> QED BY <1>7, <2>1, <3>1, <3>2
  <2> QED BY <2>2, <2>3
<1>13. /\ Cardinality(Counted) \in Nat /\ Cardinality(givenUp) \in Nat
       /\ Cardinality(S) = Cardinality(Counted) + 1 + Cardinality(givenUp)
  <2>1. IsFiniteSet(Counted) /\ Cardinality(Counted) \in Nat
    BY <1>10, SomeRows
  <2>2. Cardinality(C) = Cardinality(Counted) + 1
    BY <1>10, <2>1, FS_AddElement
  <2>3. C \subseteq DOMAIN rows /\ C \cap givenUp = {}
    BY <1>10
  <2> HIDE DEF C
  <2> QED BY <1>10, <2>1, <2>2, <2>3, RowsApart
<1>14. /\ Cardinality(Suspended) \in Nat
       /\ Cardinality(W) = Cardinality(Suspended) + 1
  BY <1>9, RowSets, FS_AddElement
<1>15. Cardinality(S) + Cardinality(W) <= TaskCount
  <2>1. S \subseteq DOMAIN rows /\ W \subseteq Task
    BY <1>6, <1>10 DEF Suspended
  <2>2. \A j, k \in S : rows[j].task = rows[k].task => j = k
    BY <1>4, <2>1 DEF Counted, EndsOnce, Ended
  <2>3. \A k \in S : rows[k].task \notin W
    <3>1. \A k \in S : rows[k].task \notin Suspended
      BY <1>5, <2>1 DEF SuspendedNeverRuns, Suspended
    <3> QED BY <1>12, <3>1
  <2> HIDE DEF S, W
  <2> QED BY <2>1, <2>2, <2>3, SumBound
<1>16. /\ successfulCount <= Cardinality(Counted) /\ failedCount <= Cardinality(givenUp)
       /\ suspendedCount <= Cardinality(Suspended)
  BY DEF CountInv, FailInv, SuspendCount, CountedOnce
<1> HIDE DEF S, W
<1>17. successfulCount + 1 + failedCount + suspendedCount < TaskCount
  BY <1>13, <1>14, <1>15, <1>16, TaskCountType
<1> QED BY <1>3, <1>17, TaskCountType DEF AllTasksDone, TaskCount

LEMMA NextNoticed ==
    ASSUME IInv, IInv', OrderInv, SuspendInv, CountInv, FailInv, SuspendCount, Tracked,
           Written, Noticed, [Next]_vars
    PROVE  Noticed'
<1> DEFINE Goal == ~ pvc' \/ \E h \in Handler : handler'[h].pc \in Looking
<1> SUFFICES ASSUME CountedOnce', faults' = 0, EndsOnce', SuspendedOnce', AllTasksDone'
             PROVE  Goal
  BY DEF Noticed
<1>0. /\ CountedOnce /\ faults = 0 /\ EndsOnce /\ SuspendedOnce /\ redelivered' = redelivered
      /\ \A h \in Handler : ~ Faulty(h)
  <2>1. Kept /\ givenUp \subseteq givenUp'
    BY Keeps, GivenUpStays
  <2> QED BY <2>1, RedeliveredBefore, CountedOnceBefore, NoFaultBefore, EndsOnceBefore,
             SuspendedOnceBefore
<1>k. ASSUME SameCounts, pvc' = pvc,
             \A h \in Handler : handler[h].pc \in Looking => handler'[h] = handler[h]
      PROVE  Goal
  <2>1. AllTasksDone => ~ pvc \/ \E h \in Handler : handler[h].pc \in Looking
    BY <1>0 DEF Noticed
  <2> QED BY <1>k, <2>1, NoticedKept
<1>m. ASSUME NEW h \in Handler, SameCounts, pvc' = pvc, handler[h].pc \notin Looking,
             \A g \in Handler : g # h => handler'[g] = handler[g]
      PROVE  Goal
  BY <1>k, <1>m
<1> HIDE DEF Goal
<1>1. ASSUME UNCHANGED vars PROVE Goal
  BY <1>1, <1>k DEF vars, counters, counts, SameCounts
<1>2. ASSUME NEW t \in Task, StartTask(t) PROVE Goal
  BY <1>2, <1>k, StartTaskEffect
<1>3. ASSUME NEW k \in DOMAIN rows,
             StartPod(k) \/ Finalize(k) \/ PodFinishes(k) \/ Redeliver(k) \/ PodGone(k)
      PROVE  Goal
  BY <1>3, <1>k, StartPodEffect, FinalizeEffect, PodFinishesEffect, RedeliverEffect, PodGoneEffect
<1>4. ASSUME NEW h \in Handler, NEW k \in DOMAIN rows, TakeSucceeded(h, k) \/ TakeFailed(h, k)
      PROVE  Goal
  <2>1. handler[h].pc = "free" /\ SameCounts /\ pvc' = pvc
    BY <1>4, TakeSucceededEffect, TakeFailedEffect
  <2>2. \A g \in Handler : g # h => handler'[g] = handler[g]
    BY <1>4, TakeSucceededEffect, TakeFailedEffect DEF Moves
  <2> QED BY <1>m, <2>1, <2>2 DEF Looking
<1>5. ASSUME NEW h \in Handler, NEW k \in DOMAIN rows, TakeMisconfigured(h, k) PROVE FALSE
  BY <1>0, <1>5, TakeMisconfiguredEffect DEF CountedOnce
<1>6. ASSUME NEW h \in Handler, MarkSuccess(h) PROVE Goal
  <2>1. PICK next \in SUBSET Task :
           /\ next = IF IsLastSuccess THEN {} ELSE RunnableTasks(rows', handler[h].row)
           /\ Moves(h, IF next = {} THEN "checkDone" ELSE "addNext",
                    handler[h].pod, handler[h].row, next)
    BY <1>6, MarkSuccessEffect
  <2>2. next = {}
    <3> SUFFICES ASSUME NEW t \in next PROVE FALSE
      OBVIOUS
    <3>1. t \in RunnableTasks(rows', handler[h].row)
      BY <2>1
    <3> QED BY <1>0, <1>6, <3>1, NextNotDone
  <2> QED BY <2>1, <2>2 DEF Moves, Goal, Looking
<1>7. ASSUME NEW h \in Handler, NEW t \in Task, AddNext(h, t) PROVE Goal
  <2>1. handler[h].pc = "addNext" /\ SameCounts /\ pvc' = pvc
    BY <1>7, AddNextEffect
  <2>2. \A g \in Handler : g # h => handler'[g] = handler[g]
    BY <1>7, AddNextEffect DEF Moves
  <2> QED BY <1>m, <2>1, <2>2 DEF Looking
<1>8. ASSUME NEW h \in Handler, CheckDone(h) PROVE Goal
  <2>1. SameCounts /\ pvc' = (pvc /\ ~ AllTasksDone)
    BY <1>8, CheckDoneEffect
  <2>2. AllTasksDone
    BY <2>1 DEF SameCounts, AllTasksDone
  <2> QED BY <2>1, <2>2 DEF Goal
<1>9. ASSUME NEW h \in Handler, RetryAdd(h) \/ RetryClaim(h) \/ RetryIncrement(h) PROVE Goal
  <2>1. /\ handler[h].pc \in {"retryAdd", "retryClaim", "retryIncrement"}
        /\ SameCounts /\ pvc' = pvc
    BY <1>9, RetryAddEffect, RetryClaimEffect, RetryIncrementEffect
  <2>2. \A g \in Handler : g # h => handler'[g] = handler[g]
    BY <1>9, RetryAddEffect, RetryClaimEffect, RetryIncrementEffect DEF Moves
  <2> QED BY <1>m, <2>1, <2>2 DEF Looking
<1>10. ASSUME NEW h \in Handler, MarkFailed(h) PROVE Goal
  BY <1>10, MarkFailedEffect DEF Moves, Goal, Looking
<1>11. ASSUME NEW h \in Handler, CascadeRead(h) PROVE Goal
  <2>1. handler'[h].pc \in {"checkDone", "cascadeWrite"}
    BY <1>11, CascadeReadEffect DEF Moves
  <2> QED BY <2>1 DEF Goal, Looking
<1>12. ASSUME NEW h \in Handler, CascadeWrite(h) PROVE Goal
  BY <1>12, CascadeWriteEffect DEF Moves, Goal, Looking
<1> QED
  BY <1>0, <1>1, <1>2, <1>3, <1>4, <1>5, <1>6, <1>7, <1>8, <1>9, <1>10, <1>11, <1>12
     DEF Next, Advance, Faulty

LEMMA AlwaysNoticed ==
    ASSUME Task # {}
    PROVE  Spec => []Noticed
<1>1. ASSUME Init PROVE Noticed
  <2>1. TaskCount \in Nat /\ TaskCount # 0
    BY TaskCountType, DagAssumption, FS_EmptySet DEF TaskCount
  <2> QED BY <1>1, <2>1 DEF Init, Noticed, AllTasksDone, TaskCount
<1> QED
  BY <1>1, NextNoticed, AlwaysI, AlwaysOrder, AlwaysSuspend, AlwaysCount, AlwaysFail,
     AlwaysSuspendCount, AlwaysTracked, AlwaysWritten, PTL DEF Spec

-----------------------------------------------------------------------------
(* The end of the run.                                                     *)

\* Every set of tasks has one that runs after none of the others: what
\* checkNoCycles demands of a DAG.
NoCycles == \A S \in SUBSET Task : S # {} => \E t \in S : Deps[t] \cap S = {}

\* The last of some rows.
LEMMA LastRow ==
    ASSUME NEW n \in Nat, NEW S \in SUBSET (1..n), S # {}
    PROVE  \E k \in S : \A j \in S : j <= k
<1> DEFINE T == {n - k : k \in S}
           R == OpToRel(<, Nat)
<1>1. T \in SUBSET Nat /\ T # {}
  <2>1. \A k \in S : n - k \in Nat
    OBVIOUS
  <2>2. T \subseteq Nat
    BY <2>1
  <2>3. T # {}
    OBVIOUS
  <2> QED BY <2>2, <2>3
<1>2. \A a, b \in Nat : <<a, b>> \in R <=> a < b
  BY DEF OpToRel
<1>3. IsWellFoundedOn(R, Nat)
  BY NatLessThanWellFounded
<1>4. PICK m \in T : \A l \in T : ~ (<<l, m>> \in R)
  <2> HIDE DEF R, T
  <2> QED BY <1>1, <1>3, WFMin
<1>5. PICK k \in S : m = n - k
  OBVIOUS
<1> HIDE DEF R
<1>6. ASSUME NEW j \in S PROVE j <= k
  <2>1. n - j \in T /\ n - j \in Nat /\ n - k \in Nat
    BY <1>1, <1>5
  <2>2. ~ (n - j < n - k)
    BY <1>2, <1>4, <1>5, <2>1
  <2> QED BY <2>2
<1> QED BY <1>6

\* What comes after something downstream is downstream.
LEMMA DownstreamCloses ==
    ASSUME NEW f, NEW t \in Task, NEW d \in Deps[t], d = f \/ d \in Downstream(f)
    PROVE  t \in Downstream(f)
<1> SUFFICES ASSUME NEW D \in SUBSET Task,
                    \A v \in Task : Deps[v] \cap (D \cup {f}) # {} => v \in D
             PROVE  t \in D
  BY DEF Downstream
<1>1. d \in D \cup {f}
  BY DEF Downstream
<1> QED BY <1>1

\* At rest, the last row of a task says how it ended.
LEMMA RestingRow ==
    ASSUME IInv, Tracked, CountedOnce, faults = 0, Quiescent,
           NEW t \in Task, \E i \in DOMAIN rows : rows[i].task = t
    PROVE  \E k \in succeededRows \cup givenUp : rows[k].task = t
<1> DEFINE S == {i \in DOMAIN rows : rows[i].task = t}
<1>1. MaxRows \in Nat /\ S \in SUBSET (1..MaxRows) /\ S # {}
  BY Domain, Bounds DEF IInv
<1>2. PICK k \in S : \A j \in S : j <= k
  <2> HIDE DEF S
  <2> QED BY <1>1, LastRow
<1>3. k \in DOMAIN rows /\ k \in 1..MaxRows /\ DOMAIN rows \subseteq 1..MaxRows
  BY <1>1, Domain DEF IInv
<1>4. pods[k].phase \in {"succeeded", "failed"}
  <2>1. pods[k] \in PodRecord
    BY <1>3, TypeParts
  <2>2. pods[k].phase \notin {"none", "active", "misconfigured"}
    BY <1>3 DEF Quiescent, CountedOnce
  <2> QED BY <2>1, <2>2 DEF PodRecord
<1>5. ~ (pods[k].events > 0) /\ \A steps : ~ ("free" \in steps) => ~ Works(steps, k)
  BY <1>3 DEF Quiescent, Works
<1>6. ~ \E j \in DOMAIN rows : j > k /\ rows[j].task = rows[k].task
  <2>1. \A j \in DOMAIN rows : j > k => j \notin S
    BY <1>2, <1>3
  <2> QED BY <1>2, <2>1
<1>7. TrackedRow(k)
  BY <1>3 DEF Tracked
<1>8. k \in succeededRows \cup givenUp
  BY <1>4, <1>5, <1>6, <1>7 DEF TrackedRow
<1> QED BY <1>2, <1>3, <1>8

\* At rest, no task was forgotten.
LEMMA RestingTasks ==
    ASSUME NoCycles, IInv, SuspendInv, Tracked, Cascades, Chosen,
           CountedOnce, faults = 0, NoTwins, Quiescent, overwritten = {}, IdsApart,
           NEW u \in Task
    PROVE  TaskRunExists(u)
<1> DEFINE M == {t \in Task : ~ TaskRunExists(t)}
<1> SUFFICES ASSUME M # {} PROVE FALSE
  OBVIOUS
<1>1. PICK t \in M : Deps[t] \cap M = {}
  BY DEF NoCycles
<1>2. t \in Task /\ ~ TaskRunExists(t) /\ Deps[t] # {} /\ Deps[t] \subseteq Task
  BY DagAssumption DEF Quiescent
<1>3. \A d \in Deps[t] : TaskRunExists(d)
  BY <1>1, <1>2
<1>4. ~ Due(t)
  BY DEF Due, Quiescent
<1>5. PICK d \in Deps[t] : \A k \in succeededRows : rows[k].task # d
  BY <1>2, <1>4 DEF Chosen, AllDepsSucceeded, CountedOnce
<1>6. PICK k \in givenUp : t \in Downstream(rows[k].task)
  <2>1. CASE \E i \in DOMAIN rows : rows[i].task = d
    <3>1. PICK k \in succeededRows \cup givenUp : rows[k].task = d
      BY <1>2, <2>1, RestingRow
    <3>2. k \in givenUp
      BY <1>5, <3>1
    <3> QED BY <1>2, <3>1, <3>2, DownstreamCloses
  <2>2. CASE suspendedRows[d] > 0
    <3>1. PICK k \in givenUp : d \in Downstream(rows[k].task)
      BY <1>2, <2>2 DEF SuspendInv
    <3> QED BY <1>2, <3>1, DownstreamCloses
  <2> QED BY <1>3, <2>1, <2>2 DEF TaskRunExists
<1>7. Reached(k, t)
  BY <1>6 DEF Cascades
<1> QED BY <1>2, <1>7 DEF Reached, Works, Quiescent

\* At rest, the tables hold an end for every task.
LEMMA RestingSum ==
    ASSUME NoCycles, IInv, SuspendInv, Tracked, Cascades, Chosen, Counts,
           CountedOnce, faults = 0, NoTwins, Quiescent, overwritten = {}, IdsApart
    PROVE  TaskCount <= successfulCount + failedCount + suspendedCount
<1> DEFINE S == succeededRows \cup givenUp
           tasks == {rows[k].task : k \in S}
           f == [k \in S |-> rows[k].task]
<1>1. /\ succeededRows \subseteq DOMAIN rows /\ givenUp \subseteq DOMAIN rows
      /\ succeededRows \cap givenUp = {} /\ Suspended \subseteq Task
  BY TypeParts DEF Suspended, IInv, StatusOK, RowOK
<1>2. /\ Cardinality(succeededRows) \in Nat /\ Cardinality(givenUp) \in Nat
      /\ Cardinality(S) = Cardinality(succeededRows) + Cardinality(givenUp)
  BY <1>1, RowsApart
<1>3. IsFiniteSet(S)
  BY <1>1, SomeRows
<1>4. tasks \subseteq Task
  BY <1>1, Domain DEF IInv, Row
<1>5. Task = tasks \cup Suspended
  <2> SUFFICES ASSUME NEW t \in Task PROVE t \in tasks \cup Suspended
    BY <1>1, <1>4
  <2>1. TaskRunExists(t)
    BY RestingTasks
  <2>2. CASE suspendedRows[t] > 0
    BY <2>2 DEF Suspended
  <2>3. CASE \E i \in DOMAIN rows : rows[i].task = t
    BY <2>3, RestingRow
  <2> QED BY <2>1, <2>2, <2>3 DEF TaskRunExists
<1>6. f \in Surjection(S, tasks)
  BY DEF Surjection
<1> HIDE DEF f, S
<1>7. Cardinality(tasks) <= Cardinality(S) /\ IsFiniteSet(tasks) /\ Cardinality(tasks) \in Nat
  <2> HIDE DEF tasks
  <2> QED BY <1>3, <1>4, <1>6, FS_Surjection, SomeTasks
<1> HIDE DEF tasks
<1>8. TaskCount <= Cardinality(tasks) + Cardinality(Suspended)
  <2>1. /\ IsFiniteSet(Suspended) /\ Cardinality(Suspended) \in Nat
        /\ IsFiniteSet(tasks \cap Suspended) /\ Cardinality(tasks \cap Suspended) \in Nat
    BY <1>1, <1>4, SomeTasks
  <2>2. Cardinality(tasks \cup Suspended)
          = Cardinality(tasks) + Cardinality(Suspended) - Cardinality(tasks \cap Suspended)
    BY <1>7, <2>1, FS_Union
  <2> QED BY <1>5, <1>7, <2>1, <2>2 DEF TaskCount
<1>9. /\ Cardinality(succeededRows) <= successfulCount /\ Cardinality(givenUp) <= failedCount
      /\ Cardinality(Suspended) <= suspendedCount /\ Cardinality(Suspended) \in Nat
  BY RowSets DEF Counts
<1> QED BY <1>2, <1>7, <1>8, <1>9, TypeParts, TaskCountType

LEMMA RestingDone ==
    ASSUME NoCycles, IInv, OrderInv, SuspendInv, CountInv, FailInv, SuspendCount, Tracked,
           Cascades, Chosen, Counts, Noticed,
           CountedOnce, faults = 0, EndsOnce, SuspendedOnce
    PROVE  QuiescentMeansDone
<1> SUFFICES ASSUME Quiescent, overwritten = {}, IdsApart
             PROVE  AllTasksDone /\ ~ pvc /\ runStatus # "running"
  BY DEF QuiescentMeansDone
<1> USE TypeParts, TaskCountType
<1>1. TaskCount = successfulCount + failedCount + suspendedCount
  <2>1. TaskCount <= successfulCount + failedCount + suspendedCount
    BY EndsNoTwins, RestingSum
  <2>2. successfulCount + failedCount + suspendedCount <= TaskCount
    BY AtMostAll
  <2> QED BY <2>1, <2>2
<1>2. AllTasksDone
  BY <1>1 DEF AllTasksDone, TaskCount
<1>3. ~ pvc
  BY <1>2 DEF Noticed, Looking, Quiescent
<1>4. runStatus # "running"
  <2>1. CASE failedCount > 0
    BY <2>1 DEF Counts
  <2>2. CASE failedCount = 0
    <3>1. givenUp = {}
      <4>1. IsFiniteSet(givenUp) /\ Cardinality(givenUp) = 0
        BY <2>2, RowSets DEF Counts
      <4> QED BY <4>1, FS_EmptySet
    <3>2. Suspended = {}
      BY <3>1 DEF Suspended, SuspendInv
    <3>3. suspendedCount = 0
      <4>1. Cardinality(Suspended) = 0
        BY <3>2, FS_EmptySet
      <4> QED BY <4>1 DEF SuspendCount
    <3> QED BY <1>1, <2>2, <3>3 DEF Counts
  <2> QED BY <2>1, <2>2
<1> QED BY <1>2, <1>3, <1>4

\* No run of a DAG stalls but for the reasons named, whatever its shape and
\* however its handlers are interleaved: at rest every task is accounted for,
\* the run has an outcome and the handler that came last has deleted the
\* workspace.  The reasons: a task that ended or was suspended twice, an end
\* counted twice, a handler that failed, and the two that QuiescentMeansDone
\* leaves out (an end that FinalizeClaimToRunning overwrote, ids that
\* getRunnableTasks confuses).  All are states of the run, none is assumed of
\* the constants.
THEOREM NoRunStalls ==
    ASSUME Task # {}, NoCycles
    PROVE  Spec => [](CountedOnce /\ faults = 0 /\ EndsOnce /\ SuspendedOnce
                         => QuiescentMeansDone)
BY RestingDone, AlwaysI, AlwaysOrder, AlwaysSuspend, AlwaysCount, AlwaysFail,
   AlwaysSuspendCount, AlwaysTracked, AlwaysCascades, AlwaysChosen, AlwaysCounts,
   AlwaysNoticed, PTL

\* In particular when tasks are started once, or again after a failure that
\* was not final, and suspended once.
THEOREM UnforkedRunsEnd ==
    ASSUME Task # {}, NoCycles
    PROVE  Spec => [](CountedOnce /\ faults = 0 /\ Unforked => QuiescentMeansDone)
<1>1. IInv /\ Unforked => EndsOnce /\ SuspendedOnce
  BY OnceEndsOnce DEF Unforked
<1> QED BY <1>1, NoRunStalls, AlwaysI, PTL

-----------------------------------------------------------------------------
(* DAGs whose tasks are started once.                                      *)

\* A task that has dependencies comes before or after every other task: the
\* starting tasks may work side by side, then one task runs at a time.
Series ==
    \A t, u \in Task : Deps[t] # {} /\ t # u => t \in Downstream(u) \/ u \in Downstream(t)

MarkedSuccess(d) == \E k \in succeededRows : rows[k].task = d

\* An end that has still to be written down was not written before.
Unmarked(k) ==
    pods[k].events > 0 \/ Works({"markSuccess", "retryAdd"}, k)
        => k \notin succeededRows \cup givenUp

\* The end of row k was answered with another row.
Superseded(k) ==
    Retried(k) /\ pods[k].events = 0 /\ ~ Works({"retryAdd", "markFailed"}, k)

\* Tasks have rows, or are due, after the successes of their dependencies were
\* written down.
AllMarked ==
    \A t \in Task : Due(t) \/ (\E i \in DOMAIN rows : rows[i].task = t)
                        => \A d \in Deps[t] : MarkedSuccess(d)

\* All rows of a task but the last were superseded.
OneLeft ==
    \A j, k \in DOMAIN rows : rows[j].task = rows[k].task /\ j < k => Superseded(j)

\* A task that is due has no row and one handler to start it.
DueOnce ==
    \A h \in Handler : handler[h].pc = "addNext" =>
        \A t \in handler[h].todo :
            /\ Deps[t] # {} /\ \A i \in DOMAIN rows : rows[i].task # t
            /\ \A g \in Handler : handler[g].pc = "addNext" /\ t \in handler[g].todo => g = h

OneRow == (\A k \in DOMAIN rows : Unmarked(k)) /\ AllMarked /\ OneLeft /\ DueOnce
OneRowInv == redelivered = 0 => OneRow

LEMMA OneRowOnceEach ==
    ASSUME IInv, OneRow
    PROVE  OnceEach /\ NoTwins
<1>1. DOMAIN rows \subseteq 1..MaxRows /\ MaxRows \in Nat
  BY Domain, Bounds DEF IInv
<1>2. ASSUME NEW j \in DOMAIN rows, NEW k \in DOMAIN rows, rows[j].task = rows[k].task, j # k
      PROVE  Retried(j) \/ Retried(k)
  <2>1. j < k \/ k < j
    BY <1>1, <1>2
  <2> QED BY <1>2, <2>1 DEF OneRow, OneLeft, Superseded
<1>3. OnceEach
  BY <1>2 DEF OnceEach
<1> QED BY <1>3, OnceNoTwins

\* Nothing downstream of a task without a success has a row or is due.
LEMMA UnmarkedWaits ==
    ASSUME IInv, AllMarked, NEW f, ~ MarkedSuccess(f), NEW t \in Downstream(f)
    PROVE  ~ Due(t) /\ \A i \in DOMAIN rows : rows[i].task # t
<1> DEFINE D == {v \in Task : ~ Due(v) /\ \A i \in DOMAIN rows : rows[i].task # v}
<1>1. \A v \in D : ~ MarkedSuccess(v)
  BY TypeParts DEF MarkedSuccess
<1>2. ASSUME NEW v \in Task, Deps[v] \cap (D \cup {f}) # {}
      PROVE  v \in D
  BY <1>1, <1>2 DEF AllMarked
<1>3. t \in D
  BY <1>2 DEF Downstream
<1> QED BY <1>3

\* The parts of a step that concern a row.
RowStays(k) ==
    /\ Unmarked(k) => Unmarked(k)'
    /\ Superseded(k) => Superseded(k)'
    /\ k \in succeededRows => k \in succeededRows'

\* The end of row k is written no more than before.
EndStays(k) == /\ k \in succeededRows' <=> k \in succeededRows
               /\ k \in givenUp' <=> k \in givenUp

LEMMA SameRowStays ==
    ASSUME NEW k \in DOMAIN rows, EndStays(k),
           pods'[k].phase = pods[k].phase, pods'[k].events = pods[k].events,
           \A h \in Handler :
               handler'[h].pc \in {"markSuccess", "retryAdd", "markFailed"} /\ handler'[h].row = k
                   => handler'[h] = handler[h]
    PROVE  RowStays(k)
<1>1. Works({"markSuccess", "retryAdd"}, k)' => Works({"markSuccess", "retryAdd"}, k)
  BY DEF Works
<1>2. Works({"retryAdd", "markFailed"}, k)' => Works({"retryAdd", "markFailed"}, k)
  BY DEF Works
<1> QED BY <1>1, <1>2 DEF RowStays, Unmarked, Superseded, Retried, EndStays

LEMMA MarksStay ==
    ASSUME IInv, Kept, \A k \in DOMAIN rows : RowStays(k), NEW d, MarkedSuccess(d)
    PROVE  MarkedSuccess(d)'
<1>1. PICK k \in succeededRows : rows[k].task = d
  BY DEF MarkedSuccess
<1>2. k \in succeededRows' /\ rows'[k].task = d
  BY <1>1, TypeParts DEF RowStays, Kept
<1> QED BY <1>2 DEF MarkedSuccess

\* A step that starts nothing.
LEMMA OneRowKept ==
    ASSUME IInv, Kept, OneRow, DOMAIN rows' = DOMAIN rows, \A k \in DOMAIN rows : RowStays(k),
           \A h \in Handler : handler'[h].pc = "addNext" => handler'[h] = handler[h]
    PROVE  OneRow'
<1>1. \A k \in DOMAIN rows' : Unmarked(k)'
  BY DEF OneRow, RowStays
<1>2. AllMarked'
  <2>1. \A t : Due(t)' => Due(t)
    BY DEF Due
  <2> QED BY <2>1, MarksStay DEF OneRow, AllMarked, Kept
<1>3. OneLeft'
  BY DEF OneRow, OneLeft, RowStays, Kept
<1>4. DueOnce'
  BY DEF OneRow, DueOnce, Kept
<1> QED BY <1>1, <1>2, <1>3, <1>4 DEF OneRow

\* A row is added for task t, which is no longer due.
LEMMA OneRowAdds ==
    ASSUME IInv, Kept, OneRow, NEW t \in Task, RowAdded(t), pods' = pods, SameEnds,
           pods[Len(rows')].events = 0,
           \A k \in DOMAIN rows : RowStays(k) /\ (rows[k].task = t => Superseded(k)'),
           \A d \in Deps[t] : MarkedSuccess(d),
           \A h \in Handler : handler'[h].pc = "addNext" =>
               /\ handler[h].pc = "addNext" /\ handler'[h].todo \subseteq handler[h].todo
               /\ t \notin handler'[h].todo
    PROVE  OneRow'
<1> DEFINE n == Len(rows')
<1>1. /\ DOMAIN rows' = DOMAIN rows \cup {n} /\ rows'[n].task = t
      /\ rows'[n].status = "pending" /\ \A k \in DOMAIN rows : rows'[k] = rows[k] /\ k < n
  <2>1. DOMAIN rows = 1..Len(rows) /\ Len(rows) \in Nat
    BY Domain DEF IInv
  <2> QED BY <2>1 DEF RowAdded
<1>2. n \in Nat
  BY Domain DEF RowAdded, IInv
<1> HIDE DEF n
<1>3. \A k \in DOMAIN rows' : Unmarked(k)'
  <2>1. n \notin succeededRows' \cup givenUp'
    BY <1>1, TypeParts DEF SameEnds
  <2> QED BY <1>1, <2>1 DEF OneRow, RowStays, Unmarked
<1>4. AllMarked'
  <2>1. \A u : Due(u)' => Due(u)
    BY DEF Due
  <2> QED BY <1>1, <2>1, MarksStay DEF OneRow, AllMarked
<1>5. OneLeft'
  <2> SUFFICES ASSUME NEW j \in DOMAIN rows', NEW k \in DOMAIN rows',
                      rows'[j].task = rows'[k].task, j < k
               PROVE  Superseded(j)'
    BY DEF OneLeft
  <2>1. CASE k \in DOMAIN rows /\ j \in DOMAIN rows
    BY <1>1, <2>1 DEF OneRow, OneLeft, RowStays
  <2>2. CASE k = n /\ j \in DOMAIN rows
    BY <1>1, <2>2
  <2>3. j # n
    <3>1. DOMAIN rows' \subseteq Nat /\ \A i \in DOMAIN rows' : i <= n
      BY <1>1, <1>2, Domain DEF IInv
    <3> QED BY <3>1
  <2> QED BY <1>1, <2>1, <2>2, <2>3
<1>6. DueOnce'
  BY <1>1 DEF OneRow, DueOnce
<1> QED BY <1>3, <1>4, <1>5, <1>6 DEF OneRow

\* A success makes no task runnable that has a row or is due.
LEMMA MarkSuccessOnce ==
    ASSUME Series, IInv, IInv', Kept, Written, EventsOnce, OneRow,
           NEW h \in Handler, MarkSuccess(h)
    PROVE  OneRow'
<1>1. PICK i \in DOMAIN rows : i = handler[h].row /\ handler[h].pod = i
  BY BusyRow DEF MarkSuccess, IInv, HandlerOK
<1>2. PICK next \in SUBSET Task :
         /\ next = IF IsLastSuccess THEN {} ELSE RunnableTasks(rows', handler[h].row)
         /\ Moves(h, IF next = {} THEN "checkDone" ELSE "addNext",
                  handler[h].pod, handler[h].row, next)
  BY MarkSuccessEffect
<1>3. /\ StatusSet(i, "success") /\ pods' = pods /\ succeededRows' = succeededRows \cup {i}
      /\ givenUp' = givenUp
  BY <1>1, MarkSuccessEffect
<1>4. handler[h].pc = "markSuccess" /\ pods[i].phase = "succeeded" /\ rows[i].task \in Task
  BY <1>1, Domain DEF MarkSuccess, IInv, HandlerOK, Row
<1>5. OnceEach /\ NoTwins
  BY OneRowOnceEach
<1>6. ASSUME NEW k \in DOMAIN rows PROVE RowStays(k)
  <2>1. CASE k # i
    <3>1. EndStays(k) /\ pods'[k] = pods[k]
      BY <1>3, <2>1 DEF EndStays
    <3>2. \A g \in Handler : handler'[g].row = k => handler'[g] = handler[g]
      BY <1>1, <1>2, <2>1 DEF Moves
    <3> QED BY <3>1, <3>2, SameRowStays
  <2>2. CASE k = i
    <3>1. ~ Superseded(i)
      BY <1>4 DEF Superseded, Retried
    <3>2. i \in succeededRows'
      BY <1>3
    <3>3. Unmarked(i) => Unmarked(i)'
      <4>1. ~ Works({"markSuccess", "retryAdd"}, i)'
        <5> SUFFICES ASSUME NEW g \in Handler, handler'[g].pc \in {"markSuccess", "retryAdd"},
                            handler'[g].row = i
                     PROVE  FALSE
          BY DEF Works
        <5>1. g # h
          BY <1>2 DEF Moves
        <5>2. handler[g].pc # "free" /\ handler[g].pod = i
          BY <1>2, <5>1 DEF Moves, IInv, HandlerOK
        <5> QED BY <1>1, <5>1, <5>2 DEF IInv, Exclusive
      <4>2. pods'[i].events = 0
        BY <1>1, <1>3, <1>4 DEF EventsOnce
      <4> QED BY <4>1, <4>2 DEF Unmarked
    <3> QED BY <2>2, <3>1, <3>2, <3>3 DEF RowStays
  <2> QED BY <2>1, <2>2
<1>7. ~ MarkedSuccess(rows[i].task)
  <2> SUFFICES ASSUME NEW k \in succeededRows, rows[k].task = rows[i].task PROVE FALSE
    BY DEF MarkedSuccess
  <2>1. k \in DOMAIN rows /\ pods[k].phase = "succeeded"
    BY TypeParts DEF IInv, StatusOK, RowOK
  <2>2. k = i
    BY <1>4, <1>5, <2>1 DEF NoTwins
  <2>3. Works({"markSuccess", "retryAdd"}, i)
    BY <1>1, <1>4 DEF Works
  <2> QED BY <2>1, <2>2, <2>3 DEF OneRow, Unmarked
<1>8. ASSUME NEW t \in next
      PROVE  /\ Deps[t] # {} /\ ~ Due(t) /\ \A k \in DOMAIN rows : rows[k].task # t
             /\ \A d \in Deps[t] : MarkedSuccess(d)'
  <2>1. t \in Task /\ Deps[t] # {} /\ MetDependencies(rows', t) = Cardinality(Deps[t])
    BY <1>2 DEF RunnableTasks
  <2>2. \A k \in DOMAIN rows' : rows'[k].task = t =>
                                    rows'[k].status \notin {"running", "success", "failed"}
    <3>1. IsFiniteSet(Deps[t])
      BY <2>1, DagAssumption, SomeTasks
    <3>2. Cardinality(Deps[t]) # 0
      BY <2>1, <3>1, FS_EmptySet
    <3> QED BY <2>1, <3>2 DEF MetDependencies
  <2>3. t # rows[i].task
    BY <1>3, <2>2 DEF StatusSet
  <2>4. ~ MarkedSuccess(t)
    <3> SUFFICES ASSUME NEW k \in succeededRows, rows[k].task = t PROVE FALSE
      BY DEF MarkedSuccess
    <3>1. k \in DOMAIN rows /\ rows[k].status \in {"success", "running"}
      BY TypeParts DEF Written
    <3> QED BY <1>3, <2>2, <3>1 DEF StatusSet
  <2>5. rows[i].task \notin Downstream(t)
    BY <2>4, UnmarkedWaits DEF OneRow
  <2>6. t \in Downstream(rows[i].task)
    BY <1>4, <2>1, <2>3, <2>5 DEF Series
  <2>7. ~ Due(t) /\ \A k \in DOMAIN rows : rows[k].task # t
    BY <1>7, <2>6, UnmarkedWaits DEF OneRow
  <2>8. ASSUME NEW d \in Deps[t] PROVE MarkedSuccess(d)'
    <3>1. PICK rs : rs = rows'
      OBVIOUS
    <3>2. PICK ps : ps = [k \in DOMAIN rs |->
                            [phase |-> IF rs[k].status = "success" THEN "succeeded" ELSE "none"]]
      OBVIOUS
    <3>3. \A k \in DOMAIN rs : ps[k].phase = "succeeded" <=> rs[k].status = "success"
      BY <3>2
    <3>4. \A j, k \in DOMAIN rs :
              rs[j].task = rs[k].task /\ rs[j].status = "success"
                  /\ rs[k].status = "success" => j = k
      <4>1. \A k \in DOMAIN rs : rs[k].status = "success" => pods[k].phase = "succeeded"
        BY <1>3, <3>1 DEF IInv, StatusOK, RowOK
      <4>2. DOMAIN rs = DOMAIN rows /\ \A k \in DOMAIN rows : rs[k].task = rows[k].task
        BY <1>3, <3>1 DEF StatusSet
      <4> QED BY <1>5, <4>1, <4>2 DEF NoTwins
    <3>5. MetDependencies(rs, t) = Cardinality(Deps[t])
      BY <2>1, <3>1
    <3>6. \E k \in DOMAIN rs : rs[k].task = d /\ ps[k].phase = "succeeded"
      <4>1. \A j, k \in DOMAIN rs :
                rs[j].task = rs[k].task /\ ps[j].phase = "succeeded"
                    /\ ps[k].phase = "succeeded" => j = k
        BY <3>3, <3>4
      <4>2. \A k \in DOMAIN rs : rs[k].status = "success" => ps[k].phase = "succeeded"
        BY <3>3
      <4> QED BY <2>1, <3>5, <4>1, <4>2, AllMet
    <3>7. PICK k \in DOMAIN rows' : rows'[k].task = d /\ rows'[k].status = "success"
      BY <3>1, <3>3, <3>6
    <3>8. k \in succeededRows'
      BY <3>7 DEF IInv, StatusOK, RowOK
    <3> QED BY <3>7, <3>8 DEF MarkedSuccess
  <2> QED BY <2>1, <2>7, <2>8
<1>9. \A k \in DOMAIN rows' : Unmarked(k)'
  BY <1>3, <1>6 DEF OneRow, RowStays, StatusSet
<1>10. OneLeft'
  BY <1>3, <1>6 DEF OneRow, OneLeft, RowStays, StatusSet
<1>11. AllMarked'
  <2> SUFFICES ASSUME NEW t \in Task, Due(t)' \/ \E k \in DOMAIN rows' : rows'[k].task = t,
                      NEW d \in Deps[t]
               PROVE  MarkedSuccess(d)'
    BY DEF AllMarked
  <2>1. CASE t \in next
    BY <1>8, <2>1
  <2>2. CASE Due(t) \/ \E k \in DOMAIN rows : rows[k].task = t
    <3>1. MarkedSuccess(d)
      BY <2>2 DEF OneRow, AllMarked
    <3> QED BY <1>6, <3>1, MarksStay
  <2>3. Due(t)' => t \in next \/ Due(t)
    BY <1>2 DEF Due, Moves
  <2> QED BY <1>3, <2>1, <2>2, <2>3 DEF StatusSet
<1>12. DueOnce'
  <2> SUFFICES ASSUME NEW g \in Handler, handler'[g].pc = "addNext", NEW t \in handler'[g].todo
               PROVE  /\ Deps[t] # {} /\ \A k \in DOMAIN rows' : rows'[k].task # t
                      /\ \A f \in Handler : handler'[f].pc = "addNext"
                                               /\ t \in handler'[f].todo => f = g
    BY DEF DueOnce
  <2>1. CASE g = h
    <3>1. t \in next
      BY <1>2, <2>1 DEF Moves
    <3>2. \A f \in Handler : f # h => ~ (handler'[f].pc = "addNext" /\ t \in handler'[f].todo)
      BY <1>2, <1>8, <3>1 DEF Moves, Due
    <3> QED BY <1>3, <1>8, <2>1, <3>1, <3>2 DEF StatusSet
  <2>2. CASE g # h
    <3>1. handler'[g] = handler[g] /\ Due(t)
      BY <1>2, <2>2 DEF Moves, Due
    <3>2. ~ (handler'[h].pc = "addNext" /\ t \in handler'[h].todo)
      BY <1>2, <1>8, <3>1 DEF Moves
    <3>3. /\ Deps[t] # {} /\ \A k \in DOMAIN rows : rows[k].task # t
          /\ \A f \in Handler : handler[f].pc = "addNext" /\ t \in handler[f].todo => f = g
      BY <3>1 DEF OneRow, DueOnce
    <3>4. ASSUME NEW f \in Handler, handler'[f].pc = "addNext", t \in handler'[f].todo
          PROVE  f = g
      <4>1. f # h /\ handler'[f] = handler[f]
        BY <1>2, <3>2, <3>4 DEF Moves
      <4> QED BY <3>3, <3>4, <4>1
    <3> QED BY <1>3, <3>3, <3>4 DEF StatusSet
  <2> QED BY <2>1, <2>2
<1> QED BY <1>9, <1>10, <1>11, <1>12 DEF OneRow

\* The pod of row k changes, and no handler starts tasks.
LEMMA OneRowPod ==
    ASSUME IInv, Kept, OneRow, NEW k \in DOMAIN rows, RowStays(k), DOMAIN rows' = DOMAIN rows,
           \A j \in 1..MaxRows : j # k => pods'[j] = pods[j],
           \A j \in DOMAIN rows : j # k => EndStays(j),
           \A h \in Handler : \/ handler'[h] = handler[h]
                              \/ handler'[h].row = k /\ handler'[h].pc # "addNext"
    PROVE  OneRow'
<1>1. ASSUME NEW j \in DOMAIN rows, j # k PROVE RowStays(j)
  <2>1. j \in 1..MaxRows
    BY Domain DEF IInv
  <2>2. EndStays(j) /\ pods'[j] = pods[j]
    BY <1>1, <2>1
  <2>3. \A h \in Handler : handler'[h].row = j => handler'[h] = handler[h]
    BY <1>1
  <2> QED BY <2>2, <2>3, SameRowStays
<1> QED BY <1>1, OneRowKept

LEMMA NextOneRow ==
    ASSUME Series, IInv, IInv', Written, CountInv, Present, OneRowInv, [Next]_vars
    PROVE  OneRowInv'
<1> SUFFICES ASSUME redelivered' = 0 PROVE OneRow'
  BY DEF OneRowInv
<1>0. /\ Kept /\ DOMAIN rows \subseteq 1..MaxRows /\ redelivered = 0 /\ EventsOnce /\ OneRow
  <2>1. redelivered = 0
    BY RedeliveredBefore, TypeParts
  <2> QED BY <2>1, Keeps, Domain DEF OneRowInv, CountInv, IInv
<1>e. ASSUME SameEnds PROVE \A k : EndStays(k)
  BY <1>e DEF SameEnds, EndStays
\* Handlers go on to steps that hold no end of a pod and no task to start.
<1>k. ASSUME DOMAIN rows' = DOMAIN rows, SameEnds, pods' = pods,
             \A h \in Handler :
                 handler'[h].pc \in {"markSuccess", "retryAdd", "markFailed", "addNext"}
                     => handler'[h] = handler[h]
      PROVE  OneRow'
  <2>1. \A k \in DOMAIN rows : RowStays(k)
    BY <1>e, <1>k, SameRowStays
  <2> QED BY <1>0, <1>k, <2>1, OneRowKept
<1>1. CASE UNCHANGED vars
  BY <1>1, <1>k DEF vars, counters, SameEnds
<1>2. ASSUME NEW n, n = Len(rows'), NEW t, RowAdded(t) PROVE pods[n].events = 0
  <2>1. n \in 1..MaxRows /\ n \notin DOMAIN rows
    <3>1. Len(rows) \in Nat /\ MaxRows \in Nat
      BY Domain, Bounds DEF IInv
    <3> QED BY <1>2, <3>1 DEF RowAdded
  <2>2. pods[n].phase \notin Ends
    BY <2>1 DEF Present, Ends
  <2> QED BY <1>0, <2>1, <2>2 DEF EventsOnce
<1>3. ASSUME NEW t \in Task, StartTask(t) PROVE OneRow'
  <2>1. RowAdded(t) /\ Deps[t] = {} /\ pods' = pods /\ handler' = handler /\ SameEnds
    BY <1>3, StartTaskEffect
  <2>2. \A k \in DOMAIN rows : rows[k].task # t
    BY <1>3 DEF StartTask, TaskRunExists
  <2>3. \A k \in DOMAIN rows : RowStays(k)
    BY <1>e, <2>1, SameRowStays
  <2>4. \A h \in Handler : handler[h].pc = "addNext" => t \notin handler[h].todo
    BY <1>0, <2>1 DEF OneRow, DueOnce
  <2>5. pods[Len(rows')].events = 0
    BY <1>2, <2>1
  <2> QED BY <1>0, <2>1, <2>2, <2>3, <2>4, <2>5, OneRowAdds
<1>4. ASSUME NEW k \in DOMAIN rows, StartPod(k) PROVE OneRow'
  <2>1. /\ PodSet(k, "active", pods[k].events, pods[k].adopted) /\ rows' = rows
        /\ handler' = handler /\ pods[k].phase = "none" /\ SameEnds
    BY <1>4, StartPodEffect
  <2>2. RowStays(k)
    BY <2>1 DEF PodSet, RowStays, Unmarked, Superseded, Retried, SameEnds, Works
  <2> QED BY <1>0, <1>e, <2>1, <2>2, OneRowPod DEF PodSet
<1>5. ASSUME NEW k \in DOMAIN rows, Finalize(k) PROVE OneRow'
  <2>1. /\ StatusSet(k, "running") /\ handler' = handler
        /\ PodSet(k, pods[k].phase, pods[k].events, TRUE)
        /\ succeededRows' = succeededRows /\ givenUp' = givenUp
    BY <1>5, FinalizeEffect
  <2>2. \A j : EndStays(j)
    BY <2>1 DEF EndStays
  <2>3. RowStays(k)
    BY <2>1, <2>2, SameRowStays DEF PodSet
  <2> QED BY <1>0, <2>1, <2>2, <2>3, OneRowPod DEF PodSet, StatusSet
<1>6. ASSUME NEW k \in DOMAIN rows, PodFinishes(k) PROVE OneRow'
  <2>1. PICK phase \in Ends : PodSet(k, phase, pods[k].events + 1, pods[k].adopted)
    BY <1>6, PodFinishesEffect
  <2>2. rows' = rows /\ handler' = handler /\ pods[k].phase = "active" /\ SameEnds
    BY <1>6, PodFinishesEffect
  <2>3. RowStays(k)
    <3>1. k \notin succeededRows \cup givenUp /\ ~ Superseded(k)
      BY <2>2 DEF IInv, StatusOK, RowOK, Superseded, Retried
    <3>2. Unmarked(k)'
      BY <2>2, <3>1 DEF Unmarked, SameEnds
    <3> QED BY <3>1, <3>2 DEF RowStays
  <2> QED BY <1>0, <1>e, <2>1, <2>2, <2>3, OneRowPod DEF PodSet
<1>7. ASSUME NEW k \in DOMAIN rows, Redeliver(k) PROVE FALSE
  BY <1>0, <1>7, RedeliverEffect, TypeParts
<1>8. ASSUME NEW k \in DOMAIN rows, PodGone(k) PROVE OneRow'
  <2>1. /\ PodSet(k, pods[k].phase, pods[k].events, pods[k].adopted)
        /\ rows' = rows /\ handler' = handler /\ SameEnds
    BY <1>8, PodGoneEffect
  <2>2. RowStays(k)
    BY <1>e, <2>1, SameRowStays DEF PodSet
  <2> QED BY <1>0, <1>e, <2>1, <2>2, OneRowPod DEF PodSet
\* A handler takes the event of pod k, which was the only one.
<1>9. ASSUME NEW h \in Handler, NEW k \in DOMAIN rows, pods[k].events > 0,
             PodSet(k, pods[k].phase, pods[k].events - 1, pods[k].adopted), rows' = rows,
             SameEnds,
             handler' = handler \/ \E pc \in {"markSuccess", "retryAdd", "markFailed"} :
                                       Moves(h, pc, k, k, {})
      PROVE  OneRow'
  <2>1. k \notin succeededRows \cup givenUp /\ ~ Superseded(k)
    <3>1. pods[k].events # 0
      BY <1>9
    <3> QED BY <1>0, <1>9, <3>1 DEF OneRow, Unmarked, Superseded
  <2>2. RowStays(k)
    BY <1>9, <2>1 DEF RowStays, Unmarked, SameEnds
  <2>3. \A g \in Handler : \/ handler'[g] = handler[g]
                           \/ handler'[g].row = k /\ handler'[g].pc # "addNext"
    BY <1>9 DEF Moves
  <2> QED BY <1>0, <1>9, <1>e, <2>2, <2>3, OneRowPod DEF PodSet
<1>10. ASSUME NEW h \in Handler, NEW k \in DOMAIN rows,
              TakeSucceeded(h, k) \/ TakeFailed(h, k) \/ TakeMisconfiguredFails(h, k)
       PROVE  OneRow'
  <2>1. /\ pods[k].events > 0 /\ rows' = rows /\ SameEnds
        /\ PodSet(k, pods[k].phase, pods[k].events - 1, pods[k].adopted)
    BY <1>10, TakeSucceededEffect, TakeFailedEffect, TakeMisconfiguredFailsEffect
  <2>2. handler' = handler \/ \E pc \in {"markSuccess", "retryAdd", "markFailed"} :
                                  Moves(h, pc, k, k, {})
    BY <1>10, TakeSucceededEffect, TakeFailedEffect, TakeMisconfiguredFailsEffect
  <2> QED BY <1>9, <2>1, <2>2
<1>11. ASSUME NEW h \in Handler, NEW k \in DOMAIN rows, TakeMisconfigured(h, k) PROVE OneRow'
  <2>1. /\ pods[k].events > 0 /\ pods[k].phase = "misconfigured"
        /\ \A g \in Handler : handler[g].pod # k
        /\ PodSet(k, pods[k].phase, pods[k].events - 1, pods[k].adopted)
        /\ Moves(h, "markFailed", k, k, {}) /\ StatusSet(k, "failed")
        /\ succeededRows' = succeededRows /\ givenUp' = givenUp \cup {k}
    BY <1>11, TakeMisconfiguredEffect
  <2>2. RowStays(k)
    <3>1. ~ Superseded(k)
      BY <2>1 DEF Superseded, Retried
    <3>2. ~ (pods'[k].events > 0)
      <4>1. pods[k].events \in Nat /\ pods[k].events <= 1
        BY <1>0, TypeParts DEF EventsOnce, PodRecord
      <4> QED BY <2>1, <4>1 DEF PodSet
    <3>3. ~ Works({"markSuccess", "retryAdd"}, k)'
      <4>1. \A g \in Handler : handler[g].pc \in {"markSuccess", "retryAdd"} => handler[g].row # k
        BY <2>1 DEF IInv, HandlerOK
      <4> QED BY <2>1, <4>1 DEF Works, Moves
    <3> QED BY <2>1, <3>1, <3>2, <3>3 DEF RowStays, Unmarked
  <2>3. \A g \in Handler : \/ handler'[g] = handler[g]
                           \/ handler'[g].row = k /\ handler'[g].pc # "addNext"
    BY <2>1 DEF Moves
  <2>4. \A j : j # k => EndStays(j)
    BY <2>1 DEF EndStays
  <2> QED BY <1>0, <2>1, <2>2, <2>3, <2>4, OneRowPod DEF PodSet, StatusSet
<1>12. ASSUME NEW h \in Handler, MarkSuccess(h) PROVE OneRow'
  BY <1>0, <1>12, MarkSuccessOnce
<1>13. ASSUME NEW h \in Handler, NEW t \in Task, AddNext(h, t) PROVE OneRow'
  <2>1. /\ handler[h].pc = "addNext" /\ t \in handler[h].todo /\ RowAdded(t) /\ pods' = pods
        /\ SameEnds
    BY <1>13, AddNextEffect
  <2>2. \/ Moves(h, "free", 0, 0, {})
        \/ Moves(h, "addNext", handler[h].pod, handler[h].row, handler[h].todo \ {t})
    BY <1>13, AddNextEffect
  <2>3. \A k \in DOMAIN rows : rows[k].task # t
    BY <1>0, <2>1 DEF OneRow, DueOnce
  <2>4. \A k \in DOMAIN rows : RowStays(k)
    <3>1. \A g \in Handler : handler'[g].pc \in {"markSuccess", "retryAdd", "markFailed"}
                                 => handler'[g] = handler[g]
      BY <2>2 DEF Moves
    <3> QED BY <1>e, <2>1, <3>1, SameRowStays
  <2>5. \A g \in Handler : handler'[g].pc = "addNext" =>
            /\ handler[g].pc = "addNext" /\ handler'[g].todo \subseteq handler[g].todo
            /\ t \notin handler'[g].todo
    <3>1. \A g \in Handler : g # h => ~ (handler[g].pc = "addNext" /\ t \in handler[g].todo)
      BY <1>0, <2>1 DEF OneRow, DueOnce
    <3> QED BY <2>1, <2>2, <3>1 DEF Moves
  <2>6. \A d \in Deps[t] : MarkedSuccess(d)
    BY <1>0, <2>1 DEF OneRow, AllMarked, Due
  <2>7. pods[Len(rows')].events = 0
    BY <1>2, <2>1
  <2> QED BY <1>0, <2>1, <2>3, <2>4, <2>5, <2>6, <2>7, OneRowAdds
<1>14. ASSUME NEW h \in Handler, CheckDone(h) \/ RetryClaim(h) \/ RetryIncrement(h)
                                   \/ CascadeRead(h) \/ CascadeWrite(h) \/ HandlerAborts(h)
       PROVE  OneRow'
  <2>1. /\ pods' = pods /\ \A g \in Handler : g # h => handler'[g] = handler[g]
        /\ handler'[h].pc \notin {"markSuccess", "retryAdd", "markFailed", "addNext"}
    BY <1>14, CheckDoneEffect, RetryClaimEffect, RetryIncrementEffect, CascadeReadEffect,
       CascadeWriteEffect, HandlerAbortsEffect DEF Moves
  <2>2. DOMAIN rows' = DOMAIN rows /\ SameEnds
    BY <1>14, CheckDoneEffect, RetryClaimEffect, RetryIncrementEffect, CascadeReadEffect,
       CascadeWriteEffect, HandlerAbortsEffect
  <2> QED BY <1>k, <2>1, <2>2
<1>15. ASSUME NEW h \in Handler, RetryAdd(h) PROVE OneRow'
  <2>1. PICK i \in DOMAIN rows : i = handler[h].row /\ handler[h].pod = i
    BY <1>15, BusyRow DEF RetryAdd, IInv, HandlerOK
  <2>2. PICK t \in Task : t = rows[i].task /\ RowAdded(t)
    BY <1>15, <2>1, RetryAddEffect
  <2>3. /\ handler[h].pc = "retryAdd" /\ pods' = pods /\ SameEnds
        /\ Moves(h, "retryClaim", handler[h].pod, Len(rows'), handler[h].todo)
    BY <1>15, RetryAddEffect
  <2>4. \A k \in DOMAIN rows : RowStays(k)
    <3>1. \A g \in Handler : handler'[g].pc \in {"markSuccess", "retryAdd", "markFailed"}
                                 => handler'[g] = handler[g]
      BY <2>3 DEF Moves
    <3> QED BY <1>e, <2>3, <3>1, SameRowStays
  <2>5. Works({"retryAdd", "markFailed"}, i) /\ Works({"markSuccess", "retryAdd"}, i)
    BY <2>1, <2>3 DEF Works
  <2>6. Superseded(i)'
    <3>1. i \notin givenUp'
      BY <1>0, <2>3, <2>5 DEF OneRow, Unmarked, SameEnds
    <3>2. pods[i].phase = "failed" /\ pods[i].events = 0
      BY <1>0, <2>1, <2>3 DEF IInv, HandlerOK, EventsOnce
    <3>3. ~ Works({"retryAdd", "markFailed"}, i)'
      <4> SUFFICES ASSUME NEW g \in Handler, handler'[g].pc \in {"retryAdd", "markFailed"},
                          handler'[g].row = i
                   PROVE  FALSE
        BY DEF Works
      <4>1. g # h
        BY <2>3 DEF Moves
      <4>2. handler[g].pc # "free" /\ handler[g].pod = i
        BY <2>3, <4>1 DEF Moves, IInv, HandlerOK
      <4> QED BY <2>1, <4>1, <4>2 DEF IInv, Exclusive
    <3> QED BY <2>3, <3>1, <3>2, <3>3 DEF Superseded, Retried
  <2>7. ASSUME NEW k \in DOMAIN rows, rows[k].task = t PROVE Superseded(k)'
    <3>1. CASE k = i
      BY <2>6, <3>1
    <3>2. CASE k # i
      <4>1. ~ (i < k)
        BY <1>0, <2>2, <2>5, <2>7 DEF OneRow, OneLeft, Superseded
      <4>2. k < i
        BY <1>0, <3>2, <4>1
      <4>3. Superseded(k)
        BY <1>0, <2>2, <2>7, <4>2 DEF OneRow, OneLeft
      <4> QED BY <2>4, <4>3 DEF RowStays
    <3> QED BY <3>1, <3>2
  <2>8. \A d \in Deps[t] : MarkedSuccess(d)
    BY <1>0, <2>2 DEF OneRow, AllMarked
  <2>9. \A g \in Handler : handler'[g].pc = "addNext" =>
            /\ handler[g].pc = "addNext" /\ handler'[g].todo \subseteq handler[g].todo
            /\ t \notin handler'[g].todo
    <3>1. \A g \in Handler : handler[g].pc = "addNext" => t \notin handler[g].todo
      BY <1>0, <2>2 DEF OneRow, DueOnce
    <3> QED BY <2>3, <3>1 DEF Moves
  <2>10. pods[Len(rows')].events = 0
    BY <1>2, <2>2
  <2> QED BY <1>0, <2>2, <2>3, <2>4, <2>7, <2>8, <2>9, <2>10, OneRowAdds
<1>16. ASSUME NEW h \in Handler, MarkFailed(h) \/ MarkFailedFails(h) PROVE OneRow'
  <2>1. PICK i \in DOMAIN rows : i = handler[h].row /\ handler[h].pod = i
    BY <1>16, BusyRow DEF MarkFailed, MarkFailedFails, IInv, HandlerOK
  <2>2. /\ handler[h].pc = "markFailed" /\ pods' = pods
        /\ succeededRows' = succeededRows /\ givenUp' = givenUp \cup {i}
        /\ DOMAIN rows' = DOMAIN rows
        /\ Moves(h, "cascadeRead", handler[h].pod, handler[h].row, handler[h].todo)
    BY <1>16, <2>1, MarkFailedEffect, MarkFailedFailsEffect DEF StatusSet
  <2>3. RowStays(i)
    <3>1. ~ Superseded(i)
      BY <2>1, <2>2 DEF Superseded, Works
    <3>2. pods[i].events = 0
      BY <1>0, <2>1, <2>2 DEF EventsOnce
    <3>3. ~ Works({"markSuccess", "retryAdd"}, i)'
      <4>1. \A g \in Handler : handler[g].pc \in {"markSuccess", "retryAdd"} => handler[g].row # i
        BY <2>1, <2>2 DEF IInv, HandlerOK, Exclusive
      <4> QED BY <2>2, <4>1 DEF Works, Moves
    <3> QED BY <2>2, <3>1, <3>2, <3>3 DEF RowStays, Unmarked
  <2>4. \A g \in Handler : \/ handler'[g] = handler[g]
                           \/ handler'[g].row = i /\ handler'[g].pc # "addNext"
    BY <2>1, <2>2 DEF Moves
  <2>5. \A j : j # i => EndStays(j)
    BY <2>2 DEF EndStays
  <2> QED BY <1>0, <2>2, <2>3, <2>4, <2>5, OneRowPod
<1> QED
  BY <1>1, <1>3, <1>4, <1>5, <1>6, <1>7, <1>8, <1>10, <1>11, <1>12, <1>13, <1>14, <1>15, <1>16
     DEF Next, Advance

LEMMA AlwaysOneRow ==
    ASSUME Series
    PROVE  Spec => []OneRowInv
<1>1. Init => OneRowInv
  BY DEF Init, OneRowInv, OneRow, AllMarked, Due, OneLeft, DueOnce, Free
<1> QED
  BY <1>1, NextOneRow, AlwaysI, AlwaysWritten, AlwaysCount, AlwaysPresent, PTL DEF Spec

-----------------------------------------------------------------------------
(* DAGs whose tasks are suspended once.                                    *)

\* Two tasks that may fail and have tasks downstream in common are not side by
\* side.
FailApart ==
    \A f, g \in Failing \cup Misconfigured :
        f # g /\ Downstream(f) \cap Downstream(g) # {}
            => f \in Downstream(g) \/ g \in Downstream(f)

\* Failures are those of tasks that may fail.
FailsAsMay ==
    \A k \in DOMAIN rows : pods[k].phase \in {"failed", "misconfigured"}
                               => rows[k].task \in Failing \cup Misconfigured

LEMMA FailsAsMayKept ==
    ASSUME Kept, FailsAsMay,
           \A k \in DOMAIN rows' : pods'[k].phase \in {"failed", "misconfigured"} =>
               k \in DOMAIN rows /\ pods'[k].phase = pods[k].phase
    PROVE  FailsAsMay'
BY DEF FailsAsMay, Kept

LEMMA NextFailsAsMay ==
    ASSUME IInv, IInv', Present, FailsAsMay, [Next]_vars
    PROVE  FailsAsMay'
<1>0. /\ Kept /\ DOMAIN rows \subseteq 1..MaxRows /\ DOMAIN rows' \subseteq 1..MaxRows
  <2>1. DOMAIN rows' \subseteq 1..MaxRows
    BY Bounds DEF IInv, TypeOK
  <2> QED BY <2>1, Keeps, Domain DEF IInv
<1>1. ASSUME pods' = pods PROVE FailsAsMay'
  BY <1>0, <1>1, FailsAsMayKept DEF Present
<1>2. ASSUME NEW k \in DOMAIN rows, NEW phase, NEW events, NEW adopted,
             PodSet(k, phase, events, adopted), DOMAIN rows' = DOMAIN rows,
             phase \in {"failed", "misconfigured"} =>
                 phase = pods[k].phase \/ rows[k].task \in Failing \cup Misconfigured
      PROVE  FailsAsMay'
  <2>1. \A j \in DOMAIN rows : j # k => pods'[j] = pods[j]
    BY <1>0, <1>2 DEF PodSet
  <2> QED BY <1>0, <1>2, <2>1 DEF FailsAsMay, Kept, PodSet
<1>3. CASE UNCHANGED vars
  BY <1>1, <1>3 DEF vars
<1>4. ASSUME NEW t \in Task, StartTask(t) PROVE FailsAsMay'
  BY <1>1, <1>4, StartTaskEffect
<1>5. ASSUME NEW k \in DOMAIN rows, StartPod(k) PROVE FailsAsMay'
  BY <1>2, <1>5, StartPodEffect
<1>6. ASSUME NEW k \in DOMAIN rows, Finalize(k) PROVE FailsAsMay'
  BY <1>2, <1>6, FinalizeEffect DEF StatusSet
<1>7. ASSUME NEW k \in DOMAIN rows, PodFinishes(k) PROVE FailsAsMay'
  <2>1. PICK phase \in Ends : PodSet(k, phase, pods[k].events + 1, pods[k].adopted)
    BY <1>7, PodFinishesEffect
  <2>2. rows' = rows
    BY <1>7, PodFinishesEffect
  <2>3. phase \in {"failed", "misconfigured"} => rows[k].task \in Failing \cup Misconfigured
    <3>1. PICK ph \in Ends :
              /\ ph = "failed" => rows[k].task \in Failing
              /\ ph = "misconfigured" => rows[k].task \in Misconfigured
              /\ pods' = [pods EXCEPT ![k].phase = ph, ![k].events = @ + 1]
      BY <1>7 DEF PodFinishes, Ends
    <3>2. k \in 1..MaxRows /\ pods \in [1..MaxRows -> PodRecord]
      BY <1>0, TypeParts
    <3>3. pods'[k].phase = ph
      <4>1. PICK q \in PodRecord : q = pods[k]
        BY <3>2
      <4>2. PICK q1 \in PodRecord : q1 = [q EXCEPT !.phase = ph]
        BY PodFields DEF PodRecord, Ends
      <4>3. PICK q2 \in PodRecord : q2 = [q1 EXCEPT !.events = q1.events + 1]
        BY PodFields
      <4>4. pods' = [pods EXCEPT ![k] = q2]
        BY <3>1, <3>2, <4>1, <4>2, <4>3
      <4>5. q2.phase = q1.phase /\ q1.phase = ph
        BY <4>2, <4>3, PodFields DEF PodRecord
      <4> QED BY <3>2, <4>4, <4>5
    <3> QED BY <2>1, <3>1, <3>3 DEF PodSet
  <2> QED BY <1>2, <2>1, <2>2, <2>3
<1>8. ASSUME NEW k \in DOMAIN rows, Redeliver(k) \/ PodGone(k) PROVE FailsAsMay'
  BY <1>2, <1>8, RedeliverEffect, PodGoneEffect
<1>9. ASSUME NEW h \in Handler, NEW k \in DOMAIN rows,
             TakeSucceeded(h, k) \/ TakeFailed(h, k) \/ TakeMisconfiguredFails(h, k)
      PROVE  FailsAsMay'
  BY <1>2, <1>9, TakeSucceededEffect, TakeFailedEffect, TakeMisconfiguredFailsEffect
<1>10. ASSUME NEW h \in Handler, NEW k \in DOMAIN rows, TakeMisconfigured(h, k)
       PROVE  FailsAsMay'
  BY <1>2, <1>10, TakeMisconfiguredEffect DEF StatusSet
<1>11. ASSUME NEW h \in Handler,
              \/ MarkSuccess(h) \/ (\E t \in Task : AddNext(h, t)) \/ CheckDone(h)
              \/ RetryAdd(h) \/ RetryClaim(h) \/ RetryIncrement(h) \/ MarkFailed(h)
              \/ CascadeRead(h) \/ CascadeWrite(h) \/ HandlerAborts(h) \/ MarkFailedFails(h)
       PROVE  pods' = pods
  BY <1>11 DEF MarkSuccess, AddNext, CheckDone, RetryAdd, RetryClaim, RetryIncrement, MarkFailed,
               CascadeRead, CascadeWrite, HandlerAborts, MarkFailedFails
<1> QED
  BY <1>1, <1>3, <1>4, <1>5, <1>6, <1>7, <1>8, <1>9, <1>10, <1>11 DEF Next, Advance

LEMMA AlwaysFailsAsMay == Spec => []FailsAsMay
<1>1. Init => FailsAsMay
  BY DEF Init, FailsAsMay
<1> QED BY <1>1, NextFailsAsMay, AlwaysI, AlwaysPresent, PTL DEF Spec

\* What a handler is about to suspend has not been suspended, and no other
\* handler is about to.
CascadesOnce ==
    /\ SuspendedOnce
    /\ \A h \in Handler : handler[h].pc = "cascadeWrite" =>
          \A t \in handler[h].todo :
              /\ suspendedRows[t] = 0
              /\ \A g \in Handler : handler[g].pc = "cascadeWrite" /\ t \in handler[g].todo
                                        => g = h

CascadeInv == redelivered = 0 => CascadesOnce

LEMMA NextCascadeOnce ==
    ASSUME FailApart, IInv, IInv', OrderInv, SuspendInv, OneRowInv, FailsAsMay, CascadeInv,
           [Next]_vars
    PROVE  CascadeInv'
<1> SUFFICES ASSUME redelivered' = 0 PROVE CascadesOnce'
  BY DEF CascadeInv
<1>0. CascadesOnce /\ OneRow /\ OnceEach /\ DependencyOrder
  <2>1. redelivered = 0
    BY RedeliveredBefore, TypeParts
  <2>2. OneRow
    BY <2>1 DEF OneRowInv
  <2> QED BY <2>1, <2>2, OneRowOnceEach DEF CascadeInv, OrderInv
<1>k. ASSUME suspendedRows' = suspendedRows,
             \A h \in Handler : handler'[h].pc = "cascadeWrite" => handler'[h] = handler[h]
      PROVE  CascadesOnce'
  BY <1>0, <1>k DEF CascadesOnce, SuspendedOnce
<1>m. ASSUME NEW h \in Handler, suspendedRows' = suspendedRows,
             handler'[h].pc # "cascadeWrite",
             \A g \in Handler : g # h => handler'[g] = handler[g]
      PROVE  CascadesOnce'
  BY <1>k, <1>m
<1>1. CASE UNCHANGED vars
  BY <1>1, <1>k DEF vars
<1>2. ASSUME NEW t \in Task, StartTask(t) PROVE CascadesOnce'
  BY <1>2, <1>k, StartTaskEffect
<1>3. ASSUME NEW k \in DOMAIN rows,
             StartPod(k) \/ Finalize(k) \/ PodFinishes(k) \/ Redeliver(k) \/ PodGone(k)
      PROVE  CascadesOnce'
  BY <1>3, <1>k, StartPodEffect, FinalizeEffect, PodFinishesEffect, RedeliverEffect, PodGoneEffect
<1>4. ASSUME NEW h \in Handler, NEW k \in DOMAIN rows,
             \/ TakeSucceeded(h, k) \/ TakeFailed(h, k)
             \/ TakeMisconfigured(h, k) \/ TakeMisconfiguredFails(h, k)
      PROVE  CascadesOnce'
  <2>1. suspendedRows' = suspendedRows
    BY <1>4, TakeSucceededEffect, TakeFailedEffect, TakeMisconfiguredEffect,
       TakeMisconfiguredFailsEffect
  <2>2. handler' = handler \/ \E pc \in {"markSuccess", "retryAdd", "markFailed"} :
                                  Moves(h, pc, k, k, {})
    BY <1>4, TakeSucceededEffect, TakeFailedEffect, TakeMisconfiguredEffect,
       TakeMisconfiguredFailsEffect
  <2>3. \A g \in Handler : handler'[g].pc = "cascadeWrite" => handler'[g] = handler[g]
    BY <2>2 DEF Moves
  <2> QED BY <1>k, <2>1, <2>3
<1>5. ASSUME NEW h \in Handler, MarkSuccess(h) PROVE CascadesOnce'
  BY <1>5, <1>m, MarkSuccessEffect DEF Moves
<1>6. ASSUME NEW h \in Handler, NEW t \in Task, AddNext(h, t) PROVE CascadesOnce'
  BY <1>6, <1>m, AddNextEffect DEF Moves
<1>7. ASSUME NEW h \in Handler,
             \/ CheckDone(h) \/ RetryAdd(h) \/ RetryClaim(h) \/ RetryIncrement(h)
             \/ MarkFailed(h) \/ MarkFailedFails(h) \/ HandlerAborts(h)
      PROVE  CascadesOnce'
  <2>1. suspendedRows' = suspendedRows
    BY <1>7, CheckDoneEffect, RetryAddEffect, RetryClaimEffect, RetryIncrementEffect,
       MarkFailedEffect, MarkFailedFailsEffect, HandlerAbortsEffect
  <2>2. /\ handler'[h].pc # "cascadeWrite"
        /\ \A g \in Handler : g # h => handler'[g] = handler[g]
    BY <1>7, CheckDoneEffect, RetryAddEffect, RetryClaimEffect, RetryIncrementEffect,
       MarkFailedEffect, MarkFailedFailsEffect, HandlerAbortsEffect DEF Moves
  <2> QED BY <1>m, <2>1, <2>2
<1>8. ASSUME NEW h \in Handler, CascadeRead(h) PROVE CascadesOnce'
  <2>1. PICK i \in DOMAIN rows : i = handler[h].row /\ handler[h].pod = i
    BY <1>8, BusyRow DEF CascadeRead, IInv, HandlerOK
  <2>2. PICK todo \in SUBSET Task :
            /\ todo = {t \in Downstream(rows[i].task) : ~ TaskRunExists(t)}
            /\ Moves(h, IF todo = {} THEN "checkDone" ELSE "cascadeWrite",
                     handler[h].pod, handler[h].row, todo)
    BY <1>8, <2>1, CascadeReadEffect
  <2>3. suspendedRows' = suspendedRows /\ handler[h].pc = "cascadeRead"
    BY <1>8, CascadeReadEffect
  <2>4. \A t \in todo : suspendedRows[t] = 0
    <3>1. \A t \in todo : ~ (suspendedRows[t] > 0) /\ suspendedRows[t] \in Nat
      BY <2>2, TypeParts DEF TaskRunExists
    <3> QED BY <3>1
  <2>5. ASSUME NEW g \in Handler, g # h, handler[g].pc = "cascadeWrite", NEW t \in todo,
               t \in handler[g].todo
        PROVE  FALSE
    <3>1. PICK j \in DOMAIN rows : j = handler[g].row /\ handler[g].pod = j
      BY <2>5, BusyRow DEF IInv, HandlerOK
    <3>2. i # j
      BY <2>1, <2>3, <2>5, <3>1 DEF IInv, Exclusive
    <3>3. i \in givenUp /\ j \in givenUp
      BY <2>1, <2>3, <2>5, <3>1 DEF SuspendInv
    <3>4. rows[i].task # rows[j].task
      BY <1>0, <3>2, <3>3 DEF OnceEach, Retried
    <3>5. t \in Downstream(rows[i].task) /\ t \in Downstream(rows[j].task)
      BY <2>2, <2>5, <3>1 DEF SuspendInv
    <3>6. \A k \in {i, j} : /\ rows[k].task \in Failing \cup Misconfigured
                            /\ ~ Succeeded(rows[k].task)
      <4>1. \A k \in {i, j} : pods[k].phase \in {"failed", "misconfigured"}
        BY <3>3 DEF IInv, StatusOK, RowOK
      <4>2. \A k \in {i, j} : rows[k].task \in Failing \cup Misconfigured
        BY <4>1 DEF FailsAsMay
      <4>3. \A k \in {i, j} : ~ Succeeded(rows[k].task)
        BY <1>0, <3>3, <4>1 DEF Succeeded, OnceEach, Retried
      <4> QED BY <4>2, <4>3
    <3>7. rows[i].task \in Downstream(rows[j].task) \/ rows[j].task \in Downstream(rows[i].task)
      BY <3>4, <3>5, <3>6 DEF FailApart
    <3> QED BY <1>0, <3>6, <3>7, DownstreamWaits
  <2>6. SuspendedOnce'
    BY <1>0, <2>3 DEF CascadesOnce, SuspendedOnce
  <2>7. ASSUME NEW g \in Handler, handler'[g].pc = "cascadeWrite", NEW t \in handler'[g].todo
        PROVE  /\ suspendedRows'[t] = 0
               /\ \A f \in Handler : handler'[f].pc = "cascadeWrite" /\ t \in handler'[f].todo
                                         => f = g
    <3>1. \A f \in Handler : f # h => handler'[f] = handler[f]
      BY <2>2 DEF Moves
    <3>2. handler'[h].todo = todo
      BY <2>2 DEF Moves
    <3>3. CASE g = h
      BY <2>3, <2>4, <2>5, <2>7, <3>1, <3>2, <3>3
    <3>4. CASE g # h
      <4>1. t \notin todo
        BY <2>5, <2>7, <3>1, <3>4
      <4> QED BY <1>0, <2>3, <2>7, <3>1, <3>2, <3>4, <4>1 DEF CascadesOnce
    <3> QED BY <3>3, <3>4
  <2> QED BY <2>6, <2>7 DEF CascadesOnce
<1>9. ASSUME NEW h \in Handler, CascadeWrite(h) PROVE CascadesOnce'
  <2>1. /\ handler[h].pc = "cascadeWrite" /\ handler'[h].pc = "checkDone"
        /\ \A g \in Handler : g # h => handler'[g] = handler[g]
        /\ \A t \in Task : suspendedRows'[t] = IF t \in handler[h].todo THEN suspendedRows[t] + 1
                                               ELSE suspendedRows[t]
    BY <1>9, CascadeWriteEffect DEF Moves
  <2>2. SuspendedOnce'
    BY <1>0, <2>1, TypeParts DEF CascadesOnce, SuspendedOnce
  <2>3. ASSUME NEW g \in Handler, handler'[g].pc = "cascadeWrite", NEW t \in handler'[g].todo
        PROVE  /\ suspendedRows'[t] = 0
               /\ \A f \in Handler : handler'[f].pc = "cascadeWrite" /\ t \in handler'[f].todo
                                         => f = g
    <3>1. g # h /\ handler'[g] = handler[g]
      BY <2>1, <2>3
    <3>2. t \in Task
      BY <2>3, <3>1, BusyRow
    <3>3. t \notin handler[h].todo
      BY <1>0, <2>1, <2>3, <3>1 DEF CascadesOnce
    <3> QED BY <1>0, <2>1, <2>3, <3>1, <3>2, <3>3 DEF CascadesOnce
  <2> QED BY <2>2, <2>3 DEF CascadesOnce
<1> QED
  BY <1>1, <1>2, <1>3, <1>4, <1>5, <1>6, <1>7, <1>8, <1>9 DEF Next, Advance

LEMMA AlwaysCascadesOnce ==
    ASSUME Series, FailApart
    PROVE  Spec => []CascadeInv
<1>1. Init => CascadeInv
  BY DEF Init, CascadeInv, CascadesOnce, SuspendedOnce, Free
<1> QED
  BY <1>1, NextCascadeOnce, AlwaysI, AlwaysOrder, AlwaysSuspend, AlwaysOneRow, AlwaysFailsAsMay,
     PTL DEF Spec

\* In the DAGs of Series, a task that has succeeded or is still on its way has
\* one row, whichever handlers look for runnable tasks at the same time,
\* whichever of them give up and whichever ends FinalizeClaimToRunning
\* overwrites: getRunnableTasks, which does not see the rows of the run, never
\* finds a task that has one.  Nor is a task suspended twice, when tasks that
\* may fail side by side have nothing downstream in common.
THEOREM SeriesUnforked ==
    ASSUME Series, FailApart
    PROVE  Spec => [](redelivered = 0 => Unforked)
<1>1. IInv /\ OneRowInv /\ CascadeInv => (redelivered = 0 => Unforked)
  BY OneRowOnceEach DEF OneRowInv, CascadeInv, CascadesOnce, Unforked
<1> QED BY <1>1, AlwaysI, AlwaysOneRow, AlwaysCascadesOnce, PTL

\* So in those DAGs tasks run after their dependencies, what is suspended does
\* not run, and a run is marked 'success' when every task has succeeded, ...
THEOREM SeriesOrder ==
    ASSUME Series
    PROVE  Spec => []((redelivered = 0 => DependencyOrder /\ SuspendedNeverRuns) /\ SuccessIsTotal)
<1>1. ASSUME IInv, OneRowInv, OrderInv, NoTwins => SuccessIsTotal, OnceEach => SuspendedNeverRuns
      PROVE  (redelivered = 0 => DependencyOrder /\ SuspendedNeverRuns) /\ SuccessIsTotal
  <2>1. redelivered = 0 => OnceEach /\ NoTwins
    BY <1>1, OneRowOnceEach DEF OneRowInv
  <2>2. SuccessIsTotal
    BY <1>1, <2>1 DEF SuccessIsTotal, CountedOnce
  <2> QED BY <1>1, <2>1, <2>2 DEF OrderInv
<1> QED
  BY <1>1, AlwaysI, AlwaysOneRow, AlwaysOrder, SuccessMeansAll, SuspendedStaySuspended, PTL

\* ... the workspace outlives its users, ...
THEOREM SeriesWorkspace ==
    ASSUME Series, FailApart
    PROVE  Spec => []PvcOutlivesPods
<1>1. (redelivered = 0 => Unforked) /\ (Unforked => PvcOutlivesPods) => PvcOutlivesPods
  BY DEF PvcOutlivesPods, CountedOnce
<1> QED BY <1>1, SeriesUnforked, WorkspaceOutlivesPods, PTL

\* ... and a run stalls only when a handler fails, an end is counted twice or
\* overwritten, or ids are confused (the last two in QuiescentMeansDone).
THEOREM SeriesRunsEnd ==
    ASSUME Task # {}, NoCycles, Series, FailApart
    PROVE  Spec => [](CountedOnce /\ faults = 0 => QuiescentMeansDone)
<1>1. (redelivered = 0 => Unforked) /\ CountedOnce => Unforked
  BY DEF CountedOnce
<1> QED BY <1>1, SeriesUnforked, UnforkedRunsEnd, PTL

=============================================================================
