------------------------ MODULE DagRunProgress_proofs -----------------------
(***************************************************************************)
(* What a run of a DAG keeps, for every DAG, every number of event loops   *)
(* and every bound: its types, the order of its tasks, and what its status *)
(* and its workspace say about its pods.                                   *)
(***************************************************************************)
EXTENDS DagRunProgress, FiniteSetTheorems, TLAPS

-----------------------------------------------------------------------------
(* The tables: what one update of a row or of a pod changes.               *)

Ends == {"succeeded", "failed", "misconfigured"}

LEMMA Bounds ==
    /\ BackoffLimit \in Nat /\ RunId \in Nat /\ MaxRows \in Nat
    /\ MaxFailures \in Nat /\ MaxRedeliver \in Nat /\ MaxFaults \in Nat
BY BoundsAssumption

\* The indices of rows have a pod.
LEMMA Domain ==
    ASSUME TypeOK
    PROVE  /\ Len(rows) \in Nat /\ DOMAIN rows = 1..Len(rows)
           /\ DOMAIN rows \subseteq 1..MaxRows
           /\ \A k \in DOMAIN rows : rows[k] \in Row /\ pods[k] \in PodRecord
BY Bounds DEF TypeOK

LEMMA AppendRow ==
    ASSUME TypeOK, NEW t \in Task, AddPendingTaskRun(t)
    PROVE  /\ rows' \in Seq(Row) /\ Len(rows') = Len(rows) + 1 /\ Len(rows') <= MaxRows
           /\ DOMAIN rows' = (DOMAIN rows) \cup {Len(rows')}
           /\ Len(rows') \notin DOMAIN rows
           /\ \A k \in DOMAIN rows : rows'[k] = rows[k]
           /\ rows'[Len(rows')] = [task |-> t, status |-> "pending", attempts |-> 0]
<1>1. [task |-> t, status |-> "pending", attempts |-> 0] \in Row
  BY DEF Row
<1> QED
  BY <1>1, Domain, Bounds DEF AddPendingTaskRun, TypeOK

\* One field of a row or of a pod changes and the others stay.
LEMMA RowFields ==
    \A r \in Row :
        /\ \A st : [r EXCEPT !.status = st]
                     = [task |-> r.task, status |-> st, attempts |-> r.attempts]
        /\ [r EXCEPT !.attempts = r.attempts + 1]
             = [task |-> r.task, status |-> r.status, attempts |-> r.attempts + 1]
        /\ [r EXCEPT !.attempts = r.attempts + 1] \in Row
BY DEF Row

LEMMA PodFields ==
    \A q \in PodRecord :
        /\ \A x : [q EXCEPT !.phase = x] = [adopted |-> q.adopted, events |-> q.events,
                                            phase |-> x, presence |-> q.presence]
        /\ \A x : [q EXCEPT !.adopted = x] = [adopted |-> x, events |-> q.events,
                                              phase |-> q.phase, presence |-> q.presence]
        /\ \A x : [q EXCEPT !.events = x] = [adopted |-> q.adopted, events |-> x,
                                             phase |-> q.phase, presence |-> q.presence]
        /\ \A x : [q EXCEPT !.presence = x] = [adopted |-> q.adopted, events |-> q.events,
                                               phase |-> q.phase, presence |-> x]
        /\ [q EXCEPT !.events = q.events + 1] \in PodRecord
        /\ q.events > 0 => [q EXCEPT !.events = q.events - 1] \in PodRecord
BY DEF PodRecord

LEMMA CountAttempt ==
    ASSUME TypeOK, NEW i \in DOMAIN rows, rows' = [rows EXCEPT ![i].attempts = @ + 1]
    PROVE  /\ rows' \in Seq(Row) /\ Len(rows') = Len(rows) /\ DOMAIN rows' = DOMAIN rows
           /\ \A k \in DOMAIN rows : /\ rows'[k].task = rows[k].task
                                     /\ rows'[k].status = rows[k].status
<1>1. PICK r \in Row : r = rows[i]
  BY Domain
<1>2. rows' = [rows EXCEPT ![i] = [r EXCEPT !.attempts = r.attempts + 1]]
  BY <1>1
<1>3. PICK new \in Row : new = [r EXCEPT !.attempts = r.attempts + 1]
  BY RowFields
<1>4. new.task = r.task /\ new.status = r.status
  BY <1>3, RowFields
<1>5. rows' = [rows EXCEPT ![i] = new] /\ rows \in Seq(Row)
  BY <1>2, <1>3 DEF TypeOK
<1> QED
  BY <1>1, <1>4, <1>5

\* The pods when the one of row k changes to q.
LEMMA SetPod ==
    ASSUME TypeOK, NEW k \in DOMAIN rows, NEW q \in PodRecord,
           pods' = [pods EXCEPT ![k] = q]
    PROVE  /\ pods' \in [1..MaxRows -> PodRecord] /\ pods'[k] = q
           /\ \A j \in 1..MaxRows : j # k => pods'[j] = pods[j]
BY Domain DEF TypeOK

\* The pods after the event of pod k was taken.
LEMMA TakenPod ==
    ASSUME TypeOK, NEW k \in DOMAIN rows, pods[k].events > 0,
           NEW presence \in {"present", "terminating", "gone"}, pods' = Taken(k, presence)
    PROVE  /\ pods' \in [1..MaxRows -> PodRecord]
           /\ pods'[k].events = pods[k].events - 1
           /\ \A j \in 1..MaxRows : /\ pods'[j].phase = pods[j].phase
                                    /\ pods'[j].adopted = pods[j].adopted
                                    /\ j # k => pods'[j] = pods[j]
<1>1. PICK q \in PodRecord : q = pods[k]
  BY Domain
<1>2. PICK q1 \in PodRecord : q1 = [q EXCEPT !.events = q.events - 1]
  BY <1>1, PodFields
<1>3. PICK q2 \in PodRecord : q2 = [q1 EXCEPT !.presence = presence]
  BY PodFields DEF PodRecord
<1>4. q2.events = q.events - 1 /\ q2.phase = q.phase /\ q2.adopted = q.adopted
  BY <1>2, <1>3, PodFields
<1>5. pods' = [pods EXCEPT ![k] = q2]
  BY <1>1, <1>2, <1>3 DEF Taken
<1>6. k \in 1..MaxRows
  BY Domain
<1> QED
  BY <1>1, <1>4, <1>5, <1>6, SetPod

-----------------------------------------------------------------------------
(* The actions, by what they change.                                       *)

HandlerRecord == [pc : Steps, pod : Nat, row : Nat, todo : SUBSET Task]

\* The row i gets the status st.
StatusSet(i, st) ==
    /\ rows' \in Seq(Row) /\ Len(rows') = Len(rows) /\ DOMAIN rows' = DOMAIN rows
    /\ \A k \in DOMAIN rows :
          /\ rows'[k].task = rows[k].task
          /\ rows'[k].status = IF k = i THEN st ELSE rows[k].status

\* A pending row of task t is added.
RowAdded(t) ==
    /\ rows' \in Seq(Row) /\ Len(rows') = Len(rows) + 1 /\ Len(rows') <= MaxRows
    /\ DOMAIN rows' = (DOMAIN rows) \cup {Len(rows')}
    /\ Len(rows') \notin DOMAIN rows
    /\ \A k \in DOMAIN rows : rows'[k] = rows[k]
    /\ rows'[Len(rows')].task = t /\ rows'[Len(rows')].status = "pending"

\* The pod of row k gets this phase, number of events and adoption.
PodSet(k, phase, events, adopted) ==
    /\ pods' \in [1..MaxRows -> PodRecord]
    /\ pods'[k].phase = phase /\ pods'[k].events = events /\ pods'[k].adopted = adopted
    /\ \A j \in 1..MaxRows : j # k => pods'[j] = pods[j]

\* The event loop h moves.
Moves(h, pc, k, i, todo) ==
    /\ handler' \in [Handler -> HandlerRecord]
    /\ handler'[h].pc = pc /\ handler'[h].pod = k /\ handler'[h].row = i
    /\ handler'[h].todo = todo
    /\ \A g \in Handler : g # h => handler'[g] = handler[g]

LEMMA HandlerFields ==
    \A w \in HandlerRecord : \A pc \in Steps :
        /\ [w EXCEPT !.pc = pc]
             = [pc |-> pc, pod |-> w.pod, row |-> w.row, todo |-> w.todo]
        /\ \A i \in Nat : [w EXCEPT !.row = i]
             = [pc |-> w.pc, pod |-> w.pod, row |-> i, todo |-> w.todo]
        /\ \A k \in Nat : [w EXCEPT !.pod = k]
             = [pc |-> w.pc, pod |-> k, row |-> w.row, todo |-> w.todo]
        /\ \A todo \in SUBSET Task : [w EXCEPT !.todo = todo]
             = [pc |-> w.pc, pod |-> w.pod, row |-> w.row, todo |-> todo]
BY DEF HandlerRecord

LEMMA SetHandler ==
    ASSUME TypeOK, NEW h \in Handler, NEW pc \in Steps, NEW k \in Nat, NEW i \in Nat,
           NEW todo \in SUBSET Task,
           NEW w, w = [pc |-> pc, pod |-> k, row |-> i, todo |-> todo],
           handler' = [handler EXCEPT ![h] = w]
    PROVE  Moves(h, pc, k, i, todo)
<1>1. w \in HandlerRecord
  BY DEF HandlerRecord
<1> QED
  BY <1>1 DEF TypeOK, Moves, HandlerRecord

LEMMA HandlerType ==
    ASSUME TypeOK, NEW h \in Handler
    PROVE  /\ handler[h] \in HandlerRecord
           /\ handler[h].pc \in Steps /\ handler[h].pod \in Nat /\ handler[h].row \in Nat
           /\ handler[h].todo \in SUBSET Task
BY DEF TypeOK, HandlerRecord

LEMMA DoneMoves ==
    ASSUME TypeOK, NEW h \in Handler, Done(h)
    PROVE  Moves(h, "free", 0, 0, {})
BY SetHandler DEF Done, Free, Steps

LEMMA BeginMoves ==
    ASSUME TypeOK, NEW h \in Handler, NEW k \in Nat, NEW pc \in Steps, Begin(h, k, pc)
    PROVE  Moves(h, pc, k, k, {})
<1>1. PICK w \in HandlerRecord : w = Free
  BY DEF Free, HandlerRecord, Steps
<1>2. PICK w1 \in HandlerRecord :
            w1 = [w EXCEPT !.pc = pc] /\ w1 = [pc |-> pc, pod |-> 0, row |-> 0, todo |-> {}]
  BY <1>1, HandlerFields DEF Free, HandlerRecord
<1>3. PICK w2 : w2 = [w1 EXCEPT !.pod = k]
  OBVIOUS
<1>4. w2 = [pc |-> pc, pod |-> k, row |-> 0, todo |-> {}]
  <2>1. w2 = [pc |-> w1.pc, pod |-> k, row |-> w1.row, todo |-> w1.todo]
    BY <1>3, HandlerFields
  <2> QED
    BY <1>2, <2>1
<1>5. w2 \in HandlerRecord
  BY <1>4 DEF HandlerRecord
<1>6. PICK w3 : w3 = [w2 EXCEPT !.row = k]
  OBVIOUS
<1>7. w3 = [pc |-> pc, pod |-> k, row |-> k, todo |-> {}]
  BY <1>6, <1>4, <1>5, HandlerFields
<1>8. handler' = [handler EXCEPT ![h] = w3]
  BY <1>1, <1>2, <1>3, <1>6 DEF Begin
<1> QED
  BY <1>7, <1>8, SetHandler

\* The event loop goes on with other tasks to do.
LEMMA GoOnMoves ==
    ASSUME TypeOK, NEW h \in Handler, NEW pc \in Steps, NEW i \in Nat, NEW todo \in SUBSET Task
    PROVE  /\ GoTo(h, pc) => Moves(h, pc, handler[h].pod, handler[h].row, handler[h].todo)
           /\ handler' = [handler EXCEPT ![h].todo = todo, ![h].pc = pc]
                => Moves(h, pc, handler[h].pod, handler[h].row, todo)
           /\ handler' = [handler EXCEPT ![h].pc = pc, ![h].row = i]
                => Moves(h, pc, handler[h].pod, i, handler[h].todo)
           /\ handler' = [handler EXCEPT ![h].todo = todo]
                => Moves(h, handler[h].pc, handler[h].pod, handler[h].row, todo)
<1>1. PICK w \in HandlerRecord : w = handler[h]
  BY HandlerType
<1>2. ASSUME GoTo(h, pc) PROVE Moves(h, pc, w.pod, w.row, w.todo)
  <2>1. PICK v : v = [w EXCEPT !.pc = pc]
    OBVIOUS
  <2>2. handler' = [handler EXCEPT ![h] = v]
    BY <1>1, <1>2, <2>1 DEF GoTo
  <2> QED
    BY <1>1, <2>1, <2>2, HandlerFields, HandlerType, SetHandler
<1>3. ASSUME handler' = [handler EXCEPT ![h].todo = todo, ![h].pc = pc]
      PROVE  Moves(h, pc, w.pod, w.row, todo)
  <2>1. PICK v \in HandlerRecord : /\ v = [w EXCEPT !.todo = todo]
                                   /\ v = [pc |-> w.pc, pod |-> w.pod, row |-> w.row, todo |-> todo]
    BY <1>1, HandlerFields DEF HandlerRecord
  <2>2. PICK u : u = [v EXCEPT !.pc = pc]
    OBVIOUS
  <2>3. u = [pc |-> pc, pod |-> w.pod, row |-> w.row, todo |-> todo]
    BY <2>1, <2>2, HandlerFields
  <2>4. handler' = [handler EXCEPT ![h] = u]
    BY <1>1, <1>3, <2>1, <2>2
  <2> QED
    BY <1>1, <2>3, <2>4, HandlerType, SetHandler
<1>4. ASSUME handler' = [handler EXCEPT ![h].pc = pc, ![h].row = i]
      PROVE  Moves(h, pc, w.pod, i, w.todo)
  <2>1. PICK v \in HandlerRecord : /\ v = [w EXCEPT !.pc = pc]
                                   /\ v = [pc |-> pc, pod |-> w.pod, row |-> w.row, todo |-> w.todo]
    BY <1>1, HandlerFields DEF HandlerRecord
  <2>2. PICK u : u = [v EXCEPT !.row = i]
    OBVIOUS
  <2>3. u = [pc |-> pc, pod |-> w.pod, row |-> i, todo |-> w.todo]
    BY <2>1, <2>2, HandlerFields
  <2>4. handler' = [handler EXCEPT ![h] = u]
    BY <1>1, <1>4, <2>1, <2>2
  <2> QED
    BY <1>1, <2>3, <2>4, HandlerType, SetHandler
<1>5. ASSUME handler' = [handler EXCEPT ![h].todo = todo]
      PROVE  Moves(h, w.pc, w.pod, w.row, todo)
  <2>1. PICK v : v = [w EXCEPT !.todo = todo]
    OBVIOUS
  <2>2. handler' = [handler EXCEPT ![h] = v]
    BY <1>1, <1>5, <2>1
  <2> QED
    BY <1>1, <2>1, <2>2, HandlerFields, HandlerType, SetHandler
<1> QED
  BY <1>1, <1>2, <1>3, <1>4, <1>5

-----------------------------------------------------------------------------
(* The inductive invariant of the types.                                    *)

\* What an event loop holds: a pod that ended, in the phase its step is about,
\* and the row of that pod or, in a retry, a later one.
HandlerOK(h) ==
    LET w == handler[h]
    IN  /\ w.pc = "free" => w.pod = 0
        /\ w.pc # "free" => /\ w.pod \in DOMAIN rows /\ w.row \in DOMAIN rows
                            /\ pods[w.pod].phase \in Ends
        /\ w.pc \in {"markSuccess", "addNext"} => pods[w.pod].phase = "succeeded"
        /\ w.pc \in {"retryAdd", "retryClaim", "retryIncrement"} => pods[w.pod].phase = "failed"
        /\ w.pc \in {"markFailed", "cascadeRead", "cascadeWrite"}
              => pods[w.pod].phase \in {"failed", "misconfigured"}
        /\ w.pc \in {"markSuccess", "retryAdd", "markFailed", "cascadeRead", "cascadeWrite"}
              => w.row = w.pod

\* Two event loops work on different pods.
Exclusive ==
    \A g, h \in Handler : handler[g].pc # "free" /\ handler[g].pod = handler[h].pod => g = h

\* A status that says how the task ended agrees with what the handlers have
\* done, and that with the pod; what they have written stays unless Finalize
\* overwrites it.
RowOK(k) ==
    /\ rows[k].status = "success" => k \in succeededRows
    /\ rows[k].status = "failed" => k \in givenUp
    /\ k \in succeededRows => pods[k].phase = "succeeded"
    /\ k \in succeededRows /\ k \notin overwritten => rows[k].status = "success"
    /\ k \in givenUp => pods[k].phase \in {"failed", "misconfigured"}

StatusOK == \A k \in DOMAIN rows : RowOK(k)

IInv == TypeOK /\ (\A h \in Handler : HandlerOK(h)) /\ Exclusive /\ StatusOK

\* The row and the pod of a busy event loop exist.
LEMMA BusyRow ==
    ASSUME IInv, NEW h \in Handler, handler[h].pc # "free"
    PROVE  /\ handler[h].pod \in DOMAIN rows /\ handler[h].row \in DOMAIN rows
           /\ handler[h].pod \in Nat /\ handler[h].row \in Nat /\ handler[h].pc \in Steps
           /\ handler[h].todo \in SUBSET Task
BY HandlerType DEF IInv, HandlerOK

SameCounts == /\ successfulCount' = successfulCount /\ failedCount' = failedCount
              /\ suspendedCount' = suspendedCount /\ runStatus' = runStatus

SameEnds == /\ succeededRows' = succeededRows /\ givenUp' = givenUp
            /\ overwritten' = overwritten

LEMMA AppendedRow ==
    ASSUME TypeOK, NEW t \in Task, AddPendingTaskRun(t)
    PROVE  RowAdded(t)
<1>1. /\ rows' \in Seq(Row) /\ Len(rows') = Len(rows) + 1 /\ Len(rows') <= MaxRows
      /\ DOMAIN rows' = (DOMAIN rows) \cup {Len(rows')}
      /\ Len(rows') \notin DOMAIN rows
      /\ \A k \in DOMAIN rows : rows'[k] = rows[k]
      /\ rows'[Len(rows')] = [task |-> t, status |-> "pending", attempts |-> 0]
  BY AppendRow
<1>2. rows'[Len(rows')].task = t /\ rows'[Len(rows')].status = "pending"
  BY <1>1
<1> QED
  BY <1>1, <1>2 DEF RowAdded

LEMMA StatusIsSet ==
    ASSUME TypeOK, NEW i \in DOMAIN rows,
           NEW st \in {"pending", "running", "success", "failed"},
           rows' = [rows EXCEPT ![i].status = st]
    PROVE  StatusSet(i, st)
<1>1. PICK r \in Row : r = rows[i]
  BY Domain
<1>2. rows' = [rows EXCEPT ![i] = [r EXCEPT !.status = st]]
  BY <1>1
<1>3. PICK new \in Row : new = [r EXCEPT !.status = st]
  BY RowFields DEF Row
<1>4. new.task = r.task /\ new.status = st
  BY <1>3, RowFields
<1>5. rows' = [rows EXCEPT ![i] = new] /\ rows \in Seq(Row)
  BY <1>2, <1>3 DEF TypeOK
<1> QED
  BY <1>1, <1>4, <1>5 DEF StatusSet

LEMMA StartTaskEffect ==
    ASSUME IInv, NEW t \in Task, StartTask(t)
    PROVE  /\ RowAdded(t) /\ Deps[t] = {} /\ SameCounts /\ SameEnds
           /\ UNCHANGED <<suspendedRows, pvc, pods, handler, redelivered, faults>>
<1>1. TypeOK /\ AddPendingTaskRun(t)
  BY DEF IInv, StartTask
<1>2. RowAdded(t)
  BY <1>1, AppendedRow
<1> QED
  BY <1>2 DEF StartTask, SameCounts, SameEnds, counters, counts

LEMMA StartPodEffect ==
    ASSUME IInv, NEW k \in DOMAIN rows, StartPod(k)
    PROVE  /\ pods[k].phase = "none" /\ rows[k].status = "pending"
           /\ PodSet(k, "active", pods[k].events, pods[k].adopted) /\ SameCounts /\ SameEnds
           /\ UNCHANGED <<rows, suspendedRows, pvc, handler, redelivered, faults>>
<1>1. TypeOK /\ k \in 1..MaxRows
  BY Domain DEF IInv
<1>2. PICK q \in PodRecord : q = pods[k]
  BY <1>1, Domain
<1>3. PICK q1 \in PodRecord : q1 = [q EXCEPT !.phase = "active"]
  BY PodFields DEF PodRecord
<1>4. pods' = [pods EXCEPT ![k] = q1]
  BY <1>2, <1>3 DEF StartPod
<1>5. q1.phase = "active" /\ q1.events = q.events /\ q1.adopted = q.adopted
  BY <1>3, PodFields
<1> QED
  BY <1>1, <1>2, <1>4, <1>5, SetPod DEF StartPod, PodSet, SameCounts, SameEnds, counters, counts

LEMMA FinalizeEffect ==
    ASSUME IInv, NEW k \in DOMAIN rows, Finalize(k)
    PROVE  /\ pods[k].phase # "none" /\ ~ pods[k].adopted
           /\ StatusSet(k, "running")
           /\ PodSet(k, pods[k].phase, pods[k].events, TRUE) /\ SameCounts
           /\ overwritten \subseteq overwritten' /\ overwritten' \subseteq overwritten \cup {k}
           /\ rows[k].status \in {"success", "failed"} => k \in overwritten'
           /\ UNCHANGED <<succeededRows, givenUp, suspendedRows, pvc, handler, redelivered,
                          faults>>
<1>1. TypeOK /\ k \in 1..MaxRows
  BY Domain DEF IInv
<1>2. PICK q \in PodRecord : q = pods[k]
  BY <1>1, Domain
<1>3. PICK q1 \in PodRecord : q1 = [q EXCEPT !.adopted = TRUE]
  BY PodFields DEF PodRecord
<1>4. pods' = [pods EXCEPT ![k] = q1]
  BY <1>2, <1>3 DEF Finalize
<1>5. q1.phase = q.phase /\ q1.events = q.events /\ q1.adopted = TRUE
  BY <1>3, PodFields
<1>6. PodSet(k, pods[k].phase, pods[k].events, TRUE)
  BY <1>1, <1>2, <1>4, <1>5, SetPod DEF PodSet
<1>7. StatusSet(k, "running")
  BY <1>1, StatusIsSet DEF Finalize
<1> QED
  BY <1>6, <1>7 DEF Finalize, SameCounts, counts

LEMMA PodFinishesEffect ==
    ASSUME IInv, NEW k \in DOMAIN rows, PodFinishes(k)
    PROVE  /\ pods[k].phase = "active"
           /\ \E phase \in Ends : PodSet(k, phase, pods[k].events + 1, pods[k].adopted)
           /\ SameCounts /\ SameEnds
           /\ UNCHANGED <<rows, suspendedRows, pvc, handler, redelivered, faults>>
<1>1. TypeOK /\ k \in 1..MaxRows
  BY Domain DEF IInv
<1>2. PICK q \in PodRecord : q = pods[k]
  BY <1>1, Domain
<1>3. PICK phase \in Ends : pods' = [pods EXCEPT ![k].phase = phase, ![k].events = @ + 1]
  BY DEF PodFinishes, Ends
<1>4. PICK q1 \in PodRecord : q1 = [q EXCEPT !.phase = phase]
  BY PodFields DEF PodRecord, Ends
<1>5. PICK q2 \in PodRecord : q2 = [q1 EXCEPT !.events = q1.events + 1]
  BY PodFields
<1>6. pods' = [pods EXCEPT ![k] = q2]
  BY <1>2, <1>3, <1>4, <1>5
<1>7. q1.phase = phase /\ q1.events = q.events /\ q1.adopted = q.adopted
  BY <1>4, PodFields
<1>8. q2.phase = phase /\ q2.events = q.events + 1 /\ q2.adopted = q.adopted
  BY <1>5, <1>7, PodFields
<1>9. PodSet(k, phase, pods[k].events + 1, pods[k].adopted)
  BY <1>1, <1>2, <1>6, <1>8, SetPod DEF PodSet
<1> QED
  BY <1>9 DEF PodFinishes, SameCounts, SameEnds, counters, counts

LEMMA RedeliverEffect ==
    ASSUME IInv, NEW k \in DOMAIN rows, Redeliver(k)
    PROVE  /\ pods[k].phase \in Ends /\ redelivered' = redelivered + 1
           /\ redelivered' <= MaxRedeliver
           /\ PodSet(k, pods[k].phase, pods[k].events + 1, pods[k].adopted) /\ SameCounts /\ SameEnds
           /\ UNCHANGED <<rows, suspendedRows, pvc, handler, faults>>
<1>1. TypeOK /\ k \in 1..MaxRows
  BY Domain DEF IInv
<1>2. PICK q \in PodRecord : q = pods[k]
  BY <1>1, Domain
<1>3. PICK q1 \in PodRecord : q1 = [q EXCEPT !.events = q.events + 1]
  BY PodFields
<1>4. pods' = [pods EXCEPT ![k] = q1]
  BY <1>2, <1>3 DEF Redeliver
<1>5. q1.phase = q.phase /\ q1.events = q.events + 1 /\ q1.adopted = q.adopted
  BY <1>3, PodFields
<1>6. PodSet(k, pods[k].phase, pods[k].events + 1, pods[k].adopted)
  BY <1>1, <1>2, <1>4, <1>5, SetPod DEF PodSet
<1>7. pods[k].phase \in Ends
  BY <1>2 DEF Redeliver, PodRecord, Ends
<1>8. redelivered' = redelivered + 1 /\ redelivered' <= MaxRedeliver
  BY <1>1, Bounds DEF Redeliver, TypeOK
<1> QED
  BY <1>6, <1>7, <1>8 DEF Redeliver, SameCounts, SameEnds, counters, counts

LEMMA PodGoneEffect ==
    ASSUME IInv, NEW k \in DOMAIN rows, PodGone(k)
    PROVE  /\ PodSet(k, pods[k].phase, pods[k].events, pods[k].adopted) /\ SameCounts /\ SameEnds
           /\ UNCHANGED <<rows, suspendedRows, pvc, handler, redelivered, faults>>
<1>1. TypeOK /\ k \in 1..MaxRows
  BY Domain DEF IInv
<1>2. PICK q \in PodRecord : q = pods[k]
  BY <1>1, Domain
<1>3. PICK q1 \in PodRecord : q1 = [q EXCEPT !.presence = "gone"]
  BY PodFields DEF PodRecord
<1>4. pods' = [pods EXCEPT ![k] = q1]
  BY <1>2, <1>3 DEF PodGone
<1>5. q1.phase = q.phase /\ q1.events = q.events /\ q1.adopted = q.adopted
  BY <1>3, PodFields
<1> QED
  BY <1>1, <1>2, <1>4, <1>5, SetPod DEF PodGone, PodSet, SameCounts, SameEnds, counters, counts

LEMMA TakeEffect ==
    ASSUME IInv, NEW h \in Handler, NEW k \in DOMAIN rows, TakesEvent(h, k),
           NEW presence \in {"present", "terminating", "gone"}, pods' = Taken(k, presence)
    PROVE  /\ handler[h].pc = "free" /\ pods[k].events > 0
           /\ \A g \in Handler : handler[g].pod # k
           /\ PodSet(k, pods[k].phase, pods[k].events - 1, pods[k].adopted)
<1>1. TypeOK /\ k \in 1..MaxRows /\ pods[k].events > 0
  BY Domain DEF IInv, TakesEvent
<1>2. PodSet(k, pods[k].phase, pods[k].events - 1, pods[k].adopted)
  BY <1>1, TakenPod DEF PodSet
<1> QED
  BY <1>1, <1>2 DEF TakesEvent

LEMMA TakeSucceededEffect ==
    ASSUME IInv, NEW h \in Handler, NEW k \in DOMAIN rows, TakeSucceeded(h, k)
    PROVE  /\ handler[h].pc = "free" /\ pods[k].events > 0 /\ pods[k].phase = "succeeded"
           /\ \A g \in Handler : handler[g].pod # k
           /\ PodSet(k, pods[k].phase, pods[k].events - 1, pods[k].adopted)
           /\ handler' = handler \/ Moves(h, "markSuccess", k, k, {})
           /\ SameCounts /\ SameEnds /\ UNCHANGED <<rows, suspendedRows, pvc, redelivered, faults>>
<1>1. TypeOK /\ k \in Nat
  BY Domain DEF IInv
<1>2. PICK p \in {"present", "terminating", "gone"} : pods' = Taken(k, p)
  BY DEF TakeSucceeded, Deleted
<1>3. handler' = handler \/ Moves(h, "markSuccess", k, k, {})
  BY <1>1, BeginMoves DEF TakeSucceeded, Steps
<1>4. TakesEvent(h, k)
  BY DEF TakeSucceeded
<1> QED
  BY <1>2, <1>3, <1>4, TakeEffect DEF TakeSucceeded, SameCounts, SameEnds, counters, counts

LEMMA TakeFailedEffect ==
    ASSUME IInv, NEW h \in Handler, NEW k \in DOMAIN rows, TakeFailed(h, k)
    PROVE  /\ handler[h].pc = "free" /\ pods[k].events > 0 /\ pods[k].phase = "failed"
           /\ \A g \in Handler : handler[g].pod # k
           /\ PodSet(k, pods[k].phase, pods[k].events - 1, pods[k].adopted)
           /\ \/ Moves(h, "retryAdd", k, k, {})
              \/ Moves(h, "markFailed", k, k, {})
           /\ SameCounts /\ SameEnds /\ UNCHANGED <<rows, suspendedRows, pvc, redelivered, faults>>
<1>1. TypeOK /\ k \in Nat
  BY Domain DEF IInv
<1>2. PICK p \in {"present", "terminating", "gone"} : pods' = Taken(k, p)
  BY DEF TakeFailed, Deleted
<1>3. \/ Moves(h, "retryAdd", k, k, {})
      \/ Moves(h, "markFailed", k, k, {})
  <2>1. CASE ShouldRerun(k)
    BY <1>1, <2>1, BeginMoves DEF TakeFailed, Steps
  <2>2. CASE ~ ShouldRerun(k)
    BY <1>1, <2>2, BeginMoves DEF TakeFailed, Steps
  <2> QED
    BY <2>1, <2>2
<1>4. TakesEvent(h, k)
  BY DEF TakeFailed
<1> QED
  BY <1>2, <1>3, <1>4, TakeEffect DEF TakeFailed, SameCounts, SameEnds, counters, counts

LEMMA TakeMisconfiguredEffect ==
    ASSUME IInv, NEW h \in Handler, NEW k \in DOMAIN rows, TakeMisconfigured(h, k)
    PROVE  /\ handler[h].pc = "free" /\ pods[k].events > 0
           /\ pods[k].phase = "misconfigured"
           /\ \A g \in Handler : handler[g].pod # k
           /\ PodSet(k, pods[k].phase, pods[k].events - 1, pods[k].adopted)
           /\ Moves(h, "markFailed", k, k, {}) /\ StatusSet(k, "failed")
           /\ failedCount' = failedCount + 1 /\ runStatus' = "failed"
           /\ givenUp' = givenUp \cup {k}
           /\ UNCHANGED <<succeededRows, overwritten, successfulCount, suspendedCount,
                          suspendedRows, pvc, redelivered, faults>>
<1>1. TypeOK /\ k \in Nat
  BY Domain DEF IInv
<1>2. Moves(h, "markFailed", k, k, {})
  BY <1>1, BeginMoves DEF TakeMisconfigured, Steps
<1>3. PICK p \in {"present", "terminating", "gone"} : pods' = Taken(k, p)
  BY <1>1, Domain DEF TakeMisconfigured, PodRecord
<1>4. StatusSet(k, "failed")
  BY <1>1, StatusIsSet DEF TakeMisconfigured, MarkTaskAsFailed
<1>5. TakesEvent(h, k)
  BY DEF TakeMisconfigured
<1> QED
  BY <1>2, <1>3, <1>4, <1>5, TakeEffect DEF TakeMisconfigured, MarkTaskAsFailed

LEMMA TakeMisconfiguredFailsEffect ==
    ASSUME IInv, NEW h \in Handler, NEW k \in DOMAIN rows, TakeMisconfiguredFails(h, k)
    PROVE  /\ handler[h].pc = "free" /\ pods[k].events > 0
           /\ pods[k].phase = "misconfigured"
           /\ \A g \in Handler : handler[g].pod # k
           /\ PodSet(k, pods[k].phase, pods[k].events - 1, pods[k].adopted)
           /\ Moves(h, "markFailed", k, k, {})
           /\ faults' \in 0..MaxFaults /\ faults' = faults + 1
           /\ SameCounts /\ SameEnds /\ UNCHANGED <<rows, suspendedRows, pvc, redelivered>>
<1>1. TypeOK /\ k \in Nat
  BY Domain DEF IInv
<1>2. Moves(h, "markFailed", k, k, {})
  BY <1>1, BeginMoves DEF TakeMisconfiguredFails, Steps
<1>3. PICK p \in {"present", "terminating", "gone"} : pods' = Taken(k, p)
  BY <1>1, Domain DEF TakeMisconfiguredFails, PodRecord
<1>4. faults' \in 0..MaxFaults
  BY <1>1, Bounds DEF TakeMisconfiguredFails, TypeOK
<1>5. TakesEvent(h, k)
  BY DEF TakeMisconfiguredFails
<1> QED
  BY <1>2, <1>3, <1>4, <1>5, TakeEffect
  DEF TakeMisconfiguredFails, SameCounts, SameEnds, counters, counts

LEMMA MarkSuccessEffect ==
    ASSUME IInv, NEW h \in Handler, MarkSuccess(h)
    PROVE  /\ handler[h].pc = "markSuccess"
           /\ StatusSet(handler[h].row, "success")
           /\ \E next \in SUBSET Task :
                 /\ next = IF IsLastSuccess THEN {} ELSE RunnableTasks(rows', handler[h].row)
                 /\ Moves(h, IF next = {} THEN "checkDone" ELSE "addNext",
                          handler[h].pod, handler[h].row, next)
           /\ successfulCount' = successfulCount + 1
           /\ runStatus' = IF IsLastSuccess THEN "success" ELSE runStatus
           /\ succeededRows' = succeededRows \cup {handler[h].row}
           /\ UNCHANGED <<failedCount, suspendedCount, givenUp, overwritten, suspendedRows,
                          pvc, pods, redelivered, faults>>
<1>1. /\ TypeOK /\ handler[h].pc = "markSuccess" /\ handler[h].row \in DOMAIN rows
      /\ handler[h].row \in Nat
  BY BusyRow DEF IInv, MarkSuccess
<1>2. rows' = [rows EXCEPT ![handler[h].row].status = "success"]
  BY DEF MarkSuccess
<1>3. StatusSet(handler[h].row, "success")
  BY <1>1, <1>2, StatusIsSet
<1>4. PICK next : next = IF IsLastSuccess THEN {} ELSE RunnableTasks(rows', handler[h].row)
  OBVIOUS
<1>5. next \in SUBSET Task
  BY <1>4 DEF RunnableTasks
<1>6. handler' = [handler EXCEPT ![h].todo = next,
                                 ![h].pc = IF next = {} THEN "checkDone" ELSE "addNext"]
  BY <1>2, <1>4 DEF MarkSuccess
<1>7. (IF next = {} THEN "checkDone" ELSE "addNext") \in Steps
  BY DEF Steps
<1>8. Moves(h, IF next = {} THEN "checkDone" ELSE "addNext",
            handler[h].pod, handler[h].row, next)
  BY <1>1, <1>5, <1>6, <1>7, GoOnMoves
<1> QED
  BY <1>1, <1>3, <1>4, <1>5, <1>8 DEF MarkSuccess

LEMMA AddNextEffect ==
    ASSUME IInv, NEW h \in Handler, NEW t \in Task, AddNext(h, t)
    PROVE  /\ handler[h].pc = "addNext" /\ t \in handler[h].todo /\ RowAdded(t)
           /\ \/ Moves(h, "free", 0, 0, {})
              \/ Moves(h, "addNext", handler[h].pod, handler[h].row, handler[h].todo \ {t})
           /\ SameCounts /\ SameEnds /\ UNCHANGED <<suspendedRows, pvc, pods, redelivered, faults>>
<1>1. /\ TypeOK /\ handler[h].pc = "addNext" /\ handler[h].row \in Nat
      /\ handler[h].todo \in SUBSET Task
  BY BusyRow DEF IInv, AddNext
<1>2. RowAdded(t)
  BY <1>1, AppendedRow DEF AddNext
<1>3. \/ Moves(h, "free", 0, 0, {})
      \/ Moves(h, "addNext", handler[h].pod, handler[h].row, handler[h].todo \ {t})
  <2>1. CASE handler[h].todo = {t}
    BY <1>1, <2>1, DoneMoves DEF AddNext
  <2>2. CASE handler[h].todo # {t}
    <3>1. PICK todo \in SUBSET Task : todo = handler[h].todo \ {t}
      BY <1>1
    <3>2. handler' = [handler EXCEPT ![h].todo = todo]
      BY <2>2, <3>1 DEF AddNext
    <3>3. "addNext" \in Steps
      BY DEF Steps
    <3> QED
      BY <1>1, <3>1, <3>2, <3>3, GoOnMoves
  <2> QED
    BY <2>1, <2>2
<1> QED
  BY <1>1, <1>2, <1>3 DEF AddNext, SameCounts, SameEnds, counters, counts

LEMMA CheckDoneEffect ==
    ASSUME IInv, NEW h \in Handler, CheckDone(h)
    PROVE  /\ handler[h].pc = "checkDone" /\ pvc' = (pvc /\ ~ AllTasksDone)
           /\ Moves(h, "free", 0, 0, {}) /\ SameCounts /\ SameEnds
           /\ UNCHANGED <<rows, suspendedRows, pods, redelivered, faults>>
<1>1. Moves(h, "free", 0, 0, {})
  BY DoneMoves DEF CheckDone, IInv
<1> QED
  BY <1>1 DEF CheckDone, SameCounts, SameEnds, counters, counts

LEMMA RetryAddEffect ==
    ASSUME IInv, NEW h \in Handler, RetryAdd(h)
    PROVE  /\ handler[h].pc = "retryAdd" /\ rows[handler[h].row].task \in Task
           /\ RowAdded(rows[handler[h].row].task)
           /\ Moves(h, "retryClaim", handler[h].pod, Len(rows'), handler[h].todo)
           /\ SameCounts /\ SameEnds /\ UNCHANGED <<suspendedRows, pvc, pods, redelivered, faults>>
<1>1. /\ TypeOK /\ handler[h].pc = "retryAdd" /\ handler[h].row \in DOMAIN rows
      /\ handler[h].todo \in SUBSET Task
  BY BusyRow DEF IInv, RetryAdd
<1>2. PICK t \in Task : t = rows[handler[h].row].task
  BY <1>1, Domain DEF Row
<1>3. RowAdded(t)
  BY <1>1, <1>2, AppendedRow DEF RetryAdd
<1>4. PICK n \in Nat : n = Len(rows')
  BY <1>1, <1>3, Domain DEF RowAdded
<1>5. handler' = [handler EXCEPT ![h].pc = "retryClaim", ![h].row = n]
  BY <1>4 DEF RetryAdd
<1>6. "retryClaim" \in Steps
  BY DEF Steps
<1>7. Moves(h, "retryClaim", handler[h].pod, n, handler[h].todo)
  BY <1>1, <1>5, <1>6, GoOnMoves
<1> QED
  BY <1>1, <1>2, <1>3, <1>4, <1>7 DEF RetryAdd, SameCounts, SameEnds, counters, counts

LEMMA RetryClaimEffect ==
    ASSUME IInv, NEW h \in Handler, RetryClaim(h)
    PROVE  /\ handler[h].pc = "retryClaim"
           /\ \/ Moves(h, "free", 0, 0, {})
              \/ Moves(h, "retryIncrement", handler[h].pod, handler[h].row, handler[h].todo)
           /\ SameCounts /\ SameEnds /\ UNCHANGED <<rows, suspendedRows, pvc, pods, redelivered, faults>>
<1>1. /\ TypeOK /\ handler[h].pc = "retryClaim" /\ handler[h].row \in Nat
      /\ handler[h].todo \in SUBSET Task /\ "retryIncrement" \in Steps
  BY BusyRow DEF IInv, RetryClaim, Steps
<1>2. GoTo(h, "retryIncrement") \/ Done(h)
  BY DEF RetryClaim
<1>3. \/ Moves(h, "free", 0, 0, {})
      \/ Moves(h, "retryIncrement", handler[h].pod, handler[h].row, handler[h].todo)
  BY <1>1, <1>2, GoOnMoves, DoneMoves
<1> QED
  BY <1>1, <1>3 DEF RetryClaim, SameCounts, SameEnds, counters, counts

LEMMA RetryIncrementEffect ==
    ASSUME IInv, NEW h \in Handler, RetryIncrement(h)
    PROVE  /\ handler[h].pc = "retryIncrement"
           /\ rows' \in Seq(Row) /\ Len(rows') = Len(rows) /\ DOMAIN rows' = DOMAIN rows
           /\ \A k \in DOMAIN rows : /\ rows'[k].task = rows[k].task
                                     /\ rows'[k].status = rows[k].status
           /\ Moves(h, "free", 0, 0, {})
           /\ SameCounts /\ SameEnds /\ UNCHANGED <<suspendedRows, pvc, pods, redelivered, faults>>
<1>1. TypeOK /\ handler[h].pc = "retryIncrement" /\ handler[h].row \in DOMAIN rows
  BY BusyRow DEF IInv, RetryIncrement
<1>2. Moves(h, "free", 0, 0, {})
  BY <1>1, DoneMoves DEF RetryIncrement
<1>3. rows' = [rows EXCEPT ![handler[h].row].attempts = @ + 1]
  BY DEF RetryIncrement
<1> QED
  BY <1>1, <1>2, <1>3, CountAttempt DEF RetryIncrement, SameCounts, SameEnds, counters, counts

LEMMA MarkFailedEffect ==
    ASSUME IInv, NEW h \in Handler, MarkFailed(h)
    PROVE  /\ handler[h].pc = "markFailed" /\ StatusSet(handler[h].row, "failed")
           /\ Moves(h, "cascadeRead", handler[h].pod, handler[h].row, handler[h].todo)
           /\ failedCount' = failedCount + 1 /\ runStatus' = "failed"
           /\ givenUp' = givenUp \cup {handler[h].row}
           /\ UNCHANGED <<succeededRows, overwritten, successfulCount, suspendedCount,
                          suspendedRows, pvc, pods, redelivered, faults>>
<1>1. /\ TypeOK /\ handler[h].pc = "markFailed" /\ handler[h].row \in DOMAIN rows
      /\ handler[h].row \in Nat /\ handler[h].todo \in SUBSET Task /\ "cascadeRead" \in Steps
  BY BusyRow DEF IInv, MarkFailed, Steps
<1>2. GoTo(h, "cascadeRead")
  BY DEF MarkFailed
<1>3. Moves(h, "cascadeRead", handler[h].pod, handler[h].row, handler[h].todo)
  BY <1>1, <1>2, GoOnMoves
<1>4. StatusSet(handler[h].row, "failed")
  BY <1>1, StatusIsSet DEF MarkFailed, MarkTaskAsFailed
<1> QED
  BY <1>1, <1>3, <1>4 DEF MarkFailed, MarkTaskAsFailed

LEMMA MarkFailedFailsEffect ==
    ASSUME IInv, NEW h \in Handler, MarkFailedFails(h)
    PROVE  /\ handler[h].pc = "markFailed"
           /\ Moves(h, "cascadeRead", handler[h].pod, handler[h].row, handler[h].todo)
           /\ givenUp' = givenUp \cup {handler[h].row}
           /\ faults' \in 0..MaxFaults /\ faults' = faults + 1 /\ SameCounts
           /\ UNCHANGED <<succeededRows, overwritten, rows, suspendedRows, pvc, pods,
                          redelivered>>
<1>1. /\ TypeOK /\ handler[h].pc = "markFailed" /\ handler[h].row \in Nat
      /\ handler[h].todo \in SUBSET Task /\ "cascadeRead" \in Steps
  BY BusyRow DEF IInv, MarkFailedFails, Steps
<1>2. GoTo(h, "cascadeRead")
  BY DEF MarkFailedFails
<1>3. Moves(h, "cascadeRead", handler[h].pod, handler[h].row, handler[h].todo)
  BY <1>1, <1>2, GoOnMoves
<1>4. faults' \in 0..MaxFaults
  BY <1>1, Bounds DEF MarkFailedFails, TypeOK
<1> QED
  BY <1>1, <1>3, <1>4 DEF MarkFailedFails, SameCounts, counts

LEMMA CascadeReadEffect ==
    ASSUME IInv, NEW h \in Handler, CascadeRead(h)
    PROVE  /\ handler[h].pc = "cascadeRead"
           /\ \E todo \in SUBSET Task :
                 /\ todo = {t \in Downstream(rows[handler[h].row].task) : ~ TaskRunExists(t)}
                 /\ Moves(h, IF todo = {} THEN "checkDone" ELSE "cascadeWrite",
                          handler[h].pod, handler[h].row, todo)
           /\ SameCounts /\ SameEnds /\ UNCHANGED <<rows, suspendedRows, pvc, pods, redelivered, faults>>
<1>1. TypeOK /\ handler[h].pc = "cascadeRead" /\ handler[h].row \in Nat
  BY BusyRow DEF IInv, CascadeRead
<1>2. PICK todo : todo = {t \in Downstream(rows[handler[h].row].task) : ~ TaskRunExists(t)}
  OBVIOUS
<1>3. todo \in SUBSET Task
  BY <1>2 DEF Downstream
<1>4. handler' = [handler EXCEPT ![h].todo = todo,
                                 ![h].pc = IF todo = {} THEN "checkDone" ELSE "cascadeWrite"]
  BY <1>2 DEF CascadeRead
<1>5. (IF todo = {} THEN "checkDone" ELSE "cascadeWrite") \in Steps
  BY DEF Steps
<1>6. Moves(h, IF todo = {} THEN "checkDone" ELSE "cascadeWrite",
            handler[h].pod, handler[h].row, todo)
  BY <1>1, <1>3, <1>4, <1>5, GoOnMoves
<1> QED
  BY <1>1, <1>2, <1>3, <1>6 DEF CascadeRead, SameCounts, SameEnds, counters, counts

LEMMA CascadeWriteEffect ==
    ASSUME IInv, NEW h \in Handler, CascadeWrite(h)
    PROVE  /\ handler[h].pc = "cascadeWrite"
           /\ suspendedRows' \in [Task -> Nat]
           /\ \A t \in Task :
                 suspendedRows'[t] = IF t \in handler[h].todo THEN suspendedRows[t] + 1
                                     ELSE suspendedRows[t]
           /\ Cardinality(handler[h].todo) \in Nat
           /\ suspendedCount' = suspendedCount + Cardinality(handler[h].todo)
           /\ Moves(h, "checkDone", handler[h].pod, handler[h].row, {})
           /\ SameEnds
           /\ UNCHANGED <<rows, successfulCount, failedCount, runStatus, pvc, pods,
                          redelivered, faults>>
<1>1. /\ TypeOK /\ handler[h].pc = "cascadeWrite" /\ handler[h].row \in Nat
      /\ handler[h].todo \in SUBSET Task /\ "checkDone" \in Steps
  BY BusyRow DEF IInv, CascadeWrite, Steps
<1>2. PICK todo \in SUBSET Task : todo = {}
  OBVIOUS
<1>3. handler' = [handler EXCEPT ![h].todo = todo, ![h].pc = "checkDone"]
  BY <1>2 DEF CascadeWrite
<1>4. Moves(h, "checkDone", handler[h].pod, handler[h].row, {})
  BY <1>1, <1>2, <1>3, GoOnMoves
<1>5. IsFiniteSet(handler[h].todo)
  BY <1>1, DagAssumption, FS_Subset
<1>6. Cardinality(handler[h].todo) \in Nat
  BY <1>5, FS_CardinalityType
<1> QED
  BY <1>1, <1>4, <1>6 DEF CascadeWrite, SameEnds, TypeOK

LEMMA HandlerAbortsEffect ==
    ASSUME IInv, NEW h \in Handler, HandlerAborts(h)
    PROVE  /\ handler[h].pc # "free" /\ Moves(h, "free", 0, 0, {})
           /\ faults' \in 0..MaxFaults /\ faults' = faults + 1
           /\ SameCounts /\ SameEnds /\ UNCHANGED <<rows, suspendedRows, pvc, pods, redelivered>>
<1>1. Moves(h, "free", 0, 0, {})
  BY DoneMoves DEF HandlerAborts, IInv
<1>2. faults' \in 0..MaxFaults
  BY Bounds DEF HandlerAborts, IInv, TypeOK
<1> QED
  BY <1>1, <1>2 DEF HandlerAborts, SameCounts, SameEnds, counters, counts

-----------------------------------------------------------------------------
(* Every step keeps the types, the tasks of rows and how pods ended.        *)

Kept ==
    /\ DOMAIN rows \subseteq DOMAIN rows'
    /\ \A k \in DOMAIN rows :
          /\ rows'[k].task = rows[k].task
          /\ pods[k].phase \in Ends => pods'[k].phase = pods[k].phase

USE DEF Ends

LEMMA KeptByPods ==
    ASSUME IInv, NEW k \in DOMAIN rows, NEW phase, NEW events, NEW adopted,
           PodSet(k, phase, events, adopted), phase = pods[k].phase \/ pods[k].phase \notin Ends,
           \/ rows' = rows
           \/ \E st : StatusSet(k, st)
    PROVE  Kept
BY Domain DEF PodSet, StatusSet, Kept, IInv

LEMMA KeptByStatus ==
    ASSUME IInv, pods' = pods, NEW i, NEW st, StatusSet(i, st)
    PROVE  Kept
BY DEF StatusSet, Kept

LEMMA KeptByRow ==
    ASSUME IInv, pods' = pods, NEW t, RowAdded(t)
    PROVE  Kept
BY DEF RowAdded, Kept

LEMMA KeptByNone ==
    ASSUME IInv, pods' = pods, rows' = rows
    PROVE  Kept
BY DEF Kept

LEMMA Keeps ==
    ASSUME IInv, [Next]_vars
    PROVE  Kept
<1>1. CASE UNCHANGED vars
  BY <1>1, KeptByNone DEF vars
<1>2. ASSUME NEW t \in Task, StartTask(t) PROVE Kept
  BY <1>2, StartTaskEffect, KeptByRow
<1>3. ASSUME NEW k \in DOMAIN rows, StartPod(k) PROVE Kept
  BY <1>3, StartPodEffect, KeptByPods
<1>4. ASSUME NEW k \in DOMAIN rows, Finalize(k) PROVE Kept
  BY <1>4, FinalizeEffect, KeptByPods
<1>5. ASSUME NEW k \in DOMAIN rows, PodFinishes(k) PROVE Kept
  <2>1. PICK phase : PodSet(k, phase, pods[k].events + 1, pods[k].adopted)
    BY <1>5, PodFinishesEffect
  <2>2. pods[k].phase \notin Ends /\ rows' = rows
    BY <1>5, PodFinishesEffect
  <2> QED
    BY <2>1, <2>2, KeptByPods
<1>6. ASSUME NEW k \in DOMAIN rows, Redeliver(k) PROVE Kept
  BY <1>6, RedeliverEffect, KeptByPods
<1>7. ASSUME NEW k \in DOMAIN rows, PodGone(k) PROVE Kept
  BY <1>7, PodGoneEffect, KeptByPods
<1>8. ASSUME NEW h \in Handler, NEW k \in DOMAIN rows, TakeSucceeded(h, k) PROVE Kept
  BY <1>8, TakeSucceededEffect, KeptByPods
<1>9. ASSUME NEW h \in Handler, NEW k \in DOMAIN rows, TakeFailed(h, k) PROVE Kept
  BY <1>9, TakeFailedEffect, KeptByPods
<1>10. ASSUME NEW h \in Handler, NEW k \in DOMAIN rows, TakeMisconfigured(h, k) PROVE Kept
  BY <1>10, TakeMisconfiguredEffect, KeptByPods
<1>11. ASSUME NEW h \in Handler, MarkSuccess(h) PROVE Kept
  BY <1>11, MarkSuccessEffect, KeptByStatus
<1>12. ASSUME NEW h \in Handler, NEW t \in Task, AddNext(h, t) PROVE Kept
  BY <1>12, AddNextEffect, KeptByRow
<1>13. ASSUME NEW h \in Handler, CheckDone(h) PROVE Kept
  BY <1>13, CheckDoneEffect, KeptByNone
<1>14. ASSUME NEW h \in Handler, RetryAdd(h) PROVE Kept
  BY <1>14, RetryAddEffect, KeptByRow
<1>15. ASSUME NEW h \in Handler, RetryClaim(h) PROVE Kept
  BY <1>15, RetryClaimEffect, KeptByNone
<1>16. ASSUME NEW h \in Handler, RetryIncrement(h) PROVE Kept
  BY <1>16, RetryIncrementEffect DEF Kept
<1>17. ASSUME NEW h \in Handler, MarkFailed(h) PROVE Kept
  BY <1>17, MarkFailedEffect, KeptByStatus
<1>18. ASSUME NEW h \in Handler, CascadeRead(h) PROVE Kept
  BY <1>18, CascadeReadEffect, KeptByNone
<1>19. ASSUME NEW h \in Handler, CascadeWrite(h) PROVE Kept
  BY <1>19, CascadeWriteEffect, KeptByNone
<1>20. ASSUME NEW h \in Handler, HandlerAborts(h) PROVE Kept
  BY <1>20, HandlerAbortsEffect, KeptByNone
<1>21. ASSUME NEW h \in Handler, NEW k \in DOMAIN rows, TakeMisconfiguredFails(h, k)
       PROVE  Kept
  BY <1>21, TakeMisconfiguredFailsEffect, KeptByPods
<1>22. ASSUME NEW h \in Handler, MarkFailedFails(h) PROVE Kept
  BY <1>22, MarkFailedFailsEffect, KeptByNone
<1> QED
  BY <1>1, <1>2, <1>3, <1>4, <1>5, <1>6, <1>7, <1>8, <1>9, <1>10, <1>11, <1>12, <1>13,
     <1>14, <1>15, <1>16, <1>17, <1>18, <1>19, <1>20, <1>21, <1>22 DEF Next, Advance

\* Event loops that stay where they are, but for one.
LEMMA HandlersKept ==
    ASSUME IInv, Kept, NEW h \in Handler,
           \A g \in Handler : g # h => handler'[g] = handler[g],
           HandlerOK(h)',
           handler'[h].pc # "free" =>
               \A g \in Handler : g # h => handler[g].pod # handler'[h].pod
    PROVE  (\A g \in Handler : HandlerOK(g)') /\ Exclusive'
<1>1. ASSUME NEW g \in Handler PROVE HandlerOK(g)'
  <2>1. CASE g # h
    BY <2>1 DEF IInv, HandlerOK, Kept
  <2> QED
    BY <2>1
<1>2. \A g \in Handler : handler[g].pc # "free" => handler[g].pod \in DOMAIN rows
  BY DEF IInv, HandlerOK
<1>3. 0 \notin DOMAIN rows
  BY Domain DEF IInv
<1>4. handler'[h].pc = "free" => handler'[h].pod = 0
  BY DEF HandlerOK
<1>5. Exclusive'
  BY <1>2, <1>3, <1>4 DEF Exclusive, IInv
<1> QED
  BY <1>1, <1>5

LEMMA HandlersStay ==
    ASSUME IInv, Kept, handler' = handler
    PROVE  (\A g \in Handler : HandlerOK(g)') /\ Exclusive'
BY DEF IInv, HandlerOK, Kept, Exclusive

\* The event loop h goes on with its pod, or leaves it.
LEMMA HandlerGoesOn ==
    ASSUME IInv, Kept, NEW h \in Handler, NEW pc, NEW k, NEW i, NEW todo,
           Moves(h, pc, k, i, todo),
           \/ pc = "free" /\ k = 0
           \/ /\ handler[h].pc # "free" /\ pc # "free" /\ k = handler[h].pod /\ i \in DOMAIN rows'
              /\ pc \in {"markSuccess", "addNext"} => pods[k].phase = "succeeded"
              /\ pc \in {"retryAdd", "retryClaim", "retryIncrement"} => pods[k].phase = "failed"
              /\ pc \in {"markFailed", "cascadeRead", "cascadeWrite"}
                    => pods[k].phase \in {"failed", "misconfigured"}
              /\ pc \in {"markSuccess", "retryAdd", "markFailed", "cascadeRead",
                         "cascadeWrite"} => i = k
    PROVE  (\A g \in Handler : HandlerOK(g)') /\ Exclusive'
<1>1. HandlerOK(h)
  BY DEF IInv
<1>2. HandlerOK(h)'
  <2>1. CASE pc = "free" /\ k = 0
    BY <2>1 DEF HandlerOK, Moves
  <2>2. CASE ~ (pc = "free" /\ k = 0)
    <3>1. k \in DOMAIN rows /\ pods[k].phase \in Ends /\ pods'[k].phase = pods[k].phase
      BY <1>1, <2>2 DEF HandlerOK, Kept
    <3>2. k \in DOMAIN rows' /\ i \in DOMAIN rows' /\ pc # "free"
      BY <2>2, <3>1 DEF Kept
    <3> QED
      BY <2>2, <3>1, <3>2 DEF HandlerOK, Moves
  <2> QED
    BY <2>1, <2>2
<1>3. handler'[h].pc # "free" =>
        \A g \in Handler : g # h => handler[g].pod # handler'[h].pod
  BY DEF Moves, IInv, Exclusive
<1> QED
  BY <1>2, <1>3, HandlersKept DEF Moves

\* The event loop h begins to handle an event of pod k.
LEMMA HandlerBegins ==
    ASSUME IInv, Kept, NEW h \in Handler, NEW pc, NEW k \in DOMAIN rows,
           Moves(h, pc, k, k, {}), \A g \in Handler : handler[g].pod # k,
           \/ pc = "markSuccess" /\ pods[k].phase = "succeeded"
           \/ pc = "retryAdd" /\ pods[k].phase = "failed"
           \/ pc = "markFailed" /\ pods[k].phase \in {"failed", "misconfigured"}
    PROVE  (\A g \in Handler : HandlerOK(g)') /\ Exclusive'
<1>1. HandlerOK(h)'
  BY DEF HandlerOK, Moves, Kept
<1> QED
  BY <1>1, HandlersKept DEF Moves

\* No status changes but that of new rows, which are pending.
LEMMA StatusKept ==
    ASSUME IInv, Kept, SameEnds,
           \A k \in DOMAIN rows' : IF k \in DOMAIN rows THEN rows'[k].status = rows[k].status
                                  ELSE rows'[k].status = "pending"
    PROVE  StatusOK'
<1> SUFFICES ASSUME NEW k \in DOMAIN rows' PROVE RowOK(k)'
  BY DEF StatusOK
<1>1. CASE k \in DOMAIN rows
  <2>1. RowOK(k) /\ rows'[k].status = rows[k].status
    BY <1>1 DEF IInv, StatusOK
  <2> QED
    BY <1>1, <2>1 DEF RowOK, Kept, SameEnds
<1>2. CASE k \notin DOMAIN rows
  <2>1. succeededRows \cup givenUp \subseteq DOMAIN rows /\ rows'[k].status = "pending"
    BY <1>2 DEF IInv, TypeOK
  <2> QED
    BY <1>2, <2>1 DEF RowOK, SameEnds
<1> QED
  BY <1>1, <1>2

\* The row i gets a status that Finalize or a handler writes, or is given up
\* without.
LEMMA StatusMarked ==
    ASSUME IInv, Kept, NEW i \in DOMAIN rows, DOMAIN rows' = DOMAIN rows,
           \A k \in DOMAIN rows \ {i} : /\ rows'[k].status = rows[k].status
                                        /\ k \in succeededRows' <=> k \in succeededRows
                                        /\ k \in givenUp' <=> k \in givenUp
                                        /\ k \in overwritten' <=> k \in overwritten,
           RowOK(i)'
    PROVE  StatusOK'
<1> SUFFICES ASSUME NEW k \in DOMAIN rows, k # i PROVE RowOK(k)'
  BY DEF StatusOK
<1>1. RowOK(k)
  BY DEF IInv, StatusOK
<1> QED
  BY <1>1 DEF RowOK, Kept

LEMMA TypeParts ==
    ASSUME IInv
    PROVE  /\ TypeOK /\ rows \in Seq(Row) /\ Len(rows) <= MaxRows
           /\ suspendedRows \in [Task -> Nat]
           /\ successfulCount \in Nat /\ failedCount \in Nat /\ suspendedCount \in Nat
           /\ runStatus \in {"running", "success", "failed"} /\ pvc \in BOOLEAN
           /\ pods \in [1..MaxRows -> PodRecord] /\ handler \in [Handler -> HandlerRecord]
           /\ redelivered \in Nat /\ redelivered <= MaxRedeliver /\ faults \in 0..MaxFaults
           /\ succeededRows \cup givenUp \cup overwritten \subseteq DOMAIN rows
BY Bounds DEF IInv, TypeOK, HandlerRecord

LEMMA TypeNext ==
    ASSUME rows' \in Seq(Row), Len(rows') <= MaxRows, suspendedRows' \in [Task -> Nat],
           successfulCount' \in Nat, failedCount' \in Nat, suspendedCount' \in Nat,
           runStatus' \in {"running", "success", "failed"}, pvc' \in BOOLEAN,
           pods' \in [1..MaxRows -> PodRecord], handler' \in [Handler -> HandlerRecord],
           redelivered' \in Nat, redelivered' <= MaxRedeliver, faults' \in 0..MaxFaults,
           succeededRows' \cup givenUp' \cup overwritten' \subseteq DOMAIN rows'
    PROVE  TypeOK'
BY Bounds DEF TypeOK, HandlerRecord

LEMMA NextI ==
    ASSUME IInv, [Next]_vars
    PROVE  IInv'
<1> USE Keeps, TypeParts
<1>0. Kept
  OBVIOUS
<1>1. CASE UNCHANGED vars
  BY <1>1 DEF vars, counters, counts, IInv, TypeOK, HandlerOK, Exclusive, StatusOK, RowOK
<1>2. ASSUME NEW t \in Task, StartTask(t) PROVE IInv'
  <2>1. TypeOK'
    BY <1>0, <1>2, StartTaskEffect, TypeNext DEF RowAdded, SameCounts, SameEnds, Kept
  <2>2. (\A h \in Handler : HandlerOK(h)') /\ Exclusive'
    BY <1>0, <1>2, StartTaskEffect, HandlersStay
  <2>3. StatusOK'
    BY <1>0, <1>2, StartTaskEffect, StatusKept DEF RowAdded
  <2> QED
    BY <2>1, <2>2, <2>3 DEF IInv
<1>3. ASSUME NEW k \in DOMAIN rows, StartPod(k) PROVE IInv'
  <2>1. TypeOK'
    BY <1>0, <1>3, StartPodEffect, TypeNext DEF PodSet, SameCounts, SameEnds, Kept
  <2>2. (\A h \in Handler : HandlerOK(h)') /\ Exclusive'
    BY <1>0, <1>3, StartPodEffect, HandlersStay
  <2>3. StatusOK'
    BY <1>0, <1>3, StartPodEffect, StatusKept
  <2> QED
    BY <2>1, <2>2, <2>3 DEF IInv
<1>4. ASSUME NEW k \in DOMAIN rows, Finalize(k) PROVE IInv'
  <2>1. TypeOK'
    BY <1>0, <1>4, FinalizeEffect, TypeNext DEF PodSet, StatusSet, SameCounts, SameEnds, Kept
  <2>2. (\A h \in Handler : HandlerOK(h)') /\ Exclusive'
    BY <1>0, <1>4, FinalizeEffect, HandlersStay
  <2>3. StatusOK'
    <3>1. RowOK(k)
      BY DEF IInv, StatusOK
    <3>2. RowOK(k)'
      BY <1>4, <3>1, FinalizeEffect DEF RowOK, StatusSet, PodSet
    <3> QED
      BY <1>0, <1>4, <3>2, FinalizeEffect, StatusMarked DEF StatusSet
  <2> QED
    BY <2>1, <2>2, <2>3 DEF IInv
<1>5. ASSUME NEW k \in DOMAIN rows, PodFinishes(k) PROVE IInv'
  <2>1. TypeOK'
    BY <1>0, <1>5, PodFinishesEffect, TypeNext DEF PodSet, SameCounts, SameEnds, Kept
  <2>2. (\A h \in Handler : HandlerOK(h)') /\ Exclusive'
    BY <1>0, <1>5, PodFinishesEffect, HandlersStay
  <2>3. StatusOK'
    BY <1>0, <1>5, PodFinishesEffect, StatusKept
  <2> QED
    BY <2>1, <2>2, <2>3 DEF IInv
<1>6. ASSUME NEW k \in DOMAIN rows, Redeliver(k) PROVE IInv'
  <2>1. TypeOK'
    BY <1>0, <1>6, RedeliverEffect, TypeNext DEF PodSet, SameCounts, SameEnds, Kept
  <2>2. (\A h \in Handler : HandlerOK(h)') /\ Exclusive'
    BY <1>0, <1>6, RedeliverEffect, HandlersStay
  <2>3. StatusOK'
    BY <1>0, <1>6, RedeliverEffect, StatusKept
  <2> QED
    BY <2>1, <2>2, <2>3 DEF IInv
<1>7. ASSUME NEW k \in DOMAIN rows, PodGone(k) PROVE IInv'
  <2>1. TypeOK'
    BY <1>0, <1>7, PodGoneEffect, TypeNext DEF PodSet, SameCounts, SameEnds, Kept
  <2>2. (\A h \in Handler : HandlerOK(h)') /\ Exclusive'
    BY <1>0, <1>7, PodGoneEffect, HandlersStay
  <2>3. StatusOK'
    BY <1>0, <1>7, PodGoneEffect, StatusKept
  <2> QED
    BY <2>1, <2>2, <2>3 DEF IInv
<1>8. ASSUME NEW h \in Handler, NEW k \in DOMAIN rows, TakeSucceeded(h, k) PROVE IInv'
  <2>1. TypeOK'
    BY <1>0, <1>8, TakeSucceededEffect, TypeNext DEF PodSet, SameCounts, Moves, SameEnds, Kept
  <2>2. (\A g \in Handler : HandlerOK(g)') /\ Exclusive'
    BY <1>0, <1>8, TakeSucceededEffect, HandlersStay, HandlerBegins
  <2>3. StatusOK'
    BY <1>0, <1>8, TakeSucceededEffect, StatusKept
  <2> QED
    BY <2>1, <2>2, <2>3 DEF IInv
<1>9. ASSUME NEW h \in Handler, NEW k \in DOMAIN rows, TakeFailed(h, k) PROVE IInv'
  <2>1. TypeOK'
    BY <1>0, <1>9, TakeFailedEffect, TypeNext DEF PodSet, SameCounts, Moves, SameEnds, Kept
  <2>2. (\A g \in Handler : HandlerOK(g)') /\ Exclusive'
    <3>1. /\ Moves(h, "retryAdd", k, k, {}) \/ Moves(h, "markFailed", k, k, {})
          /\ pods[k].phase = "failed" /\ \A g \in Handler : handler[g].pod # k
      BY <1>9, TakeFailedEffect
    <3> QED
      BY <1>0, <3>1, HandlerBegins
  <2>3. StatusOK'
    BY <1>0, <1>9, TakeFailedEffect, StatusKept
  <2> QED
    BY <2>1, <2>2, <2>3 DEF IInv
<1>10. ASSUME NEW h \in Handler, NEW k \in DOMAIN rows, TakeMisconfigured(h, k) PROVE IInv'
  <2>1. TypeOK'
    BY <1>0, <1>10, TakeMisconfiguredEffect, TypeNext DEF PodSet, StatusSet, Moves, SameEnds, Kept
  <2>2. (\A g \in Handler : HandlerOK(g)') /\ Exclusive'
    BY <1>0, <1>10, TakeMisconfiguredEffect, HandlerBegins
  <2>3. StatusOK'
    <3>1. RowOK(k)
      BY DEF IInv, StatusOK
    <3>2. RowOK(k)'
      BY <1>10, <3>1, TakeMisconfiguredEffect DEF RowOK, StatusSet, PodSet
    <3> QED
      <4>1. /\ StatusSet(k, "failed") /\ overwritten' = overwritten
            /\ succeededRows' = succeededRows /\ givenUp' = givenUp \cup {k}
        BY <1>10, TakeMisconfiguredEffect
      <4> QED
        BY <1>0, <3>2, <4>1, StatusMarked DEF StatusSet
  <2> QED
    BY <2>1, <2>2, <2>3 DEF IInv
<1>11. ASSUME NEW h \in Handler, MarkSuccess(h) PROVE IInv'
  <2>0. /\ HandlerOK(h) /\ handler[h].pc = "markSuccess" /\ pods' = pods
        /\ StatusSet(handler[h].row, "success")
        /\ handler[h].row \in DOMAIN rows /\ handler[h].row = handler[h].pod
    BY <1>11, MarkSuccessEffect DEF IInv, HandlerOK
  <2>1. TypeOK'
    BY <1>0, <1>11, <2>0, MarkSuccessEffect, TypeNext DEF StatusSet, Moves, Kept
  <2>2. (\A g \in Handler : HandlerOK(g)') /\ Exclusive'
    <3>1. PICK next : Moves(h, IF next = {} THEN "checkDone" ELSE "addNext",
                            handler[h].pod, handler[h].row, next)
      BY <1>11, MarkSuccessEffect
    <3> QED
      BY <1>0, <2>0, <3>1, HandlerGoesOn DEF HandlerOK, StatusSet
  <2>3. StatusOK'
    <3>1. PICK i \in DOMAIN rows : i = handler[h].row /\ pods[i].phase = "succeeded"
      BY <2>0 DEF HandlerOK
    <3>2. /\ StatusSet(i, "success") /\ pods' = pods /\ overwritten' = overwritten
          /\ succeededRows' = succeededRows \cup {i} /\ givenUp' = givenUp
      BY <1>11, <2>0, <3>1, MarkSuccessEffect
    <3>3. RowOK(i)
      BY DEF IInv, StatusOK
    <3>4. RowOK(i)'
      BY <3>1, <3>2, <3>3 DEF RowOK, StatusSet
    <3> QED
      BY <1>0, <3>2, <3>4, StatusMarked DEF StatusSet
  <2> QED
    BY <2>1, <2>2, <2>3 DEF IInv
<1>12. ASSUME NEW h \in Handler, NEW t \in Task, AddNext(h, t) PROVE IInv'
  <2>0. HandlerOK(h) /\ handler[h].pc = "addNext"
    BY <1>12, AddNextEffect DEF IInv
  <2>1. TypeOK'
    BY <1>0, <1>12, AddNextEffect, TypeNext DEF RowAdded, Moves, SameCounts, SameEnds, Kept
  <2>2. (\A g \in Handler : HandlerOK(g)') /\ Exclusive'
    BY <1>0, <1>12, <2>0, AddNextEffect, HandlerGoesOn DEF HandlerOK, RowAdded
  <2>3. StatusOK'
    BY <1>0, <1>12, AddNextEffect, StatusKept DEF RowAdded
  <2> QED
    BY <2>1, <2>2, <2>3 DEF IInv
<1>13. ASSUME NEW h \in Handler, CheckDone(h) PROVE IInv'
  <2>1. TypeOK'
    BY <1>0, <1>13, CheckDoneEffect, TypeNext DEF Moves, SameCounts, SameEnds, Kept
  <2>2. (\A g \in Handler : HandlerOK(g)') /\ Exclusive'
    BY <1>0, <1>13, CheckDoneEffect, HandlerGoesOn
  <2>3. StatusOK'
    BY <1>0, <1>13, CheckDoneEffect, StatusKept
  <2> QED
    BY <2>1, <2>2, <2>3 DEF IInv
<1>14. ASSUME NEW h \in Handler, RetryAdd(h) PROVE IInv'
  <2>0. HandlerOK(h) /\ handler[h].pc = "retryAdd"
    BY <1>14, RetryAddEffect DEF IInv
  <2>1. TypeOK'
    BY <1>0, <1>14, RetryAddEffect, TypeNext DEF RowAdded, Moves, SameCounts, SameEnds, Kept
  <2>2. (\A g \in Handler : HandlerOK(g)') /\ Exclusive'
    BY <1>0, <1>14, <2>0, RetryAddEffect, HandlerGoesOn DEF HandlerOK, RowAdded
  <2>3. StatusOK'
    BY <1>0, <1>14, RetryAddEffect, StatusKept DEF RowAdded
  <2> QED
    BY <2>1, <2>2, <2>3 DEF IInv
<1>15. ASSUME NEW h \in Handler, RetryClaim(h) PROVE IInv'
  <2>0. HandlerOK(h) /\ handler[h].pc = "retryClaim"
    BY <1>15, RetryClaimEffect DEF IInv
  <2>1. TypeOK'
    BY <1>0, <1>15, RetryClaimEffect, TypeNext DEF Moves, SameCounts, SameEnds, Kept
  <2>2. (\A g \in Handler : HandlerOK(g)') /\ Exclusive'
    BY <1>0, <1>15, <2>0, RetryClaimEffect, HandlerGoesOn DEF HandlerOK
  <2>3. StatusOK'
    BY <1>0, <1>15, RetryClaimEffect, StatusKept
  <2> QED
    BY <2>1, <2>2, <2>3 DEF IInv
<1>16. ASSUME NEW h \in Handler, RetryIncrement(h) PROVE IInv'
  <2>1. TypeOK'
    BY <1>0, <1>16, RetryIncrementEffect, TypeNext DEF Moves, SameCounts, SameEnds, Kept
  <2>2. (\A g \in Handler : HandlerOK(g)') /\ Exclusive'
    BY <1>0, <1>16, RetryIncrementEffect, HandlerGoesOn
  <2>3. StatusOK'
    BY <1>0, <1>16, RetryIncrementEffect, StatusKept
  <2> QED
    BY <2>1, <2>2, <2>3 DEF IInv
<1>17. ASSUME NEW h \in Handler, MarkFailed(h) PROVE IInv'
  <2>0. /\ HandlerOK(h) /\ handler[h].pc = "markFailed" /\ pods' = pods
        /\ StatusSet(handler[h].row, "failed")
        /\ handler[h].row \in DOMAIN rows /\ handler[h].row = handler[h].pod
    BY <1>17, MarkFailedEffect DEF IInv, HandlerOK
  <2>1. TypeOK'
    BY <1>0, <1>17, <2>0, MarkFailedEffect, TypeNext DEF Moves, StatusSet, Kept
  <2>2. (\A g \in Handler : HandlerOK(g)') /\ Exclusive'
    BY <1>0, <1>17, <2>0, MarkFailedEffect, HandlerGoesOn DEF HandlerOK, StatusSet
  <2>3. StatusOK'
    <3>1. PICK i \in DOMAIN rows : i = handler[h].row /\ pods[i].phase \in {"failed", "misconfigured"}
      BY <2>0 DEF HandlerOK
    <3>2. /\ StatusSet(i, "failed") /\ pods' = pods /\ overwritten' = overwritten
          /\ succeededRows' = succeededRows /\ givenUp' = givenUp \cup {i}
      BY <1>17, <2>0, <3>1, MarkFailedEffect
    <3>3. RowOK(i)
      BY DEF IInv, StatusOK
    <3>4. RowOK(i)'
      BY <3>1, <3>2, <3>3 DEF RowOK, StatusSet
    <3> QED
      BY <1>0, <3>2, <3>4, StatusMarked DEF StatusSet
  <2> QED
    BY <2>1, <2>2, <2>3 DEF IInv
<1>18. ASSUME NEW h \in Handler, CascadeRead(h) PROVE IInv'
  <2>0. HandlerOK(h) /\ handler[h].pc = "cascadeRead"
    BY <1>18, CascadeReadEffect DEF IInv
  <2>1. TypeOK'
    BY <1>0, <1>18, CascadeReadEffect, TypeNext DEF Moves, SameCounts, SameEnds, Kept
  <2>2. (\A g \in Handler : HandlerOK(g)') /\ Exclusive'
    <3>1. PICK todo : Moves(h, IF todo = {} THEN "checkDone" ELSE "cascadeWrite",
                            handler[h].pod, handler[h].row, todo)
      BY <1>18, CascadeReadEffect
    <3>2. rows' = rows
      BY <1>18, CascadeReadEffect
    <3> QED
      BY <1>0, <2>0, <3>1, <3>2, HandlerGoesOn DEF HandlerOK
  <2>3. StatusOK'
    BY <1>0, <1>18, CascadeReadEffect, StatusKept
  <2> QED
    BY <2>1, <2>2, <2>3 DEF IInv
<1>19. ASSUME NEW h \in Handler, CascadeWrite(h) PROVE IInv'
  <2>0. HandlerOK(h) /\ handler[h].pc = "cascadeWrite"
    BY <1>19, CascadeWriteEffect DEF IInv
  <2>1. TypeOK'
    BY <1>0, <1>19, CascadeWriteEffect, TypeNext DEF Moves, SameEnds, Kept
  <2>2. (\A g \in Handler : HandlerOK(g)') /\ Exclusive'
    BY <1>0, <1>19, <2>0, CascadeWriteEffect, HandlerGoesOn DEF HandlerOK
  <2>3. StatusOK'
    BY <1>0, <1>19, CascadeWriteEffect, StatusKept
  <2> QED
    BY <2>1, <2>2, <2>3 DEF IInv
<1>20. ASSUME NEW h \in Handler, HandlerAborts(h) PROVE IInv'
  <2>1. TypeOK'
    BY <1>0, <1>20, HandlerAbortsEffect, TypeNext DEF Moves, SameCounts, SameEnds, Kept
  <2>2. (\A g \in Handler : HandlerOK(g)') /\ Exclusive'
    BY <1>0, <1>20, HandlerAbortsEffect, HandlerGoesOn
  <2>3. StatusOK'
    BY <1>0, <1>20, HandlerAbortsEffect, StatusKept
  <2> QED
    BY <2>1, <2>2, <2>3 DEF IInv
<1>21. ASSUME NEW h \in Handler, NEW k \in DOMAIN rows, TakeMisconfiguredFails(h, k)
       PROVE  IInv'
  <2>1. TypeOK'
    BY <1>0, <1>21, TakeMisconfiguredFailsEffect, TypeNext
    DEF PodSet, SameCounts, SameEnds, Moves, Kept
  <2>2. (\A g \in Handler : HandlerOK(g)') /\ Exclusive'
    BY <1>0, <1>21, TakeMisconfiguredFailsEffect, HandlerBegins
  <2>3. StatusOK'
    BY <1>0, <1>21, TakeMisconfiguredFailsEffect, StatusKept
  <2> QED
    BY <2>1, <2>2, <2>3 DEF IInv
<1>22. ASSUME NEW h \in Handler, MarkFailedFails(h) PROVE IInv'
  <2>0. /\ HandlerOK(h) /\ handler[h].pc = "markFailed" /\ pods' = pods /\ rows' = rows
        /\ handler[h].row \in DOMAIN rows /\ handler[h].row = handler[h].pod
    BY <1>22, MarkFailedFailsEffect DEF IInv, HandlerOK
  <2>1. TypeOK'
    BY <1>0, <1>22, <2>0, MarkFailedFailsEffect, TypeNext DEF SameCounts, Moves, Kept, HandlerOK
  <2>2. (\A g \in Handler : HandlerOK(g)') /\ Exclusive'
    BY <1>0, <1>22, <2>0, MarkFailedFailsEffect, HandlerGoesOn DEF HandlerOK
  <2>3. StatusOK'
    <3>1. PICK i \in DOMAIN rows : i = handler[h].row /\ pods[i].phase \in {"failed", "misconfigured"}
      BY <2>0 DEF HandlerOK
    <3>2. /\ rows' = rows /\ pods' = pods /\ overwritten' = overwritten
          /\ succeededRows' = succeededRows /\ givenUp' = givenUp \cup {i}
      BY <1>22, <2>0, <3>1, MarkFailedFailsEffect
    <3>3. RowOK(i)
      BY DEF IInv, StatusOK
    <3>4. RowOK(i)'
      BY <3>1, <3>2, <3>3 DEF RowOK
    <3> QED
      BY <1>0, <3>2, <3>4, StatusMarked
  <2> QED
    BY <2>1, <2>2, <2>3 DEF IInv
<1> QED
  BY <1>1, <1>2, <1>3, <1>4, <1>5, <1>6, <1>7, <1>8, <1>9, <1>10, <1>11, <1>12, <1>13,
     <1>14, <1>15, <1>16, <1>17, <1>18, <1>19, <1>20, <1>21, <1>22 DEF Next, Advance

LEMMA InitI == Init => IInv
<1> SUFFICES ASSUME Init PROVE IInv
  OBVIOUS
<1>1. TypeOK
  BY Bounds DEF Init, TypeOK, NoPod, PodRecord, Free, Steps
<1>2. rows = <<>> /\ handler = [h \in Handler |-> Free]
  BY DEF Init
<1> QED
  BY <1>1, <1>2 DEF IInv, HandlerOK, Exclusive, StatusOK, RowOK, Free

LEMMA AlwaysI == Spec => []IInv
BY InitI, NextI, PTL DEF Spec

\* The types hold in every run of every DAG: no queue of events is taken from
\* when it is empty, and no event loop reads a row that is not there.
THEOREM Typing == Spec => []TypeOK
<1>1. IInv => TypeOK
  BY DEF IInv
<1> QED
  BY <1>1, AlwaysI, PTL

-----------------------------------------------------------------------------
(* Tasks start after their dependencies.                                    *)

\* A count of successes that reaches the number of dependencies of t has found
\* every one of them, when no dependency is counted twice.
LEMMA AllMet ==
    ASSUME NEW rs, NEW ps, NEW t \in Task, Deps[t] # {},
           MetDependencies(rs, t) = Cardinality(Deps[t]),
           \A k \in DOMAIN rs : rs[k].status = "success" => ps[k].phase = "succeeded",
           \A j, k \in DOMAIN rs :
               rs[j].task = rs[k].task /\ ps[j].phase = "succeeded"
                   /\ ps[k].phase = "succeeded" => j = k
    PROVE  \A d \in Deps[t] :
               \E k \in DOMAIN rs : rs[k].task = d /\ ps[k].phase = "succeeded"
<1> DEFINE M == {i \in DOMAIN rs : rs[i].task \in Deps[t] /\ rs[i].status = "success"}
           f == [i \in M |-> rs[i].task]
<1>1. IsFiniteSet(Deps[t])
  BY DagAssumption, FS_Subset
<1>2. Cardinality(Deps[t]) # 0
  BY <1>1, FS_EmptySet
<1>3. Cardinality(M) = Cardinality(Deps[t])
  BY <1>2 DEF MetDependencies
<1>4. f \in Injection(M, Deps[t])
  BY DEF Injection, IsInjective
<1>5. f \in Surjection(M, Deps[t])
  <2> HIDE DEF f, M
  <2> QED
    BY <1>1, <1>3, <1>4, FS_Injection
<1>6. \A d \in Deps[t] : \E i \in M : f[i] = d
  BY <1>5 DEF Surjection
<1> QED
  BY <1>6

\* What the handlers are about to start has its dependencies.
NextIsDue ==
    \A h \in Handler :
        handler[h].pc = "addNext" =>
            \A t \in handler[h].todo : \A d \in Deps[t] : Succeeded(d)

OrderInv == NoTwins => DependencyOrder /\ NextIsDue

LEMMA TwinsStay ==
    ASSUME IInv, Kept, NoTwins'
    PROVE  NoTwins
BY DEF NoTwins, Kept

LEMMA SuccessStays ==
    ASSUME Kept, NEW d, Succeeded(d)
    PROVE  Succeeded(d)'
BY DEF Succeeded, Kept

\* No row is added and no handler gets tasks to start.
LEMMA OrderKept ==
    ASSUME IInv, Kept, OrderInv, NoTwins', DOMAIN rows' = DOMAIN rows,
           \A h \in Handler : handler'[h].pc = "addNext" => handler'[h] = handler[h]
    PROVE  OrderInv'
<1>1. DependencyOrder /\ NextIsDue
  BY TwinsStay DEF OrderInv
<1>2. DependencyOrder'
  <2> SUFFICES ASSUME NEW i \in DOMAIN rows, NEW d \in Deps[rows[i].task]
               PROVE  Succeeded(d)'
    BY DEF DependencyOrder, Kept
  <2> QED
    BY <1>1, SuccessStays DEF DependencyOrder
<1>3. NextIsDue'
  <2> SUFFICES ASSUME NEW h \in Handler, handler'[h].pc = "addNext",
                      NEW t \in handler'[h].todo, NEW d \in Deps[t]
               PROVE  Succeeded(d)'
    BY DEF NextIsDue
  <2> QED
    BY <1>1, SuccessStays DEF NextIsDue
<1> QED
  BY <1>2, <1>3 DEF OrderInv

\* A row is added for a task whose dependencies have succeeded.
LEMMA OrderAdds ==
    ASSUME IInv, Kept, OrderInv, NoTwins', NEW t, RowAdded(t),
           \A d \in Deps[t] : Succeeded(d),
           \A h \in Handler : handler'[h].pc = "addNext" =>
               handler[h].pc = "addNext" /\ handler'[h].todo \subseteq handler[h].todo
    PROVE  OrderInv'
<1>1. DependencyOrder /\ NextIsDue
  BY TwinsStay DEF OrderInv
<1>2. DependencyOrder'
  <2> SUFFICES ASSUME NEW i \in DOMAIN rows', NEW d \in Deps[rows'[i].task]
               PROVE  Succeeded(d)'
    BY DEF DependencyOrder
  <2>1. Succeeded(d)
    BY <1>1 DEF DependencyOrder, RowAdded
  <2> QED
    BY <2>1, SuccessStays
<1>3. NextIsDue'
  <2> SUFFICES ASSUME NEW h \in Handler, handler'[h].pc = "addNext",
                      NEW u \in handler'[h].todo, NEW d \in Deps[u]
               PROVE  Succeeded(d)'
    BY DEF NextIsDue
  <2> QED
    BY <1>1, SuccessStays DEF NextIsDue
<1> QED
  BY <1>2, <1>3 DEF OrderInv

LEMMA NextOrder ==
    ASSUME IInv, IInv', OrderInv, [Next]_vars
    PROVE  OrderInv'
<1> SUFFICES ASSUME NoTwins' PROVE OrderInv'
  BY DEF OrderInv
<1>0. Kept /\ NoTwins /\ DependencyOrder /\ NextIsDue
  BY Keeps, TwinsStay DEF OrderInv
<1>1. CASE UNCHANGED vars
  BY <1>0, <1>1, OrderKept DEF vars
<1>2. ASSUME NEW t \in Task, StartTask(t) PROVE OrderInv'
  BY <1>0, <1>2, StartTaskEffect, OrderAdds
<1>3. ASSUME NEW k \in DOMAIN rows, StartPod(k) PROVE OrderInv'
  BY <1>0, <1>3, StartPodEffect, OrderKept
<1>4. ASSUME NEW k \in DOMAIN rows, Finalize(k) PROVE OrderInv'
  BY <1>0, <1>4, FinalizeEffect, OrderKept DEF StatusSet
<1>5. ASSUME NEW k \in DOMAIN rows, PodFinishes(k) PROVE OrderInv'
  BY <1>0, <1>5, PodFinishesEffect, OrderKept
<1>6. ASSUME NEW k \in DOMAIN rows, Redeliver(k) PROVE OrderInv'
  BY <1>0, <1>6, RedeliverEffect, OrderKept
<1>7. ASSUME NEW k \in DOMAIN rows, PodGone(k) PROVE OrderInv'
  BY <1>0, <1>7, PodGoneEffect, OrderKept
<1>8. ASSUME NEW h \in Handler, NEW k \in DOMAIN rows, TakeSucceeded(h, k) PROVE OrderInv'
  BY <1>0, <1>8, TakeSucceededEffect, OrderKept DEF Moves
<1>9. ASSUME NEW h \in Handler, NEW k \in DOMAIN rows, TakeFailed(h, k) PROVE OrderInv'
  BY <1>0, <1>9, TakeFailedEffect, OrderKept DEF Moves
<1>10. ASSUME NEW h \in Handler, NEW k \in DOMAIN rows, TakeMisconfigured(h, k)
       PROVE  OrderInv'
  BY <1>0, <1>10, TakeMisconfiguredEffect, OrderKept DEF Moves, StatusSet
<1>11. ASSUME NEW h \in Handler, MarkSuccess(h) PROVE OrderInv'
  <2>1. PICK next \in SUBSET Task :
            /\ next = IF IsLastSuccess THEN {} ELSE RunnableTasks(rows', handler[h].row)
            /\ Moves(h, IF next = {} THEN "checkDone" ELSE "addNext",
                     handler[h].pod, handler[h].row, next)
    BY <1>11, MarkSuccessEffect
  <2>2. DOMAIN rows' = DOMAIN rows
    BY <1>11, MarkSuccessEffect DEF StatusSet
  <2>3. DependencyOrder'
    <3> SUFFICES ASSUME NEW i \in DOMAIN rows, NEW d \in Deps[rows[i].task]
                 PROVE  Succeeded(d)'
      BY <1>0, <2>2 DEF DependencyOrder, Kept
    <3> QED
      BY <1>0, SuccessStays DEF DependencyOrder
  <2>4. ASSUME NEW t \in next, NEW d \in Deps[t] PROVE Succeeded(d)'
    <3>1. /\ t \in Task /\ Deps[t] # {}
          /\ MetDependencies(rows', t) = Cardinality(Deps[t])
      BY <2>1 DEF RunnableTasks
    <3>2. PICK rs, ps : rs = rows' /\ ps = pods'
      OBVIOUS
    <3>3. /\ \A k \in DOMAIN rs : rs[k].status = "success" => ps[k].phase = "succeeded"
          /\ \A j, k \in DOMAIN rs :
               rs[j].task = rs[k].task /\ ps[j].phase = "succeeded"
                   /\ ps[k].phase = "succeeded" => j = k
      BY <3>2 DEF IInv, StatusOK, RowOK, NoTwins
    <3>4. MetDependencies(rs, t) = Cardinality(Deps[t])
      BY <3>1, <3>2
    <3>5. \E k \in DOMAIN rs : rs[k].task = d /\ ps[k].phase = "succeeded"
      BY <3>1, <3>3, <3>4, AllMet
    <3> QED
      BY <3>2, <3>5 DEF Succeeded
  <2>5. NextIsDue'
    <3> SUFFICES ASSUME NEW g \in Handler, handler'[g].pc = "addNext",
                        NEW t \in handler'[g].todo, NEW d \in Deps[t]
                 PROVE  Succeeded(d)'
      BY DEF NextIsDue
    <3>1. CASE g = h
      BY <2>1, <2>4, <3>1 DEF Moves
    <3>2. CASE g # h
      <4>1. Succeeded(d)
        BY <1>0, <2>1, <3>2 DEF NextIsDue, Moves
      <4> QED
        BY <1>0, <4>1, SuccessStays
    <3> QED
      BY <3>1, <3>2
  <2> QED
    BY <2>3, <2>5 DEF OrderInv
<1>12. ASSUME NEW h \in Handler, NEW t \in Task, AddNext(h, t) PROVE OrderInv'
  <2>1. \A d \in Deps[t] : Succeeded(d)
    BY <1>0, <1>12, AddNextEffect DEF NextIsDue
  <2>2. \A g \in Handler : handler'[g].pc = "addNext" =>
            handler[g].pc = "addNext" /\ handler'[g].todo \subseteq handler[g].todo
    BY <1>12, AddNextEffect DEF Moves
  <2> QED
    BY <1>0, <1>12, <2>1, <2>2, AddNextEffect, OrderAdds
<1>13. ASSUME NEW h \in Handler, CheckDone(h) PROVE OrderInv'
  BY <1>0, <1>13, CheckDoneEffect, OrderKept DEF Moves
<1>14. ASSUME NEW h \in Handler, RetryAdd(h) PROVE OrderInv'
  <2>1. handler[h].row \in DOMAIN rows
    BY <1>14, RetryAddEffect, BusyRow
  <2>2. \A d \in Deps[rows[handler[h].row].task] : Succeeded(d)
    BY <1>0, <2>1 DEF DependencyOrder
  <2>3. \A g \in Handler : handler'[g].pc = "addNext" =>
            handler[g].pc = "addNext" /\ handler'[g].todo \subseteq handler[g].todo
    BY <1>14, RetryAddEffect DEF Moves
  <2> QED
    BY <1>0, <1>14, <2>2, <2>3, RetryAddEffect, OrderAdds
<1>15. ASSUME NEW h \in Handler, RetryClaim(h) PROVE OrderInv'
  BY <1>0, <1>15, RetryClaimEffect, OrderKept DEF Moves
<1>16. ASSUME NEW h \in Handler, RetryIncrement(h) PROVE OrderInv'
  BY <1>0, <1>16, RetryIncrementEffect, OrderKept DEF Moves
<1>17. ASSUME NEW h \in Handler, MarkFailed(h) PROVE OrderInv'
  BY <1>0, <1>17, MarkFailedEffect, OrderKept DEF Moves, StatusSet
<1>18. ASSUME NEW h \in Handler, CascadeRead(h) PROVE OrderInv'
  BY <1>0, <1>18, CascadeReadEffect, OrderKept DEF Moves
<1>19. ASSUME NEW h \in Handler, CascadeWrite(h) PROVE OrderInv'
  BY <1>0, <1>19, CascadeWriteEffect, OrderKept DEF Moves
<1>20. ASSUME NEW h \in Handler, HandlerAborts(h) PROVE OrderInv'
  BY <1>0, <1>20, HandlerAbortsEffect, OrderKept DEF Moves
<1>21. ASSUME NEW h \in Handler, NEW k \in DOMAIN rows, TakeMisconfiguredFails(h, k)
       PROVE  OrderInv'
  BY <1>0, <1>21, TakeMisconfiguredFailsEffect, OrderKept DEF Moves
<1>22. ASSUME NEW h \in Handler, MarkFailedFails(h) PROVE OrderInv'
  BY <1>0, <1>22, MarkFailedFailsEffect, OrderKept DEF Moves
<1> QED
  BY <1>1, <1>2, <1>3, <1>4, <1>5, <1>6, <1>7, <1>8, <1>9, <1>10, <1>11, <1>12, <1>13,
     <1>14, <1>15, <1>16, <1>17, <1>18, <1>19, <1>20, <1>21, <1>22 DEF Next, Advance

LEMMA AlwaysOrder == Spec => []OrderInv
<1>1. Init => OrderInv
  BY DEF Init, OrderInv, DependencyOrder, NextIsDue, Free
<1> QED
  BY <1>1, NextOrder, AlwaysI, PTL DEF Spec

\* As long as no task has succeeded twice, no task of any DAG gets a row before
\* every task it runs after has succeeded, whatever events are repeated and
\* whichever handlers give up.  (A second success of one dependency counts for
\* another one that is missing: getMetDependencies counts rows.)
THEOREM RunsAfterDependencies == Spec => [](NoTwins => DependencyOrder)
<1>1. OrderInv => (NoTwins => DependencyOrder)
  BY DEF OrderInv
<1> QED
  BY <1>1, AlwaysOrder, PTL

-----------------------------------------------------------------------------
(* The counters of the run.                                                 *)

TaskCount == Cardinality(Task)

LEMMA TaskCountType == TaskCount \in Nat
BY DagAssumption, FS_CardinalityType DEF TaskCount

\* A 'success' has been counted for every task, and a deleted workspace had
\* all the tasks accounted for.
Totals ==
    /\ runStatus = "success" => TaskCount <= successfulCount
    /\ ~ pvc => TaskCount <= successfulCount + failedCount + suspendedCount

LEMMA TotalsKept ==
    ASSUME IInv, Totals, SameCounts, pvc' = pvc
    PROVE  Totals'
BY DEF Totals, SameCounts, TaskCount

LEMMA NextTotals ==
    ASSUME IInv, Totals, [Next]_vars
    PROVE  Totals'
<1> USE TypeParts, TaskCountType
<1>1. CASE UNCHANGED vars
  BY <1>1, TotalsKept DEF vars, counters, counts, SameCounts
<1>2. ASSUME NEW t \in Task, StartTask(t) PROVE Totals'
  BY <1>2, StartTaskEffect, TotalsKept
<1>3. ASSUME NEW k \in DOMAIN rows,
             StartPod(k) \/ Finalize(k) \/ PodFinishes(k) \/ Redeliver(k) \/ PodGone(k)
      PROVE  Totals'
  BY <1>3, StartPodEffect, FinalizeEffect, PodFinishesEffect, RedeliverEffect, PodGoneEffect,
     TotalsKept
<1>4. ASSUME NEW h \in Handler, NEW k \in DOMAIN rows, TakeSucceeded(h, k) \/ TakeFailed(h, k)
      PROVE  Totals'
  BY <1>4, TakeSucceededEffect, TakeFailedEffect, TotalsKept
<1>5. ASSUME NEW h \in Handler, NEW k \in DOMAIN rows, TakeMisconfigured(h, k) PROVE Totals'
  BY <1>5, TakeMisconfiguredEffect DEF Totals
<1>6. ASSUME NEW h \in Handler, MarkSuccess(h) PROVE Totals'
  <2>1. /\ successfulCount' = successfulCount + 1 /\ pvc' = pvc
        /\ failedCount' = failedCount /\ suspendedCount' = suspendedCount
        /\ runStatus' = IF IsLastSuccess THEN "success" ELSE runStatus
    BY <1>6, MarkSuccessEffect
  <2> QED
    BY <2>1 DEF Totals, IsLastSuccess, TaskCount
<1>7. ASSUME NEW h \in Handler, NEW t \in Task, AddNext(h, t) PROVE Totals'
  BY <1>7, AddNextEffect, TotalsKept
<1>8. ASSUME NEW h \in Handler, CheckDone(h) PROVE Totals'
  <2>1. pvc' = (pvc /\ ~ AllTasksDone) /\ SameCounts
    BY <1>8, CheckDoneEffect
  <2>2. CASE AllTasksDone
    BY <2>1, <2>2 DEF Totals, SameCounts, AllTasksDone, TaskCount
  <2>3. CASE ~ AllTasksDone
    BY <2>1, <2>3 DEF Totals, SameCounts
  <2> QED
    BY <2>2, <2>3
<1>9. ASSUME NEW h \in Handler, RetryAdd(h) \/ RetryClaim(h) \/ RetryIncrement(h)
      PROVE  Totals'
  BY <1>9, RetryAddEffect, RetryClaimEffect, RetryIncrementEffect, TotalsKept
<1>10. ASSUME NEW h \in Handler, MarkFailed(h) PROVE Totals'
  BY <1>10, MarkFailedEffect DEF Totals
<1>11. ASSUME NEW h \in Handler, CascadeRead(h) \/ HandlerAborts(h) PROVE Totals'
  BY <1>11, CascadeReadEffect, HandlerAbortsEffect, TotalsKept
<1>12. ASSUME NEW h \in Handler, CascadeWrite(h) PROVE Totals'
  BY <1>12, CascadeWriteEffect DEF Totals
<1>13. ASSUME NEW h \in Handler, NEW k \in DOMAIN rows, TakeMisconfiguredFails(h, k)
       PROVE  Totals'
  BY <1>13, TakeMisconfiguredFailsEffect, TotalsKept
<1>14. ASSUME NEW h \in Handler, MarkFailedFails(h) PROVE Totals'
  BY <1>14, MarkFailedFailsEffect, TotalsKept
<1> QED
  BY <1>1, <1>2, <1>3, <1>4, <1>5, <1>6, <1>7, <1>8, <1>9, <1>10, <1>11, <1>12, <1>13, <1>14
  DEF Next, Advance

LEMMA AlwaysTotals == Spec => []Totals
<1>1. Init => Totals
  BY DEF Init, Totals
<1> QED
  BY <1>1, NextTotals, AlwaysI, PTL DEF Spec

-----------------------------------------------------------------------------
(* Each success is counted once.                                            *)

\* Without repeated events a pod has one event, after its end, and none while
\* a handler works on it.
EventsOnce ==
    /\ \A k \in 1..MaxRows : /\ pods[k].events <= 1
                             /\ pods[k].phase \notin Ends => pods[k].events = 0
    /\ \A h \in Handler : handler[h].pc # "free" => pods[handler[h].pod].events = 0

\* The rows whose success a handler has counted or never will.
Counted == {k \in DOMAIN rows : /\ pods[k].phase = "succeeded" /\ pods[k].events = 0
                                /\ \A h \in Handler : ~ (/\ handler[h].pc = "markSuccess"
                                                         /\ handler[h].pod = k)}

CountInv == redelivered = 0 => EventsOnce /\ successfulCount <= Cardinality(Counted)

LEMMA SomeRows ==
    ASSUME IInv, NEW S, S \subseteq DOMAIN rows
    PROVE  IsFiniteSet(S) /\ Cardinality(S) \in Nat
<1>1. IsFiniteSet(1..MaxRows)
  BY Bounds, FS_Interval
<1>2. S \in SUBSET (1..MaxRows)
  BY Domain DEF IInv
<1> QED
  BY <1>1, <1>2, FS_Subset, FS_CardinalityType

LEMMA MoreRows ==
    ASSUME IInv', NEW S, NEW T, S \subseteq T, T \subseteq DOMAIN rows'
    PROVE  /\ Cardinality(S) \in Nat /\ Cardinality(T) \in Nat
           /\ Cardinality(S) <= Cardinality(T)
           /\ \A k \in T : k \notin S => Cardinality(S) + 1 <= Cardinality(T)
<1>1. IsFiniteSet(1..MaxRows)
  BY Bounds, FS_Interval
<1>2. DOMAIN rows' \subseteq 1..MaxRows
  BY Bounds DEF IInv, TypeOK
<1>3. IsFiniteSet(T) /\ Cardinality(T) \in Nat
  BY <1>1, <1>2, FS_Subset, FS_CardinalityType
<1>4. IsFiniteSet(S) /\ Cardinality(S) \in Nat /\ Cardinality(S) <= Cardinality(T)
  BY <1>3, FS_Subset, FS_CardinalityType
<1>5. ASSUME NEW k \in T, k \notin S PROVE Cardinality(S) + 1 <= Cardinality(T)
  <2>1. Cardinality(S \cup {k}) = Cardinality(S) + 1
    BY <1>4, <1>5, FS_AddElement
  <2>2. S \cup {k} \in SUBSET T
    BY <1>5
  <2> QED
    BY <1>3, <2>1, <2>2, FS_Subset
<1> QED
  BY <1>3, <1>4, <1>5

\* A step that counts nothing and takes or brings no event.
LEMMA CountKept ==
    ASSUME IInv, IInv', Kept, CountInv, redelivered' = redelivered,
           successfulCount' = successfulCount,
           \A k \in 1..MaxRows : /\ pods'[k].events = pods[k].events
                                 /\ pods'[k].phase \notin Ends => pods[k].phase \notin Ends,
           \A h \in Handler : handler'[h].pc # "free" =>
                /\ handler[h].pc # "free" /\ handler'[h].pod = handler[h].pod
                /\ handler'[h].pc = "markSuccess" => handler[h].pc = "markSuccess"
    PROVE  CountInv'
<1> SUFFICES ASSUME redelivered = 0
             PROVE  EventsOnce' /\ successfulCount <= Cardinality(Counted')
  BY DEF CountInv
<1>1. EventsOnce /\ successfulCount <= Cardinality(Counted)
  BY DEF CountInv
<1>2. DOMAIN rows \subseteq 1..MaxRows
  BY Domain DEF IInv
<1>3. \A h \in Handler : handler[h].pc # "free" => handler[h].pod \in 1..MaxRows
  BY <1>2 DEF IInv, HandlerOK
<1>4. EventsOnce'
  BY <1>1, <1>3 DEF EventsOnce
<1>5. Counted \subseteq Counted'
  BY <1>2 DEF Counted, Kept
<1>6. Counted' \subseteq DOMAIN rows'
  BY DEF Counted
<1>7. /\ Cardinality(Counted) \in Nat /\ Cardinality(Counted') \in Nat
      /\ Cardinality(Counted) <= Cardinality(Counted')
  BY <1>5, <1>6, MoreRows
<1> QED
  BY <1>1, <1>4, <1>7, TypeParts

\* A step that changes the events of one pod that is not counted.
LEMMA CountMoves ==
    ASSUME IInv, IInv', Kept, CountInv, redelivered' = redelivered,
           successfulCount' = successfulCount, DOMAIN rows' = DOMAIN rows,
           NEW k \in DOMAIN rows, k \notin Counted,
           \A j \in 1..MaxRows : j # k => pods'[j] = pods[j],
           \A h \in Handler : handler'[h] = handler[h] \/ handler'[h].pod = k,
           redelivered = 0 => EventsOnce'
    PROVE  CountInv'
<1> SUFFICES ASSUME redelivered = 0
             PROVE  successfulCount <= Cardinality(Counted')
  BY DEF CountInv
<1>1. successfulCount <= Cardinality(Counted)
  BY DEF CountInv
<1>2. DOMAIN rows \subseteq 1..MaxRows
  BY Domain DEF IInv
<1>3. Counted \subseteq Counted'
  BY <1>2 DEF Counted, Kept
<1>4. Counted' \subseteq DOMAIN rows'
  BY DEF Counted
<1>5. /\ Cardinality(Counted) \in Nat /\ Cardinality(Counted') \in Nat
      /\ Cardinality(Counted) <= Cardinality(Counted')
  BY <1>3, <1>4, MoreRows
<1> QED
  BY <1>1, <1>5, TypeParts

\* An event of pod k is taken, by a handler that begins or skips it.
LEMMA CountTakes ==
    ASSUME IInv, IInv', Kept, CountInv, redelivered' = redelivered,
           successfulCount' = successfulCount, DOMAIN rows' = DOMAIN rows,
           NEW k \in DOMAIN rows, pods[k].events > 0, NEW adopted,
           PodSet(k, pods[k].phase, pods[k].events - 1, adopted),
           \A g \in Handler : handler[g].pod # k,
           NEW h \in Handler, NEW pc,
           handler' = handler \/ Moves(h, pc, k, k, {})
    PROVE  CountInv'
<1>1. k \in 1..MaxRows /\ pods[k].events \in Nat
  BY Domain DEF IInv, PodRecord
<1>2. k \notin Counted
  BY <1>1 DEF Counted
<1>3. \A j \in 1..MaxRows : j # k => pods'[j] = pods[j]
  BY DEF PodSet
<1>4. \A g \in Handler : handler'[g] = handler[g] \/ handler'[g].pod = k
  BY DEF Moves
<1>5. ASSUME redelivered = 0 PROVE EventsOnce'
  <2>1. EventsOnce
    BY <1>5 DEF CountInv
  <2>2. pods'[k].events = 0 /\ pods'[k].phase = pods[k].phase
    BY <1>1, <2>1 DEF EventsOnce, PodSet
  <2>3. \A g \in Handler : handler[g].pc # "free" => handler[g].pod \in 1..MaxRows
    BY Domain DEF IInv, HandlerOK
  <2>4. ASSUME NEW g \in Handler, handler'[g].pc # "free"
        PROVE  pods'[handler'[g].pod].events = 0
    <3>1. CASE handler'[g].pod = k
      BY <2>2, <3>1
    <3>2. CASE handler'[g] = handler[g]
      BY <1>3, <2>1, <2>3, <2>4, <3>2 DEF EventsOnce
    <3> QED
      BY <1>4, <3>1, <3>2
  <2>5. ASSUME NEW j \in 1..MaxRows
        PROVE  pods'[j].events <= 1 /\ (pods'[j].phase \notin Ends => pods'[j].events = 0)
    BY <1>3, <2>1, <2>2 DEF EventsOnce
  <2> QED
    BY <2>4, <2>5 DEF EventsOnce
<1> QED
  BY <1>2, <1>3, <1>4, <1>5, CountMoves

LEMMA NextCount ==
    ASSUME IInv, IInv', CountInv, [Next]_vars
    PROVE  CountInv'
<1> USE TypeParts
<1>0. Kept /\ DOMAIN rows \subseteq 1..MaxRows
  BY Keeps, Domain
<1>1. CASE UNCHANGED vars
  BY <1>0, <1>1, CountKept DEF vars, counters, counts
<1>2. ASSUME NEW t \in Task, StartTask(t) PROVE CountInv'
  BY <1>0, <1>2, StartTaskEffect, CountKept DEF SameCounts
<1>3. ASSUME NEW k \in DOMAIN rows, StartPod(k) PROVE CountInv'
  BY <1>0, <1>3, StartPodEffect, CountKept DEF SameCounts, PodSet
<1>4. ASSUME NEW k \in DOMAIN rows, Finalize(k) PROVE CountInv'
  BY <1>0, <1>4, FinalizeEffect, CountKept DEF SameCounts, PodSet
<1>5. ASSUME NEW k \in DOMAIN rows, PodFinishes(k) PROVE CountInv'
  <2>1. PICK phase \in Ends : PodSet(k, phase, pods[k].events + 1, pods[k].adopted)
    BY <1>5, PodFinishesEffect
  <2>2. /\ pods[k].phase = "active" /\ rows' = rows /\ handler' = handler
        /\ successfulCount' = successfulCount /\ redelivered' = redelivered
    BY <1>5, PodFinishesEffect DEF SameCounts
  <2>3. k \notin Counted
    BY <2>2 DEF Counted
  <2>4. ASSUME redelivered = 0 PROVE EventsOnce'
    <3>1. EventsOnce
      BY <2>4 DEF CountInv
    <3>2. pods'[k].events = 1 /\ pods'[k].phase \in Ends
      BY <1>0, <2>1, <2>2, <3>1 DEF EventsOnce, PodSet
    <3>3. \A g \in Handler : handler[g].pc # "free" =>
                handler[g].pod \in 1..MaxRows /\ handler[g].pod # k
      BY <1>0, <2>2 DEF IInv, HandlerOK
    <3> QED
      BY <2>1, <2>2, <3>1, <3>2, <3>3, SMTT(30) DEF EventsOnce, PodSet
  <2> QED
    BY <1>0, <2>1, <2>2, <2>3, <2>4, CountMoves DEF PodSet
<1>6. ASSUME NEW k \in DOMAIN rows, Redeliver(k) PROVE CountInv'
  BY <1>6, RedeliverEffect DEF CountInv
<1>7. ASSUME NEW k \in DOMAIN rows, PodGone(k) PROVE CountInv'
  BY <1>0, <1>7, PodGoneEffect, CountKept DEF SameCounts, PodSet
<1>8. ASSUME NEW h \in Handler, NEW k \in DOMAIN rows, TakeSucceeded(h, k) PROVE CountInv'
  <2>1. handler' = handler \/ Moves(h, "markSuccess", k, k, {})
    BY <1>8, TakeSucceededEffect
  <2>2. /\ PodSet(k, pods[k].phase, pods[k].events - 1, pods[k].adopted)
        /\ successfulCount' = successfulCount /\ redelivered' = redelivered
        /\ rows' = rows /\ pods[k].events > 0 /\ \A g \in Handler : handler[g].pod # k
    BY <1>8, TakeSucceededEffect DEF SameCounts
  <2> QED
    BY <1>0, <2>1, <2>2, CountTakes
<1>9. ASSUME NEW h \in Handler, NEW k \in DOMAIN rows, TakeFailed(h, k) PROVE CountInv'
  <2>1. PICK pc : Moves(h, pc, k, k, {})
    BY <1>9, TakeFailedEffect
  <2>2. /\ PodSet(k, pods[k].phase, pods[k].events - 1, pods[k].adopted)
        /\ successfulCount' = successfulCount /\ redelivered' = redelivered
        /\ rows' = rows /\ pods[k].events > 0 /\ \A g \in Handler : handler[g].pod # k
    BY <1>9, TakeFailedEffect DEF SameCounts
  <2> QED
    BY <1>0, <2>1, <2>2, CountTakes
<1>10. ASSUME NEW h \in Handler, NEW k \in DOMAIN rows, TakeMisconfigured(h, k)
       PROVE  CountInv'
  <2>1. Moves(h, "markFailed", k, k, {}) /\ DOMAIN rows' = DOMAIN rows
    BY <1>10, TakeMisconfiguredEffect DEF StatusSet
  <2>2. /\ PodSet(k, pods[k].phase, pods[k].events - 1, pods[k].adopted)
        /\ successfulCount' = successfulCount /\ redelivered' = redelivered
        /\ pods[k].events > 0 /\ \A g \in Handler : handler[g].pod # k
    BY <1>10, TakeMisconfiguredEffect
  <2> QED
    BY <1>0, <2>1, <2>2, CountTakes
<1>11. ASSUME NEW h \in Handler, MarkSuccess(h) PROVE CountInv'
  <2>1. PICK pc, next :
            /\ pc \in {"checkDone", "addNext"}
            /\ Moves(h, pc, handler[h].pod, handler[h].row, next)
    <3>1. PICK next : Moves(h, IF next = {} THEN "checkDone" ELSE "addNext",
                            handler[h].pod, handler[h].row, next)
      BY <1>11, MarkSuccessEffect
    <3> QED
      BY <3>1
  <2>2. /\ handler[h].pc = "markSuccess" /\ successfulCount' = successfulCount + 1
        /\ pods' = pods /\ redelivered' = redelivered /\ DOMAIN rows' = DOMAIN rows
    BY <1>11, MarkSuccessEffect DEF StatusSet
  <2> SUFFICES ASSUME redelivered = 0
               PROVE  EventsOnce' /\ successfulCount + 1 <= Cardinality(Counted')
    BY <2>2 DEF CountInv
  <2>3. EventsOnce /\ successfulCount <= Cardinality(Counted)
    BY DEF CountInv
  <2>4. EventsOnce'
    BY <2>1, <2>2, <2>3 DEF EventsOnce, Moves
  <2>5. PICK k \in DOMAIN rows : k = handler[h].pod
    BY <2>2, BusyRow
  <2>6. pods[k].phase = "succeeded" /\ pods[k].events = 0
    BY <2>2, <2>3, <2>5 DEF IInv, HandlerOK, EventsOnce
  <2>7. k \notin Counted
    BY <2>2, <2>5 DEF Counted
  <2>8. \A g \in Handler : handler'[g].pc = "markSuccess" =>
            handler[g].pc = "markSuccess" /\ handler'[g].pod = handler[g].pod /\ g # h
    BY <2>1 DEF Moves
  <2>9. \A g \in Handler : handler'[g].pc = "markSuccess" => handler'[g].pod # k
    BY <2>2, <2>5, <2>8 DEF IInv, Exclusive
  <2>10. k \in Counted'
    BY <2>2, <2>6, <2>9 DEF Counted
  <2>11. Counted \subseteq Counted'
    BY <2>2, <2>8 DEF Counted
  <2>12. Counted' \subseteq DOMAIN rows'
    BY DEF Counted
  <2>13. /\ Cardinality(Counted) \in Nat /\ Cardinality(Counted') \in Nat
         /\ Cardinality(Counted) + 1 <= Cardinality(Counted')
    BY <2>7, <2>10, <2>11, <2>12, MoreRows
  <2> QED
    BY <2>3, <2>4, <2>13
<1>12. ASSUME NEW h \in Handler, NEW t \in Task, AddNext(h, t) PROVE CountInv'
  BY <1>0, <1>12, AddNextEffect, CountKept DEF SameCounts, Moves
<1>13. ASSUME NEW h \in Handler, CheckDone(h) PROVE CountInv'
  BY <1>0, <1>13, CheckDoneEffect, CountKept DEF SameCounts, Moves
<1>14. ASSUME NEW h \in Handler, RetryAdd(h) PROVE CountInv'
  BY <1>0, <1>14, RetryAddEffect, CountKept DEF SameCounts, Moves
<1>15. ASSUME NEW h \in Handler, RetryClaim(h) PROVE CountInv'
  BY <1>0, <1>15, RetryClaimEffect, CountKept DEF SameCounts, Moves
<1>16. ASSUME NEW h \in Handler, RetryIncrement(h) PROVE CountInv'
  BY <1>0, <1>16, RetryIncrementEffect, CountKept DEF SameCounts, Moves
<1>17. ASSUME NEW h \in Handler, MarkFailed(h) PROVE CountInv'
  BY <1>0, <1>17, MarkFailedEffect, CountKept DEF Moves
<1>18. ASSUME NEW h \in Handler, CascadeRead(h) PROVE CountInv'
  <2>1. PICK pc, todo :
            /\ pc \in {"checkDone", "cascadeWrite"}
            /\ Moves(h, pc, handler[h].pod, handler[h].row, todo)
    <3>1. PICK todo : Moves(h, IF todo = {} THEN "checkDone" ELSE "cascadeWrite",
                            handler[h].pod, handler[h].row, todo)
      BY <1>18, CascadeReadEffect
    <3> QED
      BY <3>1
  <2> QED
    BY <1>0, <1>18, <2>1, CascadeReadEffect, CountKept DEF SameCounts, Moves
<1>19. ASSUME NEW h \in Handler, CascadeWrite(h) PROVE CountInv'
  BY <1>0, <1>19, CascadeWriteEffect, CountKept DEF Moves
<1>20. ASSUME NEW h \in Handler, HandlerAborts(h) PROVE CountInv'
  BY <1>0, <1>20, HandlerAbortsEffect, CountKept DEF SameCounts, Moves
<1>21. ASSUME NEW h \in Handler, NEW k \in DOMAIN rows, TakeMisconfiguredFails(h, k)
       PROVE  CountInv'
  <2>1. Moves(h, "markFailed", k, k, {}) /\ rows' = rows
    BY <1>21, TakeMisconfiguredFailsEffect
  <2>2. /\ PodSet(k, pods[k].phase, pods[k].events - 1, pods[k].adopted)
        /\ successfulCount' = successfulCount /\ redelivered' = redelivered
        /\ pods[k].events > 0 /\ \A g \in Handler : handler[g].pod # k
    BY <1>21, TakeMisconfiguredFailsEffect DEF SameCounts
  <2> QED
    BY <1>0, <2>1, <2>2, CountTakes
<1>22. ASSUME NEW h \in Handler, MarkFailedFails(h) PROVE CountInv'
  BY <1>0, <1>22, MarkFailedFailsEffect, CountKept DEF SameCounts, Moves
<1> QED
  BY <1>1, <1>2, <1>3, <1>4, <1>5, <1>6, <1>7, <1>8, <1>9, <1>10, <1>11, <1>12, <1>13,
     <1>14, <1>15, <1>16, <1>17, <1>18, <1>19, <1>20, <1>21, <1>22 DEF Next, Advance

LEMMA AlwaysCount == Spec => []CountInv
<1>1. ASSUME Init PROVE CountInv
  <2>1. /\ pods = [i \in 1..MaxRows |-> NoPod] /\ handler = [h \in Handler |-> Free]
        /\ successfulCount = 0 /\ rows = <<>>
    BY <1>1 DEF Init
  <2>2. EventsOnce
    BY <2>1 DEF EventsOnce, NoPod, Free
  <2>3. Counted = {}
    BY <2>1 DEF Counted
  <2> QED
    BY <2>1, <2>2, <2>3, FS_EmptySet DEF CountInv
<1> QED
  BY <1>1, NextCount, AlwaysI, PTL DEF Spec

\* The tasks of rows whose pods succeeded are different ones.
LEMMA NoTwinsBound ==
    ASSUME IInv, NoTwins, NEW S, S \subseteq DOMAIN rows,
           \A k \in S : pods[k].phase = "succeeded",
           TaskCount <= Cardinality(S)
    PROVE  \A t \in Task : Succeeded(t)
<1> DEFINE f == [k \in S |-> rows[k].task]
<1>1. \A k \in DOMAIN rows : rows[k].task \in Task
  BY Domain DEF IInv, Row
<1>2. f \in Injection(S, Task)
  BY <1>1 DEF Injection, IsInjective, NoTwins
<1>3. /\ Cardinality(S) <= TaskCount
      /\ Cardinality(S) = TaskCount => f \in Surjection(S, Task)
  <2> HIDE DEF f
  <2> QED
    BY <1>2, FS_Injection, DagAssumption DEF TaskCount
<1>4. Cardinality(S) \in Nat
  BY SomeRows
<1>5. f \in Surjection(S, Task)
  <2> HIDE DEF f
  <2> QED
    BY <1>3, <1>4, TaskCountType
<1>6. \A t \in Task : \E k \in S : f[k] = t
  BY <1>5 DEF Surjection
<1> QED
  BY <1>6 DEF Succeeded

\* As long as no task has succeeded twice, a run of any DAG that is marked
\* 'success' has seen every task succeed: whichever handlers count at the same
\* time, give up half-way, or retry.
THEOREM SuccessMeansAll == Spec => [](NoTwins => SuccessIsTotal)
<1>1. ASSUME IInv, CountInv, Totals, NoTwins PROVE SuccessIsTotal
  <2> SUFFICES ASSUME runStatus = "success", redelivered = 0
               PROVE  \A t \in Task : Succeeded(t)
    BY DEF SuccessIsTotal, CountedOnce
  <2>1. Counted \subseteq DOMAIN rows /\ \A k \in Counted : pods[k].phase = "succeeded"
    BY DEF Counted
  <2>2. TaskCount <= successfulCount /\ successfulCount <= Cardinality(Counted)
    BY <1>1 DEF Totals, CountInv
  <2>3. TaskCount <= Cardinality(Counted)
    BY <1>1, <2>1, <2>2, TypeParts, TaskCountType, SomeRows
  <2> QED
    BY <1>1, <2>1, <2>3, NoTwinsBound
<1> QED
  BY <1>1, AlwaysI, AlwaysCount, AlwaysTotals, PTL

-----------------------------------------------------------------------------
(* Failures are final.                                                      *)

\* A row that was given up stays so: the history outlives the status, which
\* Finalize may overwrite.
LEMMA GivenUpStays ==
    ASSUME IInv, [Next]_vars
    PROVE  givenUp \subseteq givenUp'
<1>1. CASE UNCHANGED vars
  BY <1>1 DEF vars, counters
<1>2. ASSUME NEW t \in Task, StartTask(t) PROVE givenUp \subseteq givenUp'
  BY <1>2, StartTaskEffect DEF SameEnds
<1>3. ASSUME NEW k \in DOMAIN rows,
             StartPod(k) \/ Finalize(k) \/ PodFinishes(k) \/ Redeliver(k) \/ PodGone(k)
      PROVE  givenUp \subseteq givenUp'
  BY <1>3, StartPodEffect, FinalizeEffect, PodFinishesEffect, RedeliverEffect, PodGoneEffect
  DEF SameEnds
<1>4. ASSUME NEW h \in Handler, NEW k \in DOMAIN rows,
             \/ TakeSucceeded(h, k) \/ TakeFailed(h, k)
             \/ TakeMisconfigured(h, k) \/ TakeMisconfiguredFails(h, k)
      PROVE  givenUp \subseteq givenUp'
  BY <1>4, TakeSucceededEffect, TakeFailedEffect, TakeMisconfiguredEffect,
     TakeMisconfiguredFailsEffect DEF SameEnds
<1>5. ASSUME NEW h \in Handler, MarkSuccess(h) \/ MarkFailed(h) \/ MarkFailedFails(h)
      PROVE  givenUp \subseteq givenUp'
  BY <1>5, MarkSuccessEffect, MarkFailedEffect, MarkFailedFailsEffect
<1>6. ASSUME NEW h \in Handler, NEW t \in Task, AddNext(h, t) PROVE givenUp \subseteq givenUp'
  BY <1>6, AddNextEffect DEF SameEnds
<1>7. ASSUME NEW h \in Handler, \/ RetryAdd(h) \/ RetryClaim(h) \/ RetryIncrement(h)
      PROVE  givenUp \subseteq givenUp'
  BY <1>7, RetryAddEffect, RetryClaimEffect, RetryIncrementEffect DEF SameEnds
<1>8. ASSUME NEW h \in Handler,
             CheckDone(h) \/ CascadeRead(h) \/ CascadeWrite(h) \/ HandlerAborts(h)
      PROVE  givenUp \subseteq givenUp'
  BY <1>8, CheckDoneEffect, CascadeReadEffect, CascadeWriteEffect, HandlerAbortsEffect
  DEF SameEnds
<1> QED
  BY <1>1, <1>2, <1>3, <1>4, <1>5, <1>6, <1>7, <1>8 DEF Next, Advance

\* What was suspended is downstream of a row that was given up; so is what a
\* handler is about to suspend.
SuspendInv ==
    /\ \A h \in Handler :
          handler[h].pc \in {"cascadeRead", "cascadeWrite"} =>
              /\ handler[h].row \in givenUp
              /\ handler[h].pc = "cascadeWrite" =>
                    handler[h].todo \subseteq Downstream(rows[handler[h].row].task)
    /\ \A t \in Task : suspendedRows[t] > 0 =>
          \E k \in givenUp : t \in Downstream(rows[k].task)

\* A step that suspends nothing and starts or ends no cascade.
LEMMA SuspendKept ==
    ASSUME IInv, SuspendInv, Kept, givenUp \subseteq givenUp', suspendedRows' = suspendedRows,
           \A h \in Handler :
              handler'[h].pc \in {"cascadeRead", "cascadeWrite"} => handler'[h] = handler[h]
    PROVE  SuspendInv'
<1>1. ASSUME NEW h \in Handler, handler'[h].pc \in {"cascadeRead", "cascadeWrite"}
      PROVE  /\ handler'[h].row \in givenUp'
             /\ handler'[h].pc = "cascadeWrite" =>
                   handler'[h].todo \subseteq Downstream(rows'[handler'[h].row].task)
  <2>1. handler'[h] = handler[h] /\ handler[h].row \in DOMAIN rows
    BY <1>1, BusyRow
  <2> QED
    BY <1>1, <2>1 DEF SuspendInv, Kept
<1>2. ASSUME NEW t \in Task, suspendedRows'[t] > 0
      PROVE  \E k \in givenUp' : t \in Downstream(rows'[k].task)
  <2>1. PICK k \in givenUp : t \in Downstream(rows[k].task)
    BY <1>2 DEF SuspendInv
  <2>2. rows'[k].task = rows[k].task /\ k \in givenUp'
    BY <2>1, TypeParts DEF Kept
  <2> QED
    BY <2>1, <2>2
<1> QED
  BY <1>1, <1>2 DEF SuspendInv

LEMMA NextSuspend ==
    ASSUME IInv, SuspendInv, [Next]_vars
    PROVE  SuspendInv'
<1> USE TypeParts
<1>0. Kept /\ givenUp \subseteq givenUp'
  BY Keeps, GivenUpStays
<1>1. CASE UNCHANGED vars
  BY <1>0, <1>1, SuspendKept DEF vars
<1>2. ASSUME NEW t \in Task, StartTask(t) PROVE SuspendInv'
  BY <1>0, <1>2, StartTaskEffect, SuspendKept
<1>3. ASSUME NEW k \in DOMAIN rows,
             StartPod(k) \/ Finalize(k) \/ PodFinishes(k) \/ Redeliver(k) \/ PodGone(k)
      PROVE  SuspendInv'
  BY <1>0, <1>3, StartPodEffect, FinalizeEffect, PodFinishesEffect, RedeliverEffect,
     PodGoneEffect, SuspendKept
<1>4. ASSUME NEW h \in Handler, NEW k \in DOMAIN rows, TakeSucceeded(h, k) PROVE SuspendInv'
  BY <1>0, <1>4, TakeSucceededEffect, SuspendKept DEF Moves
<1>5. ASSUME NEW h \in Handler, NEW k \in DOMAIN rows, TakeFailed(h, k) PROVE SuspendInv'
  BY <1>0, <1>5, TakeFailedEffect, SuspendKept DEF Moves
<1>6. ASSUME NEW h \in Handler, NEW k \in DOMAIN rows, TakeMisconfigured(h, k)
      PROVE  SuspendInv'
  BY <1>0, <1>6, TakeMisconfiguredEffect, SuspendKept DEF Moves
<1>7. ASSUME NEW h \in Handler, NEW k \in DOMAIN rows, TakeMisconfiguredFails(h, k)
      PROVE  SuspendInv'
  BY <1>0, <1>7, TakeMisconfiguredFailsEffect, SuspendKept DEF Moves
<1>8. ASSUME NEW h \in Handler, MarkSuccess(h) PROVE SuspendInv'
  <2>1. PICK next : Moves(h, IF next = {} THEN "checkDone" ELSE "addNext",
                          handler[h].pod, handler[h].row, next)
    BY <1>8, MarkSuccessEffect
  <2>2. suspendedRows' = suspendedRows
    BY <1>8, MarkSuccessEffect
  <2> QED
    BY <1>0, <2>1, <2>2, SuspendKept DEF Moves
<1>9. ASSUME NEW h \in Handler, NEW t \in Task, AddNext(h, t) PROVE SuspendInv'
  BY <1>0, <1>9, AddNextEffect, SuspendKept DEF Moves
<1>10. ASSUME NEW h \in Handler, CheckDone(h) PROVE SuspendInv'
  BY <1>0, <1>10, CheckDoneEffect, SuspendKept DEF Moves
<1>11. ASSUME NEW h \in Handler, RetryAdd(h) PROVE SuspendInv'
  BY <1>0, <1>11, RetryAddEffect, SuspendKept DEF Moves
<1>12. ASSUME NEW h \in Handler, RetryClaim(h) PROVE SuspendInv'
  BY <1>0, <1>12, RetryClaimEffect, SuspendKept DEF Moves
<1>13. ASSUME NEW h \in Handler, RetryIncrement(h) PROVE SuspendInv'
  BY <1>0, <1>13, RetryIncrementEffect, SuspendKept DEF Moves
<1>14. ASSUME NEW h \in Handler, HandlerAborts(h) PROVE SuspendInv'
  BY <1>0, <1>14, HandlerAbortsEffect, SuspendKept DEF Moves
<1>15. ASSUME NEW h \in Handler,
              MarkFailed(h) \/ MarkFailedFails(h) \/ CascadeRead(h) \/ CascadeWrite(h)
       PROVE  SuspendInv'
  <2>1. PICK i \in DOMAIN rows : i = handler[h].row
    BY <1>15, BusyRow DEF MarkFailed, MarkFailedFails, CascadeRead, CascadeWrite
  <2>2. i \in givenUp' /\ rows'[i].task = rows[i].task
    <3>1. CASE MarkFailed(h)
      BY <1>0, <2>1, <3>1, MarkFailedEffect DEF Kept
    <3>2. CASE CascadeRead(h)
      BY <1>0, <2>1, <3>2, CascadeReadEffect DEF SuspendInv, Kept
    <3>3. CASE CascadeWrite(h)
      BY <1>0, <2>1, <3>3, CascadeWriteEffect DEF SuspendInv, Kept
    <3>4. CASE MarkFailedFails(h)
      BY <1>0, <2>1, <3>4, MarkFailedFailsEffect DEF Kept
    <3> QED
      BY <1>15, <3>1, <3>2, <3>3, <3>4
  <2>3. PICK pc, todo :
            /\ pc \in {"checkDone", "cascadeRead", "cascadeWrite"}
            /\ Moves(h, pc, handler[h].pod, i, todo)
            /\ pc = "cascadeWrite" => todo \subseteq Downstream(rows[i].task)
    <3>1. CASE MarkFailed(h)
      BY <2>1, <3>1, MarkFailedEffect
    <3>2. CASE CascadeRead(h)
      <4>1. PICK todo :
                /\ todo = {t \in Downstream(rows[handler[h].row].task) : ~ TaskRunExists(t)}
                /\ Moves(h, IF todo = {} THEN "checkDone" ELSE "cascadeWrite",
                         handler[h].pod, handler[h].row, todo)
        BY <3>2, CascadeReadEffect
      <4> QED
        BY <2>1, <4>1
    <3>3. CASE CascadeWrite(h)
      BY <2>1, <3>3, CascadeWriteEffect
    <3>4. CASE MarkFailedFails(h)
      BY <2>1, <3>4, MarkFailedFailsEffect
    <3> QED
      BY <1>15, <3>1, <3>2, <3>3, <3>4
  <2>4. ASSUME NEW g \in Handler, handler'[g].pc \in {"cascadeRead", "cascadeWrite"}
        PROVE  /\ handler'[g].row \in givenUp'
               /\ handler'[g].pc = "cascadeWrite" =>
                     handler'[g].todo \subseteq Downstream(rows'[handler'[g].row].task)
    <3>1. CASE g = h
      BY <2>2, <2>3, <2>4, <3>1 DEF Moves
    <3>2. CASE g # h
      <4>1. handler'[g] = handler[g] /\ handler[g].row \in DOMAIN rows
        BY <2>3, <2>4, <3>2, BusyRow DEF Moves
      <4> QED
        BY <1>0, <2>4, <4>1 DEF SuspendInv, Kept
    <3> QED
      BY <3>1, <3>2
  <2>5. ASSUME NEW t \in Task, suspendedRows'[t] > 0
        PROVE  \E k \in givenUp' : t \in Downstream(rows'[k].task)
    <3>1. CASE suspendedRows[t] > 0
      <4>1. PICK k \in givenUp : t \in Downstream(rows[k].task)
        BY <3>1 DEF SuspendInv
      <4>2. rows'[k].task = rows[k].task /\ k \in givenUp'
        BY <1>0, <4>1 DEF Kept
      <4> QED
        BY <4>1, <4>2
    <3>2. CASE ~ (suspendedRows[t] > 0)
      <4>1. CascadeWrite(h)
        BY <1>15, <2>5, <3>2, MarkFailedEffect, MarkFailedFailsEffect, CascadeReadEffect
      <4>2. t \in handler[h].todo /\ handler[h].pc = "cascadeWrite"
        BY <2>5, <3>2, <4>1, CascadeWriteEffect
      <4>3. t \in Downstream(rows[i].task)
        BY <2>1, <4>2 DEF SuspendInv
      <4> QED
        BY <2>2, <4>3
    <3> QED
      BY <3>1, <3>2
  <2> QED
    BY <2>4, <2>5 DEF SuspendInv
<1> QED
  BY <1>1, <1>2, <1>3, <1>4, <1>5, <1>6, <1>7, <1>8, <1>9, <1>10,
     <1>11, <1>12, <1>13, <1>14, <1>15 DEF Next, Advance

LEMMA AlwaysSuspend == Spec => []SuspendInv
<1>1. ASSUME Init PROVE SuspendInv
  BY <1>1 DEF Init, SuspendInv, NoPod, Free
<1> QED
  BY <1>1, NextSuspend, AlwaysI, PTL DEF Spec

\* A task downstream of one that did not succeed has no row, because its row
\* would need the success of a task without one.
LEMMA DownstreamWaits ==
    ASSUME IInv, DependencyOrder, NEW f, ~ Succeeded(f), NEW t \in Downstream(f)
    PROVE  \A i \in DOMAIN rows : rows[i].task # t
<1> DEFINE D == {u \in Task : \A i \in DOMAIN rows : rows[i].task # u}
<1>1. \A v \in D : ~ Succeeded(v)
  BY DEF Succeeded
<1>2. ASSUME NEW v \in Task, Deps[v] \cap (D \cup {f}) # {}
      PROVE  v \in D
  BY <1>1, <1>2 DEF DependencyOrder
<1>3. t \in D
  BY <1>2 DEF Downstream
<1> QED
  BY <1>3

LEMMA OnceNoTwins ==
    ASSUME OnceEach
    PROVE  NoTwins
BY DEF OnceEach, NoTwins, Retried

LEMMA SuspendedWaits ==
    ASSUME IInv, OrderInv, SuspendInv, OnceEach
    PROVE  SuspendedNeverRuns
<1> SUFFICES ASSUME NEW i \in DOMAIN rows, suspendedRows[rows[i].task] # 0
             PROVE  FALSE
  BY DEF SuspendedNeverRuns
<1>1. rows[i].task \in Task /\ suspendedRows[rows[i].task] > 0
  BY Domain, TypeParts DEF IInv, Row
<1>2. PICK k \in givenUp : rows[i].task \in Downstream(rows[k].task)
  BY <1>1 DEF SuspendInv
<1>3. k \in DOMAIN rows /\ pods[k].phase \in {"failed", "misconfigured"}
  BY <1>2, TypeParts DEF IInv, StatusOK, RowOK
<1>4. ~ Succeeded(rows[k].task)
  BY <1>2, <1>3 DEF Succeeded, OnceEach, Retried
<1>5. DependencyOrder
  BY OnceNoTwins DEF OrderInv
<1> QED
  BY <1>2, <1>4, <1>5, DownstreamWaits

\* In every DAG whose tasks are started once, or again after a failure that
\* was not final, a task that was suspended for a failure upstream has no row
\* that a worker could claim: whenever the cascade reads, and whichever
\* handler finds tasks runnable meanwhile, also when Finalize overwrites the
\* failure or the row could not be marked at all.
THEOREM SuspendedStaySuspended == Spec => [](OnceEach => SuspendedNeverRuns)
BY SuspendedWaits, AlwaysI, AlwaysOrder, AlwaysSuspend, PTL

-----------------------------------------------------------------------------
(* The workspace outlives its users.                                        *)

\* Each failure is counted at most once: no event and no handler that could
\* count it again is left when the row has been given up.
FailInv ==
    CountedOnce =>
        /\ failedCount <= Cardinality(givenUp)
        /\ \A k \in givenUp :
              /\ pods[k].events = 0
              /\ \A h \in Handler : ~ (handler[h].pc = "markFailed" /\ handler[h].pod = k)

Suspended == {t \in Task : suspendedRows[t] > 0}

SuspendCount == SuspendedOnce => suspendedCount <= Cardinality(Suspended)

LEMMA SomeTasks ==
    ASSUME NEW S, S \subseteq Task
    PROVE  IsFiniteSet(S) /\ Cardinality(S) \in Nat
BY DagAssumption, FS_Subset, FS_CardinalityType

LEMMA NextSuspendCount ==
    ASSUME IInv, SuspendCount, [Next]_vars
    PROVE  SuspendCount'
<1> USE TypeParts
<1>1. CASE suspendedRows' = suspendedRows /\ suspendedCount' = suspendedCount
  BY <1>1 DEF SuspendCount, SuspendedOnce, Suspended
<1>2. ASSUME NEW h \in Handler, CascadeWrite(h) PROVE SuspendCount'
  <2> SUFFICES ASSUME SuspendedOnce'
               PROVE  suspendedCount' <= Cardinality(Suspended')
    BY DEF SuspendCount
  <2> DEFINE todo == handler[h].todo
  <2>1. /\ todo \subseteq Task /\ suspendedCount' = suspendedCount + Cardinality(todo)
        /\ \A t \in Task : suspendedRows'[t] = IF t \in todo THEN suspendedRows[t] + 1
                                               ELSE suspendedRows[t]
    BY <1>2, CascadeWriteEffect, BusyRow
  <2> HIDE DEF todo
  <2>2. SuspendedOnce /\ \A t \in todo : suspendedRows[t] = 0
    BY <2>1, SMTT(30) DEF SuspendedOnce
  <2>3. Suspended' = Suspended \cup todo /\ Suspended \cap todo = {}
    BY <2>1, <2>2 DEF Suspended
  <2>4. suspendedCount <= Cardinality(Suspended)
    BY <2>2 DEF SuspendCount
  <2>5. /\ IsFiniteSet(todo) /\ Cardinality(todo) \in Nat
        /\ IsFiniteSet(Suspended) /\ Cardinality(Suspended) \in Nat
    BY <2>1, SomeTasks DEF Suspended
  <2>6. Cardinality(Suspended') = Cardinality(Suspended) + Cardinality(todo)
    <3>1. Cardinality(Suspended \cup todo) = Cardinality(Suspended) + Cardinality(todo)
                                               - Cardinality(Suspended \cap todo)
      BY <2>5, FS_Union
    <3>2. Cardinality(Suspended \cap todo) = 0
      BY <2>3, FS_EmptySet
    <3> QED
      BY <2>3, <2>5, <3>1, <3>2
  <2> QED
    BY <2>1, <2>4, <2>5, <2>6
<1>3. CASE UNCHANGED vars
  BY <1>1, <1>3 DEF vars, counters, counts
<1>4. ASSUME NEW t \in Task, StartTask(t) PROVE SuspendCount'
  BY <1>1, <1>4, StartTaskEffect DEF SameCounts
<1>5. ASSUME NEW k \in DOMAIN rows,
             StartPod(k) \/ Finalize(k) \/ PodFinishes(k) \/ Redeliver(k) \/ PodGone(k)
      PROVE  SuspendCount'
  BY <1>1, <1>5, StartPodEffect, FinalizeEffect, PodFinishesEffect, RedeliverEffect,
     PodGoneEffect DEF SameCounts
<1>6. ASSUME NEW h \in Handler, NEW k \in DOMAIN rows,
             TakeSucceeded(h, k) \/ TakeFailed(h, k) \/ TakeMisconfigured(h, k)
      PROVE  SuspendCount'
  BY <1>1, <1>6, TakeSucceededEffect, TakeFailedEffect, TakeMisconfiguredEffect DEF SameCounts
<1>7. ASSUME NEW h \in Handler, MarkSuccess(h) \/ MarkFailed(h) PROVE SuspendCount'
  BY <1>1, <1>7, MarkSuccessEffect, MarkFailedEffect
<1>8. ASSUME NEW h \in Handler, NEW t \in Task, AddNext(h, t) PROVE SuspendCount'
  BY <1>1, <1>8, AddNextEffect DEF SameCounts
<1>9. ASSUME NEW h \in Handler, CheckDone(h) \/ CascadeRead(h) \/ HandlerAborts(h)
      PROVE  SuspendCount'
  BY <1>1, <1>9, CheckDoneEffect, CascadeReadEffect, HandlerAbortsEffect DEF SameCounts
<1>10. ASSUME NEW h \in Handler, RetryAdd(h) \/ RetryClaim(h) \/ RetryIncrement(h)
       PROVE  SuspendCount'
  BY <1>1, <1>10, RetryAddEffect, RetryClaimEffect, RetryIncrementEffect DEF SameCounts
<1>11. ASSUME NEW h \in Handler, NEW k \in DOMAIN rows, TakeMisconfiguredFails(h, k)
       PROVE  SuspendCount'
  BY <1>1, <1>11, TakeMisconfiguredFailsEffect DEF SameCounts
<1>12. ASSUME NEW h \in Handler, MarkFailedFails(h) PROVE SuspendCount'
  BY <1>1, <1>12, MarkFailedFailsEffect DEF SameCounts
<1> QED
  BY <1>2, <1>3, <1>4, <1>5, <1>6, <1>7, <1>8, <1>9, <1>10, <1>11, <1>12 DEF Next, Advance

LEMMA AlwaysSuspendCount == Spec => []SuspendCount
<1>1. ASSUME Init PROVE SuspendCount
  <2>1. Suspended = {} /\ suspendedCount = 0
    BY <1>1 DEF Init, Suspended
  <2> QED
    BY <2>1, FS_EmptySet DEF SuspendCount
<1> QED
  BY <1>1, NextSuspendCount, AlwaysI, PTL DEF Spec

LEMMA CountedOnceBefore ==
    ASSUME IInv, IInv', Kept, CountedOnce',
           redelivered' = redelivered \/ redelivered' = redelivered + 1
    PROVE  CountedOnce /\ redelivered' = redelivered
<1>1. redelivered' = 0 /\ redelivered \in Nat
  BY TypeParts DEF CountedOnce
<1>2. redelivered = 0
  BY <1>1
<1>3. \A k \in DOMAIN rows : pods[k].phase # "misconfigured"
  BY DEF Kept, CountedOnce
<1> QED
  BY <1>1, <1>2, <1>3 DEF CountedOnce

\* A step that gives up no row and brings no event of one given up.
LEMMA FailKept ==
    ASSUME IInv, IInv', Kept, FailInv, failedCount' = failedCount, givenUp' = givenUp,
           redelivered' = redelivered,
           \A k \in givenUp : pods[k].events = 0 => pods'[k].events = 0,
           \A h \in Handler : handler'[h].pc = "markFailed" =>
               handler'[h] = handler[h] \/ handler'[h].pod \notin givenUp
    PROVE  FailInv'
<1> SUFFICES ASSUME CountedOnce'
             PROVE  /\ failedCount <= Cardinality(givenUp)
                    /\ \A k \in givenUp :
                          /\ pods'[k].events = 0
                          /\ \A h \in Handler : ~ (/\ handler'[h].pc = "markFailed"
                                                   /\ handler'[h].pod = k)
  BY DEF FailInv
<1>1. CountedOnce
  BY CountedOnceBefore
<1> QED
  BY <1>1 DEF FailInv

LEMMA NextFail ==
    ASSUME IInv, IInv', CountInv, FailInv, [Next]_vars
    PROVE  FailInv'
<1> USE TypeParts
<1>0. Kept /\ DOMAIN rows \subseteq 1..MaxRows
  BY Keeps, Domain
<1>1. CASE UNCHANGED vars
  BY <1>0, <1>1, FailKept DEF vars, counters, counts
<1>2. ASSUME NEW t \in Task, StartTask(t) PROVE FailInv'
  BY <1>0, <1>2, StartTaskEffect, FailKept DEF SameCounts, SameEnds
<1>3. ASSUME NEW k \in DOMAIN rows, StartPod(k) PROVE FailInv'
  BY <1>0, <1>3, StartPodEffect, FailKept DEF SameCounts, SameEnds, PodSet
<1>4. ASSUME NEW k \in DOMAIN rows, Finalize(k) PROVE FailInv'
  BY <1>0, <1>4, FinalizeEffect, FailKept DEF SameCounts, PodSet
<1>5. ASSUME NEW k \in DOMAIN rows, PodFinishes(k) PROVE FailInv'
  <2>1. k \notin givenUp
    BY <1>5, PodFinishesEffect DEF IInv, StatusOK, RowOK
  <2> QED
    BY <1>0, <1>5, <2>1, PodFinishesEffect, FailKept DEF SameCounts, SameEnds, PodSet
<1>6. ASSUME NEW k \in DOMAIN rows, Redeliver(k) PROVE FailInv'
  BY <1>6, RedeliverEffect DEF FailInv, CountedOnce
<1>7. ASSUME NEW k \in DOMAIN rows, PodGone(k) PROVE FailInv'
  BY <1>0, <1>7, PodGoneEffect, FailKept DEF SameCounts, SameEnds, PodSet
<1>8. ASSUME NEW h \in Handler, NEW k \in DOMAIN rows, TakeSucceeded(h, k) PROVE FailInv'
  <2>1. k \notin givenUp
    BY <1>8, TakeSucceededEffect DEF IInv, StatusOK, RowOK
  <2> QED
    BY <1>0, <1>8, <2>1, TakeSucceededEffect, FailKept
    DEF SameCounts, SameEnds, PodSet, Moves
<1>9. ASSUME NEW h \in Handler, NEW k \in DOMAIN rows, TakeFailed(h, k) PROVE FailInv'
  <2> SUFFICES ASSUME CountedOnce' PROVE FailInv'
    BY DEF FailInv
  <2>1. /\ PodSet(k, pods[k].phase, pods[k].events - 1, pods[k].adopted)
        /\ \/ Moves(h, "retryAdd", k, k, {})
           \/ Moves(h, "markFailed", k, k, {})
        /\ failedCount' = failedCount /\ redelivered' = redelivered /\ rows' = rows
        /\ givenUp' = givenUp /\ pods[k].events > 0
    BY <1>9, TakeFailedEffect DEF SameCounts, SameEnds
  <2>2. CountedOnce
    BY <1>0, <2>1, CountedOnceBefore
  <2>3. k \notin givenUp
    <3>1. pods[k].events # 0
      BY <1>0, <2>1 DEF PodRecord
    <3> QED
      BY <2>2, <3>1 DEF FailInv
  <2>4. \A j \in givenUp : pods'[j] = pods[j]
    BY <1>0, <2>1, <2>3 DEF PodSet
  <2>5. \A g \in Handler : handler'[g].pc = "markFailed" =>
            handler'[g] = handler[g] \/ handler'[g].pod \notin givenUp
    BY <2>1, <2>3 DEF Moves
  <2> QED
    BY <1>0, <2>1, <2>4, <2>5, FailKept
<1>10. ASSUME NEW h \in Handler, NEW k \in DOMAIN rows,
              TakeMisconfigured(h, k) \/ TakeMisconfiguredFails(h, k)
       PROVE  FailInv'
  <2>1. pods[k].phase = "misconfigured"
    BY <1>10, TakeMisconfiguredEffect, TakeMisconfiguredFailsEffect
  <2>2. ~ CountedOnce'
    BY <1>0, <2>1 DEF CountedOnce, Kept
  <2> QED
    BY <2>2 DEF FailInv
<1>11. ASSUME NEW h \in Handler, MarkSuccess(h) PROVE FailInv'
  <2>1. PICK next : Moves(h, IF next = {} THEN "checkDone" ELSE "addNext",
                          handler[h].pod, handler[h].row, next)
    BY <1>11, MarkSuccessEffect
  <2>2. /\ pods' = pods /\ failedCount' = failedCount /\ redelivered' = redelivered
        /\ givenUp' = givenUp
    BY <1>11, MarkSuccessEffect
  <2> QED
    BY <1>0, <2>1, <2>2, FailKept DEF Moves
<1>12. ASSUME NEW h \in Handler, NEW t \in Task, AddNext(h, t) PROVE FailInv'
  BY <1>0, <1>12, AddNextEffect, FailKept DEF SameCounts, SameEnds, Moves
<1>13. ASSUME NEW h \in Handler, CheckDone(h) PROVE FailInv'
  BY <1>0, <1>13, CheckDoneEffect, FailKept DEF SameCounts, SameEnds, Moves
<1>14. ASSUME NEW h \in Handler, RetryAdd(h) PROVE FailInv'
  BY <1>0, <1>14, RetryAddEffect, FailKept DEF SameCounts, SameEnds, Moves
<1>15. ASSUME NEW h \in Handler, RetryClaim(h) PROVE FailInv'
  BY <1>0, <1>15, RetryClaimEffect, FailKept DEF SameCounts, SameEnds, Moves
<1>16. ASSUME NEW h \in Handler, RetryIncrement(h) PROVE FailInv'
  BY <1>0, <1>16, RetryIncrementEffect, FailKept DEF SameCounts, SameEnds, Moves
<1>17. ASSUME NEW h \in Handler, MarkFailed(h) \/ MarkFailedFails(h) PROVE FailInv'
  <2>1. PICK k \in DOMAIN rows : k = handler[h].row /\ k = handler[h].pod
    BY <1>17, MarkFailedEffect, MarkFailedFailsEffect, BusyRow DEF IInv, HandlerOK
  <2>2. /\ handler[h].pc = "markFailed" /\ givenUp' = givenUp \cup {k}
        /\ Moves(h, "cascadeRead", k, k, handler[h].todo)
        /\ failedCount' \in {failedCount, failedCount + 1}
        /\ pods' = pods /\ redelivered' = redelivered
    BY <1>17, <2>1, MarkFailedEffect, MarkFailedFailsEffect DEF SameCounts
  <2> SUFFICES ASSUME CountedOnce'
               PROVE  /\ failedCount' <= Cardinality(givenUp')
                      /\ \A j \in givenUp' :
                            /\ pods[j].events = 0
                            /\ \A g \in Handler : ~ (/\ handler'[g].pc = "markFailed"
                                                     /\ handler'[g].pod = j)
    BY <2>2 DEF FailInv
  <2>3. CountedOnce
    BY <1>0, <2>2, CountedOnceBefore
  <2>4. /\ failedCount <= Cardinality(givenUp)
        /\ \A j \in givenUp :
              /\ pods[j].events = 0
              /\ \A g \in Handler : ~ (handler[g].pc = "markFailed" /\ handler[g].pod = j)
    BY <2>3 DEF FailInv
  <2>5. k \notin givenUp
    BY <2>1, <2>2, <2>4
  <2>6. givenUp' \subseteq DOMAIN rows'
    BY DEF IInv, TypeOK
  <2>7. /\ Cardinality(givenUp) \in Nat /\ Cardinality(givenUp') \in Nat
        /\ Cardinality(givenUp) + 1 <= Cardinality(givenUp')
    BY <2>2, <2>5, <2>6, MoreRows
  <2>8. pods[k].events = 0
    BY <2>1, <2>2, <2>3 DEF CountInv, EventsOnce, CountedOnce
  <2>9. \A g \in Handler : handler'[g].pc = "markFailed" =>
            g # h /\ handler'[g] = handler[g] /\ handler[g].pod # k
    BY <2>1, <2>2 DEF Moves, IInv, Exclusive
  <2>10. failedCount' <= Cardinality(givenUp')
    BY <2>2, <2>4, <2>7
  <2> QED
    BY <2>2, <2>4, <2>8, <2>9, <2>10
<1>18. ASSUME NEW h \in Handler, CascadeRead(h) PROVE FailInv'
  <2>1. PICK todo : Moves(h, IF todo = {} THEN "checkDone" ELSE "cascadeWrite",
                          handler[h].pod, handler[h].row, todo)
    BY <1>18, CascadeReadEffect
  <2> QED
    BY <1>0, <1>18, <2>1, CascadeReadEffect, FailKept DEF SameCounts, SameEnds, Moves
<1>19. ASSUME NEW h \in Handler, CascadeWrite(h) PROVE FailInv'
  BY <1>0, <1>19, CascadeWriteEffect, FailKept DEF SameEnds, Moves
<1>20. ASSUME NEW h \in Handler, HandlerAborts(h) PROVE FailInv'
  BY <1>0, <1>20, HandlerAbortsEffect, FailKept DEF SameCounts, SameEnds, Moves
<1> QED
  BY <1>1, <1>2, <1>3, <1>4, <1>5, <1>6, <1>7, <1>8, <1>9, <1>10, <1>11, <1>12, <1>13,
     <1>14, <1>15, <1>16, <1>17, <1>18, <1>19, <1>20 DEF Next, Advance

LEMMA AlwaysFail == Spec => []FailInv
<1>1. ASSUME Init PROVE FailInv
  BY <1>1, FS_EmptySet DEF Init, FailInv
<1> QED
  BY <1>1, NextFail, AlwaysI, AlwaysCount, PTL DEF Spec

\* The rows of S stand for as many tasks.
LEMMA TasksOfRows ==
    ASSUME IInv, OnceEach, NEW S, S \subseteq DOMAIN rows, \A k \in S : ~ Retried(k)
    PROVE  LET tasks == {rows[k].task : k \in S}
           IN  /\ tasks \subseteq Task /\ Cardinality(tasks) = Cardinality(S)
<1> DEFINE tasks == {rows[k].task : k \in S}
           f == [k \in S |-> rows[k].task]
<1>1. \A k \in DOMAIN rows : rows[k].task \in Task
  BY Domain DEF IInv, Row
<1>2. f \in Surjection(S, tasks)
  BY DEF Surjection
<1>3. f \in Injection(S, tasks)
  BY DEF Injection, IsInjective, OnceEach
<1>4. IsFiniteSet(S)
  BY SomeRows
<1>5. Cardinality(tasks) = Cardinality(S)
  <2> HIDE DEF f, tasks
  <2> QED
    BY <1>2, <1>3, <1>4, FS_Surjection
<1> QED
  BY <1>1, <1>5

\* When the counters add up, every task is suspended or has a row whose end
\* was counted.
LEMMA AllSettled ==
    ASSUME IInv, OnceEach, SuspendedOnce, SuspendedNeverRuns, CountedOnce, Totals, CountInv,
           FailInv, SuspendCount, ~ pvc, NEW t \in Task
    PROVE  t \in Suspended \/ \E k \in Counted \cup givenUp : rows[k].task = t
<1> DEFINE settled == Counted \cup givenUp
           tasks == {rows[k].task : k \in settled}
<1>1. Counted \subseteq DOMAIN rows /\ givenUp \subseteq DOMAIN rows
  BY TypeParts DEF Counted
<1>2. \A k \in settled : ~ Retried(k)
  BY DEF Counted, Retried
<1>3. Counted \cap givenUp = {}
  BY DEF Counted, IInv, StatusOK, RowOK
<1>4. /\ IsFiniteSet(Counted) /\ Cardinality(Counted) \in Nat
      /\ IsFiniteSet(givenUp) /\ Cardinality(givenUp) \in Nat
  BY <1>1, SomeRows
<1>5. Cardinality(settled) = Cardinality(Counted) + Cardinality(givenUp)
  <2>1. Cardinality(Counted \cup givenUp)
          = Cardinality(Counted) + Cardinality(givenUp) - Cardinality(Counted \cap givenUp)
    BY <1>4, FS_Union
  <2>2. Cardinality(Counted \cap givenUp) = 0
    BY <1>3, FS_EmptySet
  <2> QED
    BY <1>4, <2>1, <2>2
<1>6. tasks \subseteq Task /\ Cardinality(tasks) = Cardinality(settled)
  BY <1>1, <1>2, TasksOfRows
<1>7. Suspended \subseteq Task /\ tasks \cap Suspended = {}
  BY <1>1, TypeParts DEF Suspended, SuspendedNeverRuns
<1>8. /\ IsFiniteSet(tasks) /\ Cardinality(tasks) \in Nat
      /\ IsFiniteSet(Suspended) /\ Cardinality(Suspended) \in Nat
  BY <1>6, <1>7, SomeTasks
<1>9. Cardinality(tasks \cup Suspended) = Cardinality(tasks) + Cardinality(Suspended)
  <2> HIDE DEF tasks
  <2>1. Cardinality(tasks \cup Suspended)
          = Cardinality(tasks) + Cardinality(Suspended) - Cardinality(tasks \cap Suspended)
    BY <1>8, FS_Union
  <2>2. Cardinality(tasks \cap Suspended) = 0
    BY <1>7, FS_EmptySet
  <2> QED
    BY <1>8, <2>1, <2>2
<1>10. /\ TaskCount <= successfulCount + failedCount + suspendedCount
       /\ successfulCount <= Cardinality(Counted) /\ failedCount <= Cardinality(givenUp)
       /\ suspendedCount <= Cardinality(Suspended)
  BY DEF Totals, CountInv, FailInv, SuspendCount, CountedOnce
<1>11. TaskCount <= Cardinality(tasks \cup Suspended)
  <2> HIDE DEF tasks, settled
  <2> QED
    BY <1>4, <1>5, <1>6, <1>8, <1>9, <1>10, TypeParts, TaskCountType
<1>12. tasks \cup Suspended = Task
  <2> HIDE DEF tasks
  <2>1. tasks \cup Suspended \in SUBSET Task
    BY <1>6, <1>7
  <2>2. Cardinality(tasks \cup Suspended) <= TaskCount
    BY <2>1, DagAssumption, FS_Subset DEF TaskCount
  <2>3. Cardinality(tasks \cup Suspended) \in Nat
    BY <2>1, SomeTasks
  <2> QED
    BY <1>11, <2>1, <2>2, <2>3, DagAssumption, FS_Subset, TaskCountType DEF TaskCount
<1> QED
  BY <1>12

\* In every DAG, as long as tasks are started once (or again after a failure
\* that was not final), suspended once, and ends are counted once, the
\* workspace is deleted only when no pod works and no row waits for one.
THEOREM WorkspaceOutlivesPods == Spec => [](Unforked => PvcOutlivesPods)
<1>1. ASSUME IInv, OrderInv, SuspendInv, Totals, CountInv, FailInv, SuspendCount, Unforked
      PROVE  PvcOutlivesPods
  <2> SUFFICES ASSUME ~ pvc, CountedOnce, NEW k \in DOMAIN rows,
                      pods[k].phase \in {"none", "active"}
               PROVE  FALSE
    BY DEF PvcOutlivesPods
  <2>1. OnceEach /\ SuspendedOnce
    BY <1>1 DEF Unforked
  <2>2. SuspendedNeverRuns
    BY <1>1, <2>1, SuspendedWaits
  <2>3. rows[k].task \in Task
    BY <1>1, Domain DEF IInv, Row
  <2>4. rows[k].task \notin Suspended
    BY <1>1, <2>2, <2>3, TypeParts DEF Suspended, SuspendedNeverRuns
  <2>5. PICK j \in Counted \cup givenUp : rows[j].task = rows[k].task
    BY <1>1, <2>1, <2>2, <2>3, <2>4, AllSettled
  <2>6. j \in DOMAIN rows /\ ~ Retried(j) /\ j # k
    BY <1>1, <2>5, TypeParts DEF Counted, Retried, IInv, StatusOK, RowOK
  <2>7. ~ Retried(k)
    BY DEF Retried
  <2> QED
    BY <2>1, <2>5, <2>6, <2>7 DEF OnceEach
<1> QED
  BY <1>1, AlwaysI, AlwaysOrder, AlwaysSuspend, AlwaysTotals, AlwaysCount, AlwaysFail,
     AlwaysSuspendCount, PTL

=============================================================================
