------------------------ MODULE PodEventQueue_proofs ------------------------
(***************************************************************************)
(* Theorems about PodEventQueue: for any number of events, batches of any  *)
(* length, any threshold of the compaction and any number of faults, both  *)
(* queues keep the promises of the interface queue.Queue.                  *)
(***************************************************************************)
EXTENDS PodEventQueue, SequenceTheorems, FiniteSetTheorems, TLAPS

-----------------------------------------------------------------------------
(* Sequences.                                                              *)

\* A function on 1..n is a sequence of length n: what the model builds with
\* [i \in 1..n |-> ...] for the slices of Go.
LEMMA FunIsSeq ==
    ASSUME NEW S, NEW n \in Nat, NEW f \in [1..n -> S]
    PROVE  f \in Seq(S) /\ Len(f) = n
<1>1. f \in Seq(S) BY SeqDef
<1> QED BY <1>1, LenProperties

\* The places that PopBatchWithContext has not read yet hold events: nil (0)
\* stands before the head only.
LiveData == \A i \in head + 1..Len(data) : data[i] \in Event

\* Only a worker that handles a batch has one.
InHand == reader # "handling" => taken = <<>>

QInv == TypeOK /\ LiveData /\ InHand

\* The queue seen as one sequence of events.
QView ==
    /\ queued \in Seq(Event)
    /\ available \in Nat
    /\ Len(queued) = available
    /\ kind = "memory" => \A i \in 1..available : queued[i] = data[head + i]
    /\ kind = "pebble" => \A i \in 1..available : queued[i] = store[headKey + i]

LEMMA QueuedType == TypeOK /\ LiveData => QView
<1> SUFFICES ASSUME TypeOK, LiveData PROVE QView OBVIOUS
<1> USE DEF TypeOK
<1>1. available \in Nat BY LenProperties DEF available
<1>2. CASE kind = "memory"
  <2>1. queued = [i \in 1..available |-> data[head + i]] BY <1>2 DEF queued, available
  <2>2. \A i \in 1..available : head + i \in head + 1..Len(data)
        BY <1>2, LenProperties DEF available
  <2>3. queued \in [1..available -> Event] BY <2>1, <2>2 DEF LiveData
  <2> QED BY <1>1, <1>2, <2>1, <2>3, FunIsSeq DEF QView
<1>3. CASE kind = "pebble"
  <2>1. queued = [i \in 1..available |-> store[headKey + i]]
        BY <1>3 DEF queued, available
  <2>2. \A i \in 1..available : headKey + i \in headKey + 1..tailKey
        BY <1>3 DEF available
  <2>3. queued \in [1..available -> Event] BY <2>1, <2>2
  <2>4. queued \in Seq(Event) /\ Len(queued) = available BY <1>1, <2>3, FunIsSeq
  <2>5. \A i \in 1..available : queued[i] = store[headKey + i] BY <2>1
  <2> QED BY <1>1, <1>3, <2>4, <2>5 DEF QView
<1> QED BY <1>2, <1>3

\* The same after a step.
LEMMA QueuedTypePrime == TypeOK' /\ LiveData' => QView'
BY QueuedType, PTL

-----------------------------------------------------------------------------
(* Types.  One lemma per action that touches the queue.                    *)

LEMMA BatchType ==
    ASSUME TypeOK, NEW n \in Nat, pushed + n <= MaxEvents
    PROVE  /\ Batch(n) \in [1..n -> Event]
           /\ Batch(n) \in Seq(Event)
           /\ Len(Batch(n)) = n
           /\ \A i \in 1..n : Batch(n)[i] = pushed + i
<1>1. Batch(n) \in [1..n -> Event] BY QueueAssumption DEF Batch, Event, TypeOK
<1>2. \A i \in 1..n : Batch(n)[i] = pushed + i BY DEF Batch
<1> QED BY <1>1, <1>2, FunIsSeq

LEMMA PushTypes ==
    ASSUME QInv, Push
    PROVE  QInv'
<1> USE DEF QInv
<1>1. PICK n \in 1..MaxBatch :
        /\ pushed + n <= MaxEvents
        /\ PushBatchMemory(n) \/ PushBatchPebble(n)
        /\ pushed' = pushed + n
        /\ UNCHANGED <<kind, reader, taken, out, handled, lostInHand, faults>>
      BY DEF Push
<1>2. n \in Nat /\ pushed' \in 0..MaxEvents BY <1>1, QueueAssumption DEF TypeOK
<1>3. CASE PushBatchMemory(n)
  <2>1. data \in Seq(Event \cup {0}) /\ Batch(n) \in Seq(Event \cup {0})
        BY <1>1, <1>2, BatchType, SeqMonotonic DEF TypeOK
  <2>2. /\ data' \in Seq(Event \cup {0})
        /\ Len(data') = Len(data) + n
        /\ \A i \in 1..Len(data) + n :
             data'[i] = IF i <= Len(data) THEN data[i] ELSE Batch(n)[i - Len(data)]
    <3>1. data' = data \o Batch(n) BY <1>3 DEF PushBatchMemory
    <3>2. Len(Batch(n)) = n BY <1>1, <1>2, BatchType
    <3> QED BY <2>1, <3>1, <3>2, ConcatProperties
  <2>3. Len(data) \in Nat BY LenProperties DEF TypeOK
  <2>4. head' = head /\ head \in 0..Len(data') BY <1>2, <1>3, <2>2, <2>3 DEF PushBatchMemory, TypeOK
  <2>5. LiveData'
    <3> SUFFICES ASSUME NEW i \in head + 1..Len(data) + n PROVE data'[i] \in Event
        BY <2>2, <2>4 DEF LiveData
    <3>1. CASE i <= Len(data)
      <4>1. i \in head + 1..Len(data) /\ i \in 1..Len(data) + n
            BY <1>2, <2>3, <3>1 DEF TypeOK
      <4>2. data'[i] = data[i] BY <2>2, <3>1, <4>1
      <4> QED BY <4>1, <4>2 DEF LiveData
    <3>2. CASE i > Len(data)
      <4>1. i - Len(data) \in 1..n BY <1>2, <2>3, <3>2 DEF TypeOK
      <4>2. i \in 1..Len(data) + n BY <1>2, <2>3, <3>2 DEF TypeOK
      <4> QED BY <1>1, <1>2, <2>2, <2>3, <3>2, <4>1, <4>2, BatchType
    <3> QED BY <1>2, <2>3, <3>1, <3>2 DEF TypeOK
  <2> QED BY <1>1, <1>2, <1>3, <2>2, <2>4, <2>5 DEF PushBatchMemory, TypeOK, InHand, pebble
<1>4. CASE PushBatchPebble(n)
  <2>1. store' \in [headKey + 1..tailKey + n -> Event]
    <3> SUFFICES ASSUME NEW i \in headKey + 1..tailKey + n
                 PROVE  (IF i > tailKey THEN Batch(n)[i - tailKey] ELSE store[i]) \in Event
        BY <1>4 DEF PushBatchPebble
    <3>1. CASE i > tailKey
      <4>1. i - tailKey \in 1..n BY <1>2, <3>1 DEF TypeOK
      <4> QED BY <1>1, <1>2, <3>1, <4>1, BatchType
    <3>2. CASE ~(i > tailKey) BY <1>2, <3>2 DEF TypeOK
    <3> QED BY <3>1, <3>2
  <2>2. tailKey' = tailKey + n /\ headKey' = headKey BY <1>4 DEF PushBatchPebble
  <2>3. UNCHANGED memory /\ notify' = TRUE BY <1>4 DEF PushBatchPebble
  <2>4. LiveData' BY <2>3 DEF LiveData, memory
  <2> QED BY <1>1, <1>2, <2>1, <2>2, <2>3, <2>4 DEF TypeOK, InHand, memory
<1> QED BY <1>1, <1>3, <1>4


\* How many events a pop takes.
LEMMA PopCount ==
    ASSUME QInv, Pop
    PROVE  \E count \in 1..MaxBatch :
             /\ count <= available
             /\ PopBatchMemory(count) \/ PopBatchPebble(count)
<1>1. PICK asked \in 1..MaxBatch :
        LET count == IF asked > available THEN available ELSE asked
        IN  PopBatchMemory(count) \/ PopBatchPebble(count)
      BY DEF Pop
<1>2. available \in Nat /\ available > 0 BY QueuedType DEF Pop, QInv, QView
<1>3. MaxBatch \in Nat BY QueueAssumption
<1>4. CASE asked > available
  <2>1. available \in 1..MaxBatch BY <1>2, <1>3, <1>4
  <2> QED BY <1>1, <1>2, <1>4, <2>1
<1>5. CASE ~(asked > available)
  <2>1. asked <= available BY <1>2, <1>3, <1>5
  <2> QED BY <1>1, <1>5, <2>1
<1> QED BY <1>4, <1>5

\* The slice after a pop: shorter by the places read, or of the same length.
LEMMA PopMemoryTypes ==
    ASSUME QInv, NEW count \in Nat, count <= available, PopBatchMemory(count)
    PROVE  /\ taken' \in Seq(Event)
           /\ data' \in Seq(Event \cup {0}) /\ head' \in 0..Len(data')
           /\ LiveData'
           /\ Len(data') - head' = available - count
           /\ \A i \in 1..available - count : data'[head' + i] = data[head + count + i]
           /\ Len(taken') = count
           /\ \A i \in 1..count : taken'[i] = data[head + i]
<1> DEFINE newHead == head + count
           cleared == [i \in 1..Len(data) |->
                         IF i \in head + 1..newHead THEN 0 ELSE data[i]]
<1>1. /\ Len(data) \in Nat /\ head \in 0..Len(data) /\ newHead \in head..Len(data)
      /\ available = Len(data) - head /\ kind = "memory"
      BY LenProperties DEF QInv, TypeOK, PopBatchMemory, available
<1>2. \A i \in 1..Len(data) : data[i] \in Event \cup {0}
      BY <1>1, ElementOfSeq DEF QInv, TypeOK
<1>3. \A i \in head + 1..Len(data) : data[i] \in Event BY DEF QInv, LiveData
<1>4. /\ taken' \in Seq(Event) /\ Len(taken') = count
      /\ \A i \in 1..count : taken'[i] = data[head + i]
  <2>1. taken' = SubSeq(data, head + 1, newHead) BY DEF PopBatchMemory
  <2>2. \A i \in head + 1..newHead : data[i] \in Event BY <1>1, <1>3
  <2>3. head + 1 \in Int /\ newHead \in Int BY <1>1
  <2>4. /\ SubSeq(data, head + 1, newHead) \in Seq(Event)
        /\ Len(SubSeq(data, head + 1, newHead)) =
              IF head + 1 <= newHead THEN newHead - (head + 1) + 1 ELSE 0
        /\ \A i \in 1..newHead - (head + 1) + 1 :
              SubSeq(data, head + 1, newHead)[i] = data[head + 1 + i - 1]
        BY ONLY <2>2, <2>3, SubSeqProperties
  <2>5. newHead - (head + 1) + 1 = count /\ (head + 1 <= newHead <=> count > 0) BY <1>1
  <2>6. \A i \in 1..count : head + 1 + i - 1 = head + i BY <1>1
  <2> QED BY <2>1, <2>4, <2>5, <2>6
<1>5. CASE MustCompact(newHead, Len(data))
  <2>1. data' = SubSeq(data, newHead + 1, Len(data)) /\ head' = 0
        BY <1>5 DEF PopBatchMemory
  <2>2. \A i \in newHead + 1..Len(data) : data[i] \in Event BY <1>1, <1>3
  <2>3. newHead + 1 \in Int /\ Len(data) \in Int BY <1>1
  <2>4. /\ SubSeq(data, newHead + 1, Len(data)) \in Seq(Event)
        /\ Len(SubSeq(data, newHead + 1, Len(data))) =
              IF newHead + 1 <= Len(data) THEN Len(data) - (newHead + 1) + 1 ELSE 0
        /\ \A i \in 1..Len(data) - (newHead + 1) + 1 :
              SubSeq(data, newHead + 1, Len(data))[i] = data[newHead + 1 + i - 1]
        BY ONLY <2>2, <2>3, SubSeqProperties
  <2>5. Len(data) - (newHead + 1) + 1 = available - count BY <1>1
  <2>6. \A i \in 1..available - count : newHead + 1 + i - 1 = head + count + i BY <1>1
  <2>7. Len(data') = available - count BY <1>1, <2>1, <2>4, <2>5
  <2>8. \A i \in 1..available - count : data'[i] = data[head + count + i]
        BY <2>1, <2>4, <2>5, <2>6
  <2>9. data' \in Seq(Event) /\ Len(data') \in Nat BY <2>1, <2>4, LenProperties
  <2>10. data' \in Seq(Event \cup {0}) BY <2>9, SeqMonotonic
  <2>11. \A i \in 1..Len(data') : data'[i] \in Event BY <2>9, ElementOfSeq
  <2>12. LiveData'
    <3>1. head' + 1..Len(data') = 1..Len(data') BY <2>1, <2>9
    <3> QED BY <2>11, <3>1 DEF LiveData
  <2>13. \A i \in 1..available - count : head' + i = i BY <1>1, <2>1
  <2> QED BY <1>4, <2>1, <2>7, <2>8, <2>9, <2>10, <2>12, <2>13
<1>6. CASE ~MustCompact(newHead, Len(data))
  <2>1. data' = cleared /\ head' = newHead BY <1>6 DEF PopBatchMemory
  <2>2. cleared \in [1..Len(data) -> Event \cup {0}] BY <1>2
  <2>3. cleared \in Seq(Event \cup {0}) /\ Len(cleared) = Len(data)
        BY <1>1, <2>2, FunIsSeq
  <2>4. \A i \in newHead + 1..Len(data) : data'[i] = data[i] BY <1>1, <2>1
  <2>5. \A i \in newHead + 1..Len(data) : data[i] \in Event BY <1>1, <1>3
  <2>6. LiveData' BY <2>1, <2>3, <2>4, <2>5 DEF LiveData
  <2>7. \A i \in 1..available - count :
          newHead + i = head + count + i /\ newHead + i \in newHead + 1..Len(data)
        BY <1>1
  <2>8. Len(data) - newHead = available - count /\ newHead \in 0..Len(data) BY <1>1
  <2> QED BY <1>4, <2>1, <2>3, <2>4, <2>6, <2>7, <2>8
<1> QED BY <1>5, <1>6

LEMMA PopTypes ==
    ASSUME QInv, Pop
    PROVE  QInv'
<1>1. PICK count \in 1..MaxBatch :
        /\ count <= available
        /\ PopBatchMemory(count) \/ PopBatchPebble(count)
      BY PopCount
<1>2. count \in Nat BY QueueAssumption
<1>3. /\ reader' = "handling" /\ out' = out \o taken'
      /\ UNCHANGED <<kind, notify, pushed, handled, lostInHand, faults>>
      BY DEF Pop
<1>4. ASSUME taken' \in Seq(Event) PROVE out' \in Seq(Event)
      BY <1>3, <1>4, ConcatProperties DEF QInv, TypeOK
<1>5. CASE PopBatchMemory(count)
  <2>1. UNCHANGED pebble BY <1>5 DEF PopBatchMemory
  <2>2. /\ taken' \in Seq(Event) /\ data' \in Seq(Event \cup {0})
        /\ head' \in 0..Len(data') /\ LiveData'
        BY <1>1, <1>2, <1>5, PopMemoryTypes
  <2> QED BY <1>3, <1>4, <2>1, <2>2 DEF QInv, TypeOK, InHand, pebble
<1>6. CASE PopBatchPebble(count)
  <2>1. available = tailKey - headKey /\ UNCHANGED memory BY <1>6 DEF PopBatchPebble, available
  <2>2. taken' = [i \in 1..count |-> store[headKey + i]] BY <1>6 DEF PopBatchPebble
  <2>3. \A i \in 1..count : headKey + i \in headKey + 1..tailKey
        BY <1>1, <1>2, <2>1 DEF QInv, TypeOK
  <2>4. taken' \in [1..count -> Event] BY <2>2, <2>3 DEF QInv, TypeOK
  <2>5. taken' \in Seq(Event) BY <1>2, <2>4, FunIsSeq
  <2>6. /\ headKey' = headKey + count /\ tailKey' = tailKey
        /\ store' = [i \in headKey + count + 1..tailKey |-> store[i]]
        BY <1>6 DEF PopBatchPebble
  <2>7. headKey' \in Nat /\ headKey' <= tailKey BY <1>1, <1>2, <2>1, <2>6 DEF QInv, TypeOK
  <2>8. \A i \in headKey + count + 1..tailKey : i \in headKey + 1..tailKey
        BY <1>2 DEF QInv, TypeOK
  <2>9. store' \in [headKey' + 1..tailKey' -> Event] BY <2>6, <2>8 DEF QInv, TypeOK
  <2>10. LiveData' BY <2>1 DEF QInv, LiveData, memory
  <2> QED BY <1>3, <1>4, <2>1, <2>5, <2>6, <2>7, <2>9, <2>10 DEF QInv, TypeOK, InHand, memory
<1> QED BY <1>1, <1>5, <1>6


\* The process starts again.
LEMMA RestartTypes ==
    ASSUME QInv, Restart
    PROVE  QInv'
<1>1. /\ taken' = <<>> /\ reader' = "checking" /\ notify' = FALSE
      /\ UNCHANGED <<kind, pushed, out, handled>>
      /\ faults' \in 0..MaxFaults
      BY QueueAssumption DEF Restart, QInv, TypeOK
<1>2. taken' \in Seq(Event) BY <1>1
<1>3. \A i \in 1..Len(taken) : taken[i] \in Event BY ElementOfSeq DEF QInv, TypeOK
<1>4. lostInHand' \subseteq Event BY <1>3 DEF Restart, QInv, TypeOK
<1>5. CASE kind = "memory" /\ NewMemoryQueue
  <2>1. data' = <<>> /\ head' = 0 /\ UNCHANGED pebble BY <1>5 DEF NewMemoryQueue
  <2>2. data' \in Seq(Event \cup {0}) /\ Len(data') = 0 BY <2>1
  <2>3. LiveData' BY <2>1, <2>2 DEF LiveData
  <2>4. head' \in 0..Len(data') BY <2>1, <2>2
  <2>5. UNCHANGED <<store, headKey, tailKey>> BY <2>1 DEF pebble
  <2>6. TypeOK' BY <1>1, <1>2, <1>4, <2>2, <2>4, <2>5 DEF QInv, TypeOK
  <2> QED BY <1>1, <2>3, <2>6 DEF QInv, InHand
<1>6. CASE kind = "pebble" /\ NewPebbleQueue
  <2>1. tailKey' = tailKey /\ UNCHANGED <<store, headKey, memory>>
        BY <1>6 DEF NewPebbleQueue, QInv, TypeOK
  <2>2. LiveData' BY <2>1 DEF LiveData, memory, QInv
  <2> QED BY <1>1, <1>2, <1>4, <2>1, <2>2 DEF QInv, TypeOK, InHand, memory
<1> QED BY <1>5, <1>6 DEF Restart

LEMMA InitTypes ==
    ASSUME Init
    PROVE  QInv
<1>1. <<>> \in [1..0 -> Event] BY EmptySeq, LenProperties
<1>2. 0 + 1..0 = 1..0 OBVIOUS
<1>3. /\ <<>> \in Seq(Event) /\ <<>> \in Seq(Event \cup {0}) /\ Len(<<>>) = 0
      /\ 0 \in 0..MaxEvents /\ 0 \in 0..MaxFaults
      BY QueueAssumption
<1>4. store \in [headKey + 1..tailKey -> Event] BY <1>1, <1>2 DEF Init
<1>5. head \in 0..Len(data) BY <1>3 DEF Init
<1>6. TypeOK
  <2>1. headKey \in Nat /\ tailKey \in Nat /\ headKey <= tailKey BY DEF Init
  <2>2. data \in Seq(Event \cup {0}) /\ taken \in Seq(Event)
        /\ out \in Seq(Event) /\ handled \in Seq(Event)
        BY <1>3 DEF Init
  <2>3. pushed \in 0..MaxEvents /\ faults \in 0..MaxFaults BY <1>3 DEF Init
  <2>4. kind \in {"memory", "pebble"} /\ notify \in BOOLEAN
        /\ reader \in {"checking", "waiting", "handling"} /\ lostInHand \subseteq Event
        BY DEF Init
  <2> QED BY <1>4, <1>5, <2>1, <2>2, <2>3, <2>4 DEF TypeOK
<1>7. LiveData BY <1>3 DEF Init, LiveData
<1> QED BY <1>6, <1>7 DEF Init, QInv, InHand

LEMMA StepTypes ==
    ASSUME QInv, [Next]_vars
    PROVE  QInv'
<1>1. CASE Push BY <1>1, PushTypes
<1>2. CASE PushFails
      BY <1>2, QueueAssumption DEF PushFails, QInv, TypeOK, LiveData, InHand, memory, pebble
<1>3. CASE PopWaits
      BY <1>3 DEF PopWaits, QInv, TypeOK, LiveData, InHand, memory, pebble
<1>4. CASE Notified
      BY <1>4 DEF Notified, QInv, TypeOK, LiveData, InHand, memory, pebble
<1>5. CASE Pop BY <1>5, PopTypes
<1>6. CASE PopFails
      BY <1>6, QueueAssumption DEF PopFails, QInv, TypeOK, LiveData, InHand, memory, pebble
<1>7. CASE Handled
  <2>1. handled' \in Seq(Event) BY <1>7, ConcatProperties DEF Handled, QInv, TypeOK
  <2>2. taken' = <<>> /\ taken' \in Seq(Event) BY <1>7 DEF Handled
  <2> QED BY <1>7, <2>1, <2>2 DEF Handled, QInv, TypeOK, LiveData, InHand, memory, pebble
<1>8. CASE Restart BY <1>8, RestartTypes
<1>9. CASE UNCHANGED vars
      BY <1>9 DEF vars, QInv, TypeOK, LiveData, InHand, memory, pebble
<1> QED BY <1>1, <1>2, <1>3, <1>4, <1>5, <1>6, <1>7, <1>8, <1>9 DEF Next

\* Types, places read and the batch in hand, in every state.
THEOREM QueueInvariant == Spec => []QInv
<1>1. Init => QInv BY InitTypes
<1>2. QInv /\ [Next]_vars => QInv' BY StepTypes
<1> QED BY <1>1, <1>2, PTL DEF Spec

\* The variables keep their types in both queues: the head never passes the
\* end of the slice, and the keys on disk are exactly those between the two
\* counters (memory.go and pebble.go).
THEOREM TypeCorrect == Spec => []TypeOK
<1>1. QInv => TypeOK BY DEF QInv
<1> QED BY <1>1, QueueInvariant, PTL

-----------------------------------------------------------------------------
(* The wake-up.                                                            *)

\* What a step that is no push does to the number of events.
LEMMA OnlyPushAdds ==
    ASSUME QInv, QInv', [Next]_vars, ~Push, reader' = "waiting", reader = "waiting"
    PROVE  ~Notified => available' = available /\ notify' = notify
<1>1. CASE PushFails BY <1>1 DEF PushFails, available, memory, pebble
<1>2. CASE PopFails BY <1>2 DEF PopFails
<1>3. CASE UNCHANGED vars BY <1>3 DEF vars, available, memory, pebble
<1> QED BY <1>1, <1>2, <1>3 DEF Next, PopWaits, Pop, Handled, Restart

\* The worker never sleeps on the channel while the queue has events: in the
\* gap between its unlock and its wait, a push leaves a token (the select in
\* PushBatch of memory.go and pebble.go).
THEOREM WakeupIsNeverLost == Spec => []NoLostWakeup
<1>1. Init => NoLostWakeup BY DEF Init, NoLostWakeup
<1>2. ASSUME NoLostWakeup, QInv, QInv', [Next]_vars
      PROVE  NoLostWakeup'
  <2> SUFFICES ASSUME reader' = "waiting", available' > 0 PROVE notify'
      BY DEF NoLostWakeup
  <2>1. CASE Push
        BY <2>1 DEF Push, PushBatchMemory, PushBatchPebble
  <2>2. CASE PopWaits
    <3>1. available' = 0 BY <2>2 DEF PopWaits, available, memory, pebble
    <3> QED BY <3>1
  <2>3. CASE reader = "waiting" /\ ~Push
    <3>1. ~Notified BY DEF Notified
    <3>2. available' = available /\ notify' = notify BY <1>2, <2>3, <3>1, OnlyPushAdds
    <3> QED BY <1>2, <2>3, <3>2 DEF NoLostWakeup
  <2>4. CASE reader # "waiting" /\ ~Push /\ ~PopWaits
        BY <1>2, <2>4 DEF Next, PushFails, Notified, Pop, PopFails, Handled, Restart, vars
  <2> QED BY <2>1, <2>2, <2>3, <2>4
<1> QED BY <1>1, <1>2, QueueInvariant, PTL DEF Spec


-----------------------------------------------------------------------------
(* Both queues as one sequence: what a push and a pop do to it.            *)

LEMMA PushQueued ==
    ASSUME QInv, QInv', Push
    PROVE  \E n \in 1..MaxBatch : /\ pushed + n <= MaxEvents
                                  /\ pushed' = pushed + n
                                  /\ queued' = queued \o Batch(n)
<1>1. PICK n \in 1..MaxBatch :
        /\ pushed + n <= MaxEvents
        /\ PushBatchMemory(n) \/ PushBatchPebble(n)
        /\ pushed' = pushed + n
        /\ kind' = kind
      BY DEF Push
<1>2. n \in Nat BY QueueAssumption
<1>3. QView /\ QView' BY QueuedType, QueuedTypePrime DEF QInv
<1>4. /\ Batch(n) \in Seq(Event) /\ Len(Batch(n)) = n
      BY <1>1, <1>2, BatchType DEF QInv
<1>5. /\ queued \o Batch(n) \in Seq(Event)
      /\ Len(queued \o Batch(n)) = available + n
      /\ \A i \in 1..available + n :
           (queued \o Batch(n))[i] = IF i <= available THEN queued[i]
                                     ELSE Batch(n)[i - available]
  <2>1. queued \in Seq(Event) /\ Len(queued) = available BY <1>3 DEF QView
  <2>2. /\ queued \o Batch(n) \in Seq(Event)
        /\ Len(queued \o Batch(n)) = Len(queued) + Len(Batch(n))
        /\ \A i \in 1..Len(queued) + Len(Batch(n)) :
             (queued \o Batch(n))[i] = IF i <= Len(queued) THEN queued[i]
                                       ELSE Batch(n)[i - Len(queued)]
        BY <1>4, <2>1, ConcatProperties
  <2> QED BY <1>4, <2>1, <2>2
<1>6. CASE PushBatchMemory(n)
  <2>1. data' = data \o Batch(n) /\ head' = head /\ kind = "memory" /\ kind' = "memory"
        BY <1>1, <1>6 DEF PushBatchMemory
  <2>2. data \in Seq(Event \cup {0}) /\ Batch(n) \in Seq(Event \cup {0})
        BY <1>4, SeqMonotonic DEF QInv, TypeOK
  <2>3. /\ Len(data') = Len(data) + n
        /\ \A i \in 1..Len(data) + n :
             data'[i] = IF i <= Len(data) THEN data[i] ELSE Batch(n)[i - Len(data)]
        BY <1>4, <2>1, <2>2, ConcatProperties
  <2>4. Len(data) \in Nat /\ head \in 0..Len(data) BY LenProperties DEF QInv, TypeOK
  <2>5. available = Len(data) - head /\ available' = available + n
        BY <1>2, <2>1, <2>3, <2>4 DEF available
  <2>6. ASSUME NEW i \in 1..available + n
        PROVE  queued'[i] = (queued \o Batch(n))[i]
    <3>1. queued'[i] = data'[head + i] BY <1>3, <2>1, <2>5 DEF QView
    <3>2. head + i \in 1..Len(data) + n /\ (head + i <= Len(data) <=> i <= available)
          /\ (head + i) - Len(data) = i - available
          BY <1>2, <2>4, <2>5
    <3>3. CASE i <= available
      <4>1. data'[head + i] = data[head + i] BY <2>3, <3>2, <3>3
      <4>2. i \in 1..available BY <1>2, <2>4, <2>5, <3>3
      <4>3. queued[i] = data[head + i] BY <1>3, <2>1, <4>2 DEF QView
      <4> QED BY <1>5, <3>1, <3>3, <4>1, <4>3
    <3>4. CASE ~(i <= available)
      <4> DEFINE k == head + i
      <4>1. k \in 1..Len(data) + n /\ ~(k <= Len(data)) BY <3>2, <3>4
      <4>2. data'[k] = Batch(n)[k - Len(data)] BY ONLY <2>3, <4>1
      <4>3. data'[head + i] = Batch(n)[(head + i) - Len(data)] BY ONLY <4>2
      <4>4. data'[head + i] = Batch(n)[i - available] BY <3>2, <4>3
      <4> QED BY <1>5, <3>1, <3>4, <4>4
    <3> QED BY <3>3, <3>4
  <2>7. Len(queued') = Len(queued \o Batch(n)) BY <1>3, <1>5, <2>5 DEF QView
  <2>8. queued' = queued \o Batch(n)
        BY <1>3, <1>5, <2>6, <2>7, SeqEqual DEF QView
  <2> QED BY <1>1, <2>8
<1>7. CASE PushBatchPebble(n)
  <2>1. /\ store' = [i \in headKey + 1..tailKey + n |->
                       IF i > tailKey THEN Batch(n)[i - tailKey] ELSE store[i]]
        /\ tailKey' = tailKey + n /\ headKey' = headKey
        /\ kind = "pebble" /\ kind' = "pebble"
        BY <1>1, <1>7 DEF PushBatchPebble
  <2>2. headKey \in Nat /\ tailKey \in Nat /\ headKey <= tailKey BY DEF QInv, TypeOK
  <2>3. available = tailKey - headKey /\ available' = available + n
        BY <1>2, <2>1, <2>2 DEF available
  <2>4. ASSUME NEW i \in 1..available + n
        PROVE  queued'[i] = (queued \o Batch(n))[i]
    <3>1. queued'[i] = store'[headKey + i] BY <1>3, <2>1, <2>3 DEF QView
    <3>2. /\ headKey + i \in headKey + 1..tailKey + n
          /\ headKey + i > tailKey <=> ~(i <= available)
          /\ (headKey + i) - tailKey = i - available
          BY <1>2, <2>2, <2>3
    <3>3. CASE i <= available
      <4>1. store'[headKey + i] = store[headKey + i] BY <2>1, <3>2, <3>3
      <4>2. i \in 1..available BY <1>2, <2>2, <2>3, <3>3
      <4>3. queued[i] = store[headKey + i] BY <1>3, <2>1, <4>2 DEF QView
      <4> QED BY <1>5, <3>1, <3>3, <4>1, <4>3
    <3>4. CASE ~(i <= available)
      <4> DEFINE k == headKey + i
      <4>1. k \in headKey + 1..tailKey + n /\ k > tailKey BY <3>2, <3>4
      <4>2. store'[k] = Batch(n)[k - tailKey] BY ONLY <2>1, <4>1
      <4>3. store'[headKey + i] = Batch(n)[(headKey + i) - tailKey] BY ONLY <4>2
      <4>4. store'[headKey + i] = Batch(n)[i - available] BY <3>2, <4>3
      <4> QED BY <1>5, <3>1, <3>4, <4>4
    <3> QED BY <3>3, <3>4
  <2>5. Len(queued') = Len(queued \o Batch(n)) BY <1>3, <1>5, <2>3 DEF QView
  <2>6. queued' = queued \o Batch(n)
        BY <1>3, <1>5, <2>4, <2>5, SeqEqual DEF QView
  <2> QED BY <1>1, <2>6
<1> QED BY <1>1, <1>6, <1>7

LEMMA PopQueued ==
    ASSUME QInv, QInv', Pop
    PROVE  \E count \in 1..MaxBatch :
             /\ count <= Len(queued)
             /\ taken' = SubSeq(queued, 1, count)
             /\ queued' = SubSeq(queued, count + 1, Len(queued))
<1>1. PICK count \in 1..MaxBatch :
        /\ count <= available
        /\ PopBatchMemory(count) \/ PopBatchPebble(count)
      BY PopCount
<1>2. count \in Nat /\ count >= 1 BY QueueAssumption
<1>3. QView /\ QView' BY QueuedType, QueuedTypePrime DEF QInv
<1>4. /\ available \in Nat /\ Len(queued) = available /\ queued \in Seq(Event)
      /\ \A i \in 1..available : queued[i] \in Event
      /\ kind' = kind
      BY <1>3, ElementOfSeq DEF QView, Pop
<1>5. /\ SubSeq(queued, 1, count) \in Seq(Event)
      /\ Len(SubSeq(queued, 1, count)) = count
      /\ \A i \in 1..count : SubSeq(queued, 1, count)[i] = queued[i]
  <2>1. \A i \in 1..count : queued[i] \in Event BY <1>1, <1>2, <1>4
  <2>2. /\ SubSeq(queued, 1, count) \in Seq(Event)
        /\ Len(SubSeq(queued, 1, count)) = IF 1 <= count THEN count - 1 + 1 ELSE 0
        /\ \A i \in 1..count - 1 + 1 : SubSeq(queued, 1, count)[i] = queued[1 + i - 1]
        BY <1>2, <2>1, SubSeqProperties
  <2>3. count - 1 + 1 = count /\ \A i \in 1..count : 1 + i - 1 = i BY <1>2
  <2> QED BY <1>2, <2>2, <2>3
<1>6. /\ SubSeq(queued, count + 1, available) \in Seq(Event)
      /\ Len(SubSeq(queued, count + 1, available)) = available - count
      /\ \A i \in 1..available - count :
            SubSeq(queued, count + 1, available)[i] = queued[count + i]
  <2>1. \A i \in count + 1..available : queued[i] \in Event BY <1>2, <1>4
  <2>2. /\ SubSeq(queued, count + 1, available) \in Seq(Event)
        /\ Len(SubSeq(queued, count + 1, available)) =
              IF count + 1 <= available THEN available - (count + 1) + 1 ELSE 0
        /\ \A i \in 1..available - (count + 1) + 1 :
              SubSeq(queued, count + 1, available)[i] = queued[count + 1 + i - 1]
        BY <1>2, <1>4, <2>1, SubSeqProperties
  <2>3. /\ available - (count + 1) + 1 = available - count
        /\ count + 1 <= available \/ available - count = 0
        /\ \A i \in 1..available - count : count + 1 + i - 1 = count + i
        BY <1>1, <1>2, <1>4
  <2> QED BY <2>2, <2>3
<1>7. ASSUME taken' \in Seq(Event), Len(taken') = count,
             \A i \in 1..count : taken'[i] = queued[i],
             available' = available - count,
             \A i \in 1..available - count : queued'[i] = queued[count + i]
      PROVE  /\ taken' = SubSeq(queued, 1, count)
             /\ queued' = SubSeq(queued, count + 1, available)
  <2>1. taken' = SubSeq(queued, 1, count) BY <1>5, <1>7, SeqEqual
  <2>2. queued' \in Seq(Event) /\ Len(queued') = available - count BY <1>3, <1>7 DEF QView
  <2>3. queued' = SubSeq(queued, count + 1, available) BY <1>6, <1>7, <2>2, SeqEqual
  <2> QED BY <2>1, <2>3
<1>8. CASE PopBatchMemory(count)
  <2>1. kind = "memory" /\ kind' = "memory" BY <1>4, <1>8 DEF PopBatchMemory
  <2>2. /\ Len(data') - head' = available - count
        /\ \A i \in 1..available - count : data'[head' + i] = data[head + count + i]
        /\ taken' \in Seq(Event) /\ Len(taken') = count
        /\ \A i \in 1..count : taken'[i] = data[head + i]
        BY <1>1, <1>2, <1>8, PopMemoryTypes
  <2>3. available' = available - count BY <2>1, <2>2 DEF available
  <2>4. \A i \in 1..count : i \in 1..available BY <1>1, <1>2, <1>4
  <2>5. \A i \in 1..count : taken'[i] = queued[i] BY <1>3, <2>1, <2>2, <2>4 DEF QView
  <2>6. ASSUME NEW i \in 1..available - count PROVE queued'[i] = queued[count + i]
    <3>1. queued'[i] = data'[head' + i] BY <1>3, <2>1, <2>3 DEF QView
    <3>2. count + i \in 1..available BY <1>1, <1>2, <1>4
    <3>3. queued[count + i] = data[head + (count + i)] BY <1>3, <2>1, <3>2 DEF QView
    <3>4. head + (count + i) = head + count + i BY <1>2, <1>4 DEF QInv, TypeOK
    <3> QED BY <2>2, <3>1, <3>3, <3>4
  <2> QED BY <1>1, <1>4, <1>7, <2>2, <2>3, <2>5, <2>6
<1>9. CASE PopBatchPebble(count)
  <2>1. /\ kind = "pebble" /\ kind' = "pebble"
        /\ taken' = [i \in 1..count |-> store[headKey + i]]
        /\ store' = [i \in headKey + count + 1..tailKey |-> store[i]]
        /\ headKey' = headKey + count /\ tailKey' = tailKey
        BY <1>4, <1>9 DEF PopBatchPebble
  <2>2. headKey \in Nat /\ tailKey \in Nat /\ headKey <= tailKey BY DEF QInv, TypeOK
  <2>3. available = tailKey - headKey /\ available' = available - count
        BY <1>2, <2>1, <2>2 DEF available
  <2>4. \A i \in 1..count : i \in 1..available BY <1>1, <1>2, <1>4
  <2>5. \A i \in 1..count : taken'[i] = queued[i] BY <1>3, <2>1, <2>4 DEF QView
  <2>6. taken' \in [1..count -> Event] BY <1>4, <2>1, <2>4, <2>5
  <2>7. taken' \in Seq(Event) /\ Len(taken') = count BY <1>2, <2>6, FunIsSeq
  <2>8. ASSUME NEW i \in 1..available - count PROVE queued'[i] = queued[count + i]
    <3>1. queued'[i] = store'[headKey' + i] BY <1>3, <2>1, <2>3 DEF QView
    <3>2. headKey' + i \in headKey + count + 1..tailKey
          /\ headKey' + i = headKey + (count + i) /\ count + i \in 1..available
          BY <1>2, <2>1, <2>2, <2>3
    <3>3. store'[headKey' + i] = store[headKey + (count + i)] BY <2>1, <3>2
    <3>4. queued[count + i] = store[headKey + (count + i)] BY <1>3, <2>1, <3>2 DEF QView
    <3> QED BY <3>1, <3>3, <3>4
  <2> QED BY <1>1, <1>4, <1>7, <2>3, <2>5, <2>7, <2>8
<1> QED BY <1>1, <1>8, <1>9


\* The other steps leave the queue alone, or lose all of a memory queue.
LEMMA OtherQueued ==
    ASSUME QInv, QInv', [Next]_vars, ~Push, ~Pop
    PROVE  /\ out' = out /\ kind' = kind
           /\ \/ queued' = queued
              \/ kind = "memory" /\ queued' = <<>> /\ Restart
<1>1. CASE PushFails BY <1>1 DEF PushFails, queued, memory, pebble
<1>2. CASE PopWaits BY <1>2 DEF PopWaits, queued, memory, pebble
<1>3. CASE Notified BY <1>3 DEF Notified, queued, memory, pebble
<1>4. CASE PopFails BY <1>4 DEF PopFails, queued, memory, pebble
<1>5. CASE Handled BY <1>5 DEF Handled, queued, memory, pebble
<1>6. CASE Restart
  <2>1. out' = out /\ kind' = kind BY <1>6 DEF Restart
  <2>2. CASE kind = "memory" /\ NewMemoryQueue
    <3>1. QView' BY QueuedTypePrime DEF QInv
    <3>2. available' = 0 BY <2>1, <2>2 DEF NewMemoryQueue, available
    <3>3. queued' = <<>> BY <3>1, <3>2, EmptySeq DEF QView
    <3> QED BY <1>6, <2>1, <2>2, <3>3
  <2>3. CASE kind = "pebble" /\ NewPebbleQueue
    <3>1. UNCHANGED <<store, headKey, tailKey>>
          BY <2>3 DEF NewPebbleQueue, QInv, TypeOK
    <3> QED BY <2>1, <2>3, <3>1 DEF queued
  <2> QED BY <1>6, <2>2, <2>3 DEF Restart
<1>7. CASE UNCHANGED vars BY <1>7 DEF vars, queued, memory, pebble
<1> QED BY <1>1, <1>2, <1>3, <1>4, <1>5, <1>6, <1>7 DEF Next

\* Both queues implement the FIFO of PodEventFifo, whatever the threshold of
\* the compaction and whatever commits and processes fail: events leave in the
\* order in which they came, each once, and only a memory queue forgets some
\* when its process ends (PushBatch, PopBatchWithContext and the constructors
\* of memory.go and pebble.go).
THEOREM QueueIsFifo == Spec => FifoSpec
<1>1. ASSUME Init PROVE Fifo!Init
  <2>1. QInv BY <1>1, InitTypes
  <2>2. QView BY <2>1, QueuedType DEF QInv
  <2>3. available = 0 BY <1>1 DEF Init, available
  <2>4. queued = <<>> BY <2>2, <2>3, EmptySeq DEF QView
  <2> QED BY <1>1, <2>4 DEF Fifo!Init, Init
<1>2. ASSUME QInv, QInv', [Next]_vars
      PROVE  [Fifo!Next]_<<kind = "pebble", queued, out>>
  <2>1. CASE Push
    <3>1. PICK n \in 1..MaxBatch : /\ pushed + n <= MaxEvents
                                   /\ queued' = queued \o Batch(n)
          BY <1>2, <2>1, PushQueued
    <3>2. n \in Nat BY QueueAssumption
    <3>3. Batch(n) \in [1..n -> Event] BY <1>2, <3>1, <3>2, BatchType DEF QInv
    <3>4. Fifo!PushBatch(Batch(n)) BY <2>1, <3>1 DEF Fifo!PushBatch, Push
    <3> QED BY <3>3, <3>4 DEF Fifo!Next
  <2>2. CASE Pop
    <3>1. PICK count \in 1..MaxBatch :
            /\ count <= Len(queued)
            /\ taken' = SubSeq(queued, 1, count)
            /\ queued' = SubSeq(queued, count + 1, Len(queued))
          BY <1>2, <2>2, PopQueued
    <3>2. Fifo!PopBatch(count) BY <2>2, <3>1 DEF Fifo!PopBatch, Pop
    <3> QED BY <3>1, <3>2 DEF Fifo!Next
  <2>3. CASE ~Push /\ ~Pop
    <3>1. /\ out' = out /\ kind' = kind
          /\ queued' = queued \/ (kind = "memory" /\ queued' = <<>>)
          BY <1>2, <2>3, OtherQueued
    <3>2. CASE queued' = queued BY <3>1, <3>2
    <3>3. CASE kind = "memory" /\ queued' = <<>>
          BY <3>1, <3>3 DEF Fifo!Next, Fifo!Lose
    <3> QED BY <3>1, <3>2, <3>3
  <2> QED BY <2>1, <2>2, <2>3
<1> QED BY <1>1, <1>2, QueueInvariant, PTL DEF Spec, FifoSpec, Fifo!Spec


-----------------------------------------------------------------------------
(* What happens to an event that was handed out.                           *)

Increasing(s) == \A i, j \in 1..Len(s) : i < j => s[i] < s[j]
Elements(s)   == {s[i] : i \in 1..Len(s)}
AllBelow(S, T) == \A x \in S, y \in T : x < y

\* Events are numbered in the order of their pushes: those that are done with
\* come before the batch in hand, that one before the queue, and all of them
\* before the events still to be pushed.
Done == Elements(handled) \cup lostInHand

Ordered ==
    /\ Increasing(handled) /\ Increasing(taken) /\ Increasing(queued)
    /\ AllBelow(Done, Elements(taken))
    /\ AllBelow(Done, Elements(queued))
    /\ AllBelow(Elements(taken), Elements(queued))
    /\ \A e \in Done \cup Elements(taken) \cup Elements(queued) : e <= pushed

Accounted == Len(out) = Len(handled) + Len(taken) + Cardinality(lostInHand)

\* Two increasing sequences, one below the other, make an increasing one.
LEMMA IncreasingConcat ==
    ASSUME NEW s \in Seq(Event), NEW t \in Seq(Event),
           Increasing(s), Increasing(t), AllBelow(Elements(s), Elements(t))
    PROVE  /\ Increasing(s \o t)
           /\ Elements(s \o t) = Elements(s) \cup Elements(t)
<1>1. /\ s \o t \in Seq(Event) /\ Len(s \o t) = Len(s) + Len(t)
      /\ \A i \in 1..Len(s) + Len(t) :
           (s \o t)[i] = IF i <= Len(s) THEN s[i] ELSE t[i - Len(s)]
      BY ConcatProperties
<1>2. Len(s) \in Nat /\ Len(t) \in Nat BY LenProperties
<1>3. \A i \in 1..Len(s) + Len(t) :
        \/ i \in 1..Len(s) /\ (s \o t)[i] = s[i]
        \/ i > Len(s) /\ i - Len(s) \in 1..Len(t) /\ (s \o t)[i] = t[i - Len(s)]
      BY <1>1, <1>2
<1>4. Increasing(s \o t)
  <2> SUFFICES ASSUME NEW i \in 1..Len(s) + Len(t), NEW j \in 1..Len(s) + Len(t), i < j
               PROVE  (s \o t)[i] < (s \o t)[j]
      BY <1>1 DEF Increasing
  <2>1. CASE j <= Len(s)
    <3>1. i \in 1..Len(s) /\ j \in 1..Len(s) BY <1>2, <2>1
    <3> QED BY <1>1, <1>2, <2>1, <3>1 DEF Increasing
  <2>2. CASE i > Len(s)
    <3>1. /\ i - Len(s) \in 1..Len(t) /\ j - Len(s) \in 1..Len(t)
          /\ i - Len(s) < j - Len(s) /\ ~(i <= Len(s)) /\ ~(j <= Len(s))
          BY <1>2, <2>2
    <3>2. (s \o t)[i] = t[i - Len(s)] /\ (s \o t)[j] = t[j - Len(s)] BY <1>1, <3>1
    <3> QED BY <3>1, <3>2 DEF Increasing
  <2>3. CASE i <= Len(s) /\ j > Len(s)
    <3>1. i \in 1..Len(s) /\ j - Len(s) \in 1..Len(t) /\ ~(j <= Len(s)) BY <1>2, <2>3
    <3>2. (s \o t)[i] = s[i] /\ (s \o t)[j] = t[j - Len(s)] BY <1>1, <2>3, <3>1
    <3>3. s[i] \in Elements(s) /\ t[j - Len(s)] \in Elements(t) BY <3>1 DEF Elements
    <3> QED BY <3>2, <3>3 DEF AllBelow
  <2> QED BY <1>2, <2>1, <2>2, <2>3
<1>5. Elements(s \o t) \subseteq Elements(s) \cup Elements(t)
      BY <1>1, <1>3 DEF Elements
<1>6. Elements(s) \subseteq Elements(s \o t)
  <2> SUFFICES ASSUME NEW i \in 1..Len(s) PROVE s[i] \in Elements(s \o t) BY DEF Elements
  <2>1. i \in 1..Len(s) + Len(t) /\ i <= Len(s) BY <1>2
  <2>2. (s \o t)[i] = s[i] BY <1>1, <2>1
  <2> QED BY <1>1, <2>1, <2>2 DEF Elements
<1>7. Elements(t) \subseteq Elements(s \o t)
  <2> SUFFICES ASSUME NEW i \in 1..Len(t) PROVE t[i] \in Elements(s \o t) BY DEF Elements
  <2>1. /\ Len(s) + i \in 1..Len(s) + Len(t) /\ ~(Len(s) + i <= Len(s))
        /\ (Len(s) + i) - Len(s) = i
        BY <1>2
  <2>2. (s \o t)[Len(s) + i] = t[i] BY <1>1, <2>1
  <2> QED BY <1>1, <2>1, <2>2 DEF Elements
<1> QED BY <1>4, <1>5, <1>6, <1>7

\* The two halves of an increasing sequence.
LEMMA IncreasingSplit ==
    ASSUME NEW s \in Seq(Event), Increasing(s), NEW k \in 1..Len(s)
    PROVE  /\ Increasing(SubSeq(s, 1, k)) /\ Increasing(SubSeq(s, k + 1, Len(s)))
           /\ Elements(SubSeq(s, 1, k)) \subseteq Elements(s)
           /\ Elements(SubSeq(s, k + 1, Len(s))) \subseteq Elements(s)
           /\ AllBelow(Elements(SubSeq(s, 1, k)), Elements(SubSeq(s, k + 1, Len(s))))
<1>1. Len(s) \in Nat BY LenProperties
<1>2. k \in Nat /\ 1 <= k /\ k <= Len(s) BY <1>1
<1>3. \A i \in 1..Len(s) : s[i] \in Event BY ElementOfSeq
<1>4. /\ Len(SubSeq(s, 1, k)) = k
      /\ \A i \in 1..k : SubSeq(s, 1, k)[i] = s[i] /\ i \in 1..Len(s)
  <2>1. \A i \in 1..k : s[i] \in Event /\ i \in 1..Len(s) BY <1>1, <1>2, <1>3
  <2>2. /\ Len(SubSeq(s, 1, k)) = IF 1 <= k THEN k - 1 + 1 ELSE 0
        /\ \A i \in 1..k - 1 + 1 : SubSeq(s, 1, k)[i] = s[1 + i - 1]
        BY <1>2, <2>1, SubSeqProperties
  <2>3. k - 1 + 1 = k /\ \A i \in 1..k : 1 + i - 1 = i BY <1>2
  <2> QED BY <1>2, <2>1, <2>2, <2>3
<1>5. /\ Len(SubSeq(s, k + 1, Len(s))) = Len(s) - k
      /\ \A i \in 1..Len(s) - k : /\ SubSeq(s, k + 1, Len(s))[i] = s[k + i]
                                  /\ k + i \in 1..Len(s)
  <2>1. \A i \in k + 1..Len(s) : s[i] \in Event BY <1>1, <1>2, <1>3
  <2>2. /\ Len(SubSeq(s, k + 1, Len(s))) =
              IF k + 1 <= Len(s) THEN Len(s) - (k + 1) + 1 ELSE 0
        /\ \A i \in 1..Len(s) - (k + 1) + 1 : SubSeq(s, k + 1, Len(s))[i] = s[k + 1 + i - 1]
        BY <1>1, <1>2, <2>1, SubSeqProperties
  <2>3. /\ Len(s) - (k + 1) + 1 = Len(s) - k
        /\ k + 1 <= Len(s) \/ Len(s) - k = 0
        /\ \A i \in 1..Len(s) - k : k + 1 + i - 1 = k + i /\ k + i \in 1..Len(s)
        BY <1>1, <1>2
  <2> QED BY <2>2, <2>3
<1>6. Increasing(SubSeq(s, 1, k)) BY <1>4 DEF Increasing
<1>7. Increasing(SubSeq(s, k + 1, Len(s)))
  <2> SUFFICES ASSUME NEW i \in 1..Len(s) - k, NEW j \in 1..Len(s) - k, i < j
               PROVE  s[k + i] < s[k + j]
      BY <1>5 DEF Increasing
  <2>1. k + i < k + j /\ k + i \in 1..Len(s) /\ k + j \in 1..Len(s) BY <1>1, <1>2
  <2> QED BY <2>1 DEF Increasing
<1>8. Elements(SubSeq(s, 1, k)) = {s[i] : i \in 1..k} BY <1>4 DEF Elements
<1>9. Elements(SubSeq(s, k + 1, Len(s))) = {s[k + i] : i \in 1..Len(s) - k}
      BY <1>5 DEF Elements
<1>10. /\ Elements(SubSeq(s, 1, k)) \subseteq Elements(s)
       /\ Elements(SubSeq(s, k + 1, Len(s))) \subseteq Elements(s)
       BY <1>4, <1>5, <1>8, <1>9 DEF Elements
<1>11. ASSUME NEW i \in 1..k, NEW j \in 1..Len(s) - k PROVE s[i] < s[k + j]
  <2>1. i < k + j /\ i \in 1..Len(s) /\ k + j \in 1..Len(s) BY <1>1, <1>2
  <2> QED BY <2>1 DEF Increasing
<1>12. AllBelow(Elements(SubSeq(s, 1, k)), Elements(SubSeq(s, k + 1, Len(s))))
       BY <1>8, <1>9, <1>11 DEF AllBelow
<1> QED BY <1>6, <1>7, <1>10, <1>12

\* An increasing sequence has as many elements as places.
LEMMA IncreasingCardinality ==
    ASSUME NEW s \in Seq(Event), Increasing(s)
    PROVE  IsFiniteSet(Elements(s)) /\ Cardinality(Elements(s)) = Len(s)
<1>1. Len(s) \in Nat /\ s \in [1..Len(s) -> Event] BY LenProperties
<1>2. \A i \in 1..Len(s) : s[i] \in Nat BY <1>1, QueueAssumption DEF Event
<1>3. \A i, j \in 1..Len(s) : s[i] = s[j] => i = j
  <2> SUFFICES ASSUME NEW i \in 1..Len(s), NEW j \in 1..Len(s), s[i] = s[j], i # j
               PROVE  FALSE
      OBVIOUS
  <2>1. i < j \/ j < i BY <1>1
  <2>2. s[i] < s[j] \/ s[j] < s[i] BY <2>1 DEF Increasing
  <2> QED BY <1>2, <2>2
<1>4. s \in [1..Len(s) -> Elements(s)] BY <1>1 DEF Elements
<1>5. s \in Injection(1..Len(s), Elements(s))
      BY <1>1, <1>3, <1>4 DEF Injection, IsInjective
<1>6. s \in Surjection(1..Len(s), Elements(s)) BY <1>4 DEF Surjection, Elements
<1>7. IsFiniteSet(1..Len(s)) /\ Cardinality(1..Len(s)) = Len(s)
      BY <1>1, FS_Interval
<1> QED BY <1>5, <1>6, <1>7, FS_Surjection


LEMMA ElementsType ==
    /\ Event \subseteq Nat
    /\ \A s \in Seq(Event) : Elements(s) \subseteq Event
    /\ Elements(<<>>) = {} /\ Increasing(<<>>)
<1>1. Event \subseteq Nat BY QueueAssumption DEF Event
<1>2. \A s \in Seq(Event) : Elements(s) \subseteq Event BY ElementOfSeq DEF Elements
<1>3. Elements(<<>>) = {} /\ Increasing(<<>>) BY DEF Elements, Increasing
<1> QED BY <1>1, <1>2, <1>3

\* The sets that Ordered speaks of hold events.
LEMMA OrderedTypes ==
    ASSUME QInv
    PROVE  /\ handled \in Seq(Event) /\ taken \in Seq(Event) /\ queued \in Seq(Event)
           /\ Done \subseteq Event
           /\ Elements(taken) \subseteq Event /\ Elements(queued) \subseteq Event
           /\ IsFiniteSet(lostInHand) /\ Cardinality(lostInHand) \in Nat
<1>1. handled \in Seq(Event) /\ taken \in Seq(Event) /\ queued \in Seq(Event)
      BY QueuedType DEF QInv, TypeOK, QView
<1>2. Done \subseteq Event BY <1>1, ElementsType DEF Done, QInv, TypeOK
<1>3. IsFiniteSet(Event) BY QueueAssumption, FS_Interval DEF Event
<1>4. IsFiniteSet(lostInHand) BY <1>3, FS_Subset DEF QInv, TypeOK
<1> QED BY <1>1, <1>2, <1>4, ElementsType, FS_CardinalityType

LEMMA PushOrdered ==
    ASSUME QInv, QInv', Ordered, Push
    PROVE  Ordered'
<1>1. PICK n \in 1..MaxBatch : /\ pushed + n <= MaxEvents
                               /\ pushed' = pushed + n
                               /\ queued' = queued \o Batch(n)
      BY PushQueued
<1>2. n \in Nat /\ pushed \in Nat BY QueueAssumption DEF QInv, TypeOK
<1>3. UNCHANGED <<handled, taken, lostInHand>> BY DEF Push
<1>4. /\ Batch(n) \in Seq(Event) /\ Len(Batch(n)) = n
      /\ \A i \in 1..n : Batch(n)[i] = pushed + i
      BY <1>1, <1>2, BatchType DEF QInv
<1>5. Increasing(Batch(n)) BY <1>2, <1>4 DEF Increasing
<1>6. \A e \in Elements(Batch(n)) : pushed < e /\ e <= pushed + n /\ e \in Nat
      BY <1>2, <1>4 DEF Elements
<1>7. ASSUME NEW S \in SUBSET Nat, \A e \in S : e <= pushed
      PROVE  AllBelow(S, Elements(Batch(n)))
      BY <1>2, <1>6, <1>7 DEF AllBelow
<1>8. /\ Done \subseteq Nat /\ Elements(taken) \subseteq Nat /\ Elements(queued) \subseteq Nat
      /\ queued \in Seq(Event)
      BY OrderedTypes, ElementsType
<1>9. /\ AllBelow(Done, Elements(Batch(n)))
      /\ AllBelow(Elements(taken), Elements(Batch(n)))
      /\ AllBelow(Elements(queued), Elements(Batch(n)))
      BY <1>7, <1>8 DEF Ordered
<1>10. /\ Increasing(queued') /\ Elements(queued') = Elements(queued) \cup Elements(Batch(n))
       BY <1>1, <1>4, <1>5, <1>8, <1>9, IncreasingConcat DEF Ordered
<1>11. Done' = Done /\ Elements(taken') = Elements(taken) BY <1>3 DEF Done
<1>12. Increasing(handled') /\ Increasing(taken') BY <1>3 DEF Ordered
<1>13. /\ AllBelow(Done', Elements(taken')) /\ AllBelow(Done', Elements(queued'))
       /\ AllBelow(Elements(taken'), Elements(queued'))
       BY <1>9, <1>10, <1>11 DEF Ordered, AllBelow
<1>14. \A e \in Done' \cup Elements(taken') \cup Elements(queued') : e <= pushed'
       BY <1>1, <1>2, <1>6, <1>8, <1>10, <1>11 DEF Ordered
<1> QED BY <1>10, <1>12, <1>13, <1>14 DEF Ordered

LEMMA PopOrdered ==
    ASSUME QInv, QInv', Ordered, Accounted, Pop
    PROVE  Ordered' /\ Accounted'
<1>1. PICK count \in 1..MaxBatch :
        /\ count <= Len(queued)
        /\ taken' = SubSeq(queued, 1, count)
        /\ queued' = SubSeq(queued, count + 1, Len(queued))
      BY PopQueued
<1>2. UNCHANGED <<handled, lostInHand, pushed>> /\ out' = out \o taken' BY DEF Pop
<1>3. taken = <<>> BY DEF Pop, QInv, InHand
<1>4. queued \in Seq(Event) /\ Len(queued) \in Nat BY OrderedTypes, LenProperties
<1>5. count \in 1..Len(queued) BY <1>1, <1>4, QueueAssumption
<1>6. /\ Increasing(taken') /\ Increasing(queued')
      /\ Elements(taken') \subseteq Elements(queued)
      /\ Elements(queued') \subseteq Elements(queued)
      /\ AllBelow(Elements(taken'), Elements(queued'))
      BY <1>1, <1>4, <1>5, IncreasingSplit DEF Ordered
<1>7. Done' = Done /\ Increasing(handled') BY <1>2 DEF Done, Ordered
<1>8. AllBelow(Done', Elements(taken')) /\ AllBelow(Done', Elements(queued'))
      BY <1>6, <1>7 DEF Ordered, AllBelow
<1>9. \A e \in Done' \cup Elements(taken') \cup Elements(queued') : e <= pushed'
      BY <1>2, <1>6, <1>7 DEF Ordered
<1>10. Ordered' BY <1>6, <1>7, <1>8, <1>9 DEF Ordered
<1>11. taken' \in Seq(Event) /\ out \in Seq(Event) BY DEF QInv, TypeOK
<1>12. Len(out') = Len(out) + Len(taken') BY <1>2, <1>11, ConcatProperties
<1>13. Len(handled) \in Nat /\ Len(taken') \in Nat /\ Cardinality(lostInHand) \in Nat
       BY <1>11, OrderedTypes, LenProperties
<1>14. Len(out) = Len(handled) + Cardinality(lostInHand) BY <1>3, <1>13 DEF Accounted
<1>15. Accounted' BY <1>2, <1>12, <1>13, <1>14 DEF Accounted
<1> QED BY <1>10, <1>15

\* A handler has returned: the batch joins the handled events.
LEMMA HandledOrdered ==
    ASSUME QInv, QInv', Ordered, Accounted, Handled
    PROVE  Ordered' /\ Accounted'
<1>1. /\ handled' = handled \o taken /\ taken' = <<>>
      /\ UNCHANGED <<lostInHand, pushed, out>> /\ queued' = queued
      BY DEF Handled, queued, memory, pebble
<1>2. handled \in Seq(Event) /\ taken \in Seq(Event) BY OrderedTypes
<1>3. AllBelow(Elements(handled), Elements(taken)) BY DEF Ordered, Done, AllBelow
<1>4. /\ Increasing(handled') /\ Elements(handled') = Elements(handled) \cup Elements(taken)
      BY <1>1, <1>2, <1>3, IncreasingConcat DEF Ordered
<1>5. Done' = Done \cup Elements(taken) BY <1>1, <1>4 DEF Done
<1>6. Elements(taken') = {} /\ Increasing(taken') BY <1>1, ElementsType
<1>7. AllBelow(Done', Elements(queued')) BY <1>1, <1>5 DEF Ordered, AllBelow
<1>8. Ordered' BY <1>1, <1>4, <1>5, <1>6, <1>7 DEF Ordered, AllBelow
<1>9. Len(handled') = Len(handled) + Len(taken) BY <1>1, <1>2, ConcatProperties
<1>10. Len(handled) \in Nat /\ Len(taken) \in Nat /\ Cardinality(lostInHand) \in Nat
       BY <1>2, OrderedTypes, LenProperties
<1>11. Accounted' BY <1>1, <1>9, <1>10 DEF Accounted
<1> QED BY <1>8, <1>11

\* The process ends: the batch joins the lost events, which it is disjoint from.
LEMMA RestartOrdered ==
    ASSUME QInv, QInv', Ordered, Accounted, Restart
    PROVE  Ordered' /\ Accounted'
<1>1. /\ lostInHand' = lostInHand \cup Elements(taken) /\ taken' = <<>>
      /\ UNCHANGED <<handled, pushed, out>>
      BY DEF Restart, Elements
<1>2. queued' = queued \/ queued' = <<>>
      BY OtherQueued DEF Next, Restart, Push, Pop, PushBatchMemory, PushBatchPebble
<1>3. Elements(queued') \subseteq Elements(queued) /\ Increasing(queued')
      BY <1>2, ElementsType DEF Ordered
<1>4. Done' = Done \cup Elements(taken) BY <1>1 DEF Done
<1>5. Elements(taken') = {} /\ Increasing(taken') /\ Increasing(handled')
      BY <1>1, ElementsType DEF Ordered
<1>6. AllBelow(Done', Elements(queued')) BY <1>3, <1>4 DEF Ordered, AllBelow
<1>7. \A e \in Done' \cup Elements(taken') \cup Elements(queued') : e <= pushed'
      BY <1>1, <1>3, <1>4, <1>5 DEF Ordered
<1>8. Ordered' BY <1>3, <1>5, <1>6, <1>7 DEF Ordered, AllBelow
<1>9. /\ IsFiniteSet(Elements(taken)) /\ Cardinality(Elements(taken)) = Len(taken)
      BY OrderedTypes, IncreasingCardinality DEF Ordered
<1>10. lostInHand \cap Elements(taken) = {}
  <2> SUFFICES ASSUME NEW e \in lostInHand, e \in Elements(taken) PROVE FALSE OBVIOUS
  <2>1. e < e BY DEF Ordered, AllBelow, Done
  <2>2. e \in Nat BY ElementsType DEF QInv, TypeOK
  <2> QED BY <2>1, <2>2
<1>11. IsFiniteSet(lostInHand) /\ Cardinality(lostInHand) \in Nat BY OrderedTypes
<1>12. Cardinality(lostInHand') =
          Cardinality(lostInHand) + Cardinality(Elements(taken))
             - Cardinality(lostInHand \cap Elements(taken))
       BY <1>1, <1>9, <1>11, FS_Union
<1>13. Cardinality(lostInHand \cap Elements(taken)) = 0 BY <1>10, FS_EmptySet
<1>14. Len(handled) \in Nat /\ Len(taken) \in Nat BY OrderedTypes, LenProperties
<1>15. Cardinality(lostInHand') = Cardinality(lostInHand) + Len(taken)
       BY <1>9, <1>11, <1>12, <1>13, <1>14
<1>16. Accounted' BY <1>1, <1>11, <1>14, <1>15 DEF Accounted
<1> QED BY <1>8, <1>16

\* Every event that left the queue is in hand, handled, or was in hand when a
\* process ended, and none is handled twice or out of order: this is what the
\* deletion before the handling costs (pebble.go:170), and no more.
THEOREM OnlyInHandIsLost == Spec => []OnlyTheEventInHandIsLost
<1>1. ASSUME Init PROVE Ordered /\ Accounted
  <2>1. QInv BY <1>1, InitTypes
  <2>2. QView BY <2>1, QueuedType DEF QInv
  <2>3. available = 0 BY <1>1 DEF Init, available
  <2>4. queued = <<>> BY <2>2, <2>3, EmptySeq DEF QView
  <2>5. handled = <<>> /\ taken = <<>> /\ lostInHand = {} /\ out = <<>> BY <1>1 DEF Init
  <2>6. Done = {} BY <2>5, ElementsType DEF Done
  <2>7. Ordered BY <2>4, <2>5, <2>6, ElementsType DEF Ordered, AllBelow
  <2>8. Accounted BY <2>5, FS_EmptySet DEF Accounted
  <2> QED BY <2>7, <2>8
<1>2. ASSUME QInv, QInv', Ordered, Accounted, [Next]_vars
      PROVE  Ordered' /\ Accounted'
  <2>1. CASE Push
    <3>1. Accounted' BY <1>2, <2>1 DEF Push, Accounted
    <3> QED BY <1>2, <2>1, <3>1, PushOrdered
  <2>2. CASE Pop BY <1>2, <2>2, PopOrdered
  <2>3. CASE Handled BY <1>2, <2>3, HandledOrdered
  <2>4. CASE Restart BY <1>2, <2>4, RestartOrdered
  <2>5. CASE PushFails
    <3>1. /\ UNCHANGED <<handled, taken, lostInHand, out>> /\ queued' = queued
          /\ pushed' = pushed + 1
          BY <2>5 DEF PushFails, queued, memory, pebble
    <3>2. /\ Done \subseteq Nat /\ Elements(taken) \subseteq Nat
          /\ Elements(queued) \subseteq Nat
          BY <1>2, OrderedTypes, ElementsType
    <3>3. pushed \in Nat BY <1>2, QueueAssumption DEF QInv, TypeOK
    <3>4. \A e \in Done \cup Elements(taken) \cup Elements(queued) : e <= pushed + 1
          BY <1>2, <3>2, <3>3 DEF Ordered
    <3>5. Ordered' BY <1>2, <3>1, <3>4 DEF Ordered, Done
    <3>6. Accounted' BY <1>2, <3>1 DEF Accounted
    <3> QED BY <3>5, <3>6
  <2>6. CASE PopWaits \/ Notified \/ PopFails \/ UNCHANGED vars
    <3>1. UNCHANGED <<handled, taken, lostInHand, out, pushed>> /\ queued' = queued
          BY <2>6 DEF PopWaits, Notified, PopFails, vars, queued, memory, pebble
    <3> QED BY <1>2, <3>1 DEF Ordered, Accounted, Done
  <2> QED BY <1>2, <2>1, <2>2, <2>3, <2>4, <2>5, <2>6 DEF Next
<1>3. Ordered /\ Accounted => OnlyTheEventInHandIsLost
      BY DEF Ordered, Accounted, Increasing, OnlyTheEventInHandIsLost
<1> QED BY <1>1, <1>2, <1>3, QueueInvariant, PTL DEF Spec
=============================================================================
