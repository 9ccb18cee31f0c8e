--------------------------- MODULE PodEventQueue ----------------------------
(***************************************************************************)
(* The queue of pod events between the watchers and one worker, in its two *)
(* implementations: MemoryQueue (a slice, a head index and a periodic      *)
(* compaction) and PebbleQueue (numbered keys of an LSM store and two      *)
(* counters in it).  Both wake the worker through a channel of capacity    *)
(* one.  Their mutex makes a call of PushBatch, and one pass of the loop   *)
(* of PopBatchWithContext, one step; the wait for a notification is        *)
(* outside of the mutex.                                                   *)
(*                                                                         *)
(* A queue has one worker (main.go makes one per queue) and any number of  *)
(* pushers, so the pushes need no process of their own.                    *)
(***************************************************************************)
EXTENDS Naturals, Sequences, FiniteSets

CONSTANTS
    MaxEvents,   \* bound on the events pushed; event i is the i-th one
    MaxBatch,    \* bound on the length of a batch
    CompactAt,   \* MemoryQueue compacts when head is above it (1024)
    MaxFaults    \* bound on failing commits and restarts

ASSUME QueueAssumption ==
    {MaxEvents, MaxBatch, CompactAt, MaxFaults} \subseteq Nat

VARIABLES
    kind,        \* Workers.WorkerType: "memory" or "pebble"
    data, head,              \* MemoryQueue
    store, headKey, tailKey, \* PebbleQueue: value keys and counters on disk
    notify,      \* is there a token in the channel?
    reader,      \* the worker: "checking", "waiting" or "handling"
    taken,       \* the batch it is handling
    pushed,      \* number of events offered to Push so far
    out, handled, lostInHand, \* handed out; done with; lost by a restart
    faults

memory == <<data, head>>
pebble == <<store, headKey, tailKey>>
vars == <<kind, memory, pebble, notify, reader, taken, pushed, out, handled,
          lostInHand, faults>>

Event == 1..MaxEvents

TypeOK ==
    /\ kind \in {"memory", "pebble"}
    /\ data \in Seq(Event \cup {0}) /\ head \in 0..Len(data)
    /\ headKey \in Nat /\ tailKey \in Nat /\ headKey <= tailKey
    /\ store \in [headKey + 1..tailKey -> Event]
    /\ notify \in BOOLEAN
    /\ reader \in {"checking", "waiting", "handling"}
    /\ taken \in Seq(Event)
    /\ pushed \in 0..MaxEvents
    /\ out \in Seq(Event) /\ handled \in Seq(Event)
    /\ lostInHand \subseteq Event
    /\ faults \in 0..MaxFaults

Init ==
    /\ kind \in {"memory", "pebble"}
    /\ data = <<>> /\ head = 0
    /\ store = <<>> /\ headKey = 0 /\ tailKey = 0
    /\ notify = FALSE /\ reader = "checking" /\ taken = <<>>
    /\ pushed = 0 /\ out = <<>> /\ handled = <<>> /\ lostInHand = {}
    /\ faults = 0

available == IF kind = "memory" THEN Len(data) - head ELSE tailKey - headKey

\* The next n events the watchers push, in the order of their calls.
Batch(n) == [i \in 1..n |-> pushed + i]

-----------------------------------------------------------------------------
(* Push and PushBatch.                                                      *)

PushBatchMemory_NoNotify(n) ==
    /\ kind = "memory"
    /\ data' = data \o Batch(n)
    /\ UNCHANGED <<notify, head, pebble>>

PushBatchMemory(n) ==
    /\ kind = "memory"
    /\ data' = data \o Batch(n)
    /\ notify' = TRUE
    /\ UNCHANGED <<head, pebble>>

\* The value keys and the tail counter are one committed batch.
PushBatchPebble(n) ==
    /\ kind = "pebble"
    /\ store' = [i \in headKey + 1..tailKey + n |->
                    IF i > tailKey THEN Batch(n)[i - tailKey] ELSE store[i]]
    /\ tailKey' = tailKey + n
    /\ notify' = TRUE
    /\ UNCHANGED <<headKey, memory>>

Push ==
    \E n \in 1..MaxBatch :
        /\ pushed + n <= MaxEvents
        /\ PushBatchMemory(n) \/ PushBatchPebble(n)
        /\ pushed' = pushed + n
        /\ UNCHANGED <<kind, reader, taken, out, handled, lostInHand, faults>>

\* batch.Commit fails: nothing is stored, nobody is notified, and the
\* watchers, which only log the error, do not push the event again.
PushFails ==
    /\ kind = "pebble" /\ faults < MaxFaults
    /\ pushed < MaxEvents /\ pushed' = pushed + 1
    /\ faults' = faults + 1
    /\ UNCHANGED <<kind, memory, pebble, notify, reader, taken, out, handled,
                   lostInHand>>

-----------------------------------------------------------------------------
(* PopWithContext and PopBatchWithContext.                                  *)

\* Nothing is available: unlock, then wait on the channel.
PopWaits ==
    /\ reader = "checking" /\ available = 0
    /\ reader' = "waiting"
    /\ UNCHANGED <<kind, memory, pebble, notify, taken, pushed, out, handled,
                   lostInHand, faults>>

Notified_Stops ==
    /\ reader = "waiting" /\ notify
    /\ reader' = "waiting" /\ notify' = FALSE
    /\ UNCHANGED <<kind, memory, pebble, taken, pushed, out, handled,
                   lostInHand, faults>>

Notified ==
    /\ reader = "waiting" /\ notify
    /\ reader' = "checking" /\ notify' = FALSE
    /\ UNCHANGED <<kind, memory, pebble, taken, pushed, out, handled,
                   lostInHand, faults>>

MustCompact(newHead, length) == newHead > CompactAt /\ newHead * 2 > length

\* A compaction that forgets that the slice now starts at zero.
PopBatchMemory_StaleHead(count) ==
    LET newHead == head + count
        cleared == [i \in 1..Len(data) |->
                        IF i \in head + 1..newHead THEN 0 ELSE data[i]]
    IN  /\ kind = "memory"
        /\ taken' = SubSeq(data, head + 1, newHead)
        /\ IF MustCompact(newHead, Len(data))
           THEN data' = SubSeq(data, newHead + 1, Len(data)) /\ head' = Len(data) - newHead
           ELSE data' = cleared /\ head' = newHead
        /\ UNCHANGED pebble

\* Popped places are set to nil (0) and kept until the slice is compacted.
PopBatchMemory(count) ==
    LET newHead == head + count
        cleared == [i \in 1..Len(data) |->
                        IF i \in head + 1..newHead THEN 0 ELSE data[i]]
    IN  /\ kind = "memory"
        /\ taken' = SubSeq(data, head + 1, newHead)
        /\ IF MustCompact(newHead, Len(data))
           THEN data' = SubSeq(data, newHead + 1, Len(data)) /\ head' = 0
           ELSE data' = cleared /\ head' = newHead
        /\ UNCHANGED pebble

\* The head counter is committed only when the event has been handled.
PopBatchPebble_CommitLater(count) ==
    /\ kind = "pebble"
    /\ taken' = [i \in 1..count |-> store[headKey + i]]
    /\ UNCHANGED <<pebble, memory>>

\* The deletions and the head counter are one committed batch.
PopBatchPebble(count) ==
    /\ kind = "pebble"
    /\ taken' = [i \in 1..count |-> store[headKey + i]]
    /\ store' = [i \in headKey + count + 1..tailKey |-> store[i]]
    /\ headKey' = headKey + count
    /\ UNCHANGED <<tailKey, memory>>

Pop ==
    /\ reader = "checking" /\ available > 0
    /\ \E asked \in 1..MaxBatch :
        LET count == IF asked > available THEN available ELSE asked
        IN  PopBatchMemory(count) \/ PopBatchPebble(count)
    /\ reader' = "handling"
    /\ out' = out \o taken'
    /\ UNCHANGED <<kind, notify, pushed, handled, lostInHand, faults>>

\* A read or the commit fails: the worker logs it and calls again.
PopFails ==
    /\ kind = "pebble" /\ faults < MaxFaults
    /\ reader = "checking" /\ available > 0
    /\ faults' = faults + 1
    /\ UNCHANGED <<kind, memory, pebble, notify, reader, taken, pushed, out,
                   handled, lostInHand>>

\* handleAdd or handleUpdate returns (modules DagRunProgress and PodStatus).
Handled ==
    /\ reader = "handling"
    /\ handled' = handled \o taken
    /\ taken' = <<>> /\ reader' = "checking"
    /\ UNCHANGED <<kind, memory, pebble, notify, pushed, out, lostInHand, faults>>

-----------------------------------------------------------------------------
(* The process ends and starts again.                                       *)

NewMemoryQueue == data' = <<>> /\ head' = 0 /\ UNCHANGED pebble

NewPebbleQueue_TailAfresh ==
    tailKey' = 0 /\ UNCHANGED <<store, headKey, memory>>

\* The counters are read back; a tail behind the head would be moved up.
NewPebbleQueue ==
    /\ tailKey' = IF tailKey < headKey THEN headKey ELSE tailKey
    /\ UNCHANGED <<store, headKey, memory>>

Restart ==
    /\ faults < MaxFaults /\ faults' = faults + 1
    /\ \/ kind = "memory" /\ NewMemoryQueue
       \/ kind = "pebble" /\ NewPebbleQueue
    /\ lostInHand' = lostInHand \cup {taken[i] : i \in 1..Len(taken)}
    /\ taken' = <<>> /\ reader' = "checking" /\ notify' = FALSE
    /\ UNCHANGED <<kind, pushed, out, handled>>

Next == Push \/ PushFails \/ PopWaits \/ Notified \/ Pop \/ PopFails
        \/ Handled \/ Restart

Spec == Init /\ [][Next]_vars

\* The worker's loop goes on and a handler returns.
FairSpec ==
    /\ Spec
    /\ WF_vars(PopWaits) /\ WF_vars(Notified) /\ WF_vars(Pop)
    /\ WF_vars(Handled)

-----------------------------------------------------------------------------
(* Properties                                                               *)

\* The events still in the queue, first to last.
queued == IF kind = "memory"
          THEN [i \in 1..Len(data) - head |-> data[head + i]]
          ELSE [i \in 1..tailKey - headKey |-> store[headKey + i]]

Fifo == INSTANCE PodEventFifo WITH durable <- kind = "pebble", items <- queued

\* Both implementations behave as one first-in first-out queue, through
\* compaction, failing commits and restarts: no event is handed out twice or
\* out of order, and only the memory queue forgets events when it restarts
\* (memory.go PopBatchWithContext, pebble.go PopBatchWithContext).
FifoSpec == Fifo!Spec

\* The worker never sleeps on the channel while there are events: whoever
\* pushed last left a token (memory.go and pebble.go, the select in PushBatch
\* against the unlock before the wait in PopBatchWithContext).
NoLostWakeup == reader = "waiting" /\ available > 0 => notify

\* An event that was handed out is in the worker's hands, handled, or was in
\* its hands when the process ended: PebbleQueue deletes it before it is
\* handled, so that the crash loses exactly the events in hand and no event
\* is handled twice (pebble.go:170).
OnlyTheEventInHandIsLost ==
    /\ Len(out) = Len(handled) + Len(taken) + Cardinality(lostInHand)
    /\ \A i, j \in 1..Len(handled) : i < j => handled[i] < handled[j]

\* Every pushed event is handed out in the end, as long as nothing fails
\* (workers.go Run).
Drained == (available > 0) ~> (available = 0)
=============================================================================
