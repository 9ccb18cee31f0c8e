---------------------------- MODULE PodEventFifo ----------------------------
(***************************************************************************)
(* What the interface queue.Queue promises to a worker: the pod events of  *)
(* its namespace, each at most once and in the order in which they were    *)
(* pushed.  A process that ends loses the events it has not handed out,    *)
(* unless the queue is durable.                                            *)
(***************************************************************************)
EXTENDS Naturals, Sequences

CONSTANTS Event, MaxBatch

VARIABLES
    durable,   \* chosen once: do the events survive the process?
    items,     \* events pushed and not yet handed out
    out        \* events handed out, in order

Init == durable \in BOOLEAN /\ items = <<>> /\ out = <<>>

PushBatch(values) == items' = items \o values /\ UNCHANGED <<durable, out>>

PopBatch(count) ==
    /\ out' = out \o SubSeq(items, 1, count)
    /\ items' = SubSeq(items, count + 1, Len(items))
    /\ UNCHANGED durable

Lose == ~durable /\ items' = <<>> /\ UNCHANGED <<durable, out>>

Next ==
    \/ \E n \in 1..MaxBatch : \E values \in [1..n -> Event] : PushBatch(values)
    \/ \E count \in 1..MaxBatch : count <= Len(items) /\ PopBatch(count)
    \/ Lose

Spec == Init /\ [][Next]_<<durable, items, out>>
=============================================================================
