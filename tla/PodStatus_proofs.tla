-------------------------- MODULE PodStatus_proofs --------------------------
(***************************************************************************)
(* Theorems about PodStatus, for any number of pods, events and retries,   *)
(* any capacity of the channel and both managers.                          *)
(***************************************************************************)
EXTENDS PodStatus, Integers, TLAPS

Phase == {"Pending", "Running"} \cup Terminal
PodRecord == [phase : Phase, configError : BOOLEAN, finished : BOOLEAN, finishedAt : Int,
              long : BOOLEAN, present : BOOLEAN]
Snapshot == [pod : Pod, phase : Phase, configError : BOOLEAN, finished : BOOLEAN,
             finishedAt : Int, long : BOOLEAN]
PodEvent == [pod : Pod, phase : Phase, configError : BOOLEAN, finished : BOOLEAN,
             finishedAt : Int, long : BOOLEAN, stamp : Nat]
Payload  == Pod \X {"pending", "started", "success", "failed", "pod"}
TheRow   == [status : Phase \cup {"none"}, stamp : Int, duration : BOOLEAN]
Pcs == {"idle", "started", "outcome", "duration", "mark"}

\* Types, in parts: a step disturbs a few of them.
PodType    == pod \in [Pod -> PodRecord]
DeltaType  == deltas \in [Pod -> Seq(Snapshot)]
SeenType   == seen \in [Pod -> Phase \cup {"none"}]
WarnType   == warnings \subseteq Snapshot /\ warned \in Nat
QueueType  == queue \in Seq(PodEvent)
WorkerType == /\ worker \in [pc : Pcs, event : PodEvent \cup {<<>>}, attempt : Nat]
              /\ worker.pc # "idle" => worker.event \in PodEvent
RowType    == taskPods \in [Pod -> TheRow]
HookType   == /\ sending \subseteq Payload /\ heard \subseteq Payload
              /\ channel \in Seq(Payload)
ClockType  == clock \in Nat /\ backend \in {"postgres", "sqlite"}

PInv == /\ PodType /\ DeltaType /\ SeenType /\ WarnType /\ QueueType /\ WorkerType
        /\ RowType /\ HookType /\ ClockType

all == <<backend, stuck, lost, untimed, clock, pod, deltas, seen, warnings, warned, queue,
         worker, taskPods, sending, channel, heard>>

\* The groups of variables, spelled out.
LEMMA Groups ==
    /\ (UNCHANGED vars <=> UNCHANGED all)
    /\ (UNCHANGED cluster <=> UNCHANGED <<pod, deltas>>)
    /\ (UNCHANGED watchers <=> UNCHANGED <<seen, warnings, warned>>)
    /\ (UNCHANGED webhook <=> UNCHANGED <<sending, channel, heard>>)
    /\ (UNCHANGED failures <=> UNCHANGED <<stuck, lost, untimed>>)
BY DEF vars, all, cluster, watchers, webhook, failures

LEMMA Frame ==
    ASSUME PInv
    PROVE  /\ pod' = pod => PodType'
           /\ deltas' = deltas => DeltaType'
           /\ seen' = seen => SeenType'
           /\ UNCHANGED <<warnings, warned>> => WarnType'
           /\ queue' = queue => QueueType'
           /\ worker' = worker => WorkerType'
           /\ taskPods' = taskPods => RowType'
           /\ UNCHANGED <<sending, channel, heard>> => HookType'
           /\ UNCHANGED <<clock, backend>> => ClockType'
BY DEF PInv, PodType, DeltaType, SeenType, WarnType, QueueType, WorkerType, RowType,
       HookType, ClockType

\* Sequences.
LEMMA AppendFacts ==
    ASSUME NEW S, NEW s \in Seq(S), NEW x \in S
    PROVE  /\ Append(s, x) \in Seq(S) /\ Len(s) \in Nat /\ Len(Append(s, x)) = Len(s) + 1
           /\ \A i \in 1..Len(s) : Append(s, x)[i] = s[i]
           /\ Append(s, x)[Len(s) + 1] = x
OBVIOUS

LEMMA TailFacts ==
    ASSUME NEW S, NEW s \in Seq(S), s # <<>>
    PROVE  /\ Tail(s) \in Seq(S) /\ Len(s) \in Nat /\ Len(s) >= 1
           /\ Len(Tail(s)) = Len(s) - 1
           /\ \A i \in 1..(Len(s) - 1) : Tail(s)[i] = s[i + 1]
           /\ Head(s) = s[1] /\ Head(s) \in S
OBVIOUS

LEMMA ViewType == ASSUME PInv, NEW p \in Pod PROVE View(p) \in Snapshot
BY DEF PInv, PodType, PodRecord, View, Snapshot

LEMMA EventType ==
    ASSUME PInv, NEW s \in Snapshot
    PROVE  /\ Event(s) \in PodEvent
           /\ Event(s).pod = s.pod /\ Event(s).phase = s.phase
           /\ Event(s).configError = s.configError /\ Event(s).finished = s.finished
           /\ Event(s).finishedAt = s.finishedAt /\ Event(s).long = s.long
BY DEF PInv, ClockType, Event, Snapshot, PodEvent

LEMMA RowTypes ==
    ASSUME NEW row \in TheRow, NEW status \in Phase, NEW stamp \in Int
    PROVE  MarkPodStatus(row, status, stamp) \in TheRow /\ AddPodDuration(row) \in TheRow
<1> DEFINE new == [row EXCEPT !.status = status, !.stamp = stamp]
<1>2. new \in TheRow BY DEF TheRow
<1>3. MarkPodStatus(row, status, stamp) \in {row, new} BY DEF MarkPodStatus
<1>4. AddPodDuration(row) \in TheRow BY DEF AddPodDuration, TheRow
<1> QED BY <1>2, <1>3, <1>4

LEMMA StampType == ASSUME PInv, worker.pc # "idle" PROVE outStamp \in Int
BY DEF PInv, WorkerType, PodEvent, outStamp

\* Updates of the event loop's record.
LEMMA WorkerMoves ==
    ASSUME PInv, worker.pc # "idle"
    PROVE  /\ \A pc \in Pcs : worker' = [worker EXCEPT !.pc = pc] =>
                /\ WorkerType' /\ worker'.pc = pc /\ worker'.event = worker.event
                /\ worker'.attempt = worker.attempt
           /\ worker' = Idle => WorkerType' /\ worker'.pc = "idle"
BY DEF PInv, WorkerType, Pcs, Idle

LEMMA NotifyType ==
    ASSUME PInv, NEW p \in Pod, NEW status \in {"pending", "started", "success", "failed", "pod"},
           Notify(p, status) \/ UNCHANGED sending, UNCHANGED <<channel, heard>>
    PROVE  HookType'
BY DEF PInv, HookType, Notify, Payload

LEMMA InitTypes == Init => PInv
<1> SUFFICES ASSUME Init PROVE PInv OBVIOUS
<1>1. PodType BY DEF Init, PodType, PodRecord, Phase
<1>2. DeltaType
  <2>1. \A p \in Pod : [pod |-> p, phase |-> "Pending", configError |-> FALSE,
                        finished |-> FALSE, finishedAt |-> 0, long |-> FALSE] \in Snapshot
        BY DEF Snapshot, Phase
  <2> QED BY <2>1 DEF Init, DeltaType
<1>3. SeenType /\ WarnType /\ QueueType /\ ClockType
      BY DEF Init, SeenType, WarnType, QueueType, ClockType
<1>4. WorkerType BY DEF Init, WorkerType, Idle, Pcs
<1>5. RowType BY DEF Init, RowType, TheRow, NoRow
<1>6. HookType BY DEF Init, HookType
<1> QED BY <1>1, <1>2, <1>3, <1>4, <1>5, <1>6 DEF PInv

LEMMA NextTypes == PInv /\ [Next]_vars => PInv'
<1> SUFFICES ASSUME PInv, [Next]_vars PROVE PInv' OBVIOUS
<1>0. /\ PodType /\ DeltaType /\ SeenType /\ WarnType /\ QueueType /\ WorkerType
      /\ RowType /\ HookType /\ ClockType
      BY DEF PInv
<1> USE Groups, Frame
<1>1. CASE Tick
  <2>1. ClockType' BY <1>0, <1>1 DEF Tick, ClockType
  <2> QED BY <1>1, <2>1 DEF Tick, PInv
<1>2. ASSUME NEW p \in Pod, PodChanges(p) PROVE PInv'
  <2>1. PodType'
    <3>1. Second(clock) \in Int
          BY <1>0, StatusAssumption DEF Second, ClockType
    <3>2. CASE pod' = [pod EXCEPT ![p].configError = TRUE] BY <1>0, <3>2 DEF PodType, PodRecord
    <3>3. CASE pod' = [pod EXCEPT ![p].phase = "Running", ![p].configError = FALSE]
      <4>1. [[pod[p] EXCEPT !.phase = "Running"] EXCEPT !.configError = FALSE] \in PodRecord
            BY <1>0 DEF PodType, PodRecord, Phase
      <4>2. pod' = [pod EXCEPT ![p] = [[pod[p] EXCEPT !.phase = "Running"]
                                          EXCEPT !.configError = FALSE]]
            BY <1>0, <3>3 DEF PodType
      <4> QED BY <1>0, <4>1, <4>2 DEF PodType
    <3>4. ASSUME NEW end \in Terminal, NEW finished \in BOOLEAN, NEW long \in BOOLEAN,
                 pod' = [pod EXCEPT ![p] =
                    [phase |-> end, configError |-> FALSE, finished |-> finished,
                     finishedAt |-> IF finished THEN Second(clock) ELSE 0,
                     long |-> long, present |-> TRUE]]
          PROVE  PodType'
      <4>1. (IF finished THEN Second(clock) ELSE 0) \in Int /\ end \in Phase
            BY <3>1 DEF Phase
      <4>2. [phase |-> end, configError |-> FALSE, finished |-> finished,
             finishedAt |-> IF finished THEN Second(clock) ELSE 0,
             long |-> long, present |-> TRUE] \in PodRecord
            BY <4>1 DEF PodRecord
      <4> QED BY <1>0, <3>4, <4>2 DEF PodType
    <3> QED BY <1>2, <3>2, <3>3, <3>4 DEF PodChanges
  <2>2. View(p)' \in Snapshot BY <2>1 DEF View, PodType, PodRecord, Snapshot
  <2>3. DeltaType' BY <1>0, <1>2, <2>2, AppendFacts DEF PodChanges, DeltaType
  <2> QED BY <1>2, <2>1, <2>3 DEF PodChanges, PInv
<1>3. ASSUME NEW p \in Pod, WatchPod(p) PROVE PInv'
  <2>1. deltas[p] \in Seq(Snapshot) /\ deltas[p] # <<>> BY <1>0, <1>3 DEF WatchPod, DeltaType
  <2>2. Head(deltas[p]) \in Snapshot /\ Tail(deltas[p]) \in Seq(Snapshot) BY <2>1, TailFacts
  <2>3. DeltaType' BY <1>0, <1>3, <2>2 DEF WatchPod, DeltaType
  <2>4. QueueType' BY <1>0, <1>3, <2>2, EventType, AppendFacts DEF WatchPod, QueueType
  <2>5. SeenType' BY <1>0, <1>3, <2>2 DEF WatchPod, SeenType, Snapshot
  <2> QED BY <1>3, <2>3, <2>4, <2>5 DEF WatchPod, PInv
<1>4. ASSUME NEW p \in Pod, WarningFetches(p) PROVE PInv'
  <2>1. WarnType' BY <1>0, <1>4, ViewType DEF WarningFetches, WarnType
  <2> QED BY <1>4, <2>1 DEF WarningFetches, PInv
<1>5. CASE WarningPushes
  <2>1. PICK s \in warnings : /\ warnings' = warnings \ {s} /\ queue' = Append(queue, Event(s))
                              /\ UNCHANGED <<backend, clock, cluster, seen, warned, worker,
                                             taskPods, webhook>>
        BY <1>5 DEF WarningPushes
  <2>2. Event(s) \in PodEvent BY <1>0, <2>1, EventType DEF WarnType
  <2>3. QueueType' BY <1>0, <2>1, <2>2, AppendFacts DEF QueueType
  <2>4. WarnType' BY <1>0, <2>1 DEF WarnType
  <2> QED BY <2>1, <2>3, <2>4 DEF PInv
<1>6. CASE Take
  <2>1. Head(queue) \in PodEvent /\ Tail(queue) \in Seq(PodEvent)
        BY <1>0, <1>6, TailFacts DEF Take, QueueType
  <2>2. QueueType' BY <1>6, <2>1 DEF Take, QueueType
  <2>3. PICK pc \in Pcs : worker' = [event |-> Head(queue), attempt |-> 0, pc |-> pc]
        BY <1>6 DEF Take, Pcs
  <2>4. WorkerType' BY <2>1, <2>3 DEF WorkerType
  <2>5. HookType'
    <3>1. Head(queue).pod \in Pod BY <2>1 DEF PodEvent
    <3>2. UNCHANGED <<channel, heard>>
          /\ (Notify(Head(queue).pod, "pending") \/ UNCHANGED sending)
          BY <1>6 DEF Take
    <3> QED BY <3>1, <3>2, NotifyType
  <2> QED BY <1>6, <2>2, <2>4, <2>5 DEF Take, PInv
<1>7. worker.pc # "idle" => worker.event \in PodEvent /\ worker.event.pod \in Pod
                            /\ worker.event.phase \in Phase
      BY <1>0 DEF WorkerType, PodEvent
<1>8. CASE SendStarted
  <2>1. WorkerType' BY <1>8, WorkerMoves DEF SendStarted, Pcs
  <2>2. <<worker.event.pod, "started">> \in Payload BY <1>7, <1>8 DEF SendStarted, Payload
  <2>3. HookType'
    <3>1. CASE channel' = channel BY <1>8, <3>1 DEF SendStarted
    <3>2. CASE channel' = Append(channel, <<worker.event.pod, "started">>)
          BY <1>0, <1>8, <2>2, <3>2, AppendFacts DEF SendStarted, HookType
    <3> QED BY <1>8, <3>1, <3>2 DEF SendStarted
  <2> QED BY <1>8, <2>1, <2>3 DEF SendStarted, PInv
<1>9. CASE TaskEnds
  <2>1. WorkerType' BY <1>9, WorkerMoves DEF TaskEnds, Pcs
  <2>2. worker.event.pod \in Pod BY <1>7, <1>9 DEF TaskEnds
  <2>3. HookType' BY <1>9, <2>2, NotifyType DEF TaskEnds
  <2> QED BY <1>9, <2>1, <2>3 DEF TaskEnds, PInv
<1>10. CASE ConfigError
  <2>1. worker.pc # "idle" /\ worker' = Idle BY <1>10 DEF ConfigError
  <2>2. WorkerType' BY <2>1, WorkerMoves
  <2>3. worker.event.pod \in Pod BY <1>7, <2>1
  <2>4. HookType' BY <1>10, <2>3, NotifyType DEF ConfigError
  <2>5. clock \in Int /\ "Failed" \in Phase BY <1>0 DEF ClockType, Phase, Terminal
  <2>6. RowType'
    <3>1. CASE UNCHANGED taskPods BY <3>1
    <3>2. CASE taskPods' = [taskPods EXCEPT ![worker.event.pod] =
                              MarkPodStatus(@, "Failed", clock)]
          BY <1>0, <2>3, <2>5, <3>2, RowTypes DEF RowType
    <3> QED BY <1>10, <3>1, <3>2 DEF ConfigError
  <2>7. PodType' BY <1>0, <1>10 DEF ConfigError, PodType, PodRecord
  <2> QED BY <1>10, <2>2, <2>4, <2>6, <2>7 DEF ConfigError, PInv
<1>11. CASE WriteDuration
  <2>1. WorkerType' BY <1>11, WorkerMoves DEF WriteDuration, Pcs
  <2>2. worker.event.pod \in Pod BY <1>7, <1>11 DEF WriteDuration
  <2>3. AddPodDuration(taskPods[worker.event.pod]) \in TheRow
        BY <1>0, <2>2 DEF RowType, AddPodDuration, TheRow
  <2>4. RowType'
    <3>1. CASE UNCHANGED taskPods BY <3>1
    <3>2. CASE taskPods' = [taskPods EXCEPT ![worker.event.pod] = AddPodDuration(@)]
          BY <1>0, <2>3, <3>2 DEF RowType
    <3> QED BY <1>11, <3>1, <3>2 DEF WriteDuration
  <2> QED BY <1>11, <2>1, <2>4 DEF WriteDuration, PInv
<1>12. CASE WriteStatus
  <2>1. worker.pc # "idle" BY <1>12 DEF WriteStatus
  <2>2. worker.event.pod \in Pod /\ worker.event.phase \in Phase /\ outStamp \in Int
        BY <1>7, <2>1, StampType
  <2>3. RowType' BY <1>0, <1>12, <2>2, RowTypes DEF WriteStatus, RowType
  <2>4. WorkerType'
    <3>1. worker' = Idle \/ worker' = [worker EXCEPT !.attempt = worker.attempt + 1]
          BY <1>12 DEF WriteStatus
    <3>2. CASE worker' = [worker EXCEPT !.attempt = worker.attempt + 1]
          BY <1>0, <3>2 DEF WorkerType
    <3> QED BY <2>1, <3>1, <3>2, WorkerMoves
  <2>5. HookType' BY <1>12, <2>2, NotifyType DEF WriteStatus
  <2> QED BY <1>12, <2>3, <2>4, <2>5 DEF WriteStatus, PInv
<1>13. CASE BackgroundSend
  <2>1. HookType' BY <1>0, <1>13, AppendFacts DEF BackgroundSend, HookType
  <2> QED BY <1>13, <2>1 DEF BackgroundSend, PInv
<1>14. CASE Listen
  <2>1. HookType' BY <1>0, <1>14, TailFacts DEF Listen, Hears, HookType
  <2> QED BY <1>14, <2>1 DEF Listen, PInv
<1>15. CASE WriteFails
  <2>1. WorkerType' BY <1>15, WorkerMoves DEF WriteFails
  <2> QED BY <1>15, <2>1 DEF WriteFails, PInv
<1>16. CASE DialHangs
  <2>1. HookType' BY <1>0, <1>16, TailFacts DEF DialHangs, HookType
  <2> QED BY <1>16, <2>1 DEF DialHangs, PInv
<1>17. CASE UNCHANGED vars BY <1>17 DEF all, PInv
<1> QED BY <1>1, <1>2, <1>3, <1>4, <1>5, <1>6, <1>8, <1>9, <1>10, <1>11, <1>12, <1>13, <1>14,
           <1>15, <1>16, <1>17 DEF Next

LEMMA AlwaysTyped == Spec => []PInv
BY InitTypes, NextTypes, PTL DEF Spec

-----------------------------------------------------------------------------
(* Retries of a status.                                                    *)

Refused == ~IsWritten(taskPods[worker.event.pod], outStamp)
FInv == worker.attempt > 0 => worker.pc = "mark" /\ Refused

LEMMA NextF == PInv /\ FInv /\ [Next]_vars => FInv'
<1> SUFFICES ASSUME PInv, FInv, [Next]_vars PROVE FInv' OBVIOUS
<1> USE Groups
<1>0. WorkerType /\ RowType BY DEF PInv
<1>1. ASSUME UNCHANGED <<backend, worker, taskPods>> PROVE FInv'
      BY <1>1 DEF FInv, Refused, IsWritten, outStamp
<1>2. ASSUME worker'.attempt = 0 PROVE FInv' BY <1>2 DEF FInv
<1>3. CASE Take BY <1>2, <1>3 DEF Take
<1>4. CASE SendStarted \/ TaskEnds \/ WriteDuration
  <2>1. worker.pc \notin {"idle", "mark"} /\ \E pc \in Pcs : worker' = [worker EXCEPT !.pc = pc]
        BY <1>4 DEF SendStarted, TaskEnds, WriteDuration, Pcs
  <2>2. worker'.attempt = worker.attempt BY <2>1, WorkerMoves
  <2>3. ~(worker.attempt > 0) BY <2>1 DEF FInv
  <2> QED BY <2>2, <2>3 DEF FInv
<1>5. CASE ConfigError \/ WriteFails BY <1>2, <1>5 DEF ConfigError, WriteFails, Idle
<1>6. CASE WriteStatus
  <2>1. CASE worker' = Idle BY <1>2, <2>1 DEF Idle
  <2>2. CASE worker' # Idle
    <3>1. /\ worker.pc = "mark" /\ Refused /\ backend' = backend
          /\ worker' = [worker EXCEPT !.attempt = worker.attempt + 1]
          /\ taskPods' = [taskPods EXCEPT ![worker.event.pod] =
                              MarkPodStatus(taskPods[worker.event.pod], worker.event.phase, outStamp)]
          BY <1>6, <2>2 DEF WriteStatus, Refused
    <3>2. taskPods' = taskPods BY <1>0, <3>1 DEF Refused, MarkPodStatus, RowType
    <3>3. worker'.event = worker.event /\ worker'.pc = "mark" BY <1>0, <3>1 DEF WorkerType
    <3>4. Refused' BY <3>1, <3>2, <3>3 DEF Refused, IsWritten, outStamp
    <3> QED BY <3>3, <3>4 DEF FInv
  <2> QED BY <2>1, <2>2
<1>7. CASE Tick \/ WarningPushes \/ BackgroundSend \/ Listen \/ DialHangs
      BY <1>1, <1>7 DEF Tick, WarningPushes, BackgroundSend, Listen, DialHangs
<1>8. CASE \E p \in Pod : PodChanges(p) \/ WatchPod(p) \/ WarningFetches(p)
      BY <1>1, <1>8 DEF PodChanges, WatchPod, WarningFetches
<1>9. CASE UNCHANGED vars BY <1>1, <1>9 DEF all
<1> QED BY <1>3, <1>4, <1>5, <1>6, <1>7, <1>8, <1>9 DEF Next

\* The retries of writeStatusToDB are of no use: nothing that could turn the
\* manager's answer, neither the row nor the stamp nor the phase, changes between
\* a refusal and the next attempt, whatever the others do meanwhile.
THEOREM RetriesAreIdle == Spec => RefusalIsFinal
<1>1. Init => FInv BY DEF Init, FInv, Idle
<1>2. Spec => []FInv BY <1>1, NextF, AlwaysTyped, PTL DEF Spec
<1>3. PInv /\ FInv /\ [Next]_vars =>
        [worker.pc = "mark" /\ worker.attempt > 0 => UNCHANGED taskPods]_vars
  <2> SUFFICES ASSUME PInv, FInv, [Next]_vars, worker.pc = "mark", worker.attempt > 0
               PROVE  UNCHANGED taskPods
      OBVIOUS
  <2> USE Groups
  <2>1. CASE WriteStatus
    <3>1. Refused /\ RowType BY DEF FInv, PInv
    <3> QED BY <2>1, <3>1 DEF WriteStatus, Refused, MarkPodStatus, RowType
  <2>2. CASE \/ Tick \/ WarningPushes \/ BackgroundSend \/ Listen \/ Take \/ SendStarted
             \/ TaskEnds \/ WriteFails \/ DialHangs
        BY <2>2 DEF Tick, WarningPushes, BackgroundSend, Listen, Take, SendStarted, TaskEnds,
                    WriteFails, DialHangs
  <2>3. CASE ConfigError \/ WriteDuration BY <2>3 DEF ConfigError, WriteDuration
  <2>4. CASE \E p \in Pod : PodChanges(p) \/ WatchPod(p) \/ WarningFetches(p)
        BY <2>4 DEF PodChanges, WatchPod, WarningFetches
  <2>5. CASE UNCHANGED vars BY <2>5 DEF all
  <2> QED BY <2>1, <2>2, <2>3, <2>4, <2>5 DEF Next
<1> QED BY <1>2, <1>3, AlwaysTyped, PTL DEF Spec, RefusalIsFinal

-----------------------------------------------------------------------------
(* The order of the notifications.  Without Warning events the phases of a *)
(* pod only rise on their way: through the informer, the queue, the event  *)
(* loop.  So nothing is behind the end of a pod but its end.               *)

Rank(phase) == IF phase = "Pending" THEN 0 ELSE IF phase = "Running" THEN 1 ELSE 2
El(s) == {s[i] : i \in 1..Len(s)}
Rises(s) == \A i, j \in 1..Len(s) :
               i < j /\ s[i].pod = s[j].pod => Rank(s[i].phase) <= Rank(s[j].phase)
Below(e, S) == \A f \in S : f.pod = e.pod => Rank(e.phase) <= Rank(f.phase)

LEMMA Ranks == /\ \A phase : Rank(phase) \in 0..2
               /\ \A phase \in Phase : /\ (Rank(phase) = 0 <=> phase = "Pending")
                                        /\ (Rank(phase) = 1 <=> phase = "Running")
                                        /\ (Rank(phase) = 2 <=> phase \in Terminal)
BY DEF Rank, Phase, Terminal

LEMMA ElAppend ==
    ASSUME NEW S, NEW s \in Seq(S), NEW x \in S
    PROVE  El(Append(s, x)) = El(s) \cup {x}
<1>1. /\ Len(s) \in Nat /\ Len(Append(s, x)) = Len(s) + 1
      /\ \A i \in 1..Len(s) : Append(s, x)[i] = s[i]
      /\ Append(s, x)[Len(s) + 1] = x
      BY AppendFacts
<1>2. 1..(Len(s) + 1) = (1..Len(s)) \cup {Len(s) + 1} BY <1>1
<1>3. El(Append(s, x)) = {Append(s, x)[i] : i \in (1..Len(s)) \cup {Len(s) + 1}}
      BY <1>1, <1>2 DEF El
<1> QED BY <1>1, <1>3 DEF El

LEMMA RisesAppend ==
    ASSUME NEW S, NEW s \in Seq(S), NEW x \in S, Rises(s),
           \A e \in El(s) : e.pod = x.pod => Rank(e.phase) <= Rank(x.phase)
    PROVE  Rises(Append(s, x)) /\ El(Append(s, x)) = El(s) \cup {x}
<1>1. /\ Len(s) \in Nat /\ Len(Append(s, x)) = Len(s) + 1
      /\ \A i \in 1..Len(s) : Append(s, x)[i] = s[i]
      /\ Append(s, x)[Len(s) + 1] = x
      BY AppendFacts
<1>2. El(Append(s, x)) = El(s) \cup {x} BY ElAppend
<1>3. Rises(Append(s, x))
  <2> SUFFICES ASSUME NEW i \in 1..(Len(s) + 1), NEW j \in 1..(Len(s) + 1), i < j,
                      Append(s, x)[i].pod = Append(s, x)[j].pod
               PROVE  Rank(Append(s, x)[i].phase) <= Rank(Append(s, x)[j].phase)
      BY <1>1 DEF Rises
  <2>1. i \in 1..Len(s) /\ Append(s, x)[i] = s[i] BY <1>1
  <2>2. CASE j \in 1..Len(s) BY <1>1, <2>1, <2>2 DEF Rises
  <2>3. CASE j = Len(s) + 1
    <3>1. s[i] \in El(s) BY <2>1 DEF El
    <3> QED BY <1>1, <2>1, <2>3, <3>1
  <2> QED BY <1>1, <2>2, <2>3
<1> QED BY <1>2, <1>3

LEMMA RisesTail ==
    ASSUME NEW S, NEW s \in Seq(S), s # <<>>, Rises(s)
    PROVE  /\ Rises(Tail(s)) /\ Below(Head(s), El(Tail(s)))
           /\ El(Tail(s)) \subseteq El(s) /\ Head(s) \in El(s)
<1>1. /\ Len(s) \in Nat /\ Len(s) >= 1 /\ Len(Tail(s)) = Len(s) - 1
      /\ \A i \in 1..(Len(s) - 1) : Tail(s)[i] = s[i + 1]
      /\ Head(s) = s[1]
      BY TailFacts
<1>2. \A i \in 1..(Len(s) - 1) : i + 1 \in 1..Len(s) /\ 1 < i + 1 BY <1>1
<1>3. 1 \in 1..Len(s) BY <1>1
<1>4. Head(s) \in El(s) BY <1>1, <1>3 DEF El
<1>5. El(Tail(s)) \subseteq El(s)
  <2> SUFFICES ASSUME NEW e \in El(Tail(s)) PROVE e \in El(s) OBVIOUS
  <2>1. PICK i \in 1..(Len(s) - 1) : e = Tail(s)[i] BY <1>1 DEF El
  <2>2. i + 1 \in 1..Len(s) /\ e = s[i + 1] BY <1>1, <1>2, <2>1
  <2> QED BY <2>2 DEF El
<1>6. Below(Head(s), El(Tail(s)))
  <2> SUFFICES ASSUME NEW e \in El(Tail(s)), e.pod = Head(s).pod
               PROVE  Rank(Head(s).phase) <= Rank(e.phase)
      BY DEF Below
  <2>1. PICK i \in 1..(Len(s) - 1) : e = Tail(s)[i] BY <1>1 DEF El
  <2>2. i + 1 \in 1..Len(s) /\ 1 < i + 1 /\ e = s[i + 1] BY <1>1, <1>2, <2>1
  <2> QED BY <1>1, <1>3, <2>2 DEF Rises
<1>7. Rises(Tail(s))
  <2> SUFFICES ASSUME NEW i \in 1..(Len(s) - 1), NEW j \in 1..(Len(s) - 1), i < j,
                      Tail(s)[i].pod = Tail(s)[j].pod
               PROVE  Rank(Tail(s)[i].phase) <= Rank(Tail(s)[j].phase)
      BY <1>1 DEF Rises
  <2>1. i + 1 < j + 1 /\ i + 1 \in 1..Len(s) /\ j + 1 \in 1..Len(s) BY <1>1, <1>2
  <2> QED BY <1>1, <2>1 DEF Rises
<1> QED BY <1>4, <1>5, <1>6, <1>7

\* What is on its way to the event loop.
DeltasRise == \A p \in Pod : /\ Rises(deltas[p])
                             /\ \A e \in El(deltas[p]) :
                                   e.pod = p /\ Rank(e.phase) <= Rank(pod[p].phase)
SeenFirst == \A p \in Pod :
    IF seen[p] = "none" THEN deltas[p] # <<>> /\ ~deltas[p][1].configError
    ELSE /\ Rank(seen[p]) <= Rank(pod[p].phase)
         /\ \A e \in El(deltas[p]) : Rank(seen[p]) <= Rank(e.phase)
QueueRises == /\ Rises(queue)
              /\ \A e \in El(queue) : /\ Below(e, El(deltas[e.pod])) /\ ~hasConfigError(e)
                                      /\ Rank(e.phase) <= Rank(pod[e.pod].phase)
WorkerLow == worker.pc # "idle" =>
    /\ Below(worker.event, El(queue)) /\ Below(worker.event, El(deltas[worker.event.pod]))
    /\ Rank(worker.event.phase) <= Rank(pod[worker.event.pod].phase)
    /\ worker.pc = "started" => worker.event.phase = "Running"
    /\ worker.pc = "outcome" => worker.event.phase \in Terminal
Flow == warnings = {} /\ DeltasRise /\ SeenFirst /\ QueueRises /\ WorkerLow

\* What is on its way to the webhook.
Ends(p) == {<<p, "success">>, <<p, "failed">>}
Ended(p) == Ends(p) \cap (sending \cup El(channel) \cup heard) # {}
EndIsLast == \A p \in Pod : Ended(p) =>
    /\ pod[p].phase \in Terminal
    /\ \A e \in El(queue) \cup El(deltas[p]) : e.pod = p => e.phase \in Terminal
    /\ ~(worker.pc = "started" /\ worker.event.pod = p)
StartIsFirst == \A p \in Pod :
    /\ <<p, "started">> \notin sending
    /\ \A i, j \in 1..Len(channel) :
          i < j /\ channel[j] = <<p, "started">> => channel[i] \notin Ends(p)
    /\ Ends(p) \cap heard # {} => <<p, "started">> \notin El(channel)

OInv == warned = 0 => Flow /\ EndIsLast /\ StartIsFirst

\* The manager remembers ends only.
HeardEnds == \A m \in heard : \E p \in Pod : m \in Ends(p)

LEMMA ElTypes ==
    ASSUME PInv
    PROVE  /\ \A e \in El(queue) : e \in PodEvent /\ e.pod \in Pod /\ e.phase \in Phase
           /\ \A p \in Pod : \A e \in El(deltas[p]) : e \in Snapshot /\ e.phase \in Phase
           /\ \A p \in Pod : pod[p].phase \in Phase
<1>1. \A e \in El(queue) : e \in PodEvent BY DEF PInv, QueueType, El
<1>2. \A p \in Pod : \A e \in El(deltas[p]) : e \in Snapshot
  <2> SUFFICES ASSUME NEW p \in Pod, NEW e \in El(deltas[p]) PROVE e \in Snapshot OBVIOUS
  <2>1. deltas[p] \in Seq(Snapshot) BY DEF PInv, DeltaType
  <2> QED BY <2>1 DEF El
<1>3. \A p \in Pod : pod[p].phase \in Phase BY DEF PInv, PodType, PodRecord
<1>4. \A e \in PodEvent : e.pod \in Pod /\ e.phase \in Phase BY DEF PodEvent
<1>5. \A e \in Snapshot : e.phase \in Phase BY DEF Snapshot
<1> QED BY <1>1, <1>2, <1>3, <1>4, <1>5

\* The pod itself moves up, and the informer hears of it last.
LEMMA ChangeKeepsOrder ==
    ASSUME PInv, PInv', Flow, EndIsLast, NEW p \in Pod, PodChanges(p)
    PROVE  Flow' /\ EndIsLast'
<1> DEFINE new == View(p)'
<1>1. /\ deltas' = [deltas EXCEPT ![p] = Append(deltas[p], new)]
      /\ UNCHANGED <<seen, warnings, queue, worker, sending, channel, heard>>
      BY Groups DEF PodChanges
<1>2. /\ \A q \in Pod \ {p} : pod'[q] = pod[q]
      /\ pod[p].phase \notin Terminal
      /\ Rank(pod[p].phase) <= Rank(pod'[p].phase)
  <2>1. PodType BY DEF PInv
  <2>2. \A q \in Pod \ {p} : pod'[q] = pod[q] BY <2>1 DEF PodChanges, PodType
  <2>3. pod[p].phase \notin Terminal BY DEF PodChanges, Terminal
  <2>4. Rank(pod[p].phase) <= Rank(pod'[p].phase)
    <3>1. CASE pod[p].phase = "Pending"
      <4>1. Rank(pod[p].phase) = 0 BY <3>1 DEF Rank
      <4> QED BY <4>1, Ranks
    <3>2. CASE pod[p].phase # "Pending"
      <4>1. pod'[p].phase \in Terminal BY <2>1, <3>2 DEF PodChanges, PodType
      <4>2. Rank(pod'[p].phase) = 2 BY <4>1, Ranks DEF Phase
      <4> QED BY <4>2, Ranks
    <3> QED BY <3>1, <3>2
  <2> QED BY <2>2, <2>3, <2>4
<1>3. new.pod = p /\ new.phase = pod'[p].phase BY DEF View
<1>4. deltas[p] \in Seq(Snapshot) /\ new \in Snapshot
  <2>1. DeltaType /\ PodType' BY DEF PInv
  <2> QED BY <2>1 DEF DeltaType, PodType, PodRecord, View, Snapshot
<1> HIDE DEF new
<1>5. \A q \in Pod : Rank(pod[q].phase) <= Rank(pod'[q].phase) BY <1>2, Ranks
<1>6. \A e \in El(deltas[p]) : Rank(e.phase) <= Rank(new.phase)
  <2> TAKE e \in El(deltas[p])
  <2>1. Rank(e.phase) <= Rank(pod[p].phase) BY DEF Flow, DeltasRise
  <2> QED BY <1>2, <1>3, <2>1, Ranks
<1>7. Rises(deltas'[p]) /\ El(deltas'[p]) = El(deltas[p]) \cup {new}
  <2>1. Rises(deltas[p]) BY DEF Flow, DeltasRise
  <2>2. deltas'[p] = Append(deltas[p], new) BY <1>1 DEF PInv, DeltaType
  <2> QED BY <1>4, <1>6, <2>1, <2>2, RisesAppend
<1>8. \A q \in Pod \ {p} : deltas'[q] = deltas[q] BY <1>1 DEF PInv, DeltaType
<1>9. DeltasRise'
  <2> SUFFICES ASSUME NEW q \in Pod
               PROVE  /\ Rises(deltas'[q])
                      /\ \A e \in El(deltas'[q]) :
                            e.pod = q /\ Rank(e.phase) <= Rank(pod'[q].phase)
      BY DEF DeltasRise
  <2>1. CASE q # p BY <1>2, <1>8, <2>1 DEF Flow, DeltasRise
  <2>2. CASE q = p
    <3>1. ASSUME NEW e \in El(deltas[p]) PROVE e.pod = p /\ Rank(e.phase) <= Rank(pod'[p].phase)
          BY <1>3, <1>6, <3>1 DEF Flow, DeltasRise
    <3>2. new.pod = p /\ Rank(new.phase) <= Rank(pod'[p].phase) BY <1>3, Ranks
    <3> QED BY <1>7, <2>2, <3>1, <3>2
  <2> QED BY <2>1, <2>2
<1>10. SeenFirst'
  <2> SUFFICES ASSUME NEW q \in Pod
               PROVE  IF seen[q] = "none" THEN deltas'[q] # <<>> /\ ~deltas'[q][1].configError
                      ELSE /\ Rank(seen[q]) <= Rank(pod'[q].phase)
                           /\ \A e \in El(deltas'[q]) : Rank(seen[q]) <= Rank(e.phase)
      BY <1>1 DEF SeenFirst
  <2>1. CASE q # p BY <1>2, <1>8, <2>1 DEF Flow, SeenFirst
  <2>2. CASE q = p /\ seen[p] = "none"
    <3>1. deltas[p] # <<>> /\ ~deltas[p][1].configError BY <2>2 DEF Flow, SeenFirst
    <3>2. deltas'[p] = Append(deltas[p], new) BY <1>1 DEF PInv, DeltaType
    <3>3. 1 \in 1..Len(deltas[p]) BY <1>4, <3>1, TailFacts
    <3>4. Append(deltas[p], new)[1] = deltas[p][1] /\ Append(deltas[p], new) # <<>>
          BY <1>4, <3>3, AppendFacts
    <3> QED BY <2>2, <3>1, <3>2, <3>4
  <2>3. CASE q = p /\ seen[p] # "none"
    <3>1. /\ Rank(seen[p]) <= Rank(pod[p].phase)
          /\ \A e \in El(deltas[p]) : Rank(seen[p]) <= Rank(e.phase)
          BY <2>3 DEF Flow, SeenFirst
    <3>2. Rank(seen[p]) <= Rank(pod'[p].phase) BY <1>2, <3>1, Ranks
    <3> QED BY <1>3, <1>7, <2>3, <3>1, <3>2
  <2> QED BY <2>1, <2>2, <2>3
\* Anything that is below the pod is below the new snapshot of it.
<1>11. ASSUME NEW e, e.pod \in Pod, Below(e, El(deltas[e.pod])),
              Rank(e.phase) <= Rank(pod[e.pod].phase)
       PROVE  Below(e, El(deltas'[e.pod])) /\ Rank(e.phase) <= Rank(pod'[e.pod].phase)
  <2>1. Rank(e.phase) <= Rank(pod'[e.pod].phase) BY <1>5, <1>11, Ranks
  <2>2. CASE e.pod # p BY <1>8, <1>11, <2>1, <2>2
  <2>3. CASE e.pod = p BY <1>3, <1>7, <1>11, <2>1, <2>3 DEF Below
  <2> QED BY <2>2, <2>3
<1>12. QueueRises'
  <2>1. \A e \in El(queue) : /\ e.pod \in Pod /\ Below(e, El(deltas[e.pod]))
                             /\ Rank(e.phase) <= Rank(pod[e.pod].phase)
        BY ElTypes DEF Flow, QueueRises
  <2>2. \A e \in El(queue) : /\ Below(e, El(deltas'[e.pod]))
                             /\ Rank(e.phase) <= Rank(pod'[e.pod].phase)
        BY <1>11, <2>1
  <2>3. /\ Rises(queue)' /\ El(queue)' = El(queue) BY <1>1 DEF Flow, QueueRises, Rises, El
  <2>4. \A e \in El(queue) : ~hasConfigError(e) BY DEF Flow, QueueRises
  <2> QED BY <2>2, <2>3, <2>4 DEF QueueRises, hasConfigError
<1>13. WorkerLow'
  <2> SUFFICES ASSUME worker.pc # "idle" PROVE WorkerLow' BY <1>1 DEF WorkerLow
  <2>1. worker.event.pod \in Pod BY DEF PInv, WorkerType, PodEvent
  <2>2. /\ Below(worker.event, El(deltas[worker.event.pod]))
        /\ Rank(worker.event.phase) <= Rank(pod[worker.event.pod].phase)
        BY DEF Flow, WorkerLow
  <2>3. /\ Below(worker.event, El(deltas'[worker.event.pod]))
        /\ Rank(worker.event.phase) <= Rank(pod'[worker.event.pod].phase)
        BY <1>11, <2>1, <2>2
  <2> QED BY <1>1, <2>3 DEF Flow, WorkerLow, El
<1>14. EndIsLast'
  <2> SUFFICES ASSUME NEW q \in Pod, Ended(q)'
               PROVE  /\ pod'[q].phase \in Terminal
                      /\ \A e \in El(queue') \cup El(deltas'[q]) : e.pod = q => e.phase \in Terminal
                      /\ ~(worker'.pc = "started" /\ worker'.event.pod = q)
      BY DEF EndIsLast, El
  <2>1. Ended(q) BY <1>1 DEF Ended, El
  <2>2. q # p BY <1>2, <2>1 DEF EndIsLast
  <2> QED BY <1>1, <1>2, <1>8, <2>1, <2>2 DEF EndIsLast
<1> QED BY <1>1, <1>9, <1>10, <1>12, <1>13, <1>14 DEF Flow

\* The watcher hands on the oldest snapshot, if its phase is a new one.
LEMMA WatchKeepsOrder ==
    ASSUME PInv, PInv', Flow, EndIsLast, NEW p \in Pod, WatchPod(p)
    PROVE  Flow' /\ EndIsLast'
<1> DEFINE new == Head(deltas[p])
           event == Event(new)
<1>1. /\ deltas[p] # <<>> /\ deltas' = [deltas EXCEPT ![p] = Tail(deltas[p])]
      /\ seen' = [seen EXCEPT ![p] = new.phase]
      /\ queue' = IF seen[p] # new.phase THEN Append(queue, event) ELSE queue
      /\ UNCHANGED <<pod, warnings, worker, sending, channel, heard>>
      BY Groups DEF WatchPod, IsPushed
<1>2. deltas[p] \in Seq(Snapshot) /\ queue \in Seq(PodEvent) BY DEF PInv, DeltaType, QueueType
<1>3. /\ Rises(Tail(deltas[p])) /\ Below(new, El(Tail(deltas[p])))
      /\ El(Tail(deltas[p])) \subseteq El(deltas[p]) /\ new \in El(deltas[p])
      /\ new = deltas[p][1] /\ new \in Snapshot
  <2>1. Rises(deltas[p]) BY DEF Flow, DeltasRise
  <2> QED BY <1>1, <1>2, <2>1, RisesTail, TailFacts
<1>4. /\ event \in PodEvent /\ event.pod = p /\ event.phase = new.phase
      /\ event.configError = new.configError /\ new.pod = p /\ new.phase \in Phase
      /\ Rank(new.phase) <= Rank(pod[p].phase)
  <2>1. new.pod = p /\ Rank(new.phase) <= Rank(pod[p].phase)
        BY <1>3 DEF Flow, DeltasRise
  <2>2. new.phase \in Phase BY <1>3 DEF Snapshot
  <2> QED BY <1>3, <2>1, <2>2, EventType
<1> HIDE DEF new, event
<1>5. /\ deltas'[p] = Tail(deltas[p]) /\ \A q \in Pod \ {p} : deltas'[q] = deltas[q]
      /\ \A q \in Pod : El(deltas'[q]) \subseteq El(deltas[q])
  <2>1. deltas'[p] = Tail(deltas[p]) /\ \A q \in Pod \ {p} : deltas'[q] = deltas[q]
        BY <1>1 DEF PInv, DeltaType
  <2> QED BY <1>3, <2>1
<1>6. DeltasRise'
  <2> SUFFICES ASSUME NEW q \in Pod
               PROVE  /\ Rises(deltas'[q])
                      /\ \A e \in El(deltas'[q]) :
                            e.pod = q /\ Rank(e.phase) <= Rank(pod[q].phase)
      BY <1>1 DEF DeltasRise
  <2>1. Rises(deltas'[q]) BY <1>3, <1>5 DEF Flow, DeltasRise
  <2> QED BY <1>5, <2>1 DEF Flow, DeltasRise
<1>7. SeenFirst'
  <2> SUFFICES ASSUME NEW q \in Pod
               PROVE  IF seen'[q] = "none" THEN deltas'[q] # <<>> /\ ~deltas'[q][1].configError
                      ELSE /\ Rank(seen'[q]) <= Rank(pod[q].phase)
                           /\ \A e \in El(deltas'[q]) : Rank(seen'[q]) <= Rank(e.phase)
      BY <1>1 DEF SeenFirst
  <2>0. SeenType BY DEF PInv
  <2>1. CASE q # p
    <3>1. seen'[q] = seen[q] /\ deltas'[q] = deltas[q] BY <1>1, <1>5, <2>0, <2>1 DEF SeenType
    <3> QED BY <3>1 DEF Flow, SeenFirst
  <2>2. CASE q = p
    <3>1. seen'[p] = new.phase /\ new.phase # "none"
          BY <1>1, <1>4, <2>0 DEF SeenType, Phase, Terminal
    <3>2. \A e \in El(deltas'[p]) : Rank(new.phase) <= Rank(e.phase)
          BY <1>3, <1>4, <1>5, <1>6 DEF Below, DeltasRise
    <3> QED BY <1>4, <2>2, <3>1, <3>2
  <2> QED BY <2>1, <2>2
\* What is pushed is no error of configuration: the add comes before it.
<1>8. ASSUME seen[p] # new.phase PROVE ~hasConfigError(event)
  <2> SUFFICES ASSUME new.phase = "Pending", new.configError PROVE FALSE
      BY <1>4 DEF hasConfigError
  <2>1. seen[p] # "none" BY <1>3 DEF Flow, SeenFirst
  <2>2. Rank(seen[p]) <= Rank(new.phase) BY <1>3, <2>1 DEF Flow, SeenFirst
  <2>3. Rank(new.phase) = 0 BY DEF Rank
  <2>4. Rank(seen[p]) = 0 BY <2>2, <2>3, Ranks
  <2>5. seen[p] = "Pending" BY <2>4 DEF Rank
  <2> QED BY <1>8, <2>5
<1>9. /\ Rises(queue') /\ El(queue) \subseteq El(queue') /\ El(queue') \subseteq El(queue) \cup {event}
      /\ event \in El(queue') /\ event \notin El(queue) => ~hasConfigError(event)
  <2>1. Rises(queue) BY DEF Flow, QueueRises
  <2>2. CASE seen[p] = new.phase BY <1>1, <2>1, <2>2
  <2>3. CASE seen[p] # new.phase
    <3>1. \A e \in El(queue) : e.pod = event.pod => Rank(e.phase) <= Rank(event.phase)
          BY <1>3, <1>4 DEF Flow, QueueRises, Below
    <3>2. Rises(Append(queue, event)) /\ El(Append(queue, event)) = El(queue) \cup {event}
          BY <1>2, <1>4, <2>1, <3>1, RisesAppend
    <3> QED BY <1>1, <1>8, <2>3, <3>2
  <2> QED BY <2>2, <2>3
<1>10. QueueRises'
  <2>1. ASSUME NEW e \in El(queue')
        PROVE  /\ Below(e, El(deltas'[e.pod])) /\ ~hasConfigError(e)
               /\ Rank(e.phase) <= Rank(pod[e.pod].phase)
    <3>1. CASE e \in El(queue)
      <4>1. /\ Below(e, El(deltas[e.pod])) /\ ~hasConfigError(e)
            /\ Rank(e.phase) <= Rank(pod[e.pod].phase) /\ e.pod \in Pod
            BY <3>1, ElTypes DEF Flow, QueueRises
      <4> QED BY <1>5, <4>1 DEF Below
    <3>2. CASE e \notin El(queue)
      <4>1. e = event /\ ~hasConfigError(e) BY <1>9, <2>1, <3>2
      <4> QED BY <1>3, <1>4, <1>5, <4>1 DEF Below
    <3> QED BY <3>1, <3>2
  <2> QED BY <1>1, <1>9, <2>1 DEF QueueRises, Rises, El, hasConfigError
<1>11. WorkerLow'
  <2> SUFFICES ASSUME worker.pc # "idle" PROVE WorkerLow' BY <1>1 DEF WorkerLow
  <2>1. worker.event.pod \in Pod BY DEF PInv, WorkerType, PodEvent
  <2>2. Below(worker.event, El(deltas[worker.event.pod])) /\ Below(worker.event, El(queue))
        BY DEF Flow, WorkerLow
  <2>3. Below(worker.event, El(deltas'[worker.event.pod])) BY <1>5, <2>1, <2>2 DEF Below
  <2>4. Below(worker.event, El(queue')) BY <1>3, <1>4, <1>9, <2>2 DEF Below
  <2> QED BY <1>1, <2>3, <2>4 DEF Flow, WorkerLow, El
<1>12. EndIsLast'
  <2> SUFFICES ASSUME NEW q \in Pod, Ended(q)'
               PROVE  /\ pod[q].phase \in Terminal
                      /\ \A e \in El(queue') \cup El(deltas'[q]) : e.pod = q => e.phase \in Terminal
                      /\ ~(worker.pc = "started" /\ worker.event.pod = q)
      BY <1>1 DEF EndIsLast, El
  <2>1. Ended(q) BY <1>1 DEF Ended, El
  <2>2. event.pod = q => event.phase \in Terminal BY <1>3, <1>4, <2>1 DEF EndIsLast
  <2> QED BY <1>5, <1>9, <2>1, <2>2 DEF EndIsLast
<1> QED BY <1>1, <1>6, <1>7, <1>10, <1>11, <1>12 DEF Flow

\* A notification that is no start does not disturb the order of the starts, and one
\* that is no end does not end a pod.
LEMMA NotifyOrder ==
    ASSUME PInv, NEW p \in Pod, NEW status \in {"pending", "success", "failed", "pod"},
           Notify(p, status) \/ UNCHANGED sending, UNCHANGED <<channel, heard>>
    PROVE  /\ StartIsFirst => StartIsFirst'
           /\ \A q \in Pod : Ended(q)' => Ended(q) \/ (q = p /\ status \in {"success", "failed"})
<1>1. sending' \subseteq sending \cup {<<p, status>>} BY DEF Notify
<1>2. \A q \in Pod : <<p, status>> # <<q, "started">> OBVIOUS
<1>3. StartIsFirst => StartIsFirst' BY <1>1, <1>2 DEF StartIsFirst, El
<1>4. \A q \in Pod : <<p, status>> \in Ends(q) => q = p /\ status \in {"success", "failed"}
      BY DEF Ends
<1> QED BY <1>1, <1>3, <1>4 DEF Ended, El

\* The event loop goes on with its event, or is done with it.
LEMMA LoopKeepsFlow ==
    ASSUME PInv, Flow, EndIsLast, worker.pc # "idle",
           UNCHANGED <<pod, deltas, seen, warnings, queue>>,
           \/ worker'.pc = "idle"
           \/ worker'.pc \in {"duration", "mark"} /\ worker'.event = worker.event,
           NEW P \in SUBSET Pod, \A q \in Pod : Ended(q)' => Ended(q) \/ q \in P,
           \A q \in P : q = worker.event.pod /\ worker.event.phase \in Terminal
    PROVE  Flow' /\ EndIsLast'
<1>1. DeltasRise' /\ SeenFirst' /\ QueueRises'
      BY DEF Flow, DeltasRise, SeenFirst, QueueRises, Rises, El, Below, hasConfigError
<1>2. WorkerLow' BY DEF Flow, WorkerLow, El, Below
<1>3. EndIsLast'
  <2> SUFFICES ASSUME NEW q \in Pod, Ended(q)'
               PROVE  /\ pod[q].phase \in Terminal
                      /\ \A e \in El(queue) \cup El(deltas[q]) : e.pod = q => e.phase \in Terminal
                      /\ ~(worker'.pc = "started" /\ worker'.event.pod = q)
      BY DEF EndIsLast, El
  <2>1. worker'.pc # "started" OBVIOUS
  <2>2. CASE Ended(q) BY <2>1, <2>2 DEF EndIsLast
  <2>3. CASE q = worker.event.pod /\ worker.event.phase \in Terminal
    <3>1. Rank(worker.event.phase) = 2 BY <2>3 DEF Rank, Terminal
    <3>2. /\ Below(worker.event, El(queue)) /\ Below(worker.event, El(deltas[q]))
          /\ Rank(worker.event.phase) <= Rank(pod[q].phase)
          BY <2>3 DEF Flow, WorkerLow
    <3>3. \A phase \in Phase : 2 <= Rank(phase) => phase \in Terminal BY Ranks
    <3>4. /\ \A e \in El(queue) \cup El(deltas[q]) : e.phase \in Phase
          /\ pod[q].phase \in Phase
          BY ElTypes
    <3> QED BY <2>1, <2>3, <3>1, <3>2, <3>3, <3>4 DEF Below
  <2> QED BY <2>2, <2>3
<1> QED BY <1>1, <1>2, <1>3 DEF Flow

LEMMA TakeKeepsOrder ==
    ASSUME PInv, Flow, EndIsLast, StartIsFirst, Take
    PROVE  Flow' /\ EndIsLast' /\ StartIsFirst'
<1> DEFINE event == Head(queue)
<1>1. /\ queue # <<>> /\ queue' = Tail(queue) /\ queue \in Seq(PodEvent)
      /\ UNCHANGED <<pod, deltas, seen, warnings, channel, heard>>
      BY Groups DEF Take, PInv, QueueType
<1>2. /\ Rises(Tail(queue)) /\ Below(event, El(Tail(queue)))
      /\ El(Tail(queue)) \subseteq El(queue) /\ event \in El(queue)
  <2>1. Rises(queue) BY DEF Flow, QueueRises
  <2> QED BY <1>1, <2>1, RisesTail
<1>3. /\ event.pod \in Pod /\ event.phase \in Phase /\ ~hasConfigError(event)
      /\ Below(event, El(deltas[event.pod])) /\ Rank(event.phase) <= Rank(pod[event.pod].phase)
      BY <1>2, ElTypes DEF Flow, QueueRises
<1>4. /\ worker'.event = event
      /\ worker'.pc = "started" => event.phase = "Running"
      /\ worker'.pc = "outcome" => event.phase \in Terminal
      BY <1>3 DEF Take
<1>5. Notify(event.pod, "pending") \/ UNCHANGED sending BY DEF Take
<1>6. StartIsFirst' /\ \A q \in Pod : Ended(q)' => Ended(q)
      BY <1>1, <1>3, <1>5, NotifyOrder
<1> HIDE DEF event
<1>7. DeltasRise' /\ SeenFirst' BY <1>1 DEF Flow, DeltasRise, SeenFirst, Rises, El
<1>8. QueueRises'
  <2>1. \A e \in El(queue') : /\ Below(e, El(deltas[e.pod])) /\ ~hasConfigError(e)
                              /\ Rank(e.phase) <= Rank(pod[e.pod].phase)
        BY <1>1, <1>2 DEF Flow, QueueRises
  <2> QED BY <1>1, <1>2, <2>1 DEF QueueRises, Rises, El, hasConfigError, Below
<1>9. WorkerLow' BY <1>1, <1>2, <1>3, <1>4 DEF WorkerLow, El, Below
<1>10. EndIsLast'
  <2> SUFFICES ASSUME NEW q \in Pod, Ended(q)'
               PROVE  /\ pod[q].phase \in Terminal
                      /\ \A e \in El(queue') \cup El(deltas[q]) : e.pod = q => e.phase \in Terminal
                      /\ ~(worker'.pc = "started" /\ worker'.event.pod = q)
      BY <1>1 DEF EndIsLast, El
  <2>1. Ended(q) BY <1>6
  <2>2. event.pod = q => event.phase \in Terminal BY <1>2, <2>1 DEF EndIsLast
  <2>3. "Running" \notin Terminal BY DEF Terminal
  <2> QED BY <1>1, <1>2, <1>4, <2>1, <2>2, <2>3 DEF EndIsLast
<1> QED BY <1>1, <1>6, <1>7, <1>8, <1>9, <1>10 DEF Flow

\* The start goes to the channel while the loop holds its event, so before the end.
LEMMA StartKeepsOrder ==
    ASSUME PInv, Flow, EndIsLast, StartIsFirst, SendStarted,
           channel' = Append(channel, <<worker.event.pod, "started">>)
    PROVE  Flow' /\ EndIsLast' /\ StartIsFirst'
<1> DEFINE p == worker.event.pod
           x == <<p, "started">>
<1>1. /\ worker.pc = "started" /\ channel' = Append(channel, x)
      /\ worker' = [worker EXCEPT !.pc = "mark"]
      /\ UNCHANGED <<pod, deltas, seen, warnings, queue, sending, heard>>
      BY Groups DEF SendStarted
<1>2. p \in Pod /\ x \in Payload /\ channel \in Seq(Payload)
  <2>1. p \in Pod BY <1>1 DEF PInv, WorkerType, PodEvent
  <2> QED BY <2>1 DEF Payload, PInv, HookType
<1>3. El(channel') = El(channel) \cup {x} BY <1>1, <1>2, ElAppend
<1>4. \A q \in Pod : x \notin Ends(q) BY DEF Ends
<1>5. \A q \in Pod : Ended(q)' => Ended(q)
      BY <1>1, <1>3, <1>4 DEF Ended, El
<1>6. Ends(p) \cap (El(channel) \cup heard) = {}
  <2>1. ~Ended(p) BY <1>1, <1>2 DEF EndIsLast
  <2> QED BY <2>1 DEF Ended
<1>7. Flow' /\ EndIsLast'
  <2>1. worker'.pc = "mark" /\ worker'.event = worker.event
        BY <1>1, WorkerMoves DEF Pcs
  <2>2. /\ {} \in SUBSET Pod /\ \A q \in Pod : Ended(q)' => Ended(q) \/ q \in {}
        /\ \A q \in {} : q = worker.event.pod /\ worker.event.phase \in Terminal
        BY <1>5
  <2> QED BY ONLY PInv, Flow, EndIsLast, <1>1, <2>1, <2>2, LoopKeepsFlow
<1>8. StartIsFirst'
  <2>0. /\ Len(channel) \in Nat /\ Len(channel') = Len(channel) + 1
        /\ \A i \in 1..Len(channel) : channel'[i] = channel[i]
        /\ channel'[Len(channel) + 1] = x
        BY <1>1, <1>2, AppendFacts
  <2> HIDE DEF x, p
  <2>1. ASSUME NEW q \in Pod, NEW i \in 1..Len(channel'), NEW j \in 1..Len(channel'), i < j,
               channel'[j] = <<q, "started">>
        PROVE  channel'[i] \notin Ends(q)
    <3>1. i \in 1..Len(channel) /\ channel'[i] = channel[i] BY <2>0, <2>1
    <3>2. CASE j \in 1..Len(channel) BY <2>0, <2>1, <3>1, <3>2 DEF StartIsFirst
    <3>3. CASE j = Len(channel) + 1
      <4>1. q = p BY <2>0, <2>1, <3>3 DEF x
      <4>2. channel[i] \in El(channel) BY <3>1 DEF El
      <4> QED BY <1>6, <3>1, <4>1, <4>2
    <3> QED BY <2>0, <3>2, <3>3
  <2>2. ASSUME NEW q \in Pod, Ends(q) \cap heard # {} PROVE <<q, "started">> \notin El(channel')
    <3>1. <<q, "started">> \notin El(channel) BY <2>2 DEF StartIsFirst
    <3>2. q # p BY <1>6, <2>2
    <3> QED BY <1>3, <3>1, <3>2 DEF x
  <2> QED BY <1>1, <2>1, <2>2 DEF StartIsFirst, El
<1> QED BY <1>7, <1>8

LEMMA OutcomeKeepsOrder ==
    ASSUME PInv, Flow, EndIsLast, StartIsFirst,
           \/ TaskEnds \/ WriteDuration \/ WriteStatus \/ WriteFails
           \/ SendStarted /\ channel' = channel
    PROVE  Flow' /\ EndIsLast' /\ StartIsFirst'
<1>1. worker.pc # "idle" /\ UNCHANGED <<pod, deltas, seen, warnings, queue, channel, heard>>
      BY Groups DEF TaskEnds, WriteDuration, WriteStatus, WriteFails, SendStarted
<1>2. worker.event.pod \in Pod BY <1>1 DEF PInv, WorkerType, PodEvent
<1>3. CASE TaskEnds
  <2>1. /\ worker' = [worker EXCEPT !.pc = "duration"] /\ worker.event.phase \in Terminal
        /\ \E status \in {"success", "failed"} :
              Notify(worker.event.pod, status) \/ UNCHANGED sending
        BY <1>3 DEF TaskEnds
  <2>2. StartIsFirst' /\ \A q \in Pod : Ended(q)' => Ended(q) \/ q \in {worker.event.pod}
        BY <1>1, <1>2, <2>1, NotifyOrder
  <2>3. worker'.pc = "duration" /\ worker'.event = worker.event
        BY <1>1, <2>1, WorkerMoves DEF Pcs
  <2>4. /\ {worker.event.pod} \in SUBSET Pod
        /\ \A q \in {worker.event.pod} : q = worker.event.pod /\ worker.event.phase \in Terminal
        BY <1>2, <2>1
  <2> QED BY ONLY PInv, Flow, EndIsLast, <1>1, <2>2, <2>3, <2>4, LoopKeepsFlow
<1>4. CASE \/ WriteDuration \/ WriteStatus \/ WriteFails
           \/ SendStarted /\ channel' = channel
  <2>1. Notify(worker.event.pod, "pod") \/ UNCHANGED sending
        BY <1>4, Groups DEF WriteDuration, WriteStatus, WriteFails, SendStarted
  <2>2. StartIsFirst' /\ \A q \in Pod : Ended(q)' => Ended(q) \/ q \in {}
        BY <1>1, <1>2, <2>1, NotifyOrder
  <2>3. \/ worker'.pc = "idle"
        \/ worker'.pc \in {"duration", "mark"} /\ worker'.event = worker.event
    <3>1. CASE worker' = Idle BY <3>1 DEF Idle
    <3>2. CASE worker' = [worker EXCEPT !.pc = "mark"]
          BY <1>1, <3>2, WorkerMoves DEF Pcs
    <3>3. CASE worker.pc = "mark" /\ worker' = [worker EXCEPT !.attempt = worker.attempt + 1]
          BY <3>3 DEF PInv, WorkerType
    <3> QED BY <1>4, <3>1, <3>2, <3>3 DEF WriteDuration, WriteStatus, WriteFails, SendStarted
  <2>4. /\ {} \in SUBSET Pod
        /\ \A q \in {} : q = worker.event.pod /\ worker.event.phase \in Terminal
        OBVIOUS
  <2> QED BY ONLY PInv, Flow, EndIsLast, <1>1, <2>2, <2>3, <2>4, LoopKeepsFlow
<1> QED BY <1>3, <1>4

\* Steps that leave the way to the event loop alone.
LEMMA WebhookKeepsFlow ==
    ASSUME Flow, EndIsLast, UNCHANGED <<pod, deltas, seen, warnings, queue, worker>>,
           \A q \in Pod : Ended(q)' => Ended(q)
    PROVE  Flow' /\ EndIsLast'
<1>1. Flow' BY DEF Flow, DeltasRise, SeenFirst, QueueRises, WorkerLow, Rises, El, Below,
               hasConfigError
<1>2. EndIsLast' BY DEF EndIsLast, El
<1> QED BY <1>1, <1>2

LEMMA BackgroundKeepsOrder ==
    ASSUME PInv, Flow, EndIsLast, StartIsFirst, BackgroundSend
    PROVE  Flow' /\ EndIsLast' /\ StartIsFirst'
<1>1. PICK m \in sending : sending' = sending \ {m} /\ channel' = Append(channel, m)
      BY DEF BackgroundSend
<1>2. UNCHANGED <<pod, deltas, seen, warnings, queue, worker, heard>>
      BY Groups DEF BackgroundSend
<1>3. m \in Payload /\ channel \in Seq(Payload) BY DEF PInv, HookType
<1>4. El(channel') = El(channel) \cup {m} BY <1>1, <1>3, ElAppend
<1>5. \A q \in Pod : Ended(q)' => Ended(q) BY <1>1, <1>2, <1>4 DEF Ended, Ends, El
<1>6. Flow' /\ EndIsLast' BY <1>2, <1>5, WebhookKeepsFlow
<1>7. \A q \in Pod : m # <<q, "started">> BY DEF StartIsFirst
<1>8. StartIsFirst'
  <2>0. /\ Len(channel) \in Nat /\ Len(channel') = Len(channel) + 1
        /\ \A i \in 1..Len(channel) : channel'[i] = channel[i]
        /\ channel'[Len(channel) + 1] = m
        BY <1>1, <1>3, AppendFacts
  <2>1. ASSUME NEW q \in Pod, NEW i \in 1..Len(channel'), NEW j \in 1..Len(channel'), i < j,
               channel'[j] = <<q, "started">>
        PROVE  channel'[i] \notin Ends(q)
    <3>1. i \in 1..Len(channel) /\ channel'[i] = channel[i] BY <2>0, <2>1
    <3>2. j # Len(channel) + 1 BY <1>7, <2>0, <2>1
    <3>3. j \in 1..Len(channel) BY <2>0, <3>2
    <3> QED BY <2>0, <2>1, <3>1, <3>3 DEF StartIsFirst
  <2>2. ASSUME NEW q \in Pod, Ends(q) \cap heard # {} PROVE <<q, "started">> \notin El(channel')
        BY <1>4, <1>7, <2>2 DEF StartIsFirst
  <2> QED BY <1>1, <1>2, <2>1, <2>2 DEF StartIsFirst, El
<1> QED BY <1>6, <1>8

LEMMA ListenKeepsOrder ==
    ASSUME PInv, Flow, EndIsLast, StartIsFirst, Listen \/ DialHangs
    PROVE  Flow' /\ EndIsLast' /\ StartIsFirst'
<1>1. /\ channel # <<>> /\ channel' = Tail(channel)
      /\ heard' \subseteq heard \cup {Head(channel)}
      /\ UNCHANGED <<pod, deltas, seen, warnings, queue, worker, sending>>
      BY Groups DEF Listen, Hears, DialHangs
<1>2. /\ Len(channel) \in Nat /\ Len(channel) >= 1 /\ Len(channel') = Len(channel) - 1
      /\ \A i \in 1..(Len(channel) - 1) : channel'[i] = channel[i + 1]
      /\ Head(channel) = channel[1]
      BY <1>1, TailFacts DEF PInv, HookType
<1>3. 1 \in 1..Len(channel) /\ \A i \in 1..Len(channel') : i + 1 \in 1..Len(channel) /\ 1 < i + 1
      BY <1>2
<1>4. Head(channel) \in El(channel) BY <1>2, <1>3 DEF El
<1>5. \A m \in El(channel') : \E i \in 1..Len(channel) : 1 < i /\ m = channel[i]
  <2> TAKE m \in El(channel')
  <2>1. PICK i \in 1..Len(channel') : m = channel'[i] BY DEF El
  <2> QED BY <1>2, <1>3, <2>1
<1>6. El(channel') \subseteq El(channel) BY <1>5 DEF El
<1>7. \A q \in Pod : Ended(q)' => Ended(q)
      BY <1>1, <1>4, <1>6 DEF Ended, Ends, El
<1>8. Flow' /\ EndIsLast' BY <1>1, <1>7, WebhookKeepsFlow
<1>9. StartIsFirst'
  <2>1. ASSUME NEW q \in Pod, NEW i \in 1..Len(channel'), NEW j \in 1..Len(channel'), i < j,
               channel'[j] = <<q, "started">>
        PROVE  channel'[i] \notin Ends(q)
    <3>1. i + 1 < j + 1 /\ channel[j + 1] = <<q, "started">> /\ channel'[i] = channel[i + 1]
          BY <1>2, <2>1
    <3> QED BY <1>3, <3>1 DEF StartIsFirst
  <2>2. ASSUME NEW q \in Pod, Ends(q) \cap heard' # {} PROVE <<q, "started">> \notin El(channel')
    <3>1. CASE Ends(q) \cap heard # {} BY <1>6, <3>1 DEF StartIsFirst
    <3>2. CASE channel[1] \in Ends(q) BY <1>3, <1>5, <3>2 DEF StartIsFirst
    <3> QED BY <1>1, <1>2, <2>2, <3>1, <3>2
  <2> QED BY <1>1, <2>1, <2>2 DEF StartIsFirst, El
<1> QED BY <1>8, <1>9

LEMMA NextO == PInv /\ PInv' /\ OInv /\ [Next]_vars => OInv'
<1> SUFFICES ASSUME PInv, PInv', OInv, [Next]_vars, warned' = 0
             PROVE  Flow' /\ EndIsLast' /\ StartIsFirst'
    BY DEF OInv
<1> USE Groups
<1>0. warned \in Nat BY DEF PInv, WarnType
<1>1. warned = 0 /\ ~(\E p \in Pod : WarningFetches(p))
  <2>1. ~(\E p \in Pod : WarningFetches(p)) BY <1>0 DEF WarningFetches
  <2>2. (\E p \in Pod : PodChanges(p) \/ WatchPod(p)) => warned' = warned
        BY DEF PodChanges, WatchPod
  <2>3. Tick \/ WarningPushes \/ Take \/ SendStarted \/ TaskEnds => warned' = warned
        BY DEF Tick, WarningPushes, Take, SendStarted, TaskEnds
  <2>4. \/ ConfigError \/ WriteDuration \/ WriteStatus \/ WriteFails \/ BackgroundSend
        \/ Listen \/ DialHangs
        => warned' = warned
        BY DEF ConfigError, WriteDuration, WriteStatus, WriteFails, BackgroundSend, Listen,
               DialHangs
  <2>5. UNCHANGED vars => warned' = warned BY DEF all
  <2> QED BY <2>1, <2>2, <2>3, <2>4, <2>5 DEF Next
<1>2. Flow /\ EndIsLast /\ StartIsFirst BY <1>1 DEF OInv
<1>3. ~WarningPushes BY <1>2 DEF Flow, WarningPushes
<1>4. ~ConfigError
  <2>1. "Pending" \notin Terminal BY DEF Terminal
  <2> QED BY <1>2, <2>1 DEF ConfigError, Flow, WorkerLow
<1>5. ASSUME UNCHANGED <<sending, channel, heard>> PROVE StartIsFirst'
      BY <1>2, <1>5 DEF StartIsFirst, El
<1>6. CASE Tick \/ UNCHANGED vars
  <2>1. /\ UNCHANGED <<pod, deltas, seen, warnings, queue, worker>>
        /\ UNCHANGED <<sending, channel, heard>>
        BY <1>6 DEF Tick, all
  <2>2. \A q \in Pod : Ended(q)' => Ended(q) BY <2>1 DEF Ended, El
  <2> QED BY <1>2, <1>5, <2>1, <2>2, WebhookKeepsFlow
<1>7. ASSUME NEW p \in Pod, PodChanges(p) PROVE Flow' /\ EndIsLast' /\ StartIsFirst'
  <2>1. UNCHANGED <<sending, channel, heard>> BY <1>7 DEF PodChanges
  <2> QED BY <1>2, <1>5, <1>7, <2>1, ChangeKeepsOrder
<1>8. ASSUME NEW p \in Pod, WatchPod(p) PROVE Flow' /\ EndIsLast' /\ StartIsFirst'
  <2>1. UNCHANGED <<sending, channel, heard>> BY <1>8 DEF WatchPod
  <2> QED BY <1>2, <1>5, <1>8, <2>1, WatchKeepsOrder
<1>9. CASE Take BY <1>2, <1>9, TakeKeepsOrder
<1>10. CASE SendStarted
  <2>1. channel' = channel \/ channel' = Append(channel, <<worker.event.pod, "started">>)
        BY <1>10 DEF SendStarted
  <2> QED BY <1>2, <1>10, <2>1, StartKeepsOrder, OutcomeKeepsOrder
<1>11. CASE TaskEnds \/ WriteDuration \/ WriteStatus \/ WriteFails
       BY <1>2, <1>11, OutcomeKeepsOrder
<1>12. CASE BackgroundSend BY <1>2, <1>12, BackgroundKeepsOrder
<1>13. CASE Listen \/ DialHangs BY <1>2, <1>13, ListenKeepsOrder
<1> QED BY <1>1, <1>3, <1>4, <1>6, <1>7, <1>8, <1>9, <1>10, <1>11, <1>12, <1>13 DEF Next

LEMMA InitO == Init => OInv
<1> SUFFICES ASSUME Init PROVE Flow /\ EndIsLast /\ StartIsFirst BY DEF OInv
<1> DEFINE first(p) == [pod |-> p, phase |-> "Pending", configError |-> FALSE,
                        finished |-> FALSE, finishedAt |-> 0, long |-> FALSE]
<1>1. \A p \in Pod : /\ deltas[p] = <<first(p)>> /\ pod[p].phase = "Pending"
                     /\ seen[p] = "none"
      BY DEF Init
<1>2. /\ warnings = {} /\ queue = <<>> /\ worker.pc = "idle"
      /\ sending = {} /\ channel = <<>> /\ heard = {}
      BY DEF Init, Idle
<1>3. El(queue) = {} /\ El(channel) = {} /\ Rises(queue) BY <1>2 DEF El, Rises
<1>4. \A p \in Pod : /\ Len(deltas[p]) = 1 /\ deltas[p][1] = first(p)
                     /\ deltas[p] # <<>>
  <2>1. \A x : Len(<<x>>) = 1 /\ <<x>>[1] = x /\ <<x>> # <<>> OBVIOUS
  <2> TAKE p \in Pod
  <2>2. deltas[p] = <<first(p)>> BY <1>1
  <2> HIDE DEF first
  <2> QED BY <2>1, <2>2
<1>5. \A p \in Pod : El(deltas[p]) = {first(p)} /\ Rises(deltas[p])
  <2> TAKE p \in Pod
  <2>0. 1..1 = {1} OBVIOUS
  <2>1. 1..Len(deltas[p]) = {1} BY <1>4, <2>0
  <2> HIDE DEF first
  <2> QED BY <1>4, <2>1 DEF El, Rises
<1>6. \A p \in Pod : first(p).pod = p /\ first(p).phase = "Pending" /\ ~first(p).configError
      OBVIOUS
<1> HIDE DEF first
<1>7. DeltasRise
  <2>1. Rank("Pending") <= Rank("Pending") BY Ranks
  <2>2. \A p \in Pod : \A e \in El(deltas[p]) : e.pod = p /\ e.phase = "Pending"
        BY <1>5, <1>6
  <2>3. \A p \in Pod : \A e \in El(deltas[p]) : Rank(e.phase) <= Rank(pod[p].phase)
        BY <1>1, <2>1, <2>2
  <2> QED BY <1>5, <2>2, <2>3 DEF DeltasRise
<1>8. SeenFirst BY <1>1, <1>4, <1>6 DEF SeenFirst
<1>9. QueueRises /\ WorkerLow BY <1>2, <1>3 DEF QueueRises, WorkerLow
<1>10. EndIsLast BY <1>2, <1>3 DEF EndIsLast, Ended
<1>11. StartIsFirst BY <1>2, <1>3 DEF StartIsFirst
<1> QED BY <1>2, <1>7, <1>8, <1>9, <1>10, <1>11 DEF Flow

\* While no Warning was seen, no start of a pod is in the channel once the webhook
\* manager took its success or its failure: the phases of a pod rise all the way to
\* the event loop, and the loop sends the start before it goes on, while any goroutine
\* that carries the end was begun later.
THEOREM StartedFirst == Spec => []StartedComesFirst
<1>1. Spec => [](PInv /\ OInv)
  <2>1. PInv /\ OInv /\ PInv' /\ [Next]_vars => OInv' BY NextO
  <2> QED BY <2>1, InitO, AlwaysTyped, PTL DEF Spec
<1>2. Init => HeardEnds BY DEF Init, HeardEnds
<1>3. HeardEnds /\ PInv /\ [Next]_vars => HeardEnds'
  <2> SUFFICES ASSUME HeardEnds, PInv, [Next]_vars PROVE HeardEnds' OBVIOUS
  <2>1. CASE Listen
    <3>1. Head(channel) \in Payload BY <2>1, TailFacts DEF PInv, HookType, Listen
    <3>2. PICK q \in Pod, status \in {"pending", "started", "success", "failed", "pod"} :
              Head(channel) = <<q, status>>
          BY <3>1 DEF Payload
    <3>3. Head(channel)[2] \in {"success", "failed"} => Head(channel) \in Ends(q)
          BY <3>2 DEF Ends
    <3>4. heard' = heard \cup {m \in {Head(channel)} : m[2] \in {"success", "failed"}}
          BY <2>1 DEF Listen, Hears
    <3> SUFFICES ASSUME NEW m \in heard' PROVE \E p \in Pod : m \in Ends(p)
        BY DEF HeardEnds, Ends
    <3>5. CASE m \in heard BY <3>5 DEF HeardEnds
    <3>6. CASE m = Head(channel) /\ Head(channel)[2] \in {"success", "failed"}
          BY <3>3, <3>6
    <3> QED BY <3>4, <3>5, <3>6
  <2>2. CASE ~Listen
    <3>1. heard' = heard
          BY <2>2, Groups DEF Next, all, Tick, PodChanges, WatchPod, WarningFetches,
             WarningPushes, Take, SendStarted, TaskEnds, ConfigError, WriteDuration,
             WriteStatus, WriteFails, BackgroundSend, DialHangs
    <3> QED BY <3>1 DEF HeardEnds
  <2> QED BY <2>1, <2>2
<1>4. PInv /\ OInv /\ HeardEnds => StartedComesFirst
  <2> SUFFICES ASSUME PInv, OInv, HeardEnds, warned = 0, NEW m \in heard,
                      NEW i \in DOMAIN channel
               PROVE  channel[i] # <<m[1], "started">>
      BY DEF StartedComesFirst
  <2>1. PICK p \in Pod : m \in Ends(p) BY DEF HeardEnds
  <2>2. m[1] = p BY <2>1 DEF Ends
  <2>3. channel[i] \in El(channel) BY DEF El, PInv, HookType
  <2> QED BY <2>1, <2>2, <2>3 DEF OInv, StartIsFirst
<1> QED BY <1>1, <1>2, <1>3, <1>4, PTL DEF Spec

-----------------------------------------------------------------------------
(* What is written of the end of a pod.  The informer tells the end of a   *)
(* pod last and once; every event that says the pod has ended says it as   *)
(* the pod does.                                                            *)

\* The times of an ended container, in the pod and in what is told of it.
Times(r) == <<r.finished, r.finishedAt, r.long>>

Shape(p) ==
    /\ \A i \in 1..Len(deltas[p]) :
          /\ deltas[p][i].pod = p
          /\ deltas[p][i].phase \in Terminal =>
                /\ i = Len(deltas[p]) /\ deltas[p][i].phase = pod[p].phase
                /\ Times(deltas[p][i]) = Times(pod[p])
    /\ pod[p].phase \in Terminal =>
          IF deltas[p] = <<>> THEN seen[p] \in Terminal
                              ELSE deltas[p][Len(deltas[p])].phase \in Terminal
    /\ seen[p] \in Terminal => deltas[p] = <<>> /\ pod[p].phase \in Terminal
    /\ seen[p] = "none" => /\ deltas[p] # <<>> /\ deltas[p][1].phase = "Pending"
                           /\ deltas[p][1].configError = FALSE

\* The event in the event loop's hands.
Held == IF worker.pc = "idle" THEN {} ELSE {worker.event}

Exact(e) == e.phase \in Terminal =>
    pod[e.pod].phase = e.phase /\ Times(pod[e.pod]) = Times(e)

SInv == /\ \A p \in Pod : Shape(p)
        /\ \A e \in El(queue) \cup Held \cup warnings : Exact(e)

LEMMA HeldTypes ==
    ASSUME PInv
    PROVE  /\ \A e \in Held : e \in PodEvent /\ e.pod \in Pod /\ e.phase \in Phase
           /\ \A e \in warnings : e \in Snapshot /\ e.pod \in Pod /\ e.phase \in Phase
<1>1. worker.pc # "idle" => worker.event \in PodEvent BY DEF PInv, WorkerType
<1>2. \A e \in warnings : e \in Snapshot BY DEF PInv, WarnType
<1>3. \A e \in PodEvent : e.pod \in Pod /\ e.phase \in Phase BY DEF PodEvent
<1>4. \A e \in Snapshot : e.pod \in Pod /\ e.phase \in Phase BY DEF Snapshot
<1> QED BY <1>1, <1>2, <1>3, <1>4 DEF Held

\* What the steps do to the pods, to the informer and to the queue.
LEMMA ChangeEffect ==
    ASSUME PInv, PInv', NEW p \in Pod, PodChanges(p)
    PROVE  /\ pod[p].phase \in {"Pending", "Running"}
           /\ \A q \in Pod \ {p} : pod'[q] = pod[q] /\ deltas'[q] = deltas[q]
           /\ \E v \in Snapshot :
                /\ deltas'[p] = Append(deltas[p], v) /\ v.pod = p
                /\ v.phase = pod'[p].phase /\ Times(v) = Times(pod'[p])
           /\ deltas[p] \in Seq(Snapshot)
           /\ UNCHANGED <<backend, clock, seen, warnings, warned, queue, worker, taskPods,
                          lost, untimed>>
<1>1. PodType /\ DeltaType /\ PodType' BY DEF PInv
<1>2. pod[p].phase \in {"Pending", "Running"}
      BY <1>1 DEF PodChanges, PodType, PodRecord, Phase
<1>3. \A q \in Pod \ {p} : pod'[q] = pod[q] BY <1>1 DEF PodChanges, PodType
<1>4. \A q \in Pod \ {p} : deltas'[q] = deltas[q] BY <1>1 DEF PodChanges, DeltaType
<1>5. PICK v : v = View(p)' OBVIOUS
<1>6. /\ v \in Snapshot /\ v.pod = p
      /\ v.phase = pod'[p].phase /\ Times(v) = Times(pod'[p])
      BY <1>1, <1>5 DEF View, PodType, PodRecord, Snapshot, Times
<1>7. deltas'[p] = Append(deltas[p], v) /\ deltas[p] \in Seq(Snapshot)
      BY <1>1, <1>5 DEF PodChanges, DeltaType
<1>8. UNCHANGED <<backend, clock, seen, warnings, warned, queue, worker, taskPods, lost, untimed>>
      BY Groups DEF PodChanges
<1> QED BY <1>2, <1>3, <1>4, <1>6, <1>7, <1>8

LEMMA WatchEffect ==
    ASSUME PInv, NEW p \in Pod, WatchPod(p)
    PROVE  /\ deltas[p] # <<>> /\ deltas[p] \in Seq(Snapshot) /\ queue \in Seq(PodEvent)
           /\ deltas'[p] = Tail(deltas[p]) /\ seen'[p] = deltas[p][1].phase
           /\ \A q \in Pod \ {p} : deltas'[q] = deltas[q] /\ seen'[q] = seen[q]
           /\ deltas[p][1] \in Snapshot
           /\ \E e \in PodEvent :
                /\ e.pod = deltas[p][1].pod /\ e.phase = deltas[p][1].phase
                /\ e.configError = deltas[p][1].configError /\ e.stamp = clock
                /\ Times(e) = Times(deltas[p][1])
                /\ queue' = IF seen[p] # deltas[p][1].phase THEN Append(queue, e) ELSE queue
           /\ UNCHANGED <<backend, clock, pod, warnings, warned, worker, taskPods, lost, untimed>>
<1>1. DeltaType /\ SeenType /\ QueueType BY DEF PInv
<1>2. deltas[p] # <<>> /\ deltas[p] \in Seq(Snapshot) BY <1>1 DEF WatchPod, DeltaType
<1>3. Head(deltas[p]) = deltas[p][1] /\ Head(deltas[p]) \in Snapshot BY <1>2, TailFacts
<1>4. PICK e : e = Event(Head(deltas[p])) OBVIOUS
<1>5. /\ e \in PodEvent /\ e.pod = deltas[p][1].pod /\ e.phase = deltas[p][1].phase
      /\ e.configError = deltas[p][1].configError
      BY <1>3, <1>4, EventType
<1>6. Times(e) = Times(deltas[p][1]) /\ e.stamp = clock BY <1>3, <1>4 DEF Event, Times
<1>7. queue' = IF seen[p] # deltas[p][1].phase THEN Append(queue, e) ELSE queue
      BY <1>3, <1>4 DEF WatchPod, IsPushed
<1>8. deltas'[p] = Tail(deltas[p]) /\ \A q \in Pod \ {p} : deltas'[q] = deltas[q]
      BY <1>1 DEF WatchPod, DeltaType
<1>9. seen'[p] = deltas[p][1].phase /\ \A q \in Pod \ {p} : seen'[q] = seen[q]
      BY <1>1, <1>3 DEF WatchPod, SeenType
<1>10. UNCHANGED <<backend, clock, pod, warnings, warned, worker, taskPods, lost, untimed>>
      BY Groups DEF WatchPod
<1> QED BY <1>1, <1>2, <1>3, <1>5, <1>6, <1>7, <1>8, <1>9, <1>10 DEF QueueType

LEMMA TakeEffect ==
    ASSUME PInv, Take
    PROVE  /\ queue # <<>> /\ queue \in Seq(PodEvent) /\ queue' = Tail(queue)
           /\ Held = {} /\ worker'.event = queue[1] /\ worker'.pc # "idle"
           /\ queue[1].phase \in Terminal => worker'.pc = "outcome"
           /\ Held' = {queue[1]} /\ El(queue) = El(queue') \cup {queue[1]}
           /\ UNCHANGED <<backend, clock, pod, deltas, seen, warnings, warned, taskPods, lost,
                          untimed>>
<1>1. queue # <<>> /\ queue \in Seq(PodEvent) /\ queue' = Tail(queue)
      BY DEF Take, PInv, QueueType
<1>2. /\ Len(queue) \in Nat /\ Len(queue) >= 1 /\ Len(Tail(queue)) = Len(queue) - 1
      /\ \A i \in 1..(Len(queue) - 1) : Tail(queue)[i] = queue[i + 1]
      /\ Head(queue) = queue[1]
      BY <1>1, TailFacts
<1>3. /\ worker.pc = "idle" /\ worker'.event = queue[1] /\ worker'.pc # "idle"
      /\ queue[1].phase \in Terminal => worker'.pc = "outcome"
  <2>1. PICK e : e = Head(queue) OBVIOUS
  <2>2. PICK pc : pc = CASE e.phase \in Terminal -> "outcome"
                         [] e.phase = "Running"  -> "started"
                         [] hasConfigError(e)    -> "outcome"
                         [] OTHER                -> "mark"
        OBVIOUS
  <2>3. worker.pc = "idle" /\ worker' = [event |-> e, attempt |-> 0, pc |-> pc]
        BY <2>1, <2>2 DEF Take
  <2>4. pc # "idle" /\ (e.phase \in Terminal => pc = "outcome")
    <3>1. CASE e.phase \in Terminal BY <2>2, <3>1 DEF Terminal, hasConfigError
    <3>2. CASE e.phase \notin Terminal BY <2>2, <3>2
    <3> QED BY <3>1, <3>2
  <2> QED BY <1>2, <2>1, <2>3, <2>4
<1>4. El(queue) \subseteq El(queue') \cup {queue[1]}
  <2> SUFFICES ASSUME NEW i \in 1..Len(queue), i # 1 PROVE queue[i] \in El(queue')
      BY DEF El
  <2>1. i - 1 \in 1..(Len(queue) - 1) /\ (i - 1) + 1 = i BY <1>2
  <2> QED BY <1>1, <1>2, <2>1 DEF El
<1>5. El(queue') \cup {queue[1]} \subseteq El(queue)
  <2>1. 1 \in 1..Len(queue) BY <1>2
  <2>2. \A i \in 1..(Len(queue) - 1) : i + 1 \in 1..Len(queue) BY <1>2
  <2> QED BY <1>1, <1>2, <2>1, <2>2 DEF El
<1>6. UNCHANGED <<backend, clock, pod, deltas, seen, warnings, warned, taskPods, lost, untimed>>
      BY Groups DEF Take
<1> QED BY <1>1, <1>3, <1>4, <1>5, <1>6 DEF Held

\* A step of the event loop with an event in its hands.
LoopStep == \/ SendStarted \/ TaskEnds \/ WriteDuration \/ WriteStatus \/ WriteFails
            \/ ConfigError

LEMMA LoopEffect ==
    ASSUME PInv, LoopStep
    PROVE  /\ worker.pc # "idle" /\ Held = {worker.event} /\ worker.event.pod \in Pod
           /\ worker.event \in PodEvent /\ worker.event.phase \in Phase
           /\ \A p \in Pod : /\ pod'[p].phase = pod[p].phase
                             /\ Times(pod'[p]) = Times(pod[p])
           /\ lost \subseteq lost' /\ untimed \subseteq untimed'
           /\ UNCHANGED <<backend, clock, deltas, seen, warnings, warned, queue>>
<1> USE Groups
<1>1. worker.pc # "idle"
      BY DEF LoopStep, SendStarted, TaskEnds, WriteDuration, WriteStatus, WriteFails, ConfigError
<1>2. worker.event \in PodEvent BY <1>1 DEF PInv, WorkerType
<1>3. worker.event.pod \in Pod /\ worker.event.phase \in Phase BY <1>2 DEF PodEvent
<1>4. Held = {worker.event} BY <1>1 DEF Held
<1>5. /\ UNCHANGED <<backend, clock, deltas, seen, warnings, warned, queue>>
      /\ lost \subseteq lost' /\ untimed \subseteq untimed'
      BY DEF LoopStep, SendStarted, TaskEnds, WriteDuration, WriteStatus, WriteFails, ConfigError
<1>6. \A p \in Pod : pod'[p].phase = pod[p].phase /\ Times(pod'[p]) = Times(pod[p])
  <2>1. CASE ConfigError BY <1>3, <2>1 DEF ConfigError, PInv, PodType, PodRecord, Times
  <2>2. CASE SendStarted \/ TaskEnds \/ WriteDuration \/ WriteStatus \/ WriteFails
        BY <2>2 DEF SendStarted, TaskEnds, WriteDuration, WriteStatus, WriteFails
  <2> QED BY <2>1, <2>2 DEF LoopStep
<1> QED BY <1>1, <1>2, <1>3, <1>4, <1>5, <1>6

\* The event loop keeps its event until the row is written, or the retries are used up.
LEMMA HeldEffect ==
    ASSUME PInv
    PROVE  /\ SendStarted => /\ worker.pc = "started" /\ worker'.event = worker.event
                             /\ Held' = Held /\ worker'.pc = "mark" /\ UNCHANGED taskPods
           /\ TaskEnds => /\ worker.pc = "outcome" /\ worker'.event = worker.event
                          /\ Held' = Held /\ worker'.pc = "duration" /\ UNCHANGED taskPods
           /\ WriteDuration => /\ worker.pc = "duration" /\ worker'.event = worker.event
                               /\ Held' = Held /\ worker'.pc = "mark"
           /\ WriteStatus => \/ Held' = {} /\ worker'.pc = "idle"
                             \/ /\ worker'.event = worker.event /\ worker'.pc = worker.pc
                                /\ Held' = Held /\ taskPods' = taskPods
                                /\ Refused
           /\ ConfigError => Held' = {} /\ worker'.pc = "idle"
           /\ WriteFails => Held' = {} /\ worker'.pc = "idle" /\ UNCHANGED taskPods
<1> USE Groups
<1>1. CASE SendStarted
  <2>1. /\ worker.pc = "started" /\ worker' = [worker EXCEPT !.pc = "mark"]
        /\ UNCHANGED taskPods
        BY <1>1 DEF SendStarted
  <2>2. worker'.pc = "mark" /\ worker'.event = worker.event BY <2>1, WorkerMoves DEF Pcs
  <2> QED BY <2>1, <2>2 DEF Held, TaskEnds, WriteDuration, WriteStatus, WriteFails, ConfigError
<1>2. CASE TaskEnds
  <2>1. /\ worker.pc = "outcome" /\ worker' = [worker EXCEPT !.pc = "duration"]
        /\ UNCHANGED taskPods /\ worker.event.phase \in Terminal
        BY <1>2 DEF TaskEnds
  <2>2. worker'.pc = "duration" /\ worker'.event = worker.event BY <2>1, WorkerMoves DEF Pcs
  <2>3. ~ConfigError BY <2>1 DEF ConfigError, Terminal
  <2> QED BY <2>1, <2>2, <2>3 DEF Held, SendStarted, WriteDuration, WriteStatus, WriteFails
<1>3. CASE WriteDuration
  <2>1. worker.pc = "duration" /\ worker' = [worker EXCEPT !.pc = "mark"]
        BY <1>3 DEF WriteDuration
  <2>2. worker'.pc = "mark" /\ worker'.event = worker.event BY <2>1, WorkerMoves DEF Pcs
  <2> QED BY <2>1, <2>2 DEF Held, SendStarted, TaskEnds, WriteStatus, WriteFails, ConfigError
<1>4. CASE WriteStatus
  <2>1. worker.pc = "mark" BY <1>4 DEF WriteStatus
  <2>2. CASE worker' = Idle
        BY <2>1, <2>2 DEF Held, Idle, SendStarted, TaskEnds, WriteDuration, ConfigError, WriteFails
  <2>3. CASE worker' # Idle
    <3>1. /\ Refused /\ worker' = [worker EXCEPT !.attempt = worker.attempt + 1]
          /\ taskPods' = [taskPods EXCEPT ![worker.event.pod] =
                              MarkPodStatus(taskPods[worker.event.pod], worker.event.phase, outStamp)]
          BY <1>4, <2>3 DEF WriteStatus, Refused
    <3>2. taskPods' = taskPods BY <3>1 DEF Refused, MarkPodStatus, PInv, RowType
    <3>3. worker'.event = worker.event /\ worker'.pc = worker.pc
          BY <3>1 DEF PInv, WorkerType
    <3> QED BY <2>1, <3>1, <3>2, <3>3
            DEF Held, SendStarted, TaskEnds, WriteDuration, ConfigError, WriteFails, Idle
  <2> QED BY <2>2, <2>3
<1>5. CASE ConfigError
  <2>1. /\ worker.pc = "outcome" /\ worker' = Idle /\ worker.event.phase = "Pending"
        BY <1>5 DEF ConfigError
  <2>2. ~TaskEnds BY <2>1 DEF TaskEnds, Terminal
  <2> QED BY <2>1, <2>2 DEF Held, Idle, SendStarted, WriteDuration, WriteStatus, WriteFails
<1>6. CASE WriteFails
  <2>1. worker.pc = "mark" /\ worker' = Idle /\ UNCHANGED taskPods BY <1>6 DEF WriteFails
  <2>2. Held' = {} /\ worker'.pc = "idle" BY <2>1 DEF Held, Idle
  <2> QED BY <2>1, <2>2 DEF SendStarted, TaskEnds, WriteDuration, ConfigError
<1> QED BY <1>1, <1>2, <1>3, <1>4, <1>5, <1>6

\* What a write leaves in the row.
LEMMA MarkFacts ==
    ASSUME PInv, NEW row \in TheRow, NEW status \in Phase, NEW stamp \in Int, NEW after,
           after = MarkPodStatus(row, status, stamp)
    PROVE  /\ after # NoRow /\ after.duration = row.duration
           /\ backend = "postgres" /\ row # NoRow => row.stamp <= after.stamp
           /\ \/ after.status = status /\ after.stamp = stamp
              \/ after = row /\ backend = "postgres" /\ row.stamp > stamp
<1>0. PICK new : new = [row EXCEPT !.status = status, !.stamp = stamp] OBVIOUS
<1>1. /\ new.status = status /\ new.stamp = stamp /\ new.duration = row.duration
      /\ row.stamp \in Int
      BY <1>0 DEF TheRow
<1>2. new # NoRow
  <2>1. "none" \notin Phase BY DEF Phase, Terminal
  <2> QED BY <1>1, <2>1 DEF NoRow
<1>3. CASE backend = "postgres"
  <2>1. after = IF row = NoRow \/ row.stamp <= stamp THEN new ELSE row
        BY <1>0, <1>3 DEF MarkPodStatus, IsWritten
  <2>2. CASE row = NoRow \/ row.stamp <= stamp
    <3>1. after = new BY <2>1, <2>2
    <3> QED BY <1>1, <1>2, <2>2, <3>1
  <2>3. CASE ~(row = NoRow \/ row.stamp <= stamp)
    <3>1. after = row BY <2>1, <2>3
    <3> QED BY <1>1, <1>3, <2>3, <3>1
  <2> QED BY <2>2, <2>3
<1>4. CASE backend = "sqlite"
  <2>1. after = new BY <1>0, <1>4 DEF MarkPodStatus, IsWritten
  <2> QED BY <1>1, <1>2, <1>4, <2>1
<1> QED BY <1>3, <1>4 DEF PInv, ClockType

LEMMA DurationFacts ==
    ASSUME NEW row \in TheRow, NEW after, after = AddPodDuration(row)
    PROVE  /\ (after = NoRow <=> row = NoRow)
           /\ after.status = row.status /\ after.stamp = row.stamp
           /\ row.duration \/ row # NoRow => after.duration
<1>1. CASE row = NoRow BY <1>1 DEF AddPodDuration, NoRow
<1>2. CASE row # NoRow
  <2>1. after = [row EXCEPT !.duration = TRUE] BY <1>2 DEF AddPodDuration
  <2>2. /\ after.status = row.status /\ after.stamp = row.stamp /\ after.duration = TRUE
        BY <2>1 DEF TheRow
  <2>3. after # NoRow BY <2>2 DEF NoRow
  <2> QED BY <1>2, <2>2, <2>3
<1> QED BY <1>1, <1>2

\* The rows the event loop writes: only that of its event's pod.
LEMMA RowEffect ==
    ASSUME PInv, WriteDuration \/ WriteStatus \/ ConfigError
    PROVE  /\ \A p \in Pod : /\ taskPods[p] # NoRow => taskPods'[p] # NoRow
                             /\ taskPods[p].duration => taskPods'[p].duration
                             /\ backend = "postgres" /\ taskPods[p] # NoRow =>
                                   taskPods[p].stamp <= taskPods'[p].stamp
                             /\ p # worker.event.pod => taskPods'[p] = taskPods[p]
           /\ WriteDuration =>
                LET p == worker.event.pod
                IN  /\ worker.event.long /\ taskPods[p] # NoRow =>
                          taskPods'[p].duration \/ p \in untimed'
                    /\ (taskPods'[p] = NoRow <=> taskPods[p] = NoRow)
                    /\ taskPods'[p].status = taskPods[p].status
                    /\ taskPods'[p].stamp = taskPods[p].stamp
           /\ WriteStatus => taskPods'[worker.event.pod] # NoRow
           /\ WriteStatus =>
                LET p == worker.event.pod
                IN  \/ /\ taskPods'[p].status = worker.event.phase
                       /\ taskPods'[p].stamp = outStamp
                    \/ /\ taskPods'[p] = taskPods[p] /\ backend = "postgres"
                       /\ taskPods[p].stamp > outStamp
<1> USE Groups
<1>0. /\ worker.pc # "idle" /\ worker.event.pod \in Pod /\ worker.event.phase \in Phase
      BY LoopEffect DEF LoopStep
<1>1. RowType /\ clock \in Int BY DEF PInv, ClockType
<1>2. PICK p \in Pod : p = worker.event.pod BY <1>0
<1>3. taskPods[p] \in TheRow BY <1>1 DEF RowType
<1>4. PICK row \in TheRow : row = taskPods[p] BY <1>3
<1>5. \A q \in Pod : taskPods[q].stamp \in Int BY <1>1 DEF RowType, TheRow
<1>6. ASSUME NEW after, taskPods' = [taskPods EXCEPT ![p] = after]
      PROVE  taskPods'[p] = after /\ \A q \in Pod : q # p => taskPods'[q] = taskPods[q]
      BY <1>1, <1>6 DEF RowType
<1>7. CASE WriteDuration
  <2>0. CASE taskPods' = taskPods /\ (worker.event.long => p \in untimed')
    <3>1. ~WriteStatus /\ ~ConfigError BY <1>7 DEF WriteDuration, WriteStatus, ConfigError
    <3> QED BY <1>2, <1>5, <2>0, <3>1
  <2>1. CASE taskPods' = [taskPods EXCEPT ![p] = AddPodDuration(row)]
    <3>1. PICK after : after = AddPodDuration(row) OBVIOUS
    <3>2. taskPods' = [taskPods EXCEPT ![p] = after] BY <2>1, <3>1
    <3>3. taskPods'[p] = after /\ \A q \in Pod : q # p => taskPods'[q] = taskPods[q]
          BY <1>6, <3>2
    <3>4. /\ (after = NoRow <=> row = NoRow)
          /\ after.status = row.status /\ after.stamp = row.stamp
          /\ row.duration \/ row # NoRow => after.duration
          BY <3>1, DurationFacts
    <3>5. ~WriteStatus /\ ~ConfigError BY <1>7 DEF WriteDuration, WriteStatus, ConfigError
    <3>6. \A q \in Pod : /\ taskPods[q] # NoRow => taskPods'[q] # NoRow
                         /\ taskPods[q].duration => taskPods'[q].duration
                         /\ taskPods[q].stamp <= taskPods'[q].stamp
          BY <1>4, <1>5, <3>3, <3>4
    <3> QED BY <1>2, <1>4, <3>3, <3>4, <3>5, <3>6
  <2> QED BY <1>2, <1>4, <1>7, <2>0, <2>1 DEF WriteDuration
<1>8. ASSUME NEW status \in Phase, NEW stamp \in Int, NEW after, after = MarkPodStatus(row, status, stamp),
             taskPods' = [taskPods EXCEPT ![p] = after]
      PROVE  /\ \A q \in Pod : /\ taskPods[q] # NoRow => taskPods'[q] # NoRow
                               /\ taskPods[q].duration => taskPods'[q].duration
                               /\ backend = "postgres" /\ taskPods[q] # NoRow =>
                                     taskPods[q].stamp <= taskPods'[q].stamp
                               /\ q # p => taskPods'[q] = taskPods[q]
             /\ taskPods'[p] # NoRow
             /\ \/ taskPods'[p].status = status /\ taskPods'[p].stamp = stamp
                \/ taskPods'[p] = taskPods[p] /\ backend = "postgres" /\ taskPods[p].stamp > stamp
  <2>1. taskPods'[p] = after /\ \A q \in Pod : q # p => taskPods'[q] = taskPods[q]
        BY <1>6, <1>8
  <2>2. /\ after # NoRow /\ after.duration = row.duration
        /\ backend = "postgres" /\ row # NoRow => row.stamp <= after.stamp
        /\ \/ after.status = status /\ after.stamp = stamp
           \/ after = row /\ backend = "postgres" /\ row.stamp > stamp
        BY <1>8, MarkFacts
  <2> QED BY <1>4, <1>5, <2>1, <2>2
<1>9. CASE WriteStatus
  <2>1. PICK after : after = MarkPodStatus(row, worker.event.phase, outStamp) OBVIOUS
  <2>2. taskPods' = [taskPods EXCEPT ![p] = after]
        BY <1>2, <1>4, <1>9, <2>1 DEF WriteStatus
  <2>3. outStamp \in Int BY <1>0, StampType
  <2>4. ~WriteDuration BY <1>9 DEF WriteDuration, WriteStatus
  <2> QED BY <1>0, <1>2, <1>8, <2>1, <2>2, <2>3, <2>4
<1>10. CASE ConfigError
  <2>0. ~WriteDuration /\ ~WriteStatus BY <1>10 DEF WriteDuration, WriteStatus, ConfigError
  <2>1. CASE taskPods' = taskPods BY <1>5, <2>0, <2>1
  <2>2. CASE taskPods' = [taskPods EXCEPT ![p] = MarkPodStatus(row, "Failed", clock)]
    <3>1. PICK after : after = MarkPodStatus(row, "Failed", clock) OBVIOUS
    <3>2. taskPods' = [taskPods EXCEPT ![p] = after] BY <2>2, <3>1
    <3>3. "Failed" \in Phase BY DEF Phase, Terminal
    <3> QED BY <1>1, <1>2, <1>8, <2>0, <3>1, <3>2, <3>3
  <2> QED BY <1>2, <1>4, <1>10, <2>1, <2>2 DEF ConfigError
<1> QED BY <1>7, <1>9, <1>10

LEMMA ShapeKept ==
    ASSUME NEW p \in Pod, Shape(p), deltas'[p] = deltas[p], seen'[p] = seen[p],
           pod'[p].phase = pod[p].phase, Times(pod'[p]) = Times(pod[p])
    PROVE  Shape(p)'
BY DEF Shape

LEMMA ChangeKeepsShape ==
    ASSUME PInv, PInv', SInv, NEW p \in Pod, PodChanges(p)
    PROVE  SInv'
<1>1. /\ pod[p].phase \in {"Pending", "Running"}
      /\ \A q \in Pod \ {p} : pod'[q] = pod[q] /\ deltas'[q] = deltas[q]
      /\ deltas[p] \in Seq(Snapshot)
      /\ UNCHANGED <<seen, warnings, queue, worker>>
      BY ChangeEffect
<1>2. PICK v \in Snapshot :
                /\ deltas'[p] = Append(deltas[p], v) /\ v.pod = p
                /\ v.phase = pod'[p].phase /\ Times(v) = Times(pod'[p])
      BY ChangeEffect
<1>3. pod[p].phase \notin Terminal BY <1>1 DEF Terminal
<1>4. ASSUME NEW q \in Pod, q # p PROVE Shape(q)'
  <2>1. Shape(q) BY DEF SInv
  <2> QED BY <1>1, <1>4, <2>1, ShapeKept
<1>5. Shape(p)'
  <2>0. Shape(p) BY DEF SInv
  <2>1. /\ Len(deltas[p]) \in Nat /\ Len(deltas'[p]) = Len(deltas[p]) + 1
        /\ \A i \in 1..Len(deltas[p]) : deltas'[p][i] = deltas[p][i]
        /\ deltas'[p][Len(deltas[p]) + 1] = v
        BY <1>1, <1>2, AppendFacts
  <2>2. \A i \in 1..Len(deltas[p]) : deltas[p][i].pod = p /\ deltas[p][i].phase \notin Terminal
        BY <1>3, <2>0 DEF Shape
  <2>3. \A i \in 1..Len(deltas'[p]) :
          /\ deltas'[p][i].pod = p
          /\ deltas'[p][i].phase \in Terminal =>
                /\ i = Len(deltas'[p]) /\ deltas'[p][i].phase = pod'[p].phase
                /\ Times(deltas'[p][i]) = Times(pod'[p])
    <3> TAKE i \in 1..Len(deltas'[p])
    <3>1. CASE i \in 1..Len(deltas[p]) BY <2>1, <2>2, <3>1
    <3>2. CASE i = Len(deltas[p]) + 1 BY <1>2, <2>1, <3>2
    <3> QED BY <2>1, <3>1, <3>2
  <2>4. deltas'[p] # <<>> /\ deltas'[p][Len(deltas'[p])] = v
    <3>1. Len(<<>>) = 0 OBVIOUS
    <3> QED BY <2>1, <3>1
  <2>5. seen[p] \notin Terminal BY <1>3, <2>0 DEF Shape
  <2>6. ASSUME seen[p] = "none"
        PROVE  deltas'[p][1].phase = "Pending" /\ deltas'[p][1].configError = FALSE
    <3>1. /\ deltas[p] # <<>> /\ deltas[p][1].phase = "Pending"
          /\ deltas[p][1].configError = FALSE
          BY <2>0, <2>6 DEF Shape
    <3>2. 1 \in 1..Len(deltas[p]) BY <1>1, <3>1, TailFacts
    <3> QED BY <2>1, <3>1, <3>2
  <2> QED BY <1>1, <1>2, <2>3, <2>4, <2>5, <2>6 DEF Shape
<1>6. \A e \in El(queue) \cup Held \cup warnings : Exact(e) /\ e.pod \in Pod
      BY ElTypes, HeldTypes DEF SInv
<1>7. \A e \in El(queue) \cup Held \cup warnings : Exact(e)'
  <2> TAKE e \in El(queue) \cup Held \cup warnings
  <2>1. CASE e.pod = p BY <1>3, <1>6, <2>1 DEF Exact
  <2>2. CASE e.pod # p BY <1>1, <1>6, <2>2 DEF Exact
  <2> QED BY <2>1, <2>2
<1>8. El(queue') = El(queue) /\ Held' = Held BY <1>1 DEF El, Held
<1> QED BY <1>1, <1>4, <1>5, <1>7, <1>8 DEF SInv, El, Exact

LEMMA WatchKeepsShape ==
    ASSUME PInv, SInv, NEW p \in Pod, WatchPod(p)
    PROVE  SInv'
<1>1. /\ deltas[p] # <<>> /\ deltas[p] \in Seq(Snapshot) /\ queue \in Seq(PodEvent)
      /\ deltas'[p] = Tail(deltas[p]) /\ seen'[p] = deltas[p][1].phase
      /\ \A q \in Pod \ {p} : deltas'[q] = deltas[q] /\ seen'[q] = seen[q]
      /\ deltas[p][1] \in Snapshot
      /\ UNCHANGED <<pod, warnings, worker>>
      BY WatchEffect
<1>2. PICK e \in PodEvent :
                /\ e.pod = deltas[p][1].pod /\ e.phase = deltas[p][1].phase
                /\ Times(e) = Times(deltas[p][1])
                /\ queue' = IF seen[p] # deltas[p][1].phase THEN Append(queue, e) ELSE queue
      BY WatchEffect
<1>3. /\ Len(deltas[p]) \in Nat /\ Len(deltas[p]) >= 1 /\ Len(deltas'[p]) = Len(deltas[p]) - 1
      /\ \A i \in 1..(Len(deltas[p]) - 1) : deltas'[p][i] = deltas[p][i + 1]
      /\ 1 \in 1..Len(deltas[p]) /\ deltas'[p] \in Seq(Snapshot)
      BY <1>1, TailFacts
<1>4. Shape(p) BY DEF SInv
<1>5. ASSUME NEW q \in Pod, q # p PROVE Shape(q)'
  <2>1. Shape(q) BY DEF SInv
  <2> QED BY <1>1, <1>5, <2>1, ShapeKept
<1>6. deltas'[p] = <<>> <=> Len(deltas[p]) = 1
  <2>1. \A s \in Seq(Snapshot) : (s = <<>> <=> Len(s) = 0) OBVIOUS
  <2>2. PICK s \in Seq(Snapshot) : s = deltas'[p] BY <1>3
  <2>3. Len(s) = Len(deltas[p]) - 1 BY <1>3, <2>2
  <2>4. (s = <<>> <=> Len(deltas[p]) - 1 = 0) BY <2>1, <2>3
  <2> QED BY <1>3, <2>2, <2>4
<1>7. Shape(p)'
  <2>1. \A i \in 1..Len(deltas'[p]) :
          /\ deltas'[p][i].pod = p
          /\ deltas'[p][i].phase \in Terminal =>
                /\ i = Len(deltas'[p]) /\ deltas'[p][i].phase = pod[p].phase
                /\ Times(deltas'[p][i]) = Times(pod[p])
    <3> TAKE i \in 1..Len(deltas'[p])
    <3>1. i + 1 \in 1..Len(deltas[p]) /\ deltas'[p][i] = deltas[p][i + 1] BY <1>3
    <3>2. /\ deltas[p][i + 1].pod = p
          /\ deltas[p][i + 1].phase \in Terminal =>
                /\ i + 1 = Len(deltas[p]) /\ deltas[p][i + 1].phase = pod[p].phase
                /\ Times(deltas[p][i + 1]) = Times(pod[p])
          BY <1>4, <3>1 DEF Shape
    <3>3. i + 1 = Len(deltas[p]) => i = Len(deltas'[p]) BY <1>3
    <3> QED BY <3>1, <3>2, <3>3
  <2>2. pod[p].phase \in Terminal =>
          IF deltas'[p] = <<>> THEN seen'[p] \in Terminal
                               ELSE deltas'[p][Len(deltas'[p])].phase \in Terminal
    <3> HAVE pod[p].phase \in Terminal
    <3>1. deltas[p][Len(deltas[p])].phase \in Terminal BY <1>1, <1>4 DEF Shape
    <3>2. CASE Len(deltas[p]) = 1 BY <1>1, <1>6, <3>1, <3>2
    <3>3. CASE Len(deltas[p]) # 1
      <4>0. PICK n : n = Len(deltas[p]) - 1 OBVIOUS
      <4>1. n \in 1..(Len(deltas[p]) - 1) /\ n + 1 = Len(deltas[p]) /\ n = Len(deltas'[p])
        <5>1. \A k \in Nat : k >= 1 /\ k # 1 => k - 1 \in 1..(k - 1) /\ (k - 1) + 1 = k OBVIOUS
        <5>2. Len(deltas[p]) \in Nat /\ Len(deltas[p]) >= 1 BY <1>3
        <5>3. Len(deltas'[p]) = Len(deltas[p]) - 1 BY <1>3
        <5> QED BY <3>3, <4>0, <5>1, <5>2, <5>3
      <4>2. deltas'[p][n] = deltas[p][n + 1] BY <1>3, <4>1
      <4>3. deltas'[p][Len(deltas'[p])] = deltas[p][Len(deltas[p])] BY <4>1, <4>2
      <4> QED BY <1>6, <3>1, <3>3, <4>3
    <3> QED BY <3>2, <3>3
  <2>3. seen'[p] \in Terminal => deltas'[p] = <<>> /\ pod[p].phase \in Terminal
        BY <1>1, <1>3, <1>4, <1>6 DEF Shape
  <2>4. seen'[p] # "none" BY <1>1 DEF Snapshot, Phase, Terminal
  <2> QED BY <1>1, <2>1, <2>2, <2>3, <2>4 DEF Shape
<1>8. Exact(e) BY <1>2, <1>3, <1>4 DEF Shape, Exact
<1>9. El(queue') \subseteq El(queue) \cup {e} BY <1>1, <1>2, ElAppend
<1>10. Held' = Held BY <1>1 DEF Held
<1>11. \A f \in El(queue') \cup Held' \cup warnings' : Exact(f)
       BY <1>1, <1>8, <1>9, <1>10 DEF SInv
<1> QED BY <1>1, <1>5, <1>7, <1>11 DEF SInv, El, Exact

LEMMA NextS == PInv /\ PInv' /\ SInv /\ [Next]_vars => SInv'
<1> SUFFICES ASSUME PInv, PInv', SInv, [Next]_vars PROVE SInv' OBVIOUS
<1> USE Groups
\* Steps that change neither the pods nor what the informer knows.
<1>1. ASSUME UNCHANGED <<deltas, seen>>,
             \A p \in Pod : /\ pod'[p].phase = pod[p].phase
                            /\ Times(pod'[p]) = Times(pod[p]),
             \A e \in El(queue') \cup Held' \cup warnings' : e.pod \in Pod /\ Exact(e)
      PROVE  SInv'
  <2>1. \A p \in Pod : Shape(p)' BY <1>1, ShapeKept DEF SInv
  <2>2. \A e \in El(queue') \cup Held' \cup warnings' : Exact(e)' BY <1>1 DEF Exact
  <2> QED BY <2>1, <2>2 DEF SInv, El, Exact
<1>2. \A e \in El(queue) \cup Held \cup warnings : e.pod \in Pod /\ Exact(e)
      BY ElTypes, HeldTypes DEF SInv
<1>3. CASE Tick \/ BackgroundSend \/ Listen \/ DialHangs \/ UNCHANGED vars
  <2>1. UNCHANGED <<pod, deltas, seen, queue, worker, warnings>>
        BY <1>3 DEF Tick, BackgroundSend, Listen, DialHangs, all
  <2>2. El(queue') = El(queue) /\ Held' = Held BY <2>1 DEF El, Held
  <2> QED BY <1>1, <1>2, <2>1, <2>2
<1>4. ASSUME NEW p \in Pod, PodChanges(p) PROVE SInv' BY <1>4, ChangeKeepsShape
<1>5. ASSUME NEW p \in Pod, WatchPod(p) PROVE SInv' BY <1>5, WatchKeepsShape
<1>6. ASSUME NEW p \in Pod, WarningFetches(p) PROVE SInv'
  <2>1. PICK v : v = View(p) OBVIOUS
  <2>2. warnings' = warnings \cup {v} /\ UNCHANGED <<pod, deltas, seen, queue, worker>>
        BY <1>6, <2>1 DEF WarningFetches
  <2>3. v.pod = p /\ Exact(v) BY <2>1 DEF View, Exact, Times
  <2>4. El(queue') = El(queue) /\ Held' = Held BY <2>2 DEF El, Held
  <2> QED BY <1>1, <1>2, <2>2, <2>3, <2>4
<1>7. CASE WarningPushes
  <2>1. PICK s \in warnings : /\ warnings' = warnings \ {s} /\ queue' = Append(queue, Event(s))
                              /\ UNCHANGED <<pod, deltas, seen, worker>>
        BY <1>7 DEF WarningPushes
  <2>2. PICK e : e = Event(s) OBVIOUS
  <2>3. e \in PodEvent /\ e.pod = s.pod /\ e.phase = s.phase /\ Times(e) = Times(s)
        BY <2>2, HeldTypes, EventType DEF Event, Times
  <2>4. e.pod \in Pod /\ Exact(e) BY <1>2, <2>3 DEF Exact
  <2>5. El(queue') = El(queue) \cup {e} BY <2>1, <2>2, <2>3, ElAppend DEF PInv, QueueType
  <2>6. Held' = Held BY <2>1 DEF Held
  <2> QED BY <1>1, <1>2, <2>1, <2>4, <2>5, <2>6
<1>8. CASE Take
  <2>1. /\ Held' = {queue[1]} /\ El(queue) = El(queue') \cup {queue[1]}
        /\ UNCHANGED <<pod, deltas, seen, warnings>>
        BY <1>8, TakeEffect
  <2> QED BY <1>1, <1>2, <2>1
<1>9. CASE LoopStep
  <2>1. /\ UNCHANGED <<deltas, seen, warnings, queue>>
        /\ \A p \in Pod : /\ pod'[p].phase = pod[p].phase
                          /\ Times(pod'[p]) = Times(pod[p])
        BY <1>9, LoopEffect
  <2>2. Held' \subseteq Held BY <1>9, HeldEffect DEF LoopStep
  <2>3. El(queue') = El(queue) BY <2>1 DEF El
  <2> QED BY <1>1, <1>2, <2>1, <2>2, <2>3
<1> QED BY <1>3, <1>4, <1>5, <1>6, <1>7, <1>8, <1>9 DEF Next, LoopStep

LEMMA InitS == Init => SInv
<1> SUFFICES ASSUME Init PROVE SInv OBVIOUS
<1> DEFINE first(p) == [pod |-> p, phase |-> "Pending", configError |-> FALSE,
                        finished |-> FALSE, finishedAt |-> 0, long |-> FALSE]
<1>1. \A p \in Pod : /\ deltas[p] = <<first(p)>> /\ pod[p].phase = "Pending"
                     /\ seen[p] = "none"
      BY DEF Init
<1>2. warnings = {} /\ Held = {} BY DEF Init, Idle, Held
<1>3. El(queue) = {} BY DEF Init, El
<1>4. \A p \in Pod : Shape(p)
  <2> TAKE p \in Pod
  <2>1. \A x : Len(<<x>>) = 1 /\ <<x>>[1] = x /\ <<x>> # <<>> OBVIOUS
  <2>2. first(p).pod = p /\ first(p).phase = "Pending" /\ first(p).configError = FALSE
        OBVIOUS
  <2>3. deltas[p] = <<first(p)>> BY <1>1
  <2> HIDE DEF first
  <2>4. Len(deltas[p]) = 1 /\ deltas[p][1] = first(p) /\ deltas[p] # <<>> BY <2>1, <2>3
  <2>5. \A i \in 1..Len(deltas[p]) : i = 1 BY <2>4
  <2>6. "Pending" \notin Terminal /\ "none" \notin Terminal BY DEF Terminal
  <2> QED BY <1>1, <2>2, <2>4, <2>5, <2>6 DEF Shape
<1> QED BY <1>2, <1>3, <1>4 DEF SInv

LEMMA AlwaysS == Spec => [](PInv /\ SInv)
<1>1. PInv /\ SInv /\ PInv' /\ [Next]_vars => SInv' BY NextS
<1> QED BY <1>1, InitS, AlwaysTyped, PTL DEF Spec

-----------------------------------------------------------------------------
(* The phase in the table.                                                 *)

\* What the event loop has or will take.
Coming == El(queue) \cup Held
EndComes(p) == \E e \in Coming : e.pod = p /\ e.phase \in Terminal

\* The pod ended at a time the kubelet gave.
Fin(p) == pod[p].phase \in Terminal /\ pod[p].finished

\* The stamps of the pushes rise, and while no Warning was seen the row of a pod
\* has none that is later than those still to come.
TInv ==
    /\ \A e \in Coming : e.stamp <= clock
    /\ \A i, j \in 1..Len(queue) : i < j => queue[i].stamp <= queue[j].stamp
    /\ \A h \in Held, e \in El(queue) : h.stamp <= e.stamp
    /\ \A p \in Pod : warned = 0 /\ ~Fin(p) =>
          /\ taskPods[p].stamp <= clock
          /\ \A e \in Coming : e.pod = p => taskPods[p].stamp <= e.stamp

LEMMA ComingTypes ==
    ASSUME PInv
    PROVE  /\ \A e \in Coming : e \in PodEvent /\ e.pod \in Pod /\ e.stamp \in Nat
           /\ \A p \in Pod : taskPods[p].stamp \in Int
           /\ clock \in Nat /\ warned \in Nat
<1>1. \A e \in Coming : e \in PodEvent BY ElTypes, HeldTypes DEF Coming
<1>2. \A e \in PodEvent : e.pod \in Pod /\ e.stamp \in Nat BY DEF PodEvent
<1>3. \A p \in Pod : taskPods[p].stamp \in Int BY DEF PInv, RowType, TheRow
<1> QED BY <1>1, <1>2, <1>3 DEF PInv, ClockType, WarnType

\* An event pushed now is the latest.
LEMMA PushKeepsStamps ==
    ASSUME PInv, TInv, NEW e \in PodEvent, e.stamp = clock, queue' = Append(queue, e),
           UNCHANGED <<clock, worker, taskPods, pod, warned>>
    PROVE  TInv'
<1>1. /\ queue \in Seq(PodEvent) /\ Len(queue) \in Nat /\ Len(queue') = Len(queue) + 1
      /\ \A i \in 1..Len(queue) : queue'[i] = queue[i]
      /\ queue'[Len(queue) + 1] = e
  <2>1. queue \in Seq(PodEvent) BY DEF PInv, QueueType
  <2> QED BY <2>1, AppendFacts
<1>2. El(queue') = El(queue) \cup {e} /\ Held' = Held BY <1>1, ElAppend DEF Held
<1>3. Coming' = Coming \cup {e} BY <1>2 DEF Coming
<1>4. clock \in Nat BY ComingTypes
<1>5. \A f \in Coming' : f.stamp <= clock BY <1>3, <1>4 DEF TInv
<1>6. \A i, j \in 1..Len(queue') : i < j => queue'[i].stamp <= queue'[j].stamp
  <2> SUFFICES ASSUME NEW i \in 1..Len(queue'), NEW j \in 1..Len(queue'), i < j
               PROVE  queue'[i].stamp <= queue'[j].stamp
      OBVIOUS
  <2>1. i \in 1..Len(queue) /\ queue'[i] = queue[i] BY <1>1
  <2>2. CASE j \in 1..Len(queue) BY <1>1, <2>1, <2>2 DEF TInv
  <2>3. CASE j = Len(queue) + 1
    <3>1. queue[i] \in Coming BY <2>1 DEF Coming, El
    <3> QED BY <1>1, <2>1, <2>3, <3>1 DEF TInv
  <2> QED BY <1>1, <2>2, <2>3
<1>7. \A h \in Held, f \in El(queue') : h.stamp <= f.stamp
  <2>1. \A h \in Held : h \in Coming BY DEF Coming
  <2> QED BY <1>2, <2>1 DEF TInv
<1>8. \A p \in Pod : warned = 0 /\ ~Fin(p) =>
          /\ taskPods[p].stamp <= clock
          /\ \A f \in Coming' : f.pod = p => taskPods[p].stamp <= f.stamp
      BY <1>3 DEF TInv
<1> QED BY <1>2, <1>5, <1>6, <1>7, <1>8 DEF TInv, El, Fin, Coming

LEMMA TakeKeepsStamps ==
    ASSUME PInv, TInv, Take
    PROVE  TInv'
<1>1. /\ queue # <<>> /\ queue \in Seq(PodEvent) /\ queue' = Tail(queue)
      /\ Held = {} /\ Held' = {queue[1]} /\ El(queue) = El(queue') \cup {queue[1]}
      /\ UNCHANGED <<clock, pod, warned, taskPods>>
      BY TakeEffect
<1>2. Coming' = Coming BY <1>1 DEF Coming
<1>3. /\ Len(queue) \in Nat /\ Len(queue) >= 1 /\ Len(queue') = Len(queue) - 1
      /\ \A i \in 1..(Len(queue) - 1) : queue'[i] = queue[i + 1]
      BY <1>1, TailFacts
<1>4. \A i \in 1..Len(queue') : i + 1 \in 1..Len(queue) /\ 1 < i + 1 /\ queue'[i] = queue[i + 1]
      BY <1>3
<1>5. \A i, j \in 1..Len(queue') : i < j => queue'[i].stamp <= queue'[j].stamp
  <2> SUFFICES ASSUME NEW i \in 1..Len(queue'), NEW j \in 1..Len(queue'), i < j
               PROVE  queue'[i].stamp <= queue'[j].stamp
      OBVIOUS
  <2>1. i + 1 < j + 1 BY <1>3
  <2> QED BY <1>4, <2>1 DEF TInv
<1>6. \A h \in Held', e \in El(queue') : h.stamp <= e.stamp
  <2> SUFFICES ASSUME NEW e \in El(queue') PROVE queue[1].stamp <= e.stamp BY <1>1
  <2>1. PICK i \in 1..Len(queue') : e = queue'[i] BY DEF El
  <2>2. 1 \in 1..Len(queue) BY <1>3
  <2> QED BY <1>4, <2>1, <2>2 DEF TInv
<1> QED BY <1>1, <1>2, <1>5, <1>6 DEF TInv, Fin

\* A write leaves the stamp of its event, unless the kubelet gave one.
LEMMA LoopKeepsStamps ==
    ASSUME PInv, PInv', SInv, OInv, TInv, LoopStep
    PROVE  TInv'
<1>1. /\ worker.pc # "idle" /\ Held = {worker.event} /\ worker.event.pod \in Pod
      /\ worker.event \in PodEvent
      /\ \A p \in Pod : pod'[p].phase = pod[p].phase /\ Times(pod'[p]) = Times(pod[p])
      /\ UNCHANGED <<clock, warned, queue>>
      BY LoopEffect
<1>2. Held' \subseteq Held BY HeldEffect DEF LoopStep
<1>3. El(queue') = El(queue) /\ Coming' \subseteq Coming BY <1>1, <1>2 DEF El, Coming
<1>4. \A p \in Pod : Fin(p)' = Fin(p) BY <1>1 DEF Fin, Times
<1>5. ASSUME NEW p \in Pod, warned = 0, ~Fin(p)
      PROVE  /\ taskPods'[p].stamp <= clock
             /\ \A e \in Coming' : e.pod = p => taskPods'[p].stamp <= e.stamp
  <2>1. /\ taskPods[p].stamp <= clock
        /\ \A e \in Coming : e.pod = p => taskPods[p].stamp <= e.stamp
        BY <1>5 DEF TInv
  <2>2. CASE taskPods'[p].stamp = taskPods[p].stamp BY <1>3, <2>1, <2>2
  <2>3. CASE taskPods'[p].stamp # taskPods[p].stamp
    <3>1. WriteStatus /\ p = worker.event.pod /\ taskPods'[p].stamp = outStamp
      <4>1. ~ConfigError
        <5>1. "Pending" \notin Terminal BY DEF Terminal
        <5> QED BY <1>5, <5>1 DEF ConfigError, OInv, Flow, WorkerLow
      <4>2. ~(SendStarted \/ TaskEnds \/ WriteFails) BY <2>3, HeldEffect
      <4>3. ~WriteDuration
        <5> SUFFICES ASSUME WriteDuration PROVE FALSE OBVIOUS
        <5>1. CASE p = worker.event.pod BY <2>3, <5>1, RowEffect
        <5>2. CASE p # worker.event.pod BY <2>3, <5>2, RowEffect
        <5> QED BY <5>1, <5>2
      <4>4. WriteStatus BY <4>1, <4>2, <4>3 DEF LoopStep
      <4>5. p = worker.event.pod BY <2>3, <4>4, RowEffect
      <4> QED BY <2>3, <4>4, <4>5, RowEffect
    <3>2. Exact(worker.event) BY <1>1 DEF SInv
    <3>3. outStamp = worker.event.stamp
      <4>1. CASE worker.event.phase \in Terminal
        <5>1. pod[p].phase \in Terminal /\ Times(pod[p]) = Times(worker.event)
              BY <3>1, <3>2, <4>1 DEF Exact
        <5>2. pod[p].finished = worker.event.finished BY <5>1 DEF Times
        <5>3. ~worker.event.finished BY <1>5, <5>1, <5>2 DEF Fin
        <5> QED BY <5>3 DEF outStamp
      <4>2. CASE worker.event.phase \notin Terminal BY <4>2 DEF outStamp
      <4> QED BY <4>1, <4>2
    <3>4. worker.event \in Coming /\ worker.event.stamp \in Nat
          BY <1>1, ComingTypes DEF Coming
    <3>5. worker.event.stamp <= clock BY <3>4 DEF TInv
    <3>6. ASSUME NEW e \in Coming' PROVE worker.event.stamp <= e.stamp
      <4>1. CASE e \in El(queue) BY <1>1, <4>1 DEF TInv
      <4>2. CASE e \in Held'
        <5>1. e = worker.event BY <1>1, <1>2, <4>2
        <5> QED BY <3>4, <5>1
      <4> QED BY <1>3, <3>6, <4>1, <4>2 DEF Coming
    <3> QED BY <3>1, <3>3, <3>5, <3>6
  <2> QED BY <2>2, <2>3
<1>6. \A h \in Held', e \in El(queue') : h.stamp <= e.stamp BY <1>2, <1>3 DEF TInv
<1>7. \A e \in Coming' : e.stamp <= clock BY <1>3 DEF TInv
<1> QED BY <1>1, <1>4, <1>5, <1>6, <1>7 DEF TInv, Fin

LEMMA NextT == PInv /\ PInv' /\ SInv /\ OInv /\ TInv /\ [Next]_vars => TInv'
<1> SUFFICES ASSUME PInv, PInv', SInv, OInv, TInv, [Next]_vars PROVE TInv' OBVIOUS
<1> USE Groups
<1>0. clock \in Nat /\ warned \in Nat BY ComingTypes
<1>1. ASSUME UNCHANGED <<queue, worker, taskPods>>, clock' \in Nat, clock' >= clock,
             warned' = 0 => warned = 0, \A p \in Pod : Fin(p) => Fin(p)'
      PROVE  TInv'
  <2>1. Coming' = Coming /\ Held' = Held /\ El(queue') = El(queue)
        BY <1>1 DEF Coming, El, Held
  <2>2. \A n \in Int : n <= clock => n <= clock' BY <1>0, <1>1
  <2>3. \A e \in Coming' : e.stamp <= clock' BY <2>1, <2>2, ComingTypes DEF TInv
  <2>4. \A p \in Pod : warned' = 0 /\ ~Fin(p)' =>
          /\ taskPods'[p].stamp <= clock'
          /\ \A e \in Coming' : e.pod = p => taskPods'[p].stamp <= e.stamp
        BY <1>1, <2>1, <2>2, ComingTypes DEF TInv
  <2> QED BY <1>1, <2>1, <2>3, <2>4 DEF TInv
<1>2. CASE Tick \/ BackgroundSend \/ Listen \/ DialHangs \/ UNCHANGED vars
  <2>1. UNCHANGED <<pod, queue, worker, taskPods, warned>>
        BY <1>2 DEF Tick, BackgroundSend, Listen, DialHangs, all
  <2>2. clock' \in Nat /\ clock' >= clock
        BY <1>0, <1>2 DEF Tick, BackgroundSend, Listen, DialHangs, all
  <2>3. \A p \in Pod : Fin(p) => Fin(p)' BY <2>1 DEF Fin
  <2> QED BY <1>1, <2>1, <2>2, <2>3
<1>3. ASSUME NEW p \in Pod, PodChanges(p) PROVE TInv'
  <2>1. /\ pod[p].phase \in {"Pending", "Running"}
        /\ \A q \in Pod \ {p} : pod'[q] = pod[q] /\ deltas'[q] = deltas[q]
        /\ UNCHANGED <<clock, warned, queue, worker, taskPods>>
        BY <1>3, ChangeEffect
  <2>2. ~Fin(p) BY <2>1 DEF Fin, Terminal
  <2>3. \A q \in Pod : Fin(q) => Fin(q)' BY <2>1, <2>2 DEF Fin
  <2> QED BY <1>0, <1>1, <2>1, <2>3
<1>4. ASSUME NEW p \in Pod, WarningFetches(p) PROVE TInv'
  <2>1. warned' = warned + 1 /\ UNCHANGED <<pod, clock, queue, worker, taskPods>>
        BY <1>4 DEF WarningFetches
  <2>2. \A q \in Pod : Fin(q) => Fin(q)' BY <2>1 DEF Fin
  <2> QED BY <1>0, <1>1, <2>1, <2>2
<1>5. ASSUME NEW p \in Pod, WatchPod(p) PROVE TInv'
  <2>1. UNCHANGED <<clock, pod, warned, worker, taskPods>> BY <1>5, WatchEffect
  <2>2. PICK e \in PodEvent :
          /\ e.stamp = clock
          /\ queue' = IF seen[p] # deltas[p][1].phase THEN Append(queue, e) ELSE queue
        BY <1>5, WatchEffect
  <2>3. CASE queue' = queue
    <3>1. \A q \in Pod : Fin(q) => Fin(q)' BY <2>1 DEF Fin
    <3> QED BY <1>0, <1>1, <2>1, <2>3, <3>1
  <2>4. CASE queue' = Append(queue, e) BY <2>1, <2>2, <2>4, PushKeepsStamps
  <2> QED BY <2>2, <2>3, <2>4
<1>6. CASE WarningPushes
  <2>1. PICK s \in warnings : /\ queue' = Append(queue, Event(s))
                              /\ UNCHANGED <<clock, warned, pod, worker, taskPods>>
        BY <1>6 DEF WarningPushes
  <2>2. PICK e : e = Event(s) OBVIOUS
  <2>3. e \in PodEvent /\ e.stamp = clock BY <2>2, HeldTypes, EventType DEF Event
  <2> QED BY <2>1, <2>2, <2>3, PushKeepsStamps
<1>7. CASE Take BY <1>7, TakeKeepsStamps
<1>8. CASE LoopStep BY <1>8, LoopKeepsStamps
<1> QED BY <1>2, <1>3, <1>4, <1>5, <1>6, <1>7, <1>8 DEF Next, LoopStep

\* The row says how the pod ended, or one of the exceptions is in force.
Recorded(p) ==
    \/ <<p, pod[p].phase>> \in lost
    \/ /\ taskPods[p] # NoRow
       /\ backend = "sqlite" \/ ~pod[p].finished =>
             warned > 0 \/ taskPods[p].status = pod[p].phase
       /\ backend = "postgres" /\ pod[p].finished =>
             /\ taskPods[p].stamp >= pod[p].finishedAt
             /\ taskPods[p].stamp = pod[p].finishedAt =>
                   warned > 0 \/ taskPods[p].status = pod[p].phase

RInv == \A p \in Pod : seen[p] \in Terminal /\ ~EndComes(p) =>
            Recorded(p) /\ (warned = 0 => \A e \in Coming : e.pod # p)

LEMMA RecordedKept ==
    ASSUME PInv, PInv', NEW p \in Pod, Recorded(p), backend' = backend, warned' >= warned,
           pod'[p].phase = pod[p].phase, Times(pod'[p]) = Times(pod[p]), lost \subseteq lost',
           \/ taskPods'[p] = taskPods[p]
           \/ /\ warned > 0
              /\ taskPods[p] # NoRow => taskPods'[p] # NoRow
              /\ backend = "postgres" /\ taskPods[p] # NoRow =>
                    taskPods[p].stamp <= taskPods'[p].stamp
    PROVE  Recorded(p)'
<1>1. /\ taskPods[p].stamp \in Int /\ taskPods'[p].stamp \in Int /\ pod[p].finishedAt \in Int
      /\ warned \in Nat /\ warned' \in Nat
  <2>1. RowType /\ RowType' /\ PodType /\ WarnType /\ WarnType' BY DEF PInv
  <2>2. taskPods[p] \in TheRow /\ taskPods'[p] \in TheRow /\ pod[p] \in PodRecord
        BY <2>1 DEF RowType, PodType
  <2> QED BY <2>1, <2>2 DEF TheRow, PodRecord, WarnType
<1>2. warned > 0 => warned' > 0 BY <1>1
<1>3. pod'[p].finished = pod[p].finished /\ pod'[p].finishedAt = pod[p].finishedAt
      BY DEF Times
<1>4. CASE <<p, pod[p].phase>> \in lost BY <1>4 DEF Recorded
<1>5. CASE <<p, pod[p].phase>> \notin lost
  <2>1. taskPods[p] # NoRow BY <1>5 DEF Recorded
  <2>2. CASE taskPods'[p] = taskPods[p] BY <1>2, <1>3, <1>5, <2>2 DEF Recorded
  <2>3. CASE /\ warned > 0 /\ taskPods'[p] # NoRow
             /\ backend = "postgres" => taskPods[p].stamp <= taskPods'[p].stamp
    <3>1. backend = "postgres" /\ pod[p].finished => taskPods'[p].stamp >= pod[p].finishedAt
          BY <1>1, <1>5, <2>3 DEF Recorded
    <3> QED BY <1>2, <1>3, <2>3, <3>1 DEF Recorded
  <2> QED BY <2>1, <2>2, <2>3
<1> QED BY <1>4, <1>5

\* The event loop is done with an event: what it wrote, and what is behind it.
LEMMA EndWritten ==
    ASSUME PInv, PInv', SInv, OInv, TInv, WriteStatus \/ WriteFails,
           NEW p \in Pod, p = worker.event.pod, worker.event.phase \in Terminal
    PROVE  Recorded(p)'
<1>1. /\ Held = {worker.event} /\ UNCHANGED <<backend, warned>>
      /\ pod'[p].phase = pod[p].phase /\ Times(pod'[p]) = Times(pod[p])
      /\ worker.event \in PodEvent /\ worker.pc # "idle"
      BY LoopEffect DEF LoopStep
<1>2. Exact(worker.event) BY <1>1 DEF SInv
<1>3. /\ pod[p].phase = worker.event.phase /\ Times(pod[p]) = Times(worker.event)
      BY <1>2 DEF Exact
<1>4. /\ pod'[p].finished = pod[p].finished /\ pod'[p].finishedAt = pod[p].finishedAt
      /\ pod[p].finished = worker.event.finished
      /\ pod[p].finishedAt = worker.event.finishedAt
      BY <1>1, <1>3 DEF Times
<1>5. CASE WriteFails BY <1>1, <1>3, <1>5 DEF WriteFails, Recorded
<1>6. CASE WriteStatus
  <2>1. /\ taskPods'[p] # NoRow
        /\ \/ /\ taskPods'[p].status = worker.event.phase
              /\ taskPods'[p].stamp = outStamp
           \/ /\ taskPods'[p] = taskPods[p] /\ backend = "postgres"
              /\ taskPods[p].stamp > outStamp
        BY <1>6, RowEffect
  <2>2. taskPods'[p].stamp \in Int /\ outStamp \in Int /\ taskPods[p].stamp \in Int
    <3>1. RowType /\ RowType' BY DEF PInv
    <3> QED BY <1>1, <3>1, StampType DEF RowType, TheRow
  <2>3. outStamp = IF pod[p].finished THEN pod[p].finishedAt ELSE worker.event.stamp
        BY <1>4 DEF outStamp
  <2>4. CASE taskPods'[p].status = worker.event.phase /\ taskPods'[p].stamp = outStamp
        BY <1>1, <1>3, <1>4, <2>1, <2>2, <2>3, <2>4 DEF Recorded
  <2>5. CASE taskPods'[p] = taskPods[p] /\ backend = "postgres" /\ taskPods[p].stamp > outStamp
    <3>1. CASE pod[p].finished BY <1>1, <1>3, <1>4, <2>1, <2>2, <2>3, <2>5, <3>1 DEF Recorded
    <3>2. CASE ~pod[p].finished
      <4>1. warned # 0
        <5> SUFFICES ASSUME warned = 0 PROVE FALSE OBVIOUS
        <5>1. worker.event \in Coming /\ ~Fin(p) BY <1>1, <3>2 DEF Coming, Fin
        <5>2. taskPods[p].stamp <= worker.event.stamp BY <5>1 DEF TInv
        <5>3. worker.event.stamp \in Int BY <1>1 DEF PodEvent
        <5> QED BY <2>2, <2>3, <2>5, <3>2, <5>2, <5>3
      <4>2. warned' > 0 BY <1>1, <4>1 DEF PInv, WarnType
      <4> QED BY <1>4, <2>1, <3>2, <4>2 DEF Recorded
    <3> QED BY <3>1, <3>2
  <2> QED BY <2>1, <2>4, <2>5
<1> QED BY <1>5, <1>6

LEMMA WriteKeepsRecord ==
    ASSUME PInv, PInv', SInv, OInv, TInv, RInv, WriteStatus \/ WriteFails \/ ConfigError
    PROVE  RInv'
<1>1. /\ worker.pc # "idle" /\ Held = {worker.event} /\ worker.event.pod \in Pod
      /\ worker.event.phase \in Phase
      /\ \A p \in Pod : /\ pod'[p].phase = pod[p].phase
                        /\ Times(pod'[p]) = Times(pod[p])
      /\ UNCHANGED <<backend, seen, warned, queue>> /\ lost \subseteq lost'
      BY LoopEffect DEF LoopStep
<1>2. El(queue') = El(queue) BY <1>1 DEF El
<1>3. Held' \subseteq Held /\ (ConfigError => Held' = {}) BY HeldEffect
<1>4. warned \in Nat BY DEF PInv, WarnType
<1>5. ASSUME warned = 0
      PROVE  ~ConfigError /\ Below(worker.event, El(queue))
  <2>1. WorkerLow BY <1>5 DEF OInv, Flow
  <2>2. "Pending" \notin Terminal BY DEF Terminal
  <2> QED BY <1>1, <2>1, <2>2 DEF WorkerLow, ConfigError
<1> SUFFICES ASSUME NEW p \in Pod, seen[p] \in Terminal, ~EndComes(p)'
             PROVE  Recorded(p)' /\ (warned = 0 => \A e \in Coming' : e.pod # p)
    BY <1>1 DEF RInv
<1>6. CASE worker.event.pod = p /\ worker.event.phase \in Terminal
  <2>1. ~ConfigError BY <1>6 DEF ConfigError, Terminal
  <2>2. WriteStatus \/ WriteFails BY <2>1
  <2>3. Recorded(p)' BY <1>6, <2>2, EndWritten
  <2>4. ASSUME warned = 0, NEW e \in Coming', e.pod = p PROVE FALSE
    <3>1. CASE e \in El(queue)
      <4>1. Rank(worker.event.phase) <= Rank(e.phase) BY <1>5, <1>6, <2>4, <3>1 DEF Below
      <4>2. e.phase \in Phase BY <3>1, ElTypes
      <4>3. Rank(worker.event.phase) = 2 BY <1>1, <1>6, Ranks
      <4>4. Rank(e.phase) = 2 BY <4>1, <4>3, Ranks
      <4>5. e.phase \in Terminal BY <4>2, <4>4, Ranks
      <4> QED BY <2>4, <4>5 DEF EndComes
    <3>2. CASE e \in Held'
      <4>1. e.phase \in Terminal BY <1>1, <1>3, <1>6, <3>2
      <4> QED BY <2>4, <4>1 DEF EndComes
    <3> QED BY <1>2, <2>4, <3>1, <3>2 DEF Coming
  <2> QED BY <2>3, <2>4
<1>7. CASE ~(worker.event.pod = p /\ worker.event.phase \in Terminal)
  <2>1. ~EndComes(p)
    <3> SUFFICES ASSUME NEW e \in Coming, e.pod = p, e.phase \in Terminal PROVE FALSE
        BY DEF EndComes
    <3>1. e \in El(queue) BY <1>1, <1>7 DEF Coming
    <3>2. e \in Coming' BY <1>2, <3>1 DEF Coming
    <3> QED BY <3>2 DEF EndComes
  <2>2. Recorded(p) /\ (warned = 0 => \A e \in Coming : e.pod # p) BY <2>1 DEF RInv
  <2>3. Coming' \subseteq Coming BY <1>2, <1>3 DEF Coming
  <2>4. warned = 0 => worker.event.pod # p BY <1>1, <2>2 DEF Coming
  <2>5. /\ taskPods[p] # NoRow => taskPods'[p] # NoRow
        /\ backend = "postgres" /\ taskPods[p] # NoRow => taskPods[p].stamp <= taskPods'[p].stamp
        /\ p # worker.event.pod => taskPods'[p] = taskPods[p]
    <3>1. CASE WriteFails
      <4>1. taskPods' = taskPods BY <3>1, HeldEffect
      <4>2. taskPods[p].stamp \in Int BY ComingTypes
      <4> QED BY <4>1, <4>2
    <3>2. CASE WriteStatus \/ ConfigError BY <3>2, RowEffect
    <3> QED BY <3>1, <3>2
  <2>7. warned > 0 \/ warned = 0 BY <1>4
  <2>8. warned' >= warned BY <1>1, <1>4
  <2>9. \/ taskPods'[p] = taskPods[p]
        \/ /\ warned > 0
           /\ taskPods[p] # NoRow => taskPods'[p] # NoRow
           /\ backend = "postgres" /\ taskPods[p] # NoRow =>
                 taskPods[p].stamp <= taskPods'[p].stamp
        BY <2>4, <2>5, <2>7
  <2>10. Recorded(p)' BY <1>1, <2>2, <2>8, <2>9, RecordedKept
  <2> QED BY <2>2, <2>3, <2>10
<1> QED BY <1>6, <1>7

LEMMA NextR == PInv /\ PInv' /\ SInv /\ OInv /\ TInv /\ RInv /\ [Next]_vars => RInv'
<1> SUFFICES ASSUME PInv, PInv', SInv, OInv, TInv, RInv, [Next]_vars PROVE RInv' OBVIOUS
<1> USE Groups
<1>0. warned \in Nat /\ warned' \in Nat BY DEF PInv, WarnType
\* A pod of which neither the row nor the events change but for those of other pods,
\* or for Warning events.
<1>1. ASSUME NEW p \in Pod, seen'[p] = seen[p], backend' = backend, warned' >= warned,
             pod'[p].phase = pod[p].phase, Times(pod'[p]) = Times(pod[p]),
             taskPods'[p] = taskPods[p], lost \subseteq lost',
             \A e \in Coming : e \in Coming',
             \A e \in Coming' : e \in Coming \/ e.pod # p \/ warned > 0
      PROVE  seen'[p] \in Terminal /\ ~EndComes(p)' =>
                Recorded(p)' /\ (warned' = 0 => \A e \in Coming' : e.pod # p)
  <2> SUFFICES ASSUME seen'[p] \in Terminal, ~EndComes(p)'
               PROVE  Recorded(p)' /\ (warned' = 0 => \A e \in Coming' : e.pod # p)
      OBVIOUS
  <2>1. ~EndComes(p) BY <1>1 DEF EndComes
  <2>2. Recorded(p) /\ (warned = 0 => \A e \in Coming : e.pod # p) BY <1>1, <2>1 DEF RInv
  <2>3. Recorded(p)' BY <1>1, <2>2, RecordedKept
  <2>4. warned' = 0 => warned = 0 /\ ~(warned > 0) BY <1>0, <1>1
  <2> QED BY <1>1, <2>2, <2>3, <2>4
<1>2. ASSUME UNCHANGED <<seen, backend, taskPods>>, warned' >= warned, lost \subseteq lost',
             \A p \in Pod : /\ pod'[p].phase = pod[p].phase
                            /\ Times(pod'[p]) = Times(pod[p]),
             Coming' = Coming
      PROVE  RInv'
      BY <1>1, <1>2 DEF RInv
<1>3. CASE Tick \/ BackgroundSend \/ Listen \/ DialHangs \/ UNCHANGED vars
  <2>1. UNCHANGED <<pod, seen, queue, worker, backend, warned, taskPods, lost>>
        BY <1>3 DEF Tick, BackgroundSend, Listen, DialHangs, all
  <2>2. Coming' = Coming BY <2>1 DEF Coming, El, Held
  <2>3. warned' >= warned BY <1>0, <2>1
  <2> QED BY <1>2, <2>1, <2>2, <2>3
<1>4. ASSUME NEW p \in Pod, PodChanges(p) PROVE RInv'
  <2>1. /\ pod[p].phase \in {"Pending", "Running"}
        /\ \A q \in Pod \ {p} : pod'[q] = pod[q] /\ deltas'[q] = deltas[q]
        /\ UNCHANGED <<backend, seen, warned, queue, worker, taskPods, lost>>
        BY <1>4, ChangeEffect
  <2>2. Coming' = Coming BY <2>1 DEF Coming, El, Held
  <2>3. warned' >= warned BY <1>0, <2>1
  <2>4. seen[p] \notin Terminal
    <3>1. pod[p].phase \notin Terminal BY <2>1 DEF Terminal
    <3> QED BY <3>1 DEF SInv, Shape
  <2>5. \A q \in Pod : seen'[q] \in Terminal /\ ~EndComes(q)' =>
                          Recorded(q)' /\ (warned' = 0 => \A e \in Coming' : e.pod # q)
    <3> TAKE q \in Pod
    <3>1. CASE q = p BY <2>1, <2>4, <3>1
    <3>2. CASE q # p BY <1>1, <2>1, <2>2, <2>3, <3>2
    <3> QED BY <3>1, <3>2
  <2> QED BY <2>5 DEF RInv
<1>5. ASSUME NEW p \in Pod, WatchPod(p) PROVE RInv'
  <2>1. /\ deltas[p] # <<>> /\ seen'[p] = deltas[p][1].phase /\ queue \in Seq(PodEvent)
        /\ \A q \in Pod \ {p} : seen'[q] = seen[q]
        /\ deltas[p] \in Seq(Snapshot)
        /\ UNCHANGED <<backend, pod, warned, worker, taskPods, lost>>
        BY <1>5, WatchEffect
  <2>2. PICK e \in PodEvent :
                /\ e.pod = deltas[p][1].pod /\ e.phase = deltas[p][1].phase
                /\ queue' = IF seen[p] # deltas[p][1].phase THEN Append(queue, e) ELSE queue
        BY <1>5, WatchEffect
  <2>3. Held' = Held BY <2>1 DEF Held
  <2>4. Shape(p) /\ 1 \in 1..Len(deltas[p]) BY <2>1, TailFacts DEF SInv
  <2>5. e.pod = p BY <2>2, <2>4 DEF Shape
  <2>6. \/ queue' = Append(queue, e) /\ El(queue') = El(queue) \cup {e}
        \/ queue' = queue /\ El(queue') = El(queue)
        BY <2>1, <2>2, ElAppend
  <2>7. seen[p] \notin Terminal BY <2>1, <2>4 DEF Shape
  <2>8. warned' >= warned BY <1>0, <2>1
  <2>9. \A f \in Coming : f \in Coming' BY <2>3, <2>6 DEF Coming
  <2>10. \A f \in Coming' : f \in Coming \/ f = e BY <2>3, <2>6 DEF Coming
  <2>11. seen'[p] \in Terminal => EndComes(p)'
    <3> HAVE seen'[p] \in Terminal
    <3>1. seen[p] # deltas[p][1].phase /\ e.phase \in Terminal BY <2>1, <2>2, <2>7
    <3>2. El(queue') = El(queue) \cup {e} BY <2>1, <2>2, <3>1, ElAppend
    <3>3. e \in Coming' BY <3>2 DEF Coming
    <3> QED BY <2>5, <3>1, <3>3 DEF EndComes
  <2>12. \A q \in Pod : seen'[q] \in Terminal /\ ~EndComes(q)' =>
                          Recorded(q)' /\ (warned' = 0 => \A f \in Coming' : f.pod # q)
    <3> TAKE q \in Pod
    <3>1. CASE q = p BY <2>11, <3>1
    <3>2. CASE q # p
      <4>1. \A f \in Coming' : f \in Coming \/ f.pod # q BY <2>5, <2>10, <3>2
      <4> QED BY <1>1, <2>1, <2>8, <2>9, <3>2, <4>1
    <3> QED BY <3>1, <3>2
  <2> QED BY <2>12 DEF RInv
<1>6. ASSUME NEW p \in Pod, WarningFetches(p) PROVE RInv'
  <2>1. warned' = warned + 1 /\ UNCHANGED <<backend, pod, seen, queue, worker, taskPods, lost>>
        BY <1>6 DEF WarningFetches
  <2>2. Coming' = Coming BY <2>1 DEF Coming, El, Held
  <2>3. warned' >= warned BY <1>0, <2>1
  <2> QED BY <1>2, <2>1, <2>2, <2>3
<1>7. CASE WarningPushes
  <2>1. PICK s \in warnings : /\ queue' = Append(queue, Event(s))
                              /\ UNCHANGED <<backend, warned, pod, seen, worker, taskPods, lost>>
        BY <1>7 DEF WarningPushes
  <2>2. PICK e : e = Event(s) OBVIOUS
  <2>3. e \in PodEvent BY <2>2, HeldTypes, EventType
  <2>4. El(queue') = El(queue) \cup {e} BY <2>1, <2>2, <2>3, ElAppend DEF PInv, QueueType
  <2>5. Held' = Held BY <2>1 DEF Held
  <2>6. warned > 0 BY <1>0 DEF OInv, Flow
  <2>7. warned' >= warned BY <1>0, <2>1
  <2>8. \A f \in Coming : f \in Coming' BY <2>4, <2>5 DEF Coming
  <2>9. \A q \in Pod : seen'[q] \in Terminal /\ ~EndComes(q)' =>
                          Recorded(q)' /\ (warned' = 0 => \A f \in Coming' : f.pod # q)
        BY <1>1, <2>1, <2>6, <2>7, <2>8
  <2> QED BY <2>9 DEF RInv
<1>8. CASE Take
  <2>1. /\ Held = {} /\ Held' = {queue[1]} /\ El(queue) = El(queue') \cup {queue[1]}
        /\ UNCHANGED <<backend, pod, seen, warned, taskPods, lost>>
        BY <1>8, TakeEffect
  <2>2. Coming' = Coming BY <2>1 DEF Coming
  <2>3. warned' >= warned BY <1>0, <2>1
  <2> QED BY <1>2, <2>1, <2>2, <2>3
<1>9. CASE SendStarted \/ TaskEnds \/ WriteDuration
  <2>1. /\ UNCHANGED <<backend, seen, warned, queue>> /\ worker.event.pod \in Pod
        /\ \A p \in Pod : /\ pod'[p].phase = pod[p].phase
                          /\ Times(pod'[p]) = Times(pod[p])
        /\ lost \subseteq lost'
        BY <1>9, LoopEffect DEF LoopStep
  <2>2. Held' = Held BY <1>9, HeldEffect
  <2>3. Coming' = Coming BY <2>1, <2>2 DEF Coming, El
  <2>4. warned' >= warned BY <1>0, <2>1
  <2>5. CASE SendStarted \/ TaskEnds
    <3>1. taskPods' = taskPods BY <2>5, HeldEffect
    <3> QED BY <1>2, <2>1, <2>3, <2>4, <3>1
  <2>6. CASE WriteDuration
    <3>1. ASSUME NEW p \in Pod, Recorded(p) PROVE Recorded(p)'
      <4>1. /\ (taskPods'[p] = NoRow <=> taskPods[p] = NoRow)
            /\ taskPods'[p].status = taskPods[p].status /\ taskPods'[p].stamp = taskPods[p].stamp
            BY <2>6, RowEffect
      <4>2. /\ pod'[p].finished = pod[p].finished /\ pod'[p].finishedAt = pod[p].finishedAt
            /\ pod'[p].phase = pod[p].phase
            BY <2>1 DEF Times
      <4> QED BY <2>1, <3>1, <4>1, <4>2 DEF Recorded
    <3>2. \A p \in Pod : EndComes(p)' <=> EndComes(p) BY <2>3 DEF EndComes
    <3> QED BY <2>1, <2>3, <3>1, <3>2 DEF RInv
  <2> QED BY <1>9, <2>5, <2>6
<1>10. CASE WriteStatus \/ WriteFails \/ ConfigError BY <1>10, WriteKeepsRecord
<1> QED BY <1>3, <1>4, <1>5, <1>6, <1>7, <1>8, <1>9, <1>10 DEF Next

\* The table ends with the phase the pod ended with, once nothing is on its way: for any
\* number of pods, events, errors and retries.  The exceptions are the stated ones: an
\* error of the database at the write of that phase, Warning events with SQLite or for a
\* pod without FinishedAt, and with Postgres a stamp of an earlier event that is later
\* than the kubelet's FinishedAt, or as late when there were Warnings.
THEOREM EndsAreRecorded == Spec => []EndIsRecorded
<1>1. Spec => [](PInv /\ OInv)
  <2>1. PInv /\ OInv /\ PInv' /\ [Next]_vars => OInv' BY NextO
  <2> QED BY <2>1, InitO, AlwaysTyped, PTL DEF Spec
<1>2. Init => RInv BY DEF Init, RInv, Terminal
<1>3. Init => TInv
  <2> SUFFICES ASSUME Init PROVE TInv OBVIOUS
  <2>1. El(queue) = {} /\ Held = {} /\ Len(queue) = 0 BY DEF Init, El, Held, Idle
  <2>2. \A p \in Pod : taskPods[p].stamp = 0 BY DEF Init, NoRow
  <2> QED BY <2>1, <2>2 DEF TInv, Coming, Init
<1>4. Spec => []TInv BY <1>1, <1>3, NextT, AlwaysS, PTL DEF Spec
<1>5. Spec => []RInv BY <1>1, <1>2, <1>4, NextR, AlwaysS, PTL DEF Spec
<1>6. PInv /\ SInv /\ RInv => EndIsRecorded
  <2> SUFFICES ASSUME PInv, SInv, RInv, quiet, NEW p \in Pod, pod[p].phase \in Terminal
               PROVE  \/ taskPods[p].status = pod[p].phase
                      \/ <<p, pod[p].phase>> \in lost
                      \/ warned > 0 /\ (backend = "sqlite" \/ ~pod[p].finished)
                      \/ backend = "postgres" /\ pod[p].finished /\
                           \/ taskPods[p].stamp > pod[p].finishedAt
                           \/ taskPods[p].stamp = pod[p].finishedAt /\ warned > 0
      BY DEF EndIsRecorded
  <2>1. deltas[p] = <<>> /\ Coming = {} BY DEF quiet, Coming, El, Held, Idle
  <2>2. seen[p] \in Terminal BY <2>1 DEF SInv, Shape
  <2>3. Recorded(p) BY <2>1, <2>2 DEF RInv, EndComes
  <2>4. taskPods[p].stamp \in Int /\ pod[p].finishedAt \in Int /\ backend \in {"postgres", "sqlite"}
        BY DEF PInv, RowType, TheRow, PodType, PodRecord, ClockType
  <2> QED BY <2>3, <2>4 DEF Recorded
<1> QED BY <1>5, <1>6, AlwaysS, PTL

-----------------------------------------------------------------------------
(* The duration.  AddPodDuration finds no row if no event of the pod has   *)
(* been written yet, as when a Warning's event is the first.  The watcher  *)
(* still tells of the pod's creation before it tells of its end, so an end *)
(* is behind an event that makes the row.                                   *)

IsEnd(e, p)   == e.pod = p /\ e.phase \in Terminal
IsEarly(e, p) == e.pod = p /\ e.phase = "Pending" /\ e.configError = FALSE
NeverMade(p)  == <<p, "Pending">> \in lost

\* AddPodDuration is still to be called for the end of the pod ...
EndDue(p) == \/ \E e \in El(queue) : IsEnd(e, p)
             \/ worker.pc \in {"outcome", "duration"} /\ IsEnd(worker.event, p)
\* ... and for an end before which there is an event that makes the row.
Behind(p) == \E j \in 1..Len(queue) :
    /\ IsEnd(queue[j], p)
    /\ \/ \E i \in 1..Len(queue) : i < j /\ IsEarly(queue[i], p)
       \/ \E e \in Held : IsEarly(e, p)

RowComes(p) == taskPods[p] = NoRow /\ seen[p] \notin Terminal \cup {"none"} =>
                  NeverMade(p) \/ \E e \in Coming : IsEarly(e, p)
Timed(p) == seen[p] \in Terminal /\ pod[p].long =>
                \/ taskPods[p].duration \/ p \in untimed \/ NeverMade(p)
                \/ taskPods[p] # NoRow /\ EndDue(p)
                \/ Behind(p)
\* What is no end and is handled as an outcome is an error of configuration.
Misconfigured == worker.pc = "outcome" /\ worker.event.phase \notin Terminal =>
                    worker.event.configError = TRUE
DInv == Misconfigured /\ \A p \in Pod : RowComes(p) /\ Timed(p)

\* Another event at the end of the queue takes nothing away.
LEMMA PushKeepsDue ==
    ASSUME PInv, NEW e \in PodEvent, queue' = Append(queue, e), worker' = worker
    PROVE  /\ El(queue') = El(queue) \cup {e} /\ Held' = Held
           /\ Coming' = Coming \cup {e}
           /\ \A p \in Pod : /\ EndDue(p) => EndDue(p)'
                             /\ Behind(p) => Behind(p)'
                             /\ IsEnd(e, p) => EndDue(p)'
                             /\ IsEnd(e, p) /\ (\E f \in Coming : IsEarly(f, p)) => Behind(p)'
<1>1. /\ queue \in Seq(PodEvent) /\ Len(queue) \in Nat /\ Len(queue') = Len(queue) + 1
      /\ \A i \in 1..Len(queue) : queue'[i] = queue[i]
      /\ queue'[Len(queue) + 1] = e
  <2>1. queue \in Seq(PodEvent) BY DEF PInv, QueueType
  <2> QED BY <2>1, AppendFacts
<1>2. El(queue') = El(queue) \cup {e} BY <1>1, ElAppend
<1>3. Held' = Held BY DEF Held
<1>4. Coming' = Coming \cup {e} BY <1>2, <1>3 DEF Coming
<1>5. \A i \in 1..Len(queue) : i \in 1..Len(queue') /\ i < Len(queue) + 1 BY <1>1
<1>6. Len(queue) + 1 \in 1..Len(queue') BY <1>1
<1>7. ASSUME NEW p \in Pod, EndDue(p) PROVE EndDue(p)'
      BY <1>2, <1>7 DEF EndDue, IsEnd, El
<1>8. ASSUME NEW p \in Pod, Behind(p) PROVE Behind(p)'
  <2>1. PICK j \in 1..Len(queue) :
          /\ IsEnd(queue[j], p)
          /\ \/ \E i \in 1..Len(queue) : i < j /\ IsEarly(queue[i], p)
             \/ \E f \in Held : IsEarly(f, p)
        BY <1>8 DEF Behind
  <2>2. j \in 1..Len(queue') /\ IsEnd(queue'[j], p) BY <1>1, <1>5, <2>1
  <2>3. ASSUME NEW i \in 1..Len(queue), i < j, IsEarly(queue[i], p) PROVE Behind(p)'
    <3>1. i \in 1..Len(queue') /\ IsEarly(queue'[i], p) BY <1>1, <1>5, <2>3
    <3> QED BY <2>2, <2>3, <3>1 DEF Behind, IsEnd, IsEarly
  <2>4. ASSUME NEW f \in Held, IsEarly(f, p) PROVE Behind(p)'
        BY <1>3, <2>2, <2>4 DEF Behind, IsEnd, IsEarly
  <2> QED BY <2>1, <2>3, <2>4
<1>9. ASSUME NEW p \in Pod, IsEnd(e, p) PROVE EndDue(p)'
      BY <1>2, <1>9 DEF EndDue, IsEnd, El
<1>10. ASSUME NEW p \in Pod, IsEnd(e, p), NEW f \in Coming, IsEarly(f, p) PROVE Behind(p)'
  <2>1. IsEnd(queue'[Len(queue) + 1], p) BY <1>1, <1>10
  <2>2. CASE f \in Held BY <1>3, <1>6, <1>10, <2>1, <2>2 DEF Behind, IsEnd, IsEarly
  <2>3. CASE f \in El(queue)
    <3>1. PICK i \in 1..Len(queue) : f = queue[i] BY <2>3 DEF El
    <3>2. i \in 1..Len(queue') /\ i < Len(queue) + 1 /\ IsEarly(queue'[i], p)
          BY <1>1, <1>5, <1>10, <3>1
    <3> QED BY <1>6, <2>1, <3>2 DEF Behind, IsEnd, IsEarly
  <2> QED BY <1>10, <2>2, <2>3 DEF Coming
<1> QED BY <1>2, <1>3, <1>4, <1>7, <1>8, <1>9, <1>10

LEMMA TakeKeepsTimed ==
    ASSUME PInv, DInv, Take
    PROVE  DInv'
<1>1. /\ queue # <<>> /\ queue \in Seq(PodEvent) /\ queue' = Tail(queue)
      /\ Held = {} /\ worker'.event = queue[1] /\ worker'.pc # "idle"
      /\ queue[1].phase \in Terminal => worker'.pc = "outcome"
      /\ Held' = {queue[1]} /\ El(queue) = El(queue') \cup {queue[1]}
      /\ UNCHANGED <<seen, pod, taskPods, lost, untimed>>
      BY TakeEffect
<1>2. Coming' = Coming BY <1>1 DEF Coming
<1>3. /\ Len(queue) \in Nat /\ Len(queue) >= 1 /\ Len(queue') = Len(queue) - 1
      /\ \A i \in 1..(Len(queue) - 1) : queue'[i] = queue[i + 1]
      BY <1>1, TailFacts
<1>4. worker.pc = "idle" BY DEF Take
<1>5. \A i \in 1..Len(queue) : i # 1 => /\ i - 1 \in 1..Len(queue') /\ queue'[i - 1] = queue[i]
  <2> TAKE i \in 1..Len(queue)
  <2> HAVE i # 1
  <2>1. i - 1 \in 1..(Len(queue) - 1) /\ (i - 1) + 1 = i BY <1>3
  <2>2. queue'[i - 1] = queue[(i - 1) + 1] BY <1>3, <2>1
  <2> QED BY <1>3, <2>1, <2>2
<1>6. ASSUME NEW p \in Pod, EndDue(p) PROVE EndDue(p)'
  <2>1. PICK e \in El(queue) : IsEnd(e, p) BY <1>4, <1>6 DEF EndDue
  <2>2. CASE e = queue[1] BY <1>1, <2>1, <2>2 DEF EndDue, IsEnd
  <2>3. CASE e \in El(queue') BY <2>1, <2>3 DEF EndDue, IsEnd, El
  <2> QED BY <1>1, <2>1, <2>2, <2>3
<1>7. ASSUME NEW p \in Pod, Behind(p) PROVE Behind(p)'
  <2>1. PICK j \in 1..Len(queue), i \in 1..Len(queue) :
          IsEnd(queue[j], p) /\ i < j /\ IsEarly(queue[i], p)
        BY <1>1, <1>7 DEF Behind
  <2>2. j # 1 BY <1>3, <2>1
  <2>3. PICK k : k = j - 1 OBVIOUS
  <2>4. k \in 1..Len(queue') /\ IsEnd(queue'[k], p) BY <1>5, <2>1, <2>2, <2>3
  <2>5. CASE i = 1 BY <1>1, <2>1, <2>4, <2>5 DEF Behind, IsEnd, IsEarly
  <2>6. CASE i # 1
    <3>1. PICK h : h = i - 1 OBVIOUS
    <3>2. h \in 1..Len(queue') /\ IsEarly(queue'[h], p) BY <1>5, <2>1, <2>6, <3>1
    <3>3. h < k BY <1>3, <2>1, <2>3, <3>1
    <3> QED BY <2>4, <3>2, <3>3 DEF Behind, IsEnd, IsEarly
  <2> QED BY <2>5, <2>6
<1>8. ASSUME NEW p \in Pod PROVE RowComes(p)' /\ Timed(p)'
  <2>1. RowComes(p) /\ Timed(p) BY DEF DInv
  <2>2. RowComes(p)' BY <1>1, <1>2, <2>1 DEF RowComes, IsEarly, NeverMade
  <2>3. Timed(p)' BY <1>1, <1>6, <1>7, <2>1 DEF Timed, NeverMade
  <2> QED BY <2>2, <2>3
<1>9. Misconfigured'
  <2>1. worker'.pc = "outcome" => worker'.event.phase \in Terminal \/ hasConfigError(worker'.event)
        BY DEF Take
  <2>2. worker'.event.configError \in BOOLEAN
    <3>1. queue[1] \in PodEvent BY <1>1, TailFacts
    <3> QED BY <1>1, <3>1 DEF PodEvent
  <2> QED BY <2>1, <2>2 DEF Misconfigured, hasConfigError
<1> QED BY <1>8, <1>9 DEF DInv

LEMMA WatchKeepsTimed ==
    ASSUME PInv, SInv, DInv, NEW p \in Pod, WatchPod(p)
    PROVE  DInv'
<1>1. /\ deltas[p] # <<>> /\ deltas[p] \in Seq(Snapshot) /\ seen'[p] = deltas[p][1].phase
      /\ \A q \in Pod \ {p} : seen'[q] = seen[q]
      /\ deltas[p][1] \in Snapshot
      /\ UNCHANGED <<worker, taskPods, pod, lost, untimed>>
      BY WatchEffect
<1>2. PICK e \in PodEvent :
                /\ e.pod = deltas[p][1].pod /\ e.phase = deltas[p][1].phase
                /\ e.configError = deltas[p][1].configError
                /\ queue' = IF seen[p] # deltas[p][1].phase THEN Append(queue, e) ELSE queue
      BY WatchEffect
<1>3. Shape(p) /\ 1 \in 1..Len(deltas[p]) BY <1>1, TailFacts DEF SInv
<1>4. e.pod = p /\ seen[p] \notin Terminal /\ e.phase = seen'[p] BY <1>1, <1>2, <1>3 DEF Shape
<1>0. Misconfigured' BY <1>1 DEF DInv, Misconfigured
<1>5. CASE seen[p] = deltas[p][1].phase
  <2>1. queue' = queue /\ seen'[p] = seen[p] BY <1>1, <1>2, <1>5
  <2>2. \A q \in Pod : seen'[q] = seen[q] BY <1>1, <2>1
  <2>3. Coming' = Coming BY <1>1, <2>1 DEF Coming, El, Held
  <2>4. \A q \in Pod : EndDue(q)' = EndDue(q) /\ Behind(q)' = Behind(q)
        BY <1>1, <2>1 DEF EndDue, Behind, IsEnd, IsEarly, El, Held
  <2>5. ASSUME NEW q \in Pod PROVE RowComes(q)' /\ Timed(q)'
    <3>1. RowComes(q) /\ Timed(q) BY DEF DInv
    <3> QED BY <1>1, <2>2, <2>3, <2>4, <3>1 DEF RowComes, Timed, IsEarly, NeverMade
  <2> QED BY <1>0, <2>5 DEF DInv
<1>6. CASE seen[p] # deltas[p][1].phase
  <2>1. queue' = Append(queue, e) BY <1>2, <1>6
  <2>2. /\ Coming' = Coming \cup {e}
        /\ \A q \in Pod : /\ EndDue(q) => EndDue(q)'
                          /\ Behind(q) => Behind(q)'
                          /\ IsEnd(e, q) => EndDue(q)'
                          /\ IsEnd(e, q) /\ (\E f \in Coming : IsEarly(f, q)) => Behind(q)'
        BY <1>1, <2>1, PushKeepsDue
  <2>3. ASSUME NEW q \in Pod, q # p PROVE RowComes(q)' /\ Timed(q)'
    <3>1. RowComes(q) /\ Timed(q) BY DEF DInv
    <3>2. seen'[q] = seen[q] BY <1>1, <2>3
    <3>3. RowComes(q)' BY <1>1, <2>2, <3>1, <3>2 DEF RowComes, IsEarly, NeverMade
    <3>4. Timed(q)' BY <1>1, <2>2, <3>1, <3>2 DEF Timed, NeverMade
    <3> QED BY <3>3, <3>4
  <2>4. CASE seen'[p] \notin Terminal
    <3>1. RowComes(p)'
      <4>1. CASE seen[p] = "none"
        <5>1. IsEarly(e, p) BY <1>2, <1>3, <1>4, <4>1 DEF IsEarly, Shape
        <5> QED BY <2>2, <5>1 DEF RowComes, IsEarly
      <4>2. CASE seen[p] # "none"
        <5>1. taskPods[p] = NoRow => NeverMade(p) \/ \E f \in Coming : IsEarly(f, p)
              BY <1>4, <4>2 DEF DInv, RowComes
        <5> QED BY <1>1, <2>2, <5>1 DEF RowComes, IsEarly, NeverMade
      <4> QED BY <4>1, <4>2
    <3>2. Timed(p)' BY <2>4 DEF Timed
    <3> QED BY <1>0, <2>3, <3>1, <3>2 DEF DInv
  <2>5. CASE seen'[p] \in Terminal
    <3>1. IsEnd(e, p) BY <1>4, <2>5 DEF IsEnd
    <3>2. seen[p] # "none"
      <4>1. deltas[p][1].phase # "Pending" BY <1>1, <2>5 DEF Terminal
      <4> QED BY <1>3, <4>1 DEF Shape
    <3>3. taskPods[p] = NoRow => NeverMade(p) \/ \E f \in Coming : IsEarly(f, p)
          BY <1>4, <3>2 DEF DInv, RowComes
    <3>4. Timed(p)' BY <1>1, <2>2, <3>1, <3>3 DEF Timed, NeverMade
    <3>5. RowComes(p)' BY <2>5 DEF RowComes
    <3> QED BY <1>0, <2>3, <3>4, <3>5 DEF DInv
  <2> QED BY <2>4, <2>5
<1> QED BY <1>5, <1>6

LEMMA LoopKeepsTimed ==
    ASSUME PInv, SInv, DInv, LoopStep
    PROVE  DInv'
<1>0. /\ worker.pc # "idle" /\ Held = {worker.event} /\ worker.event.pod \in Pod
      /\ UNCHANGED <<seen, queue>>
      /\ lost \subseteq lost' /\ untimed \subseteq untimed'
      BY LoopEffect
<1>1. El(queue') = El(queue) BY <1>0 DEF El
<1>2. \A p \in Pod : pod'[p].long = pod[p].long BY LoopEffect DEF Times
<1>3. \A p \in Pod : NeverMade(p) => NeverMade(p)' BY <1>0 DEF NeverMade
<1>4. Misconfigured'
  <2>1. worker'.pc # "outcome"
    <3>1. CASE WriteStatus
      <4>1. worker.pc = "mark" BY <3>1 DEF WriteStatus
      <4> QED BY <3>1, <4>1, HeldEffect
    <3>2. CASE ~WriteStatus BY <3>2, HeldEffect DEF LoopStep
    <3> QED BY <3>1, <3>2
  <2> QED BY <2>1 DEF Misconfigured
\* Steps that keep the event and the row, but for its duration.
<1>5. ASSUME NEW p \in Pod, Held' = Held,
             /\ (taskPods'[p] = NoRow <=> taskPods[p] = NoRow)
             /\ taskPods[p].duration => taskPods'[p].duration,
             EndDue(p) /\ taskPods[p] # NoRow /\ pod[p].long =>
                EndDue(p)' \/ taskPods'[p].duration \/ p \in untimed'
      PROVE  RowComes(p)' /\ Timed(p)'
  <2>1. RowComes(p) /\ Timed(p) BY DEF DInv
  <2>2. Behind(p)' = Behind(p) BY <1>0, <1>5 DEF Behind, IsEnd, IsEarly
  <2>3. Coming' = Coming BY <1>1, <1>5 DEF Coming
  <2>4. RowComes(p)' BY <1>0, <1>3, <1>5, <2>1, <2>3 DEF RowComes, IsEarly
  <2>5. Timed(p)' BY <1>0, <1>2, <1>3, <1>5, <2>1, <2>2 DEF Timed
  <2> QED BY <2>4, <2>5
<1>6. CASE SendStarted \/ TaskEnds
  <2>1. /\ Held' = Held /\ UNCHANGED taskPods /\ worker'.event = worker.event
        /\ worker.pc \in {"outcome", "duration"} => worker'.pc = "duration"
    <3>1. CASE SendStarted BY <3>1, HeldEffect
    <3>2. CASE TaskEnds BY <3>2, HeldEffect
    <3> QED BY <1>6, <3>1, <3>2
  <2>2. ASSUME NEW p \in Pod, EndDue(p) PROVE EndDue(p)'
        BY <1>1, <2>1, <2>2 DEF EndDue, IsEnd
  <2> QED BY <1>4, <1>5, <2>1, <2>2 DEF DInv
<1>7. CASE WriteDuration
  <2>1. Held' = Held BY <1>7, HeldEffect
  <2>2. ASSUME NEW p \in Pod PROVE RowComes(p)' /\ Timed(p)'
    <3>1. /\ (taskPods'[p] = NoRow <=> taskPods[p] = NoRow)
          /\ taskPods[p].duration => taskPods'[p].duration
          BY <1>7, RowEffect
    <3>2. ASSUME EndDue(p), taskPods[p] # NoRow, pod[p].long
          PROVE  EndDue(p)' \/ taskPods'[p].duration \/ p \in untimed'
      <4>1. CASE \E e \in El(queue) : IsEnd(e, p) BY <1>1, <4>1 DEF EndDue, IsEnd
      <4>2. CASE IsEnd(worker.event, p)
        <5>1. Exact(worker.event) BY <1>0 DEF SInv
        <5>2. Times(pod[p]) = Times(worker.event) /\ p = worker.event.pod
              BY <4>2, <5>1 DEF Exact, IsEnd
        <5>3. worker.event.long = pod[p].long BY <5>2 DEF Times
        <5> QED BY <1>7, <3>2, <5>2, <5>3, RowEffect
      <4> QED BY <3>2, <4>1, <4>2 DEF EndDue
    <3> QED BY <1>5, <2>1, <3>1, <3>2
  <2> QED BY <1>4, <2>2 DEF DInv
<1>8. CASE WriteStatus \/ WriteFails \/ ConfigError
  <2>0. "Pending" \notin Terminal BY DEF Terminal
  <2>1. \A p \in Pod : EndDue(p) => \E e \in El(queue) : IsEnd(e, p)
        BY <1>8, <2>0 DEF EndDue, IsEnd, WriteStatus, WriteFails, ConfigError
  <2>2. \A p \in Pod : (\E e \in El(queue) : IsEnd(e, p)) => EndDue(p)'
        BY <1>1 DEF EndDue, IsEnd
  <2>3. ASSUME NEW p \in Pod
        PROVE  /\ taskPods[p] # NoRow => taskPods'[p] # NoRow
               /\ taskPods[p].duration => taskPods'[p].duration
    <3>1. CASE WriteFails BY <3>1, HeldEffect
    <3>2. CASE WriteStatus \/ ConfigError BY <3>2, RowEffect
    <3> QED BY <1>8, <3>1, <3>2
  \* The event in hand made the row, or it was lost, or it was no event to make it.
  <2>4. ASSUME NEW p \in Pod, IsEarly(worker.event, p)
        PROVE  taskPods'[p] # NoRow \/ NeverMade(p)'
    <3>1. CASE WriteStatus BY <2>4, <3>1, RowEffect DEF IsEarly
    <3>2. CASE WriteFails BY <2>4, <3>2 DEF WriteFails, IsEarly, NeverMade
    <3>3. CASE ConfigError BY <2>0, <2>4, <3>3 DEF ConfigError, IsEarly, DInv, Misconfigured
    <3> QED BY <1>8, <3>1, <3>2, <3>3
  <2>5. ASSUME NEW p \in Pod PROVE RowComes(p)' /\ Timed(p)'
    <3>1. RowComes(p) /\ Timed(p) BY DEF DInv
    <3>2. RowComes(p)'
      <4> SUFFICES ASSUME taskPods'[p] = NoRow, seen[p] \notin Terminal \cup {"none"}, ~NeverMade(p)'
                   PROVE  \E e \in Coming' : IsEarly(e, p)
          BY <1>0 DEF RowComes, IsEarly
      <4>1. taskPods[p] = NoRow /\ ~IsEarly(worker.event, p) BY <2>3, <2>4
      <4>2. PICK e \in Coming : IsEarly(e, p) BY <1>3, <3>1, <4>1 DEF RowComes
      <4>3. e \in El(queue) BY <1>0, <4>1, <4>2 DEF Coming
      <4> QED BY <1>1, <4>2, <4>3 DEF Coming
    <3>3. Timed(p)'
      <4> SUFFICES ASSUME seen[p] \in Terminal, Behind(p), ~NeverMade(p)'
                   PROVE  (taskPods'[p] # NoRow /\ EndDue(p)') \/ Behind(p)'
          BY <1>0, <1>2, <1>3, <2>1, <2>2, <2>3, <3>1 DEF Timed
      <4>1. PICK j \in 1..Len(queue) :
              /\ IsEnd(queue[j], p)
              /\ \/ \E i \in 1..Len(queue) : i < j /\ IsEarly(queue[i], p)
                 \/ \E e \in Held : IsEarly(e, p)
            BY DEF Behind
      <4>2. ASSUME NEW i \in 1..Len(queue), i < j, IsEarly(queue[i], p) PROVE Behind(p)'
            BY <1>0, <4>1, <4>2 DEF Behind, IsEnd, IsEarly
      <4>3. ASSUME NEW e \in Held, IsEarly(e, p) PROVE taskPods'[p] # NoRow /\ EndDue(p)'
        <5>1. IsEarly(worker.event, p) BY <1>0, <4>3
        <5>2. queue[j] \in El(queue) BY DEF El
        <5> QED BY <2>2, <2>4, <4>1, <5>1, <5>2
      <4> QED BY <4>1, <4>2, <4>3
    <3> QED BY <3>2, <3>3
  <2> QED BY <1>4, <2>5 DEF DInv
<1> QED BY <1>6, <1>7, <1>8 DEF LoopStep

LEMMA NextD == PInv /\ PInv' /\ SInv /\ DInv /\ [Next]_vars => DInv'
<1> SUFFICES ASSUME PInv, PInv', SInv, DInv, [Next]_vars PROVE DInv' OBVIOUS
<1> USE Groups
<1>1. ASSUME UNCHANGED <<seen, queue, worker, taskPods, lost, untimed>>,
             \A p \in Pod : seen[p] \in Terminal => pod'[p].long = pod[p].long
      PROVE  DInv'
  <2>1. Misconfigured' BY <1>1 DEF DInv, Misconfigured
  <2>2. \A p \in Pod : RowComes(p)'
        BY <1>1 DEF DInv, RowComes, Coming, IsEarly, El, Held, NeverMade
  <2>3. \A p \in Pod : EndDue(p)' = EndDue(p) /\ Behind(p)' = Behind(p)
        BY <1>1 DEF EndDue, Behind, IsEnd, IsEarly, El, Held
  <2>4. \A p \in Pod : Timed(p)' BY <1>1, <2>3 DEF DInv, Timed, NeverMade
  <2> QED BY <2>1, <2>2, <2>4 DEF DInv
<1>2. CASE Tick \/ BackgroundSend \/ Listen \/ DialHangs \/ UNCHANGED vars
      BY <1>1, <1>2 DEF Tick, BackgroundSend, Listen, DialHangs, all
<1>3. ASSUME NEW p \in Pod, PodChanges(p) \/ WarningFetches(p) PROVE DInv'
  <2>1. CASE WarningFetches(p) BY <1>1, <2>1 DEF WarningFetches
  <2>2. CASE PodChanges(p)
    <3>1. /\ pod[p].phase \in {"Pending", "Running"}
          /\ \A q \in Pod \ {p} : pod'[q] = pod[q] /\ deltas'[q] = deltas[q]
          /\ UNCHANGED <<seen, queue, worker, taskPods, lost, untimed>>
          BY <2>2, ChangeEffect
    <3>2. seen[p] \notin Terminal
      <4>1. pod[p].phase \notin Terminal BY <3>1 DEF Terminal
      <4> QED BY <4>1 DEF SInv, Shape
    <3> QED BY <1>1, <3>1, <3>2
  <2> QED BY <1>3, <2>1, <2>2
<1>4. ASSUME NEW p \in Pod, WatchPod(p) PROVE DInv' BY <1>4, WatchKeepsTimed
<1>5. CASE WarningPushes
  <2>1. PICK s \in warnings : /\ queue' = Append(queue, Event(s))
                              /\ UNCHANGED <<pod, seen, worker, taskPods, lost, untimed>>
        BY <1>5 DEF WarningPushes
  <2>2. PICK e : e = Event(s) OBVIOUS
  <2>3. e \in PodEvent BY <2>2, HeldTypes, EventType
  <2>4. /\ Coming' = Coming \cup {e}
        /\ \A p \in Pod : /\ EndDue(p) => EndDue(p)'
                          /\ Behind(p) => Behind(p)'
        BY <2>1, <2>2, <2>3, PushKeepsDue
  <2>5. ASSUME NEW p \in Pod PROVE RowComes(p)' /\ Timed(p)'
    <3>1. RowComes(p) /\ Timed(p) BY DEF DInv
    <3>2. RowComes(p)' BY <2>1, <2>4, <3>1 DEF RowComes, IsEarly, NeverMade
    <3>3. Timed(p)' BY <2>1, <2>4, <3>1 DEF Timed, NeverMade
    <3> QED BY <3>2, <3>3
  <2>6. Misconfigured' BY <2>1 DEF DInv, Misconfigured
  <2> QED BY <2>5, <2>6 DEF DInv
<1>6. CASE Take BY <1>6, TakeKeepsTimed
<1>7. CASE LoopStep BY <1>7, LoopKeepsTimed
<1> QED BY <1>2, <1>3, <1>4, <1>5, <1>6, <1>7 DEF Next, LoopStep

\* An ended pod whose times make a duration has it once nothing is on its way, whatever
\* the Warnings, the refusals and the retries did, unless the database failed at the
\* duration or at the pod's first status: the watcher's event of the end is handled after
\* one that made the row, although AddPodDuration comes before the status is written.
THEOREM EndsAreTimed == Spec => []EndHasDuration
<1>1. Init => DInv BY DEF Init, DInv, RowComes, Timed, Terminal, Misconfigured, Idle
<1>2. Spec => []DInv BY <1>1, NextD, AlwaysS, PTL DEF Spec
<1>3. SInv /\ DInv => EndHasDuration
  <2> SUFFICES ASSUME SInv, DInv, quiet, NEW p \in Pod, pod[p].phase \in Terminal, pod[p].long
               PROVE  taskPods[p].duration \/ p \in untimed \/ <<p, "Pending">> \in lost
      BY DEF EndHasDuration
  <2>1. deltas[p] = <<>> /\ El(queue) = {} /\ worker.pc = "idle" /\ queue = <<>>
        BY DEF quiet, El, Idle
  <2>2. seen[p] \in Terminal BY <2>1 DEF SInv, Shape
  <2>3. ~EndDue(p) /\ ~Behind(p) BY <2>1 DEF EndDue, Behind
  <2> QED BY <2>2, <2>3 DEF DInv, Timed, NeverMade
<1> QED BY <1>2, <1>3, AlwaysS, PTL

=============================================================================
