------------------------------ MODULE PodStatus -----------------------------
(***************************************************************************)
(* From the phases of a pod to its row of Task_Pods and to the webhook.    *)
(*                                                                         *)
(* Two watchers push events of a pod to the queue of its worker: the pod   *)
(* watcher for every change of phase, and the event watcher with the pod   *)
(* it fetched when a Warning came by.  The worker handles one event after  *)
(* the other: it notifies the webhook through a bounded channel and writes *)
(* the phase to Task_Pods.  Stamps order the writes: the time of the push, *)
(* or for an ended container the kubelet's FinishedAt, which has whole     *)
(* seconds.  What an event does to the DAG run is module DagRunProgress;   *)
(* the queue is module PodEventQueue.                                      *)
(***************************************************************************)
EXTENDS Naturals, Sequences, FiniteSets

CONSTANTS
    Pod,               \* pods whose names hash to the queue of this worker
    ChanCap,           \* capacity of the webhook channel (10)
    MaxStatusRetries,  \* writes of one status (5)
    TicksPerSecond,    \* resolution of the clock
    MaxClock,          \* bound on the clock
    MaxWarnings,       \* bound on the Warning events
    MaxErrors,         \* bound on database errors and hung handshakes
    HasWebhook,        \* the DAG names a webhook
    VerifySSL          \* ... and asks for a check of its certificate

ASSUME StatusAssumption ==
    /\ {ChanCap, MaxStatusRetries, TicksPerSecond} \subseteq Nat \ {0}
    /\ {MaxClock, MaxWarnings, MaxErrors} \subseteq Nat
    /\ {HasWebhook, VerifySSL} \subseteq BOOLEAN

VARIABLES
    backend,     \* the DAG manager: "postgres" or "sqlite"
    clock,
    pod,         \* the pods: [phase, configError, finished, finishedAt, long,
                 \* present]; an ended one need not have a FinishedAt (finished)
                 \* nor times that make a second or more (long)
    deltas,      \* what the informer has still to tell the pod watcher
    seen,        \* the phase it told last, "none" before the add
    warnings,    \* pods fetched by the event watcher and not yet pushed
    warned,
    queue,       \* events [pod, phase, configError, finished, finishedAt, long,
                 \* stamp]
    worker,      \* the event loop: [pc, event, attempt]
    taskPods,    \* Task_Pods, by Pod_UID: [status, stamp, duration]
    sending,     \* payloads <<pod, status>> that goroutines wait to send;
                 \* equal ones count once
    channel,     \* webhookChan
    heard,       \* payloads about an end that the webhook manager has taken
    stuck,       \* the manager is in a TLS handshake that nobody answers
    lost,        \* <<pod, phase>> whose write failed with a database error
    untimed      \* pods whose duration failed with a database error

cluster  == <<pod, deltas>>
watchers == <<seen, warnings, warned>>
webhook  == <<sending, channel, heard>>
failures == <<stuck, lost, untimed>>
vars == <<backend, failures, clock, cluster, watchers, queue, worker, taskPods, webhook>>

Terminal == {"Succeeded", "Failed"}     \* the others: "Pending", "Running"

NoRow == [status |-> "none", stamp |-> 0, duration |-> FALSE]
Idle  == [pc |-> "idle", event |-> <<>>, attempt |-> 0]

View(p) == [pod |-> p, phase |-> pod[p].phase, configError |-> pod[p].configError,
            finished |-> pod[p].finished, finishedAt |-> pod[p].finishedAt,
            long |-> pod[p].long]

Init ==
    /\ backend \in {"postgres", "sqlite"}
    /\ clock = 0
    /\ pod = [p \in Pod |-> [phase |-> "Pending", configError |-> FALSE,
                             finished |-> FALSE, finishedAt |-> 0, long |-> FALSE,
                             present |-> TRUE]]
    /\ deltas = [p \in Pod |-> <<[pod |-> p, phase |-> "Pending",
                                  configError |-> FALSE, finished |-> FALSE,
                                  finishedAt |-> 0, long |-> FALSE]>>]
    /\ seen = [p \in Pod |-> "none"]
    /\ warnings = {} /\ warned = 0
    /\ queue = <<>> /\ worker = Idle
    /\ taskPods = [p \in Pod |-> NoRow]
    /\ sending = {} /\ channel = <<>> /\ heard = {}
    /\ stuck = FALSE /\ lost = {} /\ untimed = {}

-----------------------------------------------------------------------------
(* The cluster (external).                                                  *)

Tick ==
    /\ clock < MaxClock /\ clock' = clock + 1
    /\ UNCHANGED <<backend, failures, cluster, watchers, queue, worker,
                   taskPods, webhook>>

\* metav1.Time is serialised in whole seconds.
Second(t) == t - (t % TicksPerSecond)

\* The status of the pod changes, and the API server tells the informer.  A
\* pod may end without having run (evicted, past its deadline), and with or
\* without the times of its container.
PodChanges(p) ==
    /\ pod[p].present
    /\ \/ /\ pod[p].phase = "Pending" /\ ~pod[p].configError
          /\ pod' = [pod EXCEPT ![p].configError = TRUE]
       \/ /\ pod[p].phase = "Pending"
          /\ pod' = [pod EXCEPT ![p].phase = "Running", ![p].configError = FALSE]
       \/ \E end \in Terminal, finished, long \in BOOLEAN :
            /\ pod[p].phase \notin Terminal
            /\ pod' = [pod EXCEPT ![p] =
                    [phase |-> end, configError |-> FALSE, finished |-> finished,
                     finishedAt |-> IF finished THEN Second(clock) ELSE 0,
                     long |-> long, present |-> TRUE]]
    /\ deltas' = [deltas EXCEPT ![p] = Append(@, View(p)')]
    /\ UNCHANGED <<backend, failures, clock, watchers, queue, worker, taskPods,
                   webhook>>

-----------------------------------------------------------------------------
(* The watchers.                                                            *)

Event(snapshot) ==
    [pod |-> snapshot.pod, phase |-> snapshot.phase,
     configError |-> snapshot.configError, finished |-> snapshot.finished,
     finishedAt |-> snapshot.finishedAt, long |-> snapshot.long, stamp |-> clock]

\* HandleAdd for the first delta, HandleUpdate for the others: an update
\* that leaves the phase alone is not pushed.
IsPushed(old, new) == old # new

WatchPod(p) ==
    /\ deltas[p] # <<>>
    /\ LET new == Head(deltas[p])
       IN  /\ queue' = IF IsPushed(seen[p], new.phase)
                       THEN Append(queue, Event(new)) ELSE queue
           /\ seen' = [seen EXCEPT ![p] = new.phase]
    /\ deltas' = [deltas EXCEPT ![p] = Tail(@)]
    /\ UNCHANGED <<backend, failures, clock, pod, warnings, warned, worker,
                   taskPods, webhook>>

\* A Warning about a pod: hasRequiredLabels fetches the pod ...
WarningFetches(p) ==
    /\ warned < MaxWarnings /\ pod[p].present
    /\ warned' = warned + 1
    /\ warnings' = warnings \cup {View(p)}
    /\ UNCHANGED <<backend, failures, clock, cluster, seen, queue, worker,
                   taskPods, webhook>>

\* ... and the handler stamps and pushes what was fetched.
WarningPushes ==
    \E snapshot \in warnings :
        /\ warnings' = warnings \ {snapshot}
        /\ queue' = Append(queue, Event(snapshot))
        /\ UNCHANGED <<backend, failures, clock, cluster, seen, warned, worker,
                       taskPods,
                       webhook>>

-----------------------------------------------------------------------------
(* The worker.                                                              *)

\* "go NotifyTaskRun(...)": a goroutine that sends when there is room.
Notify(p, status) ==
    sending' = IF HasWebhook THEN sending \cup {<<p, status>>} ELSE sending

\* A container waits because of an error in its configuration.
hasConfigError(event) == event.phase = "Pending" /\ event.configError

Take ==
    /\ worker.pc = "idle" /\ queue # <<>>
    /\ queue' = Tail(queue)
    /\ LET event == Head(queue)
       IN  /\ worker' = [event |-> event, attempt |-> 0,
                         pc |-> CASE event.phase \in Terminal -> "outcome"
                                  [] event.phase = "Running"  -> "started"
                                  [] hasConfigError(event)    -> "outcome"
                                  [] OTHER                    -> "mark"]
           /\ IF event.phase = "Pending" /\ ~hasConfigError(event)
              THEN Notify(event.pod, "pending") ELSE UNCHANGED sending
    /\ UNCHANGED <<backend, failures, clock, cluster, watchers, taskPods,
                   channel, heard>>

SendStarted_InBackground ==
    /\ worker.pc = "started"
    /\ Notify(worker.event.pod, "started")
    /\ worker' = [worker EXCEPT !.pc = "mark"]
    /\ UNCHANGED <<backend, failures, clock, cluster, watchers, queue,
                   taskPods, channel, heard>>

\* handleStartedTaskRun: the send itself, not a goroutine.
SendStarted ==
    /\ worker.pc = "started"
    /\ IF HasWebhook
       THEN /\ Len(channel) < ChanCap
            /\ channel' = Append(channel, <<worker.event.pod, "started">>)
       ELSE UNCHANGED channel
    /\ worker' = [worker EXCEPT !.pc = "mark"]
    /\ UNCHANGED <<backend, failures, clock, cluster, watchers, queue,
                   taskPods, sending, heard>>

\* handleSuccessfulTaskRun and handleFailedTaskRun: a pod that was handled
\* before, or is retried, is not told of.
TaskEnds ==
    /\ worker.pc = "outcome" /\ worker.event.phase \in Terminal
    /\ \/ Notify(worker.event.pod, IF worker.event.phase = "Succeeded"
                                   THEN "success" ELSE "failed")
       \/ UNCHANGED sending
    /\ worker' = [worker EXCEPT !.pc = "duration"]
    /\ UNCHANGED <<backend, failures, clock, cluster, watchers, queue,
                   taskPods, channel, heard>>

\* A status whose stamp is that of the row is refused, too.
IsWritten_Strict(row, stamp) ==
    backend = "postgres" /\ row # NoRow => row.stamp < stamp

\* Whether MarkPodStatus writes: Postgres keeps a row with a later stamp and
\* reports "pod status not updated", SQLite overwrites any row.
IsWritten(row, stamp) ==
    backend = "postgres" /\ row # NoRow => row.stamp <= stamp

MarkPodStatus(row, status, stamp) ==
    IF IsWritten(row, stamp) THEN [row EXCEPT !.status = status, !.stamp = stamp]
                             ELSE row

\* handleConfigError: the pod counts as failed and is deleted with its
\* finalizer, whether or not the row can be written; the two notifications of
\* it are the same.
ConfigError ==
    LET p == worker.event.pod
    IN  /\ worker.pc = "outcome" /\ worker.event.phase = "Pending"
        /\ \/ taskPods' = [taskPods EXCEPT ![p] = MarkPodStatus(@, "Failed", clock)]
           \/ UNCHANGED taskPods
        /\ pod' = [pod EXCEPT ![p].present = FALSE]
        /\ Notify(p, "failed")
        /\ worker' = Idle
        /\ UNCHANGED <<backend, failures, clock, deltas, watchers, queue,
                       channel, heard>>

AddPodDuration_OnlyOnce(row) ==
    IF row.status \in {"none", "Running"} THEN row ELSE [row EXCEPT !.duration = TRUE]

\* AddPodDuration is an UPDATE of the rows of the task run: before the first
\* status of the pod there is none.
AddPodDuration(row) == IF row = NoRow THEN row ELSE [row EXCEPT !.duration = TRUE]

\* One more call may fail, or hang.
MayFail ==
    Cardinality(lost) + Cardinality(untimed) + (IF stuck THEN 1 ELSE 0) < MaxErrors

\* A duration of zero is not written, and a failing write is only logged.
WriteDuration ==
    /\ worker.pc = "duration"
    /\ \/ /\ worker.event.long
          /\ taskPods' = [taskPods EXCEPT ![worker.event.pod] = AddPodDuration(@)]
          /\ UNCHANGED untimed
       \/ /\ worker.event.long /\ MayFail
          /\ untimed' = untimed \cup {worker.event.pod}
          /\ UNCHANGED taskPods
       \/ /\ ~worker.event.long
          /\ UNCHANGED <<untimed, taskPods>>
    /\ worker' = [worker EXCEPT !.pc = "mark"]
    /\ UNCHANGED <<backend, stuck, lost, clock, cluster, watchers, queue, webhook>>

\* A retry that falls back to the stamp of the push.
outStamp_OnRetry ==
    IF worker.event.phase \in Terminal /\ worker.event.finished /\ worker.attempt = 0
    THEN worker.event.finishedAt ELSE worker.event.stamp

\* computePodDurationAndExit: the stamp of an ended container is the kubelet's
\* where it is given, any other is that of the push.
outStamp == IF worker.event.phase \in Terminal /\ worker.event.finished
            THEN worker.event.finishedAt ELSE worker.event.stamp

\* One turn of the loop in writeStatusToDB.
WriteStatus ==
    LET p       == worker.event.pod
        refused == ~IsWritten(taskPods[p], outStamp)
    IN  /\ worker.pc = "mark"
        /\ taskPods' = [taskPods EXCEPT ![p] =
                            MarkPodStatus(@, worker.event.phase, outStamp)]
        /\ worker' = IF refused /\ worker.attempt + 1 < MaxStatusRetries
                     THEN [worker EXCEPT !.attempt = @ + 1] ELSE Idle
        /\ IF refused THEN UNCHANGED sending ELSE Notify(p, "pod")
        /\ UNCHANGED <<backend, failures, clock, cluster, watchers, queue,
                       channel, heard>>

\* Any other error of the database ends the loop, and the write is lost.
WriteFails ==
    /\ worker.pc = "mark" /\ MayFail
    /\ lost' = lost \cup {<<worker.event.pod, worker.event.phase>>}
    /\ worker' = Idle
    /\ UNCHANGED <<backend, stuck, untimed, clock, cluster, watchers, queue,
                   taskPods,
                   webhook>>

-----------------------------------------------------------------------------
(* The webhook manager.                                                     *)

BackgroundSend ==
    /\ Len(channel) < ChanCap
    /\ \E m \in sending :
        /\ sending' = sending \ {m}
        /\ channel' = Append(channel, m)
    /\ UNCHANGED <<backend, failures, clock, cluster, watchers, queue, worker,
                   taskPods, heard>>

\* What the manager has heard once it took the first payload.
Hears == heard \cup {m \in {Head(channel)} : m[2] \in {"success", "failed"}}

\* A listener that returns after an end.
Listen_Returns ==
    /\ channel # <<>> /\ ~stuck /\ heard = {}
    /\ channel' = Tail(channel)
    /\ heard' = Hears
    /\ UNCHANGED <<backend, failures, clock, cluster, watchers, queue, worker,
                   taskPods, sending>>

\* Listen: one payload at a time, posted or, when the certificate, the
\* marshalling or the request fails, dropped; nothing is tried again.
Listen ==
    /\ channel # <<>> /\ ~stuck
    /\ channel' = Tail(channel)
    /\ heard' = Hears
    /\ UNCHANGED <<backend, failures, clock, cluster, watchers, queue, worker,
                   taskPods, sending>>

\* VerifySSL dials with tls.Dial, which has no timeout: an endpoint that takes
\* the connection and never answers keeps the manager for ever.
DialHangs ==
    /\ VerifySSL /\ MayFail /\ channel # <<>> /\ ~stuck
    /\ stuck' = TRUE
    /\ channel' = Tail(channel)
    /\ UNCHANGED <<backend, lost, untimed, clock, cluster, watchers, queue, worker,
                   taskPods, sending, heard>>

Next ==
    \/ Tick
    \/ \E p \in Pod : PodChanges(p) \/ WatchPod(p) \/ WarningFetches(p)
    \/ WarningPushes
    \/ Take \/ SendStarted \/ TaskEnds \/ ConfigError
    \/ WriteDuration \/ WriteStatus \/ WriteFails
    \/ BackgroundSend \/ Listen \/ DialHangs

Spec == Init /\ [][Next]_vars

\* The worker and the goroutines run, and a request of the HTTP client ends by
\* its timeout.
FairSpec ==
    /\ Spec
    /\ WF_vars(Take \/ SendStarted \/ TaskEnds \/ ConfigError \/ WriteDuration
               \/ WriteStatus)
    /\ WF_vars(BackgroundSend) /\ WF_vars(Listen)

-----------------------------------------------------------------------------
(* Properties                                                               *)

\* Nothing is on its way to the table.
quiet == queue = <<>> /\ worker = Idle /\ warnings = {}
         /\ \A p \in Pod : deltas[p] = <<>>

\* Once all events are handled the table has the last phase of an ended pod,
\* unless the write of that phase met a database error.  Two more things lose
\* it: a Warning event, whose pod may be stale, where its write is not refused
\* (SQLite overwrites; a pod without FinishedAt has no stamp of its own), and
\* with Postgres a FinishedAt no later than the stamp of an event pushed before
\* (workers.go writeStatusToDB, MarkPodStatus of the two managers).
EndIsRecorded ==
    quiet => \A p \in Pod :
        pod[p].phase \in Terminal =>
            \/ taskPods[p].status = pod[p].phase
            \/ <<p, pod[p].phase>> \in lost
            \/ warned > 0 /\ (backend = "sqlite" \/ ~pod[p].finished)
            \/ backend = "postgres" /\ pod[p].finished /\
                 \/ taskPods[p].stamp > pod[p].finishedAt
                 \/ taskPods[p].stamp = pod[p].finishedAt /\ warned > 0

\* With Postgres a write that was refused once is refused by every retry:
\* the retries of writeStatusToDB hold the worker up and change nothing.
RefusalIsFinal ==
    [][worker.pc = "mark" /\ worker.attempt > 0 => UNCHANGED taskPods]_vars

\* Without Warning events no start is on its way to the endpoint once the end
\* of the same pod was posted, although all the other notifications race: the
\* start is in the channel before the next event is taken (workers.go
\* handleStartedTaskRun).
StartedComesFirst ==
    warned = 0 => \A m \in heard, i \in DOMAIN channel :
                      channel[i] # <<m[1], "started">>

\* Once all events are handled an ended pod whose times make a duration has
\* it, unless writing it, or the first status of the pod, met a database
\* error.  AddPodDuration comes before the status and finds no row when the
\* end is the first that is handled, as after a Warning; the watcher's own
\* events of the pod, which begin with its creation, are behind it
\* (workers.go writeStatusToDB).
EndHasDuration ==
    quiet => \A p \in Pod :
        pod[p].phase \in Terminal /\ pod[p].long =>
            taskPods[p].duration \/ p \in untimed \/ <<p, "Pending">> \in lost

\* However small the channel, the worker gets through the synchronous send
\* and handles every event, except that an endpoint which never answers the
\* TLS handshake stops it at the next start of a pod (webhook.go Listen).
EventsAreHandled ==
    (queue # <<>>) ~> \/ queue = <<>> /\ worker = Idle
                      \/ stuck /\ worker.pc = "started"
=============================================================================
