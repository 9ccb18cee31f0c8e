------------------------ MODULE RunLifecycle_proofs -------------------------
(***************************************************************************)
(* Theorems about RunLifecycle, for any number of pods and goroutines, any *)
(* number of events and faults.                                            *)
(***************************************************************************)
EXTENDS RunLifecycle, TLAPS

all == <<store, obj, queued, rec, run, row, listed, pods, pvc, log, uploads, coll,
         fetching, abandoned, readFailed, abortFailed, events, faults>>

\* The groups of variables, spelled out.
LEMMA Groups ==
    /\ (UNCHANGED vars <=> UNCHANGED all)
    /\ (UNCHANGED object <=> UNCHANGED <<obj, queued, rec>>)
    /\ (UNCHANGED tables <=> UNCHANGED <<run, row, listed>>)
    /\ (UNCHANGED cluster <=> UNCHANGED <<pods, pvc>>)
    /\ (UNCHANGED logs <=>
            UNCHANGED <<log, uploads, coll, fetching, abandoned, readFailed, abortFailed>>)
    /\ (UNCHANGED notLogs <=>
            UNCHANGED <<store, obj, queued, rec, run, row, listed, pods, pvc, events>>)
BY DEF vars, all, object, tables, cluster, logs, notLogs

-----------------------------------------------------------------------------
(* Types, in parts: a step disturbs two or three of them.                  *)

PodRecord == [phase : {"none", "active", "ended"}, claim : BOOLEAN,
              presence : {"none", "present", "terminating", "gone"},
              finalizer : BOOLEAN]
RecRecord == [pc : {"idle"} \cup Creation \cup Deletion, runId : {0, RunId},
              todo : SUBSET Pod]
CollPc == {"idle", "check", "mark", "create", "open", "copy", "unfinalize", "exists",
           "list", "delete"}
CollRecord == [pc : CollPc, pod : Pod \cup {"none"}, parts : BOOLEAN, listed : SUBSET Pod]

ObjType  == /\ obj \in [state : {"absent", "present", "deleting", "gone"},
                        finalizer : BOOLEAN, runId : {0, RunId}]
            /\ queued \in BOOLEAN
RecType  == rec \in RecRecord
TabType  == /\ run \in {"none", "running", "suspended", "gone"}
            /\ row \in [Pod -> {"none", "pending", "running", "ended", "gone"}]
            /\ listed \subseteq Pod
PodType  == pods \in [Pod -> PodRecord]
PvcType  == pvc \in {"none", "bound", "gone"}
LogType  == log \in [Pod -> {"none", "partial", "complete"}]
UpType   == /\ store \in {"filesystem", "s3"}
            /\ uploads \subseteq Pod
            /\ uploads # {} => store = "s3"
MarkType == /\ fetching \subseteq Pod /\ abandoned \in BOOLEAN
            /\ readFailed \subseteq Pod /\ abortFailed \subseteq Pod
CollType == coll \in [Collector -> CollRecord]
NumType  == events \in 0..MaxEvents /\ faults \in 0..MaxFaults

LEMMA TypeParts ==
    TypeOK <=> /\ ObjType /\ RecType /\ TabType /\ PodType /\ PvcType /\ LogType
               /\ UpType /\ MarkType /\ CollType /\ NumType
BY DEF TypeOK, ObjType, RecType, TabType, PodType, PvcType, LogType, UpType, MarkType,
       CollType, NumType, PodRecord, RecRecord, CollRecord, CollPc

LEMMA TypePartsPrime ==
    TypeOK' <=> /\ ObjType' /\ RecType' /\ TabType' /\ PodType' /\ PvcType' /\ LogType'
                /\ UpType' /\ MarkType' /\ CollType' /\ NumType'
BY TypeParts, PTL

LEMMA Frame ==
    ASSUME TypeOK
    PROVE  /\ UNCHANGED <<obj, queued>> => ObjType'
           /\ rec' = rec => RecType'
           /\ UNCHANGED <<run, row, listed>> => TabType'
           /\ pods' = pods => PodType'
           /\ pvc' = pvc => PvcType'
           /\ log' = log => LogType'
           /\ UNCHANGED <<store, uploads>> => UpType'
           /\ UNCHANGED <<fetching, readFailed, abortFailed, abandoned>> => MarkType'
           /\ coll' = coll => CollType'
           /\ UNCHANGED <<events, faults>> => NumType'
BY TypeParts DEF ObjType, RecType, TabType, PodType, PvcType, LogType, UpType, MarkType,
       CollType, NumType

LEMMA PodRecords ==
    ASSUME NEW pod \in PodRecord
    PROVE  Deleted(pod) \in PodRecord /\ Unfinalized(pod) \in PodRecord
BY DEF PodRecord, Deleted, Unfinalized

\* handleDeletion goes through its steps in this order.
LEMMA DeletionOrder ==
    /\ NextDeletion("suspend") = "pods"
    /\ NextDeletion("pods") = "deleteRun"
    /\ NextDeletion("deleteRun") = "listLogs"
    /\ NextDeletion("listLogs") = "deleteLogs"
    /\ NextDeletion("deleteLogs") = "deletePvc"
    /\ NextDeletion("deletePvc") = "finalizer"
BY DEF NextDeletion

\* Updates of the reconciler's record.
LEMMA RecRecords ==
    ASSUME RecType
    PROVE  /\ Idle \in RecRecord
           /\ \A pc \in Creation \cup Deletion : [rec EXCEPT !.pc = pc] \in RecRecord
           /\ \A pc \in Creation \cup Deletion, todo \in SUBSET Pod :
                [rec EXCEPT !.pc = pc, !.todo = todo] \in RecRecord
           /\ \A todo \in SUBSET Pod : [rec EXCEPT !.todo = todo] \in RecRecord
           /\ [rec EXCEPT !.pc = "rows", !.runId = RunId, !.todo = Pod] \in RecRecord
BY DEF RecType, RecRecord, Idle, Creation, RunId

LEMMA ReconcilerTypes ==
    ASSUME TypeOK, CreateObject \/ DeleteObject \/ ReconcilerStep
                   \/ ReconcileFails \/ ControllerRestarts
    PROVE  TypeOK'
<1>1. /\ ObjType /\ RecType /\ TabType /\ PodType /\ PvcType /\ LogType
      /\ UpType /\ MarkType /\ CollType /\ NumType
      BY TypeParts
<1> USE Groups, Frame, TypePartsPrime
<1>2. CASE CreateObject
  <2>1. ObjType' BY <1>1, <1>2 DEF CreateObject, ObjType
  <2> QED BY <1>2, <2>1 DEF CreateObject
<1>3. CASE DeleteObject
  <2>1. ObjType' BY <1>1, <1>3 DEF DeleteObject, ObjType
  <2> QED BY <1>3, <2>1 DEF DeleteObject
<1>4. CASE Reconcile
  <2>1. ObjType' /\ RecType'
    <3>1. [Idle EXCEPT !.pc = "pvc"] \in RecRecord BY DEF RecRecord, Idle, Creation
    <3>2. [Idle EXCEPT !.pc = "suspend", !.runId = obj.runId] \in RecRecord
          BY <1>1 DEF RecRecord, Idle, Deletion, ObjType
    <3>3. CASE obj.state \in {"absent", "gone"}
          BY <1>1, <1>4, <3>3 DEF Reconcile, ObjType, RecType
    <3>4. CASE obj.state = "deleting"
          BY <1>1, <1>4, <3>2, <3>4 DEF Reconcile, ObjType, RecType
    <3>5. CASE obj.state = "present" /\ ~obj.finalizer
          BY <1>1, <1>4, <3>5 DEF Reconcile, ObjType, RecType
    <3>6. CASE obj.state = "present" /\ obj.finalizer
          BY <1>1, <1>4, <3>1, <3>6, RecRecords DEF Reconcile, ObjType, RecType
    <3> QED BY <1>1, <3>3, <3>4, <3>5, <3>6 DEF ObjType
  <2> QED BY <1>4, <2>1 DEF Reconcile
<1>5. CASE CreatePvc
  <2>1. RecType' BY <1>1, <1>5, RecRecords DEF CreatePvc, GoTo, Creation, RecType
  <2>2. PvcType' BY <1>1, <1>5 DEF CreatePvc, PvcType
  <2> QED BY <1>5, <2>1, <2>2 DEF CreatePvc
<1>6. CASE InsertRun
  <2>1. RecType' BY <1>1, <1>6, RecRecords DEF InsertRun, RecType
  <2>2. TabType' BY <1>1, <1>6 DEF InsertRun, TabType
  <2> QED BY <1>6, <2>1, <2>2 DEF InsertRun
<1>7. CASE InsertRow
  <2>1. RecType'
    <3>1. CASE rec.todo = {} /\ GoTo("status")
          BY <1>1, <3>1, RecRecords DEF GoTo, Creation, RecType
    <3>2. CASE \E p \in rec.todo : rec' = [rec EXCEPT !.todo = @ \ {p}]
      <4>1. PICK p \in rec.todo : rec' = [rec EXCEPT !.todo = rec.todo \ {p}] BY <3>2
      <4>2. rec.todo \ {p} \in SUBSET Pod BY <1>1 DEF RecType, RecRecord
      <4> QED BY <1>1, <4>1, <4>2, RecRecords DEF RecType
    <3> QED BY <1>7, <3>1, <3>2 DEF InsertRow
  <2>2. TabType' BY <1>1, <1>7 DEF InsertRow, TabType
  <2> QED BY <1>7, <2>1, <2>2 DEF InsertRow
<1>8. CASE PatchStatus
  <2>1. ObjType' BY <1>1, <1>8 DEF PatchStatus, ObjType, RecType, RecRecord
  <2>2. RecType' BY <1>1, <1>8, RecRecords DEF PatchStatus, RecType
  <2> QED BY <1>8, <2>1, <2>2 DEF PatchStatus
<1>9. CASE SuspendDagRun
  <2>1. RunningPods \in SUBSET Pod BY <1>1 DEF RunningPods, TabType
  <2>2. RecType'
        BY <1>1, <1>9, <2>1, DeletionOrder, RecRecords DEF SuspendDagRun, Deletion, RecType
  <2>3. TabType' BY <1>1, <1>9 DEF SuspendDagRun, TabType
  <2> QED BY <1>9, <2>2, <2>3 DEF SuspendDagRun
<1>10. CASE DeletePods
  <2>1. PodType' BY <1>1, <1>10, PodRecords DEF DeletePods, PodType, RecType, RecRecord
  <2>2. RecType'
    <3>1. CASE rec.todo = {} /\ GoTo(NextDeletion(rec.pc))
          BY <1>1, <1>10, <3>1, DeletionOrder, RecRecords DEF DeletePods, GoTo, Deletion, RecType
    <3>2. CASE \E p \in rec.todo : rec' = [rec EXCEPT !.todo = @ \ {p}]
      <4>1. PICK p \in rec.todo : rec' = [rec EXCEPT !.todo = rec.todo \ {p}] BY <3>2
      <4>2. rec.todo \ {p} \in SUBSET Pod BY <1>1 DEF RecType, RecRecord
      <4> QED BY <1>1, <4>1, <4>2, RecRecords DEF RecType
    <3> QED BY <1>10, <3>1, <3>2 DEF DeletePods
  <2> QED BY <1>10, <2>1, <2>2 DEF DeletePods
<1>11. CASE DeleteDagRun
  <2>1. RecType'
        BY <1>1, <1>11, DeletionOrder, RecRecords DEF DeleteDagRun, GoTo, Deletion, RecType
  <2>2. TabType' BY <1>1, <1>11 DEF DeleteDagRun, TabType
  <2> QED BY <1>11, <2>1, <2>2 DEF DeleteDagRun
<1>12. CASE ListLogs
  <2>1. StoredLogs \in SUBSET Pod BY DEF StoredLogs
  <2>2. RecType'
        BY <1>1, <1>12, <2>1, DeletionOrder, RecRecords DEF ListLogs, Deletion, RecType
  <2> QED BY <1>12, <2>2 DEF ListLogs
<1>13. CASE DeleteLogs
  <2>1. RecType' BY <1>1, <1>13, DeletionOrder, RecRecords DEF DeleteLogs, Deletion, RecType
  <2>2. LogType' BY <1>1, <1>13 DEF DeleteLogs, LogType
  <2> QED BY <1>13, <2>1, <2>2 DEF DeleteLogs
<1>14. CASE DeletePvc
  <2>1. RecType'
        BY <1>1, <1>14, DeletionOrder, RecRecords DEF DeletePvc, GoTo, Deletion, RecType
  <2>2. PvcType' BY <1>1, <1>14 DEF DeletePvc, PvcType
  <2> QED BY <1>14, <2>1, <2>2 DEF DeletePvc
<1>15. CASE RemoveDagRunFinalizer
  <2>1. ObjType' BY <1>1, <1>15 DEF RemoveDagRunFinalizer, ObjType
  <2>2. RecType' BY <1>1, <1>15, RecRecords DEF RemoveDagRunFinalizer, RecType
  <2> QED BY <1>15, <2>1, <2>2 DEF RemoveDagRunFinalizer
<1>16. CASE ReconcileFails \/ ControllerRestarts
  <2>1. /\ rec' = Idle /\ queued' = TRUE /\ Fault
        /\ UNCHANGED <<store, obj, tables, cluster, logs, events>>
        BY <1>16 DEF ReconcileFails, ControllerRestarts, Interrupted
  <2>2. ObjType' BY <1>1, <2>1 DEF ObjType
  <2>3. RecType' BY <1>1, <2>1, RecRecords DEF RecType
  <2>4. NumType' BY <1>1, <2>1, LifecycleAssumption DEF NumType, Fault
  <2> QED BY <2>1, <2>2, <2>3, <2>4
<1> QED BY <1>2, <1>3, <1>4, <1>5, <1>6, <1>7, <1>8, <1>9, <1>10, <1>11, <1>12,
           <1>13, <1>14, <1>15, <1>16 DEF ReconcilerStep

LEMMA PodTypes ==
    ASSUME TypeOK, NEW p \in Pod,
           \/ ClaimRow(p) \/ StartPod(p) \/ FinalizeClaim(p) \/ PodEnds(p)
           \/ \E conflict \in BOOLEAN : DeleteOrphan(p, conflict)
    PROVE  TypeOK'
<1>1. /\ ObjType /\ RecType /\ TabType /\ PodType /\ PvcType /\ LogType
      /\ UpType /\ MarkType /\ CollType /\ NumType
      BY TypeParts
<1> USE Groups, Frame, TypePartsPrime
<1>2. CASE ClaimRow(p)
  <2>1. PodType' BY <1>1, <1>2 DEF ClaimRow, PodType, PodRecord
  <2> QED BY <1>2, <2>1 DEF ClaimRow
<1>3. CASE StartPod(p)
  <2>1. PodType' BY <1>1, <1>3 DEF StartPod, PodType, PodRecord
  <2> QED BY <1>3, <2>1 DEF StartPod
<1>4. CASE FinalizeClaim(p)
  <2>1. PICK pod \in {pods[p], Deleted(pods[p])} :
           pods' = [pods EXCEPT ![p] = [pod EXCEPT !.claim = FALSE]]
        BY <1>4 DEF FinalizeClaim
  <2>2. pod \in PodRecord BY <1>1, <2>1, PodRecords DEF PodType
  <2>3. [pod EXCEPT !.claim = FALSE] \in PodRecord BY <2>2 DEF PodRecord
  <2>4. PodType' BY <1>1, <2>1, <2>3 DEF PodType
  <2>5. TabType' BY <1>1, <1>4 DEF FinalizeClaim, TabType
  <2> QED BY <1>4, <2>4, <2>5 DEF FinalizeClaim
<1>5. CASE PodEnds(p)
  <2>1. PodType' BY <1>1, <1>5 DEF PodEnds, PodType, PodRecord
  <2> QED BY <1>5, <2>1 DEF PodEnds
<1>6. ASSUME NEW conflict \in BOOLEAN, DeleteOrphan(p, conflict) PROVE TypeOK'
  <2>1. PICK pod \in PodRecord : pods' = [pods EXCEPT ![p] = pod]
        BY <1>1, <1>6, PodRecords DEF DeleteOrphan, PodType
  <2>2. PodType' BY <1>1, <2>1 DEF PodType
  <2> QED BY <1>6, <2>2 DEF DeleteOrphan
<1> QED BY <1>2, <1>3, <1>4, <1>5, <1>6

-----------------------------------------------------------------------------
(* A goroutine at work has a pod.                                          *)

Busy == \A c \in Collector : coll[c].pc # "idle" => coll[c].pod \in Pod

\* What the helpers of the goroutines' steps do to their records.
LEMMA Moves ==
    ASSUME CollType, NEW c \in Collector
    PROVE  /\ \A pc \in CollPc : MoveTo(c, pc) =>
                 /\ CollType' /\ coll'[c].pc = pc
                 /\ coll'[c].pod = coll[c].pod /\ coll'[c].listed = coll[c].listed
                 /\ \A d \in Collector \ {c} : coll'[d] = coll[d]
           /\ Return(c) =>
                 /\ CollType' /\ coll'[c].pc = "idle"
                 /\ \A d \in Collector \ {c} : coll'[d] = coll[d]
<1>1. ASSUME NEW pc \in CollPc, MoveTo(c, pc)
      PROVE  /\ CollType' /\ coll'[c].pc = pc
             /\ coll'[c].pod = coll[c].pod /\ coll'[c].listed = coll[c].listed
             /\ \A d \in Collector \ {c} : coll'[d] = coll[d]
  <2>1. [coll[c] EXCEPT !.pc = pc] \in CollRecord BY DEF CollType, CollRecord
  <2>2. coll' = [coll EXCEPT ![c] = [coll[c] EXCEPT !.pc = pc]] BY <1>1 DEF MoveTo
  <2>3. CollType' BY <2>1, <2>2 DEF CollType
  <2>4. coll[c] \in CollRecord BY DEF CollType
  <2>5. coll'[c] = [coll[c] EXCEPT !.pc = pc] BY <2>2 DEF CollType
  <2> QED BY <2>2, <2>3, <2>4, <2>5 DEF CollType, CollRecord
<1>2. ASSUME Return(c)
      PROVE  /\ CollType' /\ coll'[c].pc = "idle"
             /\ \A d \in Collector \ {c} : coll'[d] = coll[d]
  <2>1. Resting \in CollRecord BY DEF Resting, CollRecord, CollPc
  <2> QED BY <1>2, <2>1 DEF Return, CollType, Resting
<1> QED BY <1>1, <1>2

\* The steps of the goroutines and of the events that start them.
CollStep(c) == Collect(c) \/ UploadPart(c) \/ UploadFails(c)
               \/ \E p \in Pod : HandleEvent(p, c)

LEMMA CollectorTypes ==
    ASSUME TypeOK, Busy, NEW c \in Collector, CollStep(c)
    PROVE  TypeOK' /\ Busy'
<1>1. /\ ObjType /\ RecType /\ TabType /\ PodType /\ PvcType /\ LogType
      /\ UpType /\ MarkType /\ CollType /\ NumType
      BY TypeParts
<1> USE Groups, Frame, TypePartsPrime
<1> DEFINE p == coll[c].pod
<1>2. ASSUME coll[c].pc # "idle", NEW pc \in CollPc, MoveTo(c, pc)
      PROVE  CollType' /\ Busy'
      BY <1>1, <1>2, Moves DEF Busy
<1>3. ASSUME Return(c) PROVE CollType' /\ Busy'
      BY <1>1, <1>3, Moves DEF Busy
<1>4. coll[c].pc # "idle" => p \in Pod BY DEF Busy
<1>5. Fault => faults' \in 0..MaxFaults BY <1>1, LifecycleAssumption DEF Fault, NumType
<1>6. ASSUME UNCHANGED store, uploads' = uploads \ {p} \/ uploads' = uploads PROVE UpType'
      BY <1>1, <1>6 DEF UpType
<1>7. CASE Check(c)
  <2>1. CollType' /\ Busy' BY <1>2, <1>3, <1>7 DEF Check, At, CollPc
  <2> QED BY <1>7, <2>1 DEF Check
<1>8. CASE Mark(c)
  <2>1. CollType' /\ Busy' BY <1>2, <1>3, <1>8 DEF Mark, At, CollPc
  <2>2. MarkType' BY <1>1, <1>4, <1>8 DEF Mark, At, MarkType
  <2> QED BY <1>8, <2>1, <2>2 DEF Mark
<1>9. CASE CreateFile(c)
  <2>1. CollType' /\ Busy' BY <1>2, <1>9 DEF CreateFile, At, CollPc
  <2>2. LogType' BY <1>1, <1>9 DEF CreateFile, LogType
  <2> QED BY <1>9, <2>1, <2>2 DEF CreateFile
<1>10. CASE OpenStream(c)
  <2>1. CollType' /\ Busy' BY <1>2, <1>10 DEF OpenStream, At, CollPc
  <2>2. UpType' BY <1>1, <1>4, <1>10 DEF OpenStream, At, Multipart, UpType
  <2> QED BY <1>10, <2>1, <2>2 DEF OpenStream
<1>11. CASE UploadPart(c)
  <2>1. [coll[c] EXCEPT !.parts = TRUE] \in CollRecord BY <1>1 DEF CollType, CollRecord
  <2>2. coll' = [coll EXCEPT ![c] = [coll[c] EXCEPT !.parts = TRUE]]
        BY <1>11 DEF UploadPart
  <2>3. CollType' BY <1>1, <2>1, <2>2 DEF CollType
  <2>4. coll[c] \in CollRecord /\ coll'[c] = [coll[c] EXCEPT !.parts = TRUE]
        BY <1>1, <2>2 DEF CollType
  <2>5. coll'[c].pc = coll[c].pc /\ coll'[c].pod = coll[c].pod BY <2>4 DEF CollRecord
  <2>6. Busy' BY <1>1, <2>2, <2>5 DEF Busy, CollType
  <2> QED BY <1>11, <2>3, <2>6 DEF UploadPart
<1>12. CASE CopyLog(c)
  <2>1. CollType' /\ Busy' BY <1>2, <1>12 DEF CopyLog, At, CollPc
  <2>2. LogType' BY <1>1, <1>12 DEF CopyLog, LogType
  <2>3. UpType' BY <1>6, <1>12 DEF CopyLog, Abort
  <2>4. MarkType' BY <1>1, <1>4, <1>12 DEF CopyLog, At, Abort, MarkType
  <2>5. NumType' BY <1>1, <1>5, <1>12 DEF CopyLog, NumType
  <2> QED BY <1>12, <2>1, <2>2, <2>3, <2>4, <2>5 DEF CopyLog
<1>13. CASE CopyStops(c)
  <2>1. CollType' /\ Busy' BY <1>2, <1>13 DEF CopyStops, At, CollPc
  <2>2. UpType' /\ LogType' BY <1>1, <1>6, <1>13 DEF CopyStops, PodLost, Abort
  <2>3. NumType' BY <1>1, <1>5, <1>13 DEF CopyStops, NumType
  <2>4. MarkType' BY <1>1, <1>4, <1>13 DEF CopyStops, PodLost, At, Abort, MarkType
  <2> QED BY <1>13, <2>1, <2>2, <2>3, <2>4 DEF CopyStops
<1>14. CASE UploadFails(c)
  <2>1. CollType' /\ Busy' BY <1>2, <1>14 DEF UploadFails, At, CollPc
  <2>2. UpType' BY <1>1, <1>6, <1>14 DEF UploadFails, Abort
  <2>3. NumType' BY <1>1, <1>5, <1>14 DEF UploadFails, NumType
  <2>4. MarkType' BY <1>1, <1>4, <1>14 DEF UploadFails, At, Abort, MarkType
  <2> QED BY <1>14, <2>1, <2>2, <2>3, <2>4 DEF UploadFails
<1>15. CASE RemoveFinalizer(c)
  <2>1. CollType' /\ Busy' BY <1>2, <1>15 DEF RemoveFinalizer, At, CollPc
  <2>2. PodType' BY <1>1, <1>4, <1>15, PodRecords DEF RemoveFinalizer, At, PodType
  <2>3. NumType' BY <1>1, <1>5, <1>15 DEF RemoveFinalizer, NumType
  <2> QED BY <1>15, <2>1, <2>2, <2>3 DEF RemoveFinalizer
<1>16. CASE CheckRun(c)
  <2>1. CollType' /\ Busy' BY <1>2, <1>3, <1>16 DEF CheckRun, At, CollPc, Leave
  <2>2. NumType' BY <1>1, <1>5, <1>16 DEF CheckRun, NumType
  <2>3. MarkType' BY <1>1, <1>16 DEF CheckRun, Leave, MarkType
  <2> QED BY <1>16, <2>1, <2>2, <2>3 DEF CheckRun
<1>17. CASE CleanUp(c)
  <2>1. CASE /\ At(c, "list")
             /\ coll' = [coll EXCEPT ![c].pc = "delete", ![c].listed = StoredLogs]
             /\ UNCHANGED <<notLogs, log, uploads, fetching, abandoned, readFailed, abortFailed, faults>>
    <3> DEFINE new == [[coll[c] EXCEPT !.pc = "delete"] EXCEPT !.listed = StoredLogs]
    <3>1. coll[c] \in CollRecord /\ StoredLogs \in SUBSET Pod
          BY <1>1 DEF CollType, StoredLogs
    <3>2. new \in CollRecord /\ new.pod = coll[c].pod
          BY <3>1 DEF CollRecord, CollPc
    <3>3. coll' = [coll EXCEPT ![c] = new] BY <1>1, <2>1 DEF CollType
    <3>4. CollType' /\ coll'[c] = new BY <1>1, <3>2, <3>3 DEF CollType
    <3>5. Busy' BY <1>1, <1>4, <2>1, <3>2, <3>3, <3>4 DEF Busy, CollType, At
    <3> QED BY <2>1, <3>4, <3>5
  <2>2. CASE /\ At(c, "delete")
             /\ log' = [q \in Pod |-> IF q \in coll[c].listed THEN "none" ELSE log[q]]
             /\ Leave(c)
             /\ UNCHANGED <<notLogs, uploads, abandoned, readFailed, abortFailed, faults>>
    <3>1. CollType' /\ Busy' BY <1>3, <2>2 DEF Leave
    <3>2. LogType' BY <1>1, <2>2 DEF LogType
    <3>3. MarkType' BY <1>1, <2>2 DEF Leave, MarkType
    <3> QED BY <2>2, <3>1, <3>2, <3>3
  <2>3. CASE /\ Fault /\ Leave(c) /\ abandoned' = TRUE
             /\ UNCHANGED <<notLogs, log, uploads, readFailed, abortFailed>>
    <3>1. CollType' /\ Busy' BY <1>3, <2>3 DEF Leave
    <3>2. NumType' BY <1>1, <1>5, <2>3 DEF NumType
    <3>3. MarkType' BY <1>1, <2>3 DEF Leave, MarkType
    <3> QED BY <2>3, <3>1, <3>2, <3>3
  <2> QED BY <1>17, <2>1, <2>2, <2>3 DEF CleanUp
<1>18. ASSUME NEW q \in Pod, HandleEvent(q, c) PROVE TypeOK' /\ Busy'
  <2> DEFINE new == [Resting EXCEPT !.pc = "check", !.pod = q]
  <2>1. new \in CollRecord /\ new.pod = q BY DEF Resting, CollRecord, CollPc
  <2>2. coll' = [coll EXCEPT ![c] = new] BY <1>18 DEF HandleEvent
  <2>3. CollType' /\ coll'[c] = new BY <1>1, <2>1, <2>2 DEF CollType
  <2>4. Busy' BY <1>1, <2>1, <2>2, <2>3 DEF Busy, CollType
  <2>5. NumType' BY <1>1, <1>18, LifecycleAssumption DEF HandleEvent, NumType
  <2>6. row' \in [Pod -> {"none", "pending", "running", "ended", "gone"}]
        BY <1>1, <1>18 DEF HandleEvent, TabType
  <2>7. TabType' BY <1>1, <1>18, <2>6 DEF HandleEvent, TabType
  <2>8. PvcType' BY <1>1, <1>18 DEF HandleEvent, PvcType
  <2>9. PodType' BY <1>1, <1>18, PodRecords DEF HandleEvent, PodType
  <2> QED BY <1>18, <2>3, <2>4, <2>5, <2>7, <2>8, <2>9 DEF HandleEvent
<1> QED BY <1>7, <1>8, <1>9, <1>10, <1>11, <1>12, <1>13, <1>14, <1>15, <1>16, <1>17,
           <1>18 DEF CollStep, Collect

-----------------------------------------------------------------------------
(* The steps by who takes them, and what each kind leaves alone.           *)

ObjectStep == CreateObject \/ DeleteObject \/ ReconcilerStep
              \/ ReconcileFails \/ ControllerRestarts
PodStep(p) == \/ ClaimRow(p) \/ StartPod(p) \/ FinalizeClaim(p) \/ PodEnds(p)
              \/ \E conflict \in BOOLEAN : DeleteOrphan(p, conflict)

LEMMA Steps ==
    Next <=> \/ ObjectStep
             \/ \E p \in Pod : PodStep(p)
             \/ \E c \in Collector : CollStep(c)
             \/ WorkersRestart
BY DEF Next, ObjectStep, PodStep, CollStep

LEMMA Elsewhere ==
    /\ ObjectStep =>
         UNCHANGED <<store, uploads, coll, fetching, abandoned, readFailed, abortFailed>>
    /\ \A p \in Pod : PodStep(p) => UNCHANGED <<store, obj, rec, run, pvc, log, uploads,
                                            coll, fetching, abandoned, readFailed, abortFailed>>
    /\ \A c \in Collector : CollStep(c) =>
         /\ UNCHANGED <<store, obj, rec, run>>
         /\ pvc' = pvc \/ pvc' = "gone"
    /\ WorkersRestart => UNCHANGED <<store, obj, queued, rec, run, row, listed, pods, pvc,
                                     log, uploads, readFailed, abortFailed, events>>
<1> USE Groups
<1>1. ASSUME ObjectStep
      PROVE  UNCHANGED <<store, uploads, coll, fetching, abandoned, readFailed, abortFailed>>
  <2>1. CASE CreateObject \/ DeleteObject \/ ReconcileFails \/ ControllerRestarts
        BY <2>1 DEF CreateObject, DeleteObject, ReconcileFails, ControllerRestarts
  <2>2. CASE Reconcile \/ CreatePvc \/ InsertRun \/ InsertRow \/ PatchStatus
        BY <2>2 DEF Reconcile, CreatePvc, InsertRun, InsertRow, PatchStatus
  <2>3. CASE SuspendDagRun \/ DeletePods \/ DeleteDagRun \/ ListLogs \/ DeleteLogs
        BY <2>3 DEF SuspendDagRun, DeletePods, DeleteDagRun, ListLogs, DeleteLogs
  <2>4. CASE DeletePvc \/ RemoveDagRunFinalizer
        BY <2>4 DEF DeletePvc, RemoveDagRunFinalizer
  <2> QED BY <1>1, <2>1, <2>2, <2>3, <2>4 DEF ObjectStep, ReconcilerStep
<1>2. ASSUME NEW p \in Pod, PodStep(p)
      PROVE  UNCHANGED <<store, obj, rec, run, pvc, log, uploads, coll, fetching, abandoned,
                         readFailed, abortFailed>>
      BY <1>2 DEF PodStep, ClaimRow, StartPod, FinalizeClaim, PodEnds, DeleteOrphan
<1>3. ASSUME NEW c \in Collector, CollStep(c)
      PROVE  UNCHANGED <<store, obj, rec, run>> /\ (pvc' = pvc \/ pvc' = "gone")
  <2>1. CASE Check(c) \/ Mark(c) \/ CreateFile(c) \/ OpenStream(c) \/ UploadPart(c)
        BY <2>1 DEF Check, Mark, CreateFile, OpenStream, UploadPart
  <2>2. CASE CopyLog(c) \/ CopyStops(c) \/ UploadFails(c) \/ RemoveFinalizer(c)
        BY <2>2 DEF CopyLog, CopyStops, UploadFails, RemoveFinalizer
  <2>3. CASE CheckRun(c) \/ CleanUp(c) BY <2>3 DEF CheckRun, CleanUp
  <2>4. CASE \E p \in Pod : HandleEvent(p, c) BY <2>4 DEF HandleEvent
  <2> QED BY <1>3, <2>1, <2>2, <2>3, <2>4 DEF CollStep, Collect
<1>4. WorkersRestart => UNCHANGED <<store, obj, queued, rec, run, row, listed, pods, pvc,
                                    log, uploads, readFailed, abortFailed, events>>
      BY DEF WorkersRestart
<1> QED BY <1>1, <1>2, <1>3, <1>4

-----------------------------------------------------------------------------
TInv == TypeOK /\ Busy

LEMMA InitTypes == Init => TInv
<1> SUFFICES ASSUME Init PROVE TInv OBVIOUS
<1>1. ObjType /\ RecType /\ TabType /\ PvcType
      BY DEF Init, ObjType, RecType, RecRecord, Idle, TabType, PvcType
<1>2. PodType /\ LogType
      BY DEF Init, PodType, PodRecord, NoPod, LogType
<1>3. UpType /\ MarkType /\ NumType
  <2>1. MaxEvents \in Nat /\ MaxFaults \in Nat BY LifecycleAssumption
  <2>2. NumType BY <2>1 DEF Init, NumType
  <2> QED BY <2>2 DEF Init, UpType, MarkType
<1>4. CollType /\ Busy BY DEF Init, CollType, CollRecord, CollPc, Resting, Busy
<1> QED BY <1>1, <1>2, <1>3, <1>4, TypeParts DEF TInv

LEMMA NextTypes == TInv /\ [Next]_vars => TInv'
<1> SUFFICES ASSUME TInv, [Next]_vars PROVE TInv' OBVIOUS
<1> USE DEF TInv
<1>1. ASSUME coll' = coll PROVE Busy' BY <1>1 DEF Busy
<1>2. CASE ObjectStep
      BY <1>1, <1>2, ReconcilerTypes, Elsewhere DEF ObjectStep
<1>3. ASSUME NEW p \in Pod, PodStep(p) PROVE TInv'
      BY <1>1, <1>3, PodTypes, Elsewhere DEF PodStep
<1>4. ASSUME NEW c \in Collector, CollStep(c) PROVE TInv'
      BY <1>4, CollectorTypes
<1>5. CASE WorkersRestart
  <2>1. /\ coll' = [c \in Collector |-> Resting] /\ fetching' = {}
        /\ abandoned' = TRUE /\ Fault
        BY <1>5 DEF WorkersRestart
  <2>2. CollType' /\ Busy' BY <2>1 DEF CollType, CollRecord, CollPc, Resting, Busy
  <2>3. MarkType' BY <1>5, <2>1, Elsewhere, TypeParts DEF MarkType
  <2>4. NumType'
        BY <1>5, <2>1, Elsewhere, TypeParts, LifecycleAssumption DEF NumType, Fault
  <2> QED BY <1>5, <2>2, <2>3, <2>4, Elsewhere, Frame, TypePartsPrime
<1>6. CASE UNCHANGED vars
      BY <1>1, <1>6, Groups, Frame, TypePartsPrime DEF all
<1> QED BY <1>2, <1>3, <1>4, <1>5, <1>6, Steps

LEMMA AlwaysTyped == Spec => []TInv
BY InitTypes, NextTypes, PTL DEF Spec

\* Type correctness, of any number of goroutines and events: among others, a
\* multipart upload is never open with the filesystem store, and MarkAsFetching
\* is never told of anything but a pod of the run.
THEOREM TypeCorrect == Spec => []TypeOK
<1>1. TInv => TypeOK BY DEF TInv
<1> QED BY <1>1, AlwaysTyped, PTL

-----------------------------------------------------------------------------
(* One goroutine at a time copies the log of a pod: it is the one that put *)
(* the pod into the map, and it takes it out when it returns.              *)

Holding(c) == coll[c].pc \notin {"idle", "check", "mark"}
Locked == \A c \in Collector : Holding(c) => coll[c].pod \in fetching
Exclusive == \A c, d \in Collector :
                Holding(c) /\ Holding(d) /\ coll[c].pod = coll[d].pod => c = d

LEMMA ExclusiveIsOne == Exclusive <=> OneCollectorPerPod
<1>1. \A c, d \in Collector :
        Holding(c) /\ Holding(d) <=> {coll[c].pc, coll[d].pc} \cap {"idle", "check", "mark"} = {}
      BY DEF Holding
<1> QED BY <1>1 DEF Exclusive, OneCollectorPerPod

LEMMA NextLocked == TInv /\ Locked /\ Exclusive /\ [Next]_vars => Locked' /\ Exclusive'
<1> SUFFICES ASSUME TInv, Locked, Exclusive, [Next]_vars PROVE Locked' /\ Exclusive'
    OBVIOUS
<1>1. CollType BY TypeParts DEF TInv
<1>2. ASSUME UNCHANGED <<coll, fetching>> PROVE Locked' /\ Exclusive'
      BY <1>2 DEF Locked, Exclusive, Holding
<1>3. ASSUME NEW c \in Collector, CollStep(c) PROVE Locked' /\ Exclusive'
  <2> DEFINE others == \A d \in Collector \ {c} : coll'[d] = coll[d]
  <2>1. ASSUME others, fetching' = fetching,
               Holding(c)' => Holding(c) /\ coll'[c].pod = coll[c].pod
        PROVE  Locked' /\ Exclusive'
        BY <2>1 DEF Locked, Exclusive, Holding
  <2>2. ASSUME Leave(c), Holding(c) PROVE Locked' /\ Exclusive'
    <3>1. others /\ coll'[c].pc = "idle" /\ fetching' = fetching \ {coll[c].pod}
          BY <1>1, <2>2, Moves DEF Leave
    <3> QED BY <2>2, <3>1 DEF Locked, Exclusive, Holding
  <2>3. CASE Check(c)
    <3>1. fetching' = fetching BY <2>3 DEF Check
    <3>2. others /\ ~Holding(c)' BY <1>1, <2>3, Moves DEF Check, CollPc, Holding
    <3> QED BY <2>1, <3>1, <3>2
  <2>4. CASE Mark(c)
    <3>1. CASE Return(c) /\ fetching' = fetching
      <4>1. others /\ ~Holding(c)' BY <1>1, <3>1, Moves DEF Holding
      <4> QED BY <2>1, <3>1, <4>1
    <3>2. CASE /\ MayFetch(coll[c].pod) /\ fetching' = fetching \cup {coll[c].pod}
               /\ MoveTo(c, IF store = "filesystem" THEN "create" ELSE "open")
      <4>1. others /\ coll'[c].pod = coll[c].pod BY <1>1, <3>2, Moves DEF CollPc
      <4> QED BY <3>2, <4>1 DEF MayFetch, Locked, Exclusive, Holding
    <3> QED BY <2>4, <3>1, <3>2 DEF Mark
  <2>5. CASE CreateFile(c)
    <3>1. others /\ coll'[c].pod = coll[c].pod BY <1>1, <2>5, Moves DEF CreateFile, CollPc
    <3> QED BY <2>1, <2>5, <3>1 DEF CreateFile, At, Holding
  <2>6. CASE OpenStream(c)
    <3>1. others /\ coll'[c].pod = coll[c].pod BY <1>1, <2>6, Moves DEF OpenStream, CollPc
    <3> QED BY <2>1, <2>6, <3>1 DEF OpenStream, At, Holding
  <2>7. CASE UploadPart(c)
    <3>1. coll' = [coll EXCEPT ![c] = [coll[c] EXCEPT !.parts = TRUE]]
          BY <2>7 DEF UploadPart
    <3>2. coll[c] \in CollRecord /\ coll'[c] = [coll[c] EXCEPT !.parts = TRUE] /\ others
          BY <1>1, <3>1 DEF CollType
    <3>3. coll'[c].pod = coll[c].pod BY <3>2 DEF CollRecord
    <3> QED BY <2>1, <2>7, <3>2, <3>3 DEF UploadPart, At, Holding
  <2>8. CASE CopyLog(c) \/ CopyStops(c) \/ UploadFails(c) \/ RemoveFinalizer(c)
    <3>1. Holding(c) /\ fetching' = fetching
          BY <2>8 DEF CopyLog, CopyStops, UploadFails, RemoveFinalizer, At, Holding
    <3>2. MoveTo(c, "unfinalize") \/ MoveTo(c, "exists")
          BY <2>8 DEF CopyLog, CopyStops, UploadFails, RemoveFinalizer
    <3>3. others /\ coll'[c].pod = coll[c].pod BY <1>1, <3>2, Moves DEF CollPc
    <3> QED BY <2>1, <3>1, <3>3
  <2>9. CASE CheckRun(c)
    <3>1. Holding(c) BY <2>9 DEF CheckRun, At, Holding
    <3>2. CASE Leave(c) BY <2>2, <3>1, <3>2
    <3>3. CASE MoveTo(c, "list") /\ fetching' = fetching
      <4>1. others /\ coll'[c].pod = coll[c].pod BY <1>1, <3>3, Moves DEF CollPc
      <4> QED BY <2>1, <3>1, <3>3, <4>1
    <3> QED BY <2>9, <3>2, <3>3 DEF CheckRun
  <2>10. CASE CleanUp(c)
    <3>1. Holding(c) BY <2>10 DEF CleanUp, At, Holding
    <3>2. CASE Leave(c) BY <2>2, <3>1, <3>2
    <3>3. CASE /\ coll' = [coll EXCEPT ![c].pc = "delete", ![c].listed = StoredLogs]
               /\ fetching' = fetching
      <4> DEFINE new == [[coll[c] EXCEPT !.pc = "delete"] EXCEPT !.listed = StoredLogs]
      <4>1. coll[c] \in CollRecord BY <1>1 DEF CollType
      <4>2. new.pod = coll[c].pod BY <4>1 DEF CollRecord
      <4>3. coll'[c] = new /\ others BY <1>1, <3>3 DEF CollType
      <4> QED BY <2>1, <3>1, <3>3, <4>2, <4>3
    <3> QED BY <2>10, <3>2, <3>3 DEF CleanUp
  <2>11. ASSUME NEW p \in Pod, HandleEvent(p, c) PROVE Locked' /\ Exclusive'
    <3>1. coll'[c].pc = "check" /\ others /\ fetching' = fetching
          BY <1>1, <2>11 DEF HandleEvent, CollType, Resting
    <3> QED BY <2>1, <3>1 DEF Holding
  <2> QED BY <1>3, <2>3, <2>4, <2>5, <2>6, <2>7, <2>8, <2>9, <2>10, <2>11
          DEF CollStep, Collect
<1>4. CASE WorkersRestart
  <2>1. coll' = [c \in Collector |-> Resting] BY <1>4 DEF WorkersRestart
  <2> QED BY <2>1 DEF Locked, Exclusive, Holding, Resting
<1>5. CASE UNCHANGED vars BY <1>2, <1>5, Groups DEF all
<1> QED BY <1>2, <1>3, <1>4, <1>5, Steps, Elsewhere

\* However many events of a pod arrive, and whenever the goroutines they start
\* pass isAlreadyFetching, at most one of them copies the pod's log.
THEOREM OnePerPod == Spec => []OneCollectorPerPod
<1>1. Init => Locked /\ Exclusive BY DEF Init, Locked, Exclusive, Holding, Resting
<1>2. Spec => [](Locked /\ Exclusive) BY <1>1, NextLocked, AlwaysTyped, PTL DEF Spec
<1> QED BY <1>2, ExclusiveIsOne, PTL

-----------------------------------------------------------------------------
(* Multipart uploads.                                                      *)

\* The uploads that nobody will close.
Leaked == readFailed \cup abortFailed

\* The steps of goroutine c that end its copying take its upload away, or say
\* that the read or the abort failed; every other step leaves the goroutines that copy alone.
LEMMA CopyEnds ==
    ASSUME TInv, NEW c \in Collector, CollStep(c), coll[c].pc = "copy",
           ~(coll'[c].pc = "copy" /\ coll'[c].pod = coll[c].pod)
    PROVE  /\ uploads' = uploads \/ uploads' = uploads \ {coll[c].pod}
           /\ Leaked \subseteq Leaked'
           /\ coll[c].pod \notin uploads' \/ coll[c].pod \in Leaked'
<1>1. CollType BY TypeParts DEF TInv
<1>2. CASE UploadPart(c)
  <2>1. coll' = [coll EXCEPT ![c] = [coll[c] EXCEPT !.parts = TRUE]]
        BY <1>2 DEF UploadPart
  <2>2. coll[c] \in CollRecord /\ coll'[c] = [coll[c] EXCEPT !.parts = TRUE]
        BY <1>1, <2>1 DEF CollType
  <2>3. coll'[c].pod = coll[c].pod /\ coll'[c].pc = coll[c].pc BY <2>2 DEF CollRecord
  <2> QED BY <2>3
<1>3. CASE CopyLog(c) BY <1>3 DEF CopyLog, Abort, Leaked
<1>4. CASE CopyStops(c) BY <1>4 DEF CopyStops, PodLost, Abort, Leaked
<1>5. CASE UploadFails(c) BY <1>5 DEF UploadFails, Abort, At, Leaked
<1>6. ~(Check(c) \/ Mark(c) \/ CreateFile(c) \/ OpenStream(c) \/ RemoveFinalizer(c)
        \/ CheckRun(c) \/ CleanUp(c) \/ \E p \in Pod : HandleEvent(p, c))
      BY DEF Check, Mark, CreateFile, OpenStream, RemoveFinalizer, CheckRun, CleanUp,
             HandleEvent, At
<1> QED BY <1>2, <1>3, <1>4, <1>5, <1>6 DEF CollStep, Collect

LEMMA NotCopying ==
    ASSUME TInv, NEW c \in Collector, CollStep(c), coll[c].pc # "copy"
    PROVE  /\ uploads' \subseteq uploads
              \/ (uploads' \subseteq uploads \cup {coll[c].pod} /\ coll'[c].pc = "copy"
                  /\ coll'[c].pod = coll[c].pod)
           /\ Leaked \subseteq Leaked'
<1>1. CollType BY TypeParts DEF TInv
<1> USE Groups
<1>2. CASE OpenStream(c)
  <2>1. CASE MoveTo(c, "unfinalize") /\ UNCHANGED uploads
        BY <1>2, <2>1 DEF OpenStream, Leaked
  <2>2. CASE MoveTo(c, "copy") /\ uploads' = Multipart(coll[c].pod)
    <3>1. coll'[c].pc = "copy" /\ coll'[c].pod = coll[c].pod
          BY <1>1, <2>2, Moves DEF CollPc
    <3> QED BY <1>2, <2>2, <3>1 DEF OpenStream, Multipart, Leaked
  <2> QED BY <1>2, <2>1, <2>2 DEF OpenStream
<1>3. CASE UploadFails(c) BY <1>3 DEF UploadFails, At, Leaked
<1>4. CASE Check(c) \/ Mark(c) \/ CreateFile(c) \/ RemoveFinalizer(c) \/ CheckRun(c)
           \/ CleanUp(c)
      BY <1>4 DEF Check, Mark, CreateFile, RemoveFinalizer, CheckRun, CleanUp, Leaked
<1>5. CASE \E p \in Pod : HandleEvent(p, c) BY <1>5 DEF HandleEvent, Leaked
<1>6. ~(UploadPart(c) \/ CopyLog(c) \/ CopyStops(c))
      BY DEF UploadPart, CopyLog, CopyStops, At
<1> QED BY <1>2, <1>3, <1>4, <1>5, <1>6 DEF CollStep, Collect

\* A step of one goroutine leaves the records of the others alone.
LEMMA OneMoves ==
    ASSUME TInv, NEW c \in Collector, CollStep(c)
    PROVE  /\ \A d \in Collector \ {c} : coll'[d] = coll[d]
           /\ abandoned => abandoned'
<1>1. CollType BY TypeParts DEF TInv
<1>2. abandoned => abandoned'
  <2>1. CASE \E p \in Pod : HandleEvent(p, c) BY <2>1 DEF HandleEvent
  <2>2. CASE Collect(c) \/ UploadPart(c) \/ UploadFails(c)
        BY <2>2 DEF Collect, Check, Mark, CreateFile, OpenStream, UploadPart, CopyLog,
           CopyStops, UploadFails, RemoveFinalizer, CheckRun, CleanUp
  <2> QED BY <2>1, <2>2 DEF CollStep
<1>3. \E new : coll' = [coll EXCEPT ![c] = new]
  <2>1. CASE Collect(c) /\ ~CleanUp(c)
        BY <2>1 DEF Collect, Check, Mark, CreateFile, OpenStream, CopyLog, CopyStops,
           RemoveFinalizer, CheckRun, Leave, Return, MoveTo
  <2>2. CASE UploadPart(c) \/ UploadFails(c) BY <2>2 DEF UploadPart, UploadFails, MoveTo
  <2>3. CASE CleanUp(c)
    <3>1. CASE coll' = [coll EXCEPT ![c].pc = "delete", ![c].listed = StoredLogs]
      <4>1. coll' = [coll EXCEPT ![c] =
                        [[coll[c] EXCEPT !.pc = "delete"] EXCEPT !.listed = StoredLogs]]
            BY <1>1, <3>1 DEF CollType
      <4> QED BY <4>1
    <3>2. CASE Leave(c) BY <3>2 DEF Leave, Return
    <3> QED BY <2>3, <3>1, <3>2 DEF CleanUp
  <2>4. CASE \E p \in Pod : HandleEvent(p, c) BY <2>4 DEF HandleEvent
  <2> QED BY <2>1, <2>2, <2>3, <2>4 DEF CollStep
<1> QED BY <1>1, <1>2, <1>3 DEF CollType

LEMMA NextParts == TInv /\ PartsBelongToSomeone /\ [Next]_vars => PartsBelongToSomeone'
<1> SUFFICES ASSUME TInv, PartsBelongToSomeone, [Next]_vars PROVE PartsBelongToSomeone'
    OBVIOUS
<1>1. ASSUME UNCHANGED <<coll, uploads, readFailed, abortFailed, abandoned>> PROVE PartsBelongToSomeone'
      BY <1>1 DEF PartsBelongToSomeone
<1>2. ASSUME NEW c \in Collector, CollStep(c) PROVE PartsBelongToSomeone'
  <2>1. SUFFICES ASSUME NEW p \in uploads', ~abandoned', p \notin Leaked'
                 PROVE  \E d \in Collector : coll'[d].pod = p /\ coll'[d].pc = "copy"
        BY DEF PartsBelongToSomeone, Leaked
  <2>2. CASE coll[c].pc = "copy"
    <3>1. CASE coll'[c].pc = "copy" /\ coll'[c].pod = coll[c].pod
      <4>1. UploadPart(c)
        <5>1. ~(Check(c) \/ Mark(c) \/ CreateFile(c) \/ OpenStream(c) \/ RemoveFinalizer(c)
                \/ CheckRun(c) \/ CleanUp(c) \/ \E q \in Pod : HandleEvent(q, c))
              BY <2>2 DEF Check, Mark, CreateFile, OpenStream, RemoveFinalizer, CheckRun,
                 CleanUp, HandleEvent, At
        <5>2. CollType BY TypeParts DEF TInv
        <5>3. ASSUME CopyLog(c) \/ CopyStops(c) \/ UploadFails(c) PROVE FALSE
          <6>1. MoveTo(c, "unfinalize") \/ MoveTo(c, "exists")
                BY <5>3 DEF CopyLog, CopyStops, UploadFails
          <6>2. coll'[c].pc # "copy" BY <5>2, <6>1, Moves DEF CollPc
          <6> QED BY <3>1, <6>2
        <5> QED BY <1>2, <5>1, <5>3 DEF CollStep, Collect
      <4>2. UNCHANGED <<uploads, readFailed, abortFailed, abandoned>> BY <4>1 DEF UploadPart
      <4>3. PICK d \in Collector : coll[d].pod = p /\ coll[d].pc = "copy"
            BY <2>1, <4>2 DEF PartsBelongToSomeone, Leaked
      <4>4. CASE d = c BY <3>1, <4>3, <4>4
      <4>5. CASE d # c BY <1>2, <4>3, <4>5, OneMoves
      <4> QED BY <4>4, <4>5
    <3>2. CASE ~(coll'[c].pc = "copy" /\ coll'[c].pod = coll[c].pod)
      <4>1. /\ p # coll[c].pod /\ p \in uploads
            /\ p \notin Leaked /\ ~abandoned
            BY <1>2, <2>1, <2>2, <3>2, CopyEnds, OneMoves
      <4>2. PICK d \in Collector : coll[d].pod = p /\ coll[d].pc = "copy"
            BY <4>1 DEF PartsBelongToSomeone, Leaked
      <4> QED BY <1>2, <4>1, <4>2, OneMoves
    <3> QED BY <3>1, <3>2
  <2>3. CASE coll[c].pc # "copy"
    <3>1. /\ p \in uploads \/ (p = coll[c].pod /\ coll'[c].pc = "copy"
                                /\ coll'[c].pod = coll[c].pod)
          /\ p \notin Leaked /\ ~abandoned
          BY <1>2, <2>1, <2>3, NotCopying, OneMoves
    <3>2. CASE p \in uploads
      <4>1. PICK d \in Collector : coll[d].pod = p /\ coll[d].pc = "copy"
            BY <3>1, <3>2 DEF PartsBelongToSomeone, Leaked
      <4> QED BY <1>2, <2>3, <4>1, OneMoves
    <3> QED BY <3>1, <3>2
  <2> QED BY <2>2, <2>3
<1>3. CASE WorkersRestart BY <1>3 DEF WorkersRestart, PartsBelongToSomeone
<1>4. CASE UNCHANGED vars BY <1>1, <1>4, Groups DEF all
<1> QED BY <1>1, <1>2, <1>3, <1>4, Steps, Elsewhere

\* No multipart upload is left open by a goroutine that returned: every path
\* through UploadLogs of the S3 store completes or aborts it, but for a read
\* that fails after the first part, an abort that fails and the death of the
\* process.
THEOREM NoUploadLeaks == Spec => []PartsBelongToSomeone
<1>1. Init => PartsBelongToSomeone BY DEF Init, PartsBelongToSomeone
<1> QED BY <1>1, NextParts, AlwaysTyped, PTL DEF Spec

-----------------------------------------------------------------------------
(* What the reconciler may rely on at each of its steps.                   *)

AfterRun == {"listLogs", "deleteLogs", "deletePvc", "finalizer"}

\* The finalizer holds the object while the reconciler works on it.
Held == /\ rec.pc # "idle" => obj.finalizer /\ obj.state \in {"present", "deleting"}
        /\ obj.state = "deleting" => obj.finalizer
        /\ rec.pc \in Deletion => obj.state = "deleting" /\ rec.runId = obj.runId
\* Nothing exists before the finalizer does.
FinalizerFirst == ~obj.finalizer /\ obj.state # "gone" => pvc = "none" /\ obj.runId = 0
\* What the deletion has done so far.
DoneSoFar == /\ rec.pc \in AfterRun /\ rec.runId = RunId => run = "gone"
             /\ rec.pc = "finalizer" => pvc # "bound"
\* The rows go only with the object that created them.
RunGoesLast == /\ run = "gone" => obj.runId = RunId /\ obj.state \in {"deleting", "gone"}
               /\ rec.pc \in Creation => run # "gone"
               /\ rec.pc \in {"rows", "status"} => rec.runId = RunId

RInv == Held /\ FinalizerFirst /\ DoneSoFar /\ RunGoesLast /\ CleanedUp

LEMMA PcSets ==
    /\ "idle" \notin Creation \cup Deletion
    /\ Creation \cap Deletion = {}
    /\ AfterRun \subseteq Deletion
    /\ {"rows", "status"} \subseteq Creation
BY DEF Creation, Deletion, AfterRun

LEMMA NextR == TInv /\ RInv /\ [Next]_vars => RInv'
<1> SUFFICES ASSUME TInv, RInv, [Next]_vars PROVE RInv'
    OBVIOUS
<1>1. ObjType /\ RecType /\ run \in {"none", "running", "suspended", "gone"}
      BY TypeParts DEF TInv, TabType
<1> USE Groups
<1>2. ASSUME UNCHANGED <<obj, rec, run>>, pvc' = pvc \/ (pvc = "bound" /\ pvc' = "gone")
      PROVE  RInv'
      BY <1>2 DEF RInv, Held, FinalizerFirst, DoneSoFar, RunGoesLast, CleanedUp, DagrunExists
<1>3. CASE CreateObject \/ DeleteObject
  <2>1. /\ UNCHANGED <<rec, run, pvc>> /\ obj'.runId = obj.runId
        /\ obj'.finalizer = obj.finalizer
        /\ \/ obj.state = "absent" /\ obj'.state = "present"
           \/ /\ obj.state = "present"
              /\ obj'.state = IF obj.finalizer THEN "deleting" ELSE "gone"
        BY <1>1, <1>3 DEF CreateObject, DeleteObject, ObjType
  <2> QED BY <1>1, <2>1, PcSets DEF RInv, Held, FinalizerFirst, DoneSoFar, RunGoesLast,
             CleanedUp, DagrunExists
<1>4. CASE Reconcile
  <2>1. UNCHANGED <<run, pvc>> /\ rec.pc = "idle" BY <1>4 DEF Reconcile
  <2>2. CASE UNCHANGED <<obj, rec>> BY <1>2, <2>1, <2>2
  <2>3. CASE /\ obj.state = "deleting" /\ UNCHANGED obj
             /\ rec' = [Idle EXCEPT !.pc = "suspend", !.runId = obj.runId]
    <3>1. rec'.pc = "suspend" /\ rec'.runId = obj.runId BY <2>3 DEF Idle
    <3> QED BY <1>1, <2>1, <2>3, <3>1 DEF RInv, Held, FinalizerFirst, DoneSoFar, RunGoesLast,
               CleanedUp, DagrunExists, Creation, AfterRun
  <2>4. CASE /\ obj.state = "present" /\ ~obj.finalizer /\ UNCHANGED rec
             /\ obj' = [obj EXCEPT !.finalizer = TRUE]
    <3>1. obj'.state = "present" /\ obj'.finalizer /\ obj'.runId = obj.runId
          BY <1>1, <2>4 DEF ObjType
    <3> QED BY <1>1, <2>1, <2>4, <3>1, PcSets DEF RInv, Held, FinalizerFirst, DoneSoFar,
               RunGoesLast, CleanedUp, DagrunExists
  <2>5. CASE /\ obj.state = "present" /\ obj.finalizer /\ UNCHANGED obj
             /\ rec' = [Idle EXCEPT !.pc = "pvc"] \/ rec' = Idle
    <3>1. rec'.pc \in {"pvc", "idle"} BY <2>5 DEF Idle
    <3> QED BY <1>1, <2>1, <2>5, <3>1, PcSets DEF RInv, Held, FinalizerFirst, DoneSoFar,
               RunGoesLast, CleanedUp, DagrunExists, Deletion, AfterRun
  <2> QED BY <1>1, <1>4, <2>2, <2>3, <2>4, <2>5 DEF Reconcile, ObjType
<1>5. ASSUME rec' = Idle, UNCHANGED <<obj, run, pvc>> PROVE RInv'
  <2>1. rec'.pc = "idle" BY <1>5 DEF Idle
  <2> QED BY <1>5, <2>1, PcSets DEF RInv, Held, FinalizerFirst, DoneSoFar, RunGoesLast,
             CleanedUp, DagrunExists
<1>6. CASE CreatePvc
  <2>1. /\ rec.pc = "pvc" /\ rec'.pc = "insert" /\ rec'.runId = rec.runId
        /\ UNCHANGED <<obj, run>>
        BY <1>1, <1>6 DEF CreatePvc, GoTo, RecType, RecRecord
  <2> QED BY <2>1 DEF RInv, Held, FinalizerFirst, DoneSoFar, RunGoesLast, CleanedUp,
             DagrunExists, Creation, Deletion, AfterRun
<1>7. CASE InsertRun
  <2>1. /\ rec.pc = "insert" /\ rec'.pc = "rows" /\ rec'.runId = RunId
        /\ UNCHANGED <<obj, pvc>> /\ (run' = run \/ run' = "running")
        BY <1>1, <1>7 DEF InsertRun, RecType, RecRecord
  <2> QED BY <2>1 DEF RInv, Held, FinalizerFirst, DoneSoFar, RunGoesLast, CleanedUp,
             DagrunExists, Creation, Deletion, AfterRun
<1>8. CASE InsertRow
  <2>1. /\ rec.pc = "rows" /\ rec'.pc \in {"rows", "status"} /\ rec'.runId = rec.runId
        /\ UNCHANGED <<obj, run, pvc>>
        BY <1>1, <1>8 DEF InsertRow, GoTo, RecType, RecRecord
  <2> QED BY <2>1 DEF RInv, Held, FinalizerFirst, DoneSoFar, RunGoesLast, CleanedUp,
             DagrunExists, Creation, Deletion, AfterRun
<1>9. CASE PatchStatus
  <2>1. /\ rec.pc = "status" /\ rec'.pc = "idle"
        /\ obj'.state = obj.state /\ obj'.finalizer = obj.finalizer
        /\ obj'.runId = rec.runId /\ UNCHANGED <<run, pvc>>
        BY <1>1, <1>9 DEF PatchStatus, ObjType, Idle
  <2> QED BY <2>1, PcSets DEF RInv, Held, FinalizerFirst, DoneSoFar, RunGoesLast, CleanedUp,
             DagrunExists, Creation
<1>10. ASSUME rec.pc \in Deletion, rec'.pc \in Deletion, rec'.runId = rec.runId,
              UNCHANGED <<obj, pvc>>, run' = run \/ run = "running",
              rec'.pc # "finalizer",
              rec'.pc \in AfterRun => rec.pc \in AfterRun,
              run' \in {"none", "running", "suspended", "gone"}, run' = "gone" => run = "gone"
       PROVE  RInv'
       BY <1>10, PcSets DEF RInv, Held, FinalizerFirst, DoneSoFar, RunGoesLast, CleanedUp,
          DagrunExists
<1>11. CASE SuspendDagRun
  <2>1. /\ rec.pc = "suspend" /\ rec'.pc = "pods" /\ rec'.runId = rec.runId
        /\ UNCHANGED <<obj, pvc>>
        /\ run' = run \/ (run = "running" /\ run' = "suspended")
        BY <1>1, <1>11, DeletionOrder DEF SuspendDagRun, RecType, RecRecord
  <2> QED BY <1>1, <1>10, <2>1 DEF Deletion, AfterRun
<1>12. CASE DeletePods
  <2>1. /\ rec.pc = "pods" /\ rec'.pc \in {"pods", "deleteRun"} /\ rec'.runId = rec.runId
        /\ UNCHANGED <<obj, run, pvc>>
        BY <1>1, <1>12, DeletionOrder DEF DeletePods, GoTo, RecType, RecRecord
  <2> QED BY <1>1, <1>10, <2>1 DEF Deletion, AfterRun
<1>13. CASE DeleteDagRun
  <2>1. /\ rec.pc = "deleteRun" /\ rec'.pc = "listLogs" /\ rec'.runId = rec.runId
        /\ UNCHANGED <<obj, pvc>>
        /\ run' = IF rec.runId = RunId THEN "gone" ELSE run
        BY <1>1, <1>13, DeletionOrder DEF DeleteDagRun, GoTo, RecType, RecRecord
  <2> QED BY <1>1, <2>1 DEF RInv, Held, FinalizerFirst, DoneSoFar, RunGoesLast, CleanedUp,
             DagrunExists, Creation, Deletion, AfterRun
<1>14. CASE ListLogs
  <2>1. /\ rec.pc = "listLogs" /\ rec'.pc = "deleteLogs" /\ rec'.runId = rec.runId
        /\ UNCHANGED <<obj, run, pvc>>
        BY <1>1, <1>14, DeletionOrder DEF ListLogs, RecType, RecRecord
  <2> QED BY <1>1, <1>10, <2>1 DEF Deletion, AfterRun
<1>15. CASE DeleteLogs
  <2>1. /\ rec.pc = "deleteLogs" /\ rec'.pc = "deletePvc" /\ rec'.runId = rec.runId
        /\ UNCHANGED <<obj, run, pvc>>
        BY <1>1, <1>15, DeletionOrder DEF DeleteLogs, RecType, RecRecord
  <2> QED BY <1>1, <1>10, <2>1 DEF Deletion, AfterRun
<1>16. CASE DeletePvc
  <2>1. /\ rec.pc = "deletePvc" /\ rec'.pc = "finalizer" /\ rec'.runId = rec.runId
        /\ UNCHANGED <<obj, run>> /\ pvc' # "bound" /\ (pvc = "none" => pvc' = "none")
        BY <1>1, <1>16, DeletionOrder DEF DeletePvc, GoTo, RecType, RecRecord
  <2> QED BY <1>1, <2>1 DEF RInv, Held, FinalizerFirst, DoneSoFar, RunGoesLast, CleanedUp,
             DagrunExists, Creation, Deletion, AfterRun
<1>17. CASE RemoveDagRunFinalizer
  <2>1. /\ rec.pc = "finalizer" /\ rec'.pc = "idle"
        /\ obj'.state = "gone" /\ obj'.runId = obj.runId /\ UNCHANGED <<run, pvc>>
        BY <1>1, <1>17 DEF RemoveDagRunFinalizer, ObjType, Idle
  <2>2. rec.runId = obj.runId /\ pvc # "bound" /\ (obj.runId = RunId => run = "gone")
        BY <2>1 DEF RInv, Held, DoneSoFar, Deletion, AfterRun
  <2>3. CleanedUp' BY <1>1, <2>1, <2>2 DEF CleanedUp, DagrunExists, ObjType, RunId
  <2> QED BY <1>1, <2>1, <2>3, PcSets DEF RInv, Held, FinalizerFirst, DoneSoFar, RunGoesLast
<1>18. CASE ReconcileFails \/ ControllerRestarts
       BY <1>5, <1>18 DEF ReconcileFails, ControllerRestarts, Interrupted
<1>19. ASSUME NEW p \in Pod, PodStep(p) PROVE RInv' BY <1>2, <1>19, Elsewhere
<1>20. ASSUME NEW c \in Collector, CollStep(c) PROVE RInv'
  <2>1. pvc' = pvc \/ (pvc = "bound" /\ pvc' = "gone")
    <3>1. CASE \E p \in Pod : HandleEvent(p, c) BY <3>1 DEF HandleEvent
    <3>2. CASE Collect(c) \/ UploadPart(c) \/ UploadFails(c)
          BY <3>2 DEF Collect, Check, Mark, CreateFile, OpenStream, UploadPart, CopyLog,
             CopyStops, UploadFails, RemoveFinalizer, CheckRun, CleanUp
    <3> QED BY <1>20, <3>1, <3>2 DEF CollStep
  <2> QED BY <1>2, <1>20, <2>1, Elsewhere
<1>21. CASE WorkersRestart BY <1>2, <1>21, Elsewhere
<1>22. CASE UNCHANGED vars BY <1>2, <1>22 DEF all
<1> QED BY <1>3, <1>4, <1>6, <1>7, <1>8, <1>9, <1>11, <1>12, <1>13, <1>14, <1>15, <1>16,
           <1>17, <1>18, <1>19, <1>20, <1>21, <1>22, Steps DEF ObjectStep, ReconcilerStep

LEMMA AlwaysR == Spec => []RInv
<1>1. Init => RInv
      BY DEF Init, RInv, Held, FinalizerFirst, DoneSoFar, RunGoesLast, CleanedUp,
         DagrunExists, Idle, Creation, Deletion, AfterRun, RunId
<1> QED BY <1>1, NextR, AlwaysTyped, PTL DEF Spec

\* The finalizer of the DagRun works: whatever failed and was tried again on
\* the way, an object that is gone has left neither its PVC nor, if its status
\* ever had the run's id, rows that DagrunExists would find.
THEOREM CleanedUpAlways == Spec => []CleanedUp
<1>1. RInv => CleanedUp BY DEF RInv
<1> QED BY <1>1, AlwaysR, PTL

-----------------------------------------------------------------------------
(* The logs of a deleted run.  As long as one is there, somebody is on the *)
(* way to delete it: the reconciler, or a goroutine, of whatever pod.      *)

ToClean == {"create", "open", "copy", "unfinalize", "exists", "list"}
Watches(c, p) == coll[c].pc \in ToClean \/ (coll[c].pc = "delete" /\ p \in coll[c].listed)
WillDelete(p) ==
    \/ obj.state = "deleting" /\ rec.pc \in {"idle", "suspend", "pods", "deleteRun", "listLogs"}
    \/ rec.pc = "deleteLogs" /\ p \in rec.todo
LInv == run = "gone" /\ ~abandoned =>
            \A p \in Pod : log[p] # "none" => WillDelete(p) \/ \E c \in Collector : Watches(c, p)

LEMMA CollWatch ==
    ASSUME TInv, NEW c \in Collector, CollStep(c), run = "gone", ~abandoned',
           NEW p \in Pod, log'[p] # "none"
    PROVE  Watches(c, p)' \/ (log[p] # "none" /\ ~Watches(c, p))
<1>1. CollType BY TypeParts DEF TInv
<1>2. ASSUME NEW pc \in ToClean, MoveTo(c, pc) PROVE Watches(c, p)'
      BY <1>1, <1>2, Moves DEF Watches, ToClean, CollPc
<1>3. CASE \E q \in Pod : HandleEvent(q, c) BY <1>3 DEF HandleEvent, Watches, ToClean
<1>4. CASE Check(c) \/ Mark(c) BY <1>4 DEF Check, Mark, At, Watches, ToClean
<1>5. CASE CreateFile(c) \/ OpenStream(c) \/ CopyLog(c) \/ CopyStops(c) \/ UploadFails(c)
           \/ RemoveFinalizer(c)
  <2>1. \E pc \in ToClean : MoveTo(c, pc)
        BY <1>5 DEF CreateFile, OpenStream, CopyLog, CopyStops, UploadFails, RemoveFinalizer,
           ToClean
  <2> QED BY <1>2, <2>1
<1>6. CASE UploadPart(c)
  <2>1. coll' = [coll EXCEPT ![c] = [coll[c] EXCEPT !.parts = TRUE]] /\ coll[c].pc = "copy"
        BY <1>6 DEF UploadPart, At
  <2>2. coll[c] \in CollRecord /\ coll'[c] = [coll[c] EXCEPT !.parts = TRUE]
        BY <1>1, <2>1 DEF CollType
  <2>3. coll'[c].pc = "copy" BY <2>1, <2>2 DEF CollRecord
  <2> QED BY <2>3 DEF Watches, ToClean
<1>7. CASE CheckRun(c)
  <2>1. MoveTo(c, "list") BY <1>7 DEF CheckRun, DagrunExists
  <2> QED BY <1>2, <2>1 DEF ToClean
<1>8. CASE CleanUp(c)
  <2>1. CASE /\ coll' = [coll EXCEPT ![c].pc = "delete", ![c].listed = StoredLogs]
             /\ log' = log
    <3>1. coll' = [coll EXCEPT ![c] =
                      [[coll[c] EXCEPT !.pc = "delete"] EXCEPT !.listed = StoredLogs]]
          BY <1>1, <2>1 DEF CollType
    <3>2. coll[c] \in CollRecord
          /\ coll'[c] = [[coll[c] EXCEPT !.pc = "delete"] EXCEPT !.listed = StoredLogs]
          BY <1>1, <3>1 DEF CollType
    <3>3. coll'[c].pc = "delete" /\ coll'[c].listed = StoredLogs BY <3>2 DEF CollRecord
    <3> QED BY <2>1, <3>3 DEF Watches, StoredLogs
  <2>2. CASE /\ At(c, "delete")
             /\ log' = [q \in Pod |-> IF q \in coll[c].listed THEN "none" ELSE log[q]]
        BY <2>2 DEF Watches, At, ToClean
  <2> QED BY <1>8, <2>1, <2>2 DEF CleanUp
<1> QED BY <1>3, <1>4, <1>5, <1>6, <1>7, <1>8 DEF CollStep, Collect

LEMMA NextL == TInv /\ RInv /\ RInv' /\ LInv /\ [Next]_vars => LInv'
<1> SUFFICES ASSUME TInv, RInv, RInv', LInv, [Next]_vars, run' = "gone", ~abandoned',
                    NEW p \in Pod, log'[p] # "none"
             PROVE  WillDelete(p)' \/ \E c \in Collector : Watches(c, p)'
    BY DEF LInv
<1>1. ObjType /\ RecType /\ CollType BY TypeParts DEF TInv
<1> USE Groups
<1>2. ASSUME UNCHANGED <<obj, rec, run, abandoned, log, coll>>
      PROVE  WillDelete(p)' \/ \E c \in Collector : Watches(c, p)'
      BY <1>2 DEF LInv, WillDelete, Watches
<1>3. CASE ObjectStep
  <2>1. UNCHANGED <<coll, abandoned>> BY <1>3, Elsewhere
  <2>2. SUFFICES ASSUME \A c \in Collector : ~Watches(c, p) PROVE WillDelete(p)'
        BY <2>1 DEF Watches
  <2>3. run = "gone" /\ log[p] # "none" => WillDelete(p) BY <2>1, <2>2 DEF LInv
  <2>4. \/ rec.pc \notin Creation /\ obj.state # "present" /\ obj.state # "absent"
        \/ run # "gone"
        BY PcSets DEF RInv, RunGoesLast
  <2>5. CASE CreateObject \/ DeleteObject
        BY <2>4, <2>5 DEF CreateObject, DeleteObject
  <2>6. CASE Reconcile
    <3>1. run = "gone" /\ log' = log /\ rec.pc = "idle" BY <2>6 DEF Reconcile
    <3>2. obj.state = "deleting" /\ WillDelete(p) BY <2>3, <3>1 DEF WillDelete
    <3>3. obj' = obj /\ rec'.pc = "suspend" BY <2>6, <3>2 DEF Reconcile, Idle
    <3> QED BY <3>2, <3>3 DEF WillDelete
  <2>7. CASE CreatePvc \/ InsertRow \/ PatchStatus
        BY <2>4, <2>7 DEF CreatePvc, InsertRow, PatchStatus, Creation
  <2>8. CASE InsertRun BY <2>4, <2>8 DEF InsertRun, Creation
  <2>9. CASE SuspendDagRun \/ DeletePods
    <3>1. rec.pc \in {"suspend", "pods"} /\ obj' = obj
          /\ rec'.pc \in {"pods", "deleteRun"}
          BY <1>1, <2>9, DeletionOrder DEF SuspendDagRun, DeletePods, GoTo, RecType, RecRecord
    <3>2. obj.state = "deleting" BY <3>1 DEF RInv, Held, Deletion
    <3> QED BY <3>1, <3>2 DEF WillDelete
  <2>10. CASE DeleteDagRun
    <3>1. rec.pc = "deleteRun" /\ obj' = obj /\ rec'.pc = "listLogs"
          BY <1>1, <2>10, DeletionOrder DEF DeleteDagRun, GoTo, RecType, RecRecord
    <3>2. obj.state = "deleting" BY <3>1 DEF RInv, Held, Deletion
    <3> QED BY <3>1, <3>2 DEF WillDelete
  <2>11. CASE ListLogs
    <3>1. /\ rec.pc = "listLogs" /\ run = "gone" /\ log' = log
          /\ rec'.pc = "deleteLogs"
          /\ rec'.todo = IF rec.runId = RunId THEN StoredLogs ELSE {}
          BY <1>1, <2>11, DeletionOrder DEF ListLogs, RecType, RecRecord
    <3>2. rec.runId = RunId BY <3>1 DEF RInv, Held, RunGoesLast, Deletion
    <3> QED BY <3>1, <3>2 DEF WillDelete, StoredLogs
  <2>12. CASE DeleteLogs
    <3>1. /\ rec.pc = "deleteLogs" /\ run = "gone" /\ p \notin rec.todo /\ log'[p] = log[p]
          BY <2>12 DEF DeleteLogs
    <3>2. ~WillDelete(p) BY <3>1 DEF WillDelete
    <3> QED BY <2>3, <3>1, <3>2
  <2>13. CASE DeletePvc \/ RemoveDagRunFinalizer
    <3>1. rec.pc \in {"deletePvc", "finalizer"} /\ run = "gone" /\ log' = log
          BY <2>13 DEF DeletePvc, RemoveDagRunFinalizer
    <3>2. ~WillDelete(p) BY <3>1 DEF WillDelete
    <3> QED BY <2>3, <3>1, <3>2
  <2>14. CASE ReconcileFails \/ ControllerRestarts
    <3>1. rec' = Idle /\ UNCHANGED <<obj, run, log>>
          BY <2>14 DEF ReconcileFails, ControllerRestarts, Interrupted
    <3>2. WillDelete(p) BY <2>3, <3>1
    <3>3. obj.state = "deleting" BY <3>2 DEF WillDelete, RInv, Held, Deletion
    <3> QED BY <3>1, <3>3 DEF WillDelete, Idle
  <2> QED BY <1>3, <2>5, <2>6, <2>7, <2>8, <2>9, <2>10, <2>11, <2>12, <2>13, <2>14
          DEF ObjectStep, ReconcilerStep
<1>4. ASSUME NEW q \in Pod, PodStep(q)
      PROVE  WillDelete(p)' \/ \E c \in Collector : Watches(c, p)'
      BY <1>2, <1>4, Elsewhere
<1>5. ASSUME NEW c \in Collector, CollStep(c)
      PROVE  WillDelete(p)' \/ \E d \in Collector : Watches(d, p)'
  <2>1. UNCHANGED <<obj, rec, run>> /\ ~abandoned BY <1>5, Elsewhere, OneMoves
  <2>2. SUFFICES ASSUME ~Watches(c, p)' PROVE WillDelete(p)' \/ \E d \in Collector : Watches(d, p)'
        OBVIOUS
  <2>3. log[p] # "none" /\ ~Watches(c, p) BY <1>5, <2>1, <2>2, CollWatch
  <2>4. CASE WillDelete(p) BY <2>1, <2>4 DEF WillDelete
  <2>5. ASSUME NEW d \in Collector, Watches(d, p) PROVE Watches(d, p)'
        BY <1>5, <2>3, <2>5, OneMoves DEF Watches
  <2> QED BY <2>1, <2>3, <2>4, <2>5 DEF LInv
<1>6. CASE WorkersRestart BY <1>6 DEF WorkersRestart
<1>7. CASE UNCHANGED vars BY <1>2, <1>7 DEF all
<1> QED BY <1>3, <1>4, <1>5, <1>6, <1>7, Steps

\* The logs of a run that was deleted do not stay behind: between the deletion
\* of its rows and the last return of a goroutine that copies a log, there is
\* always one who will list the logs again and delete them.
THEOREM LogsGoAlways == Spec => []LogsOfDeletedRunGo
<1>1. Init => LInv BY DEF Init, LInv
<1>2. Spec => []LInv BY <1>1, NextL, AlwaysTyped, AlwaysR, PTL DEF Spec
<1>3. RInv /\ LInv => LogsOfDeletedRunGo
  <2> SUFFICES ASSUME RInv, LInv, obj.state = "gone", run = "gone", ~abandoned,
                      \A c \in Collector : coll[c].pc = "idle", NEW p \in Pod,
                      log[p] # "none"
               PROVE  FALSE
      BY DEF LogsOfDeletedRunGo
  <2>1. ~WillDelete(p) BY DEF WillDelete, RInv, Held, Deletion
  <2>2. \A c \in Collector : ~Watches(c, p) BY DEF Watches, ToClean
  <2> QED BY <2>1, <2>2 DEF LInv
<1> QED BY <1>2, <1>3, AlwaysR, PTL

-----------------------------------------------------------------------------
(* Who may remove a log, and when.                                         *)

\* The reconciler lists logs of the run only by the run's id.
OwnLogs == rec.pc = "deleteLogs" /\ rec.todo # {} => rec.runId = RunId
\* Only the filesystem store cuts a file; only goroutines that saw no run clean up.
ReasonTo == \A c \in Collector :
                /\ coll[c].pc = "create" => store = "filesystem"
                /\ coll[c].pc \in {"list", "delete"} => ~DagrunExists
\* Without the run there is nothing, so a goroutine that saw no run saw it deleted.
NothingBefore ==
    /\ run = "none" =>
         /\ \A p \in Pod : row[p] = "none" /\ pods[p].phase = "none" /\ ~pods[p].claim
         /\ \A c \in Collector : coll[c].pc = "idle"
    /\ rec.pc \in {"rows", "status"} => run # "none"

KInv == OwnLogs /\ ReasonTo /\ NothingBefore

LEMMA PodKept == \A pod \in PodRecord : /\ Deleted(pod).phase = pod.phase
                                        /\ Deleted(pod).claim = pod.claim
BY DEF PodRecord, Deleted

LEMMA CollReasons ==
    ASSUME TInv, KInv, NEW c \in Collector, CollStep(c)
    PROVE  /\ run # "none"
           /\ coll'[c].pc = "create" => store = "filesystem"
           /\ coll'[c].pc \in {"list", "delete"} => ~DagrunExists
<1>1. CollType BY TypeParts DEF TInv
<1>2. run # "none"
  <2>1. CASE \E p \in Pod : HandleEvent(p, c) BY <2>1 DEF HandleEvent, KInv, NothingBefore
  <2>2. CASE Collect(c) \/ UploadPart(c) \/ UploadFails(c)
    <3>1. coll[c].pc # "idle"
          BY <2>2 DEF Collect, Check, Mark, CreateFile, OpenStream, UploadPart, CopyLog,
             CopyStops, UploadFails, RemoveFinalizer, CheckRun, CleanUp, At
    <3> QED BY <3>1 DEF KInv, NothingBefore
  <2> QED BY <2>1, <2>2 DEF CollStep
<1>3. CASE coll'[c].pc \notin {"create", "list", "delete"} BY <1>2, <1>3
<1>4. CASE Mark(c)
  <2>1. CASE Return(c)
    <3>1. coll'[c].pc = "idle" BY <1>1, <2>1, Moves
    <3> QED BY <1>2, <3>1
  <2>2. CASE MoveTo(c, IF store = "filesystem" THEN "create" ELSE "open")
    <3>1. coll'[c].pc = IF store = "filesystem" THEN "create" ELSE "open"
          BY <1>1, <2>2, Moves DEF CollPc
    <3> QED BY <1>2, <3>1
  <2> QED BY <1>4, <2>1, <2>2 DEF Mark
<1>5. CASE CheckRun(c)
  <2>1. CASE Leave(c)
    <3>1. coll'[c].pc = "idle" BY <1>1, <2>1, Moves DEF Leave
    <3> QED BY <1>2, <3>1
  <2>2. CASE MoveTo(c, "list") /\ ~DagrunExists
    <3>1. coll'[c].pc = "list" BY <1>1, <2>2, Moves DEF CollPc
    <3> QED BY <1>2, <2>2, <3>1
  <2> QED BY <1>5, <2>1, <2>2 DEF CheckRun
<1>6. CASE CleanUp(c)
  <2>1. CASE Leave(c)
    <3>1. coll'[c].pc = "idle" BY <1>1, <2>1, Moves DEF Leave
    <3> QED BY <1>2, <3>1
  <2>2. CASE /\ At(c, "list")
             /\ coll' = [coll EXCEPT ![c].pc = "delete", ![c].listed = StoredLogs]
    <3>1. ~DagrunExists BY <2>2 DEF At, KInv, ReasonTo
    <3>2. coll'[c] = [[coll[c] EXCEPT !.pc = "delete"] EXCEPT !.listed = StoredLogs]
          BY <1>1, <2>2 DEF CollType
    <3>3. coll'[c].pc = "delete" BY <1>1, <3>2 DEF CollType, CollRecord
    <3> QED BY <1>2, <3>1, <3>3
  <2> QED BY <1>6, <2>1, <2>2 DEF CleanUp
<1>7. CASE ~(Mark(c) \/ CheckRun(c) \/ CleanUp(c))
  <2>1. coll'[c].pc \in {"idle", "check", "mark", "open", "copy", "unfinalize", "exists"}
    <3>1. CASE Check(c) BY <1>1, <3>1, Moves DEF Check, CollPc
    <3>2. CASE CreateFile(c) BY <1>1, <3>2, Moves DEF CreateFile, CollPc
    <3>3. CASE OpenStream(c) BY <1>1, <3>3, Moves DEF OpenStream, CollPc
    <3>4. CASE CopyLog(c) \/ CopyStops(c)
          BY <1>1, <3>4, Moves DEF CopyLog, CopyStops, CollPc
    <3>5. CASE UploadFails(c) \/ RemoveFinalizer(c)
          BY <1>1, <3>5, Moves DEF UploadFails, RemoveFinalizer, CollPc
    <3>6. CASE UploadPart(c)
      <4>1. coll' = [coll EXCEPT ![c] = [coll[c] EXCEPT !.parts = TRUE]] /\ coll[c].pc = "copy"
            BY <3>6 DEF UploadPart, At
      <4>2. coll[c] \in CollRecord /\ coll'[c] = [coll[c] EXCEPT !.parts = TRUE]
            BY <1>1, <4>1 DEF CollType
      <4> QED BY <4>1, <4>2 DEF CollRecord
    <3>7. CASE \E p \in Pod : HandleEvent(p, c)
          BY <1>1, <3>7 DEF HandleEvent, CollType, Resting
    <3> QED BY <1>7, <3>1, <3>2, <3>3, <3>4, <3>5, <3>6, <3>7 DEF CollStep, Collect
  <2> QED BY <1>3, <2>1
<1> QED BY <1>4, <1>5, <1>6, <1>7

LEMMA NextK == TInv /\ RInv /\ KInv /\ [Next]_vars => KInv'
<1> SUFFICES ASSUME TInv, RInv, KInv, [Next]_vars PROVE KInv' OBVIOUS
<1>1. ObjType /\ RecType /\ TabType /\ PodType /\ CollType BY TypeParts DEF TInv
<1> USE Groups
<1>2. ASSUME UNCHANGED <<store, rec, run, row, pods, coll>> PROVE KInv'
      BY <1>2 DEF KInv, OwnLogs, ReasonTo, NothingBefore, DagrunExists
<1>3. CASE ObjectStep
  <2>1. UNCHANGED <<store, coll>> BY <1>3, Elsewhere
  <2>2. ASSUME UNCHANGED <<run, row, pods>>,
               rec'.pc = "deleteLogs" /\ rec'.todo # {} => rec'.runId = RunId,
               rec'.pc \in {"rows", "status"} => run # "none"
        PROVE  KInv'
        BY <2>1, <2>2 DEF KInv, OwnLogs, ReasonTo, NothingBefore, DagrunExists
  <2>3. CASE CreateObject \/ DeleteObject
        BY <1>2, <2>1, <2>3 DEF CreateObject, DeleteObject
  <2>4. CASE Reconcile
    <3>1. UNCHANGED <<run, row, pods>> BY <2>4 DEF Reconcile
    <3>2. \/ rec' = rec \/ rec' = Idle \/ rec' = [Idle EXCEPT !.pc = "pvc"]
          \/ rec' = [Idle EXCEPT !.pc = "suspend", !.runId = obj.runId]
          BY <1>1, <2>4 DEF Reconcile, ObjType
    <3>3. rec' = rec \/ rec'.pc \in {"suspend", "pvc", "idle"}
      <4>1. Idle.pc = "idle" /\ [Idle EXCEPT !.pc = "pvc"].pc = "pvc" BY DEF Idle
      <4>2. [Idle EXCEPT !.pc = "suspend", !.runId = obj.runId].pc = "suspend" BY DEF Idle
      <4> QED BY <3>2, <4>1, <4>2
    <3> QED BY <2>2, <3>1, <3>3 DEF KInv, OwnLogs, NothingBefore
  <2>5. CASE CreatePvc
    <3>1. UNCHANGED <<run, row, pods>> /\ rec'.pc = "insert"
          BY <1>1, <2>5 DEF CreatePvc, GoTo, RecType, RecRecord
    <3> QED BY <2>2, <3>1
  <2>6. CASE InsertRun
    <3>1. /\ UNCHANGED <<row, pods>> /\ rec'.pc = "rows"
          /\ run' = IF run = "none" THEN "running" ELSE run
          BY <1>1, <2>6 DEF InsertRun, RecType, RecRecord
    <3>2. OwnLogs' /\ NothingBefore' BY <3>1 DEF OwnLogs, NothingBefore
    <3>3. ReasonTo' BY <2>1, <3>1 DEF KInv, ReasonTo, NothingBefore, DagrunExists
    <3> QED BY <3>2, <3>3 DEF KInv
  <2>7. CASE InsertRow
    <3>1. UNCHANGED <<run, pods>> /\ rec.pc = "rows" /\ rec'.pc \in {"rows", "status"}
          BY <1>1, <2>7 DEF InsertRow, GoTo, RecType, RecRecord
    <3>2. run # "none" BY <3>1 DEF KInv, NothingBefore
    <3> QED BY <2>1, <3>1, <3>2 DEF KInv, OwnLogs, ReasonTo, NothingBefore, DagrunExists
  <2>8. CASE PatchStatus \/ RemoveDagRunFinalizer
    <3>1. UNCHANGED <<run, row, pods>> /\ rec'.pc = "idle"
          BY <2>8 DEF PatchStatus, RemoveDagRunFinalizer, Idle
    <3> QED BY <2>2, <3>1
  <2>9. CASE ReconcileFails \/ ControllerRestarts
    <3>1. UNCHANGED <<run, row, pods>> /\ rec'.pc = "idle"
          BY <2>9 DEF ReconcileFails, ControllerRestarts, Interrupted, Idle
    <3> QED BY <2>2, <3>1
  <2>10. CASE SuspendDagRun
    <3>1. /\ UNCHANGED <<row, pods>> /\ rec'.pc = "pods"
          /\ run' = run \/ (run = "running" /\ run' = "suspended")
          BY <1>1, <2>10, DeletionOrder DEF SuspendDagRun, RecType, RecRecord
    <3> QED BY <2>1, <3>1 DEF KInv, OwnLogs, ReasonTo, NothingBefore, DagrunExists
  <2>11. CASE DeletePods
    <3>1. UNCHANGED <<run, row>> /\ rec'.pc \in {"pods", "deleteRun"}
          BY <1>1, <2>11, DeletionOrder DEF DeletePods, GoTo, RecType, RecRecord
    <3>2. \A p \in Pod : pods'[p].phase = pods[p].phase /\ pods'[p].claim = pods[p].claim
      <4>1. CASE pods' = pods BY <4>1
      <4>2. CASE \E p \in rec.todo : pods' = [pods EXCEPT ![p] = Deleted(pods[p])]
            BY <1>1, <4>2, PodKept DEF PodType, RecType, RecRecord
      <4> QED BY <2>11, <4>1, <4>2 DEF DeletePods
    <3> QED BY <2>1, <3>1, <3>2 DEF KInv, OwnLogs, ReasonTo, NothingBefore, DagrunExists
  <2>12. CASE DeleteDagRun
    <3>1. /\ UNCHANGED pods /\ rec'.pc = "listLogs"
          /\ run' = "gone" \/ UNCHANGED <<run, row>>
          BY <1>1, <2>12, DeletionOrder DEF DeleteDagRun, GoTo, RecType, RecRecord
    <3> QED BY <2>1, <3>1 DEF KInv, OwnLogs, ReasonTo, NothingBefore, DagrunExists
  <2>13. CASE ListLogs
    <3>1. /\ UNCHANGED <<run, row, pods>> /\ rec'.pc = "deleteLogs" /\ rec'.runId = rec.runId
          /\ rec'.todo = IF rec.runId = RunId THEN StoredLogs ELSE {}
          BY <1>1, <2>13, DeletionOrder DEF ListLogs, RecType, RecRecord
    <3> QED BY <2>2, <3>1
  <2>14. CASE DeleteLogs \/ DeletePvc
    <3>1. UNCHANGED <<run, row, pods>> /\ rec'.pc \in {"deletePvc", "finalizer"}
          BY <1>1, <2>14, DeletionOrder DEF DeleteLogs, DeletePvc, GoTo, RecType, RecRecord
    <3> QED BY <2>2, <3>1
  <2> QED BY <1>3, <2>3, <2>4, <2>5, <2>6, <2>7, <2>8, <2>9, <2>10, <2>11, <2>12, <2>13, <2>14
          DEF ObjectStep, ReconcilerStep
<1>4. ASSUME NEW p \in Pod, PodStep(p) PROVE KInv'
  <2>1. UNCHANGED <<store, rec, run, coll>> BY <1>4, Elsewhere
  <2>2. run # "none"
        BY <1>1, <1>4 DEF PodStep, ClaimRow, StartPod, FinalizeClaim, PodEnds, DeleteOrphan,
           IsOrphan, KInv, NothingBefore
  <2> QED BY <2>1, <2>2 DEF KInv, OwnLogs, ReasonTo, NothingBefore, DagrunExists
<1>5. ASSUME NEW c \in Collector, CollStep(c) PROVE KInv'
  <2>1. UNCHANGED <<store, rec, run>> BY <1>5, Elsewhere
  <2>2. \A d \in Collector \ {c} : coll'[d] = coll[d] BY <1>5, OneMoves
  <2>3. OwnLogs' /\ NothingBefore'
        BY <1>5, <2>1, CollReasons DEF KInv, OwnLogs, NothingBefore
  <2>4. ReasonTo' BY <1>5, <2>1, <2>2, CollReasons DEF KInv, ReasonTo, DagrunExists
  <2> QED BY <2>3, <2>4 DEF KInv
<1>6. CASE WorkersRestart
  <2>1. UNCHANGED <<store, rec, run, row, pods>> BY <1>6, Elsewhere
  <2>2. \A c \in Collector : coll'[c].pc = "idle" BY <1>6 DEF WorkersRestart, Resting
  <2> QED BY <2>1, <2>2 DEF KInv, OwnLogs, ReasonTo, NothingBefore
<1>7. CASE UNCHANGED vars BY <1>2, <1>7 DEF all
<1> QED BY <1>3, <1>4, <1>5, <1>6, <1>7, Steps

\* With S3 a complete log is never cut, replaced or deleted while the run
\* exists, whoever reconciles, collects, crashes or cleans up at the time.
THEOREM LogIsKeptAlways == Spec => LogIsKept
<1>1. Init => KInv
      BY DEF Init, KInv, OwnLogs, ReasonTo, NothingBefore, Idle, Resting, NoPod
<1>2. Spec => []KInv BY <1>1, NextK, AlwaysTyped, AlwaysR, PTL DEF Spec
<1>3. TInv /\ RInv /\ KInv /\ [Next]_vars =>
        [\A p \in Pod : store = "s3" /\ log[p] = "complete" /\ log'[p] # "complete"
                          => ~DagrunExists]_vars
  <2> SUFFICES ASSUME TInv, RInv, KInv, [Next]_vars, NEW p \in Pod, store = "s3",
                      log[p] = "complete", log'[p] # "complete"
               PROVE  ~DagrunExists
      OBVIOUS
  <2> USE Groups
  <2>1. LogType BY TypeParts DEF TInv
  <2>2. CASE ObjectStep
    <3>1. CASE DeleteLogs
      <4>1. rec.pc = "deleteLogs" /\ rec.todo # {} BY <3>1 DEF DeleteLogs
      <4>2. run = "gone" BY <4>1 DEF KInv, OwnLogs, RInv, DoneSoFar, AfterRun
      <4> QED BY <4>2 DEF DagrunExists
    <3>2. CASE ~DeleteLogs
      <4>1. CASE CreateObject \/ DeleteObject \/ ReconcileFails \/ ControllerRestarts
            BY <4>1 DEF CreateObject, DeleteObject, ReconcileFails, ControllerRestarts
      <4>2. CASE Reconcile \/ CreatePvc \/ InsertRun \/ InsertRow \/ PatchStatus
            BY <4>2 DEF Reconcile, CreatePvc, InsertRun, InsertRow, PatchStatus
      <4>3. CASE SuspendDagRun \/ DeletePods \/ DeleteDagRun \/ ListLogs
            BY <4>3 DEF SuspendDagRun, DeletePods, DeleteDagRun, ListLogs
      <4>4. CASE DeletePvc \/ RemoveDagRunFinalizer
            BY <4>4 DEF DeletePvc, RemoveDagRunFinalizer
      <4> QED BY <2>2, <3>2, <4>1, <4>2, <4>3, <4>4 DEF ObjectStep, ReconcilerStep
    <3> QED BY <3>1, <3>2
  <2>3. ASSUME NEW q \in Pod, PodStep(q) PROVE FALSE BY <2>3, Elsewhere
  <2>4. ASSUME NEW c \in Collector, CollStep(c) PROVE ~DagrunExists
    <3>1. CASE CreateFile(c) BY <3>1 DEF CreateFile, At, KInv, ReasonTo
    <3>2. CASE CopyLog(c) BY <2>1, <3>2 DEF CopyLog, LogType
    <3>3. CASE CleanUp(c) BY <3>3 DEF CleanUp, At, KInv, ReasonTo
    <3>4. CASE Check(c) \/ Mark(c) \/ OpenStream(c) \/ UploadPart(c) \/ CheckRun(c)
          BY <3>4 DEF Check, Mark, OpenStream, UploadPart, CheckRun
    <3>5. CASE CopyStops(c) \/ UploadFails(c) \/ RemoveFinalizer(c)
          BY <3>5 DEF CopyStops, PodLost, UploadFails, RemoveFinalizer
    <3>6. CASE \E q \in Pod : HandleEvent(q, c) BY <3>6 DEF HandleEvent
    <3> QED BY <2>4, <3>1, <3>2, <3>3, <3>4, <3>5, <3>6 DEF CollStep, Collect
  <2>5. CASE WorkersRestart BY <2>5, Elsewhere
  <2>6. CASE UNCHANGED vars BY <2>6 DEF all
  <2> QED BY <2>2, <2>3, <2>4, <2>5, <2>6, Steps
<1> QED BY <1>2, <1>3, AlwaysTyped, AlwaysR, PTL DEF Spec, LogIsKept
=============================================================================
