------------------------ MODULE TieredStorage_proofs ------------------------
(***************************************************************************)
(* Proofs about TieredStorage, for every finite set of segments and every  *)
(* number of faults.                                                       *)
(***************************************************************************)
EXTENDS TieredStorage, SequenceTheorems, FiniteSetTheorems, TLAPS

-----------------------------------------------------------------------------
(* Type correctness                                                        *)

LEMMA InitType == Init => TypeOK
<1> SUFFICES ASSUME Init PROVE TypeOK
  OBVIOUS
<1>1. FilesType
  BY DEF Init, FilesType, Ages
<1>2. MigrationType
  BY StorageAssumption DEF Init, MigrationType
<1>3. ClientType
  BY EmptySeq DEF Init, ClientType
<1>4. CoordinatorType
  BY EmptySeq DEF Init, CoordinatorType
<1>5. HistoryType
  BY StorageAssumption DEF Init, HistoryType
<1>6. QED
  BY <1>1, <1>2, <1>3, <1>4, <1>5 DEF TypeOK

(* A part of the type invariant is kept by a step that leaves its          *)
(* variables alone.                                                        *)
LEMMA TypeStutter ==
  ASSUME TypeOK
  PROVE  /\ UNCHANGED <<age, file, object, queue>> => FilesType'
         /\ UNCHANGED migVars => MigrationType'
         /\ UNCHANGED <<channel, clientVars, deletions>> => ClientType'
         /\ UNCHANGED <<row, wire, expired>> => CoordinatorType'
         /\ UNCHANGED <<faults, adrift>> => HistoryType'
BY DEF TypeOK, FilesType, MigrationType, ClientType, CoordinatorType,
       HistoryType, migVars, clientVars

(* Faults are counted up to their bound, and the history takes what Adrift *)
(* names or forgets some of it.                                            *)
LEMMA HistoryStep ==
  ASSUME TypeOK,
         Fault \/ UNCHANGED faults,
         \/ adrift' \subseteq adrift
         \/ \E segs \in SUBSET Segments, c \in Causes : Adrift(segs, c)
  PROVE  HistoryType'
<1>1. faults' \in 0..MaxFaults
  BY StorageAssumption DEF TypeOK, HistoryType, Fault
<1>2. adrift' \in SUBSET [seg: Segments, cause: Causes]
  BY DEF TypeOK, HistoryType, Adrift
<1>3. QED
  BY <1>1, <1>2 DEF HistoryType

(* What is transmitted is appended to the wire of a working connection.    *)
LEMMA TransmitType ==
  ASSUME TypeOK, NEW msgs \in Seq(NodeMessage), Transmit(msgs)
  PROVE  wire' \in [Sessions -> Seq(NodeMessage)]
<1>1. \A s \in Sessions : wire[s] \o msgs \in Seq(NodeMessage)
  BY ConcatProperties DEF TypeOK, CoordinatorType
<1>2. QED
  BY <1>1 DEF Transmit, TypeOK, CoordinatorType

(* The entries a flush sends are messages of the protocol.                 *)
LEMMA FlushedType ==
  ASSUME TypeOK, NEW order \in [1..Cardinality(queue) -> queue]
  PROVE  [i \in DOMAIN order |-> [kind |-> "complete", seg |-> order[i]]]
           \in Seq(NodeMessage)
<1>1. Cardinality(queue) \in Nat
  BY StorageAssumption, FS_Subset, FS_CardinalityType DEF TypeOK, FilesType
<1>2. \A i \in 1..Cardinality(queue) :
        [kind |-> "complete", seg |-> order[i]] \in NodeMessage
  BY DEF TypeOK, FilesType, NodeMessage
<1>3. [i \in DOMAIN order |-> [kind |-> "complete", seg |-> order[i]]]
        \in [1..Cardinality(queue) -> NodeMessage]
  BY <1>2
<1>4. QED
  BY <1>1, <1>3, SMT

(* The segments of the migrations on a wire are segments.                  *)
LEMMA OnWireType ==
  ASSUME TypeOK, NEW s \in Sessions
  PROVE  MigratedOnWire(s) \in SUBSET Segments
<1>1. wire[s] \in Seq(NodeMessage)
  BY DEF TypeOK, CoordinatorType
<1>2. \A i \in DOMAIN wire[s] : wire[s][i] \in NodeMessage
  BY <1>1, LenProperties
<1>3. QED
  BY <1>2 DEF MigratedOnWire, Range, NodeMessage

LEMMA NextType == TypeOK /\ [Next]_vars => TypeOK'
<1> SUFFICES ASSUME TypeOK, [Next]_vars PROVE TypeOK'
  OBVIOUS
<1>1. ASSUME NEW g \in Segments, StartFile(g) \/ FinishFile(g) \/ GrowOld(g)
      PROVE  TypeOK'
  <2>1. FilesType'
    BY <1>1 DEF StartFile, FinishFile, GrowOld, TypeOK, FilesType, Ages
  <2>2. QED
    BY <1>1, <2>1, TypeStutter DEF StartFile, FinishFile, GrowOld, TypeOK
<1>2. ASSUME NEW g \in Segments, Cull(g) PROVE TypeOK'
  <2>1. FilesType'
    BY <1>2 DEF Cull, TypeOK, FilesType
  <2>2. HistoryType'
    BY <1>2, HistoryStep DEF Cull, Causes
  <2>3. QED
    BY <1>2, <2>1, <2>2, TypeStutter DEF Cull, TypeOK
<1>3. CASE StartPass \/ EndPass
  <2>1. MigrationType'
    BY <1>3 DEF StartPass, EndPass, TypeOK, MigrationType
  <2>2. QED
    BY <1>3, <2>1, TypeStutter DEF StartPass, EndPass, TypeOK
<1>4. ASSUME NEW g \in Segments, ReadFile(g) PROVE TypeOK'
  <2>1. MigrationType'
    BY <1>4, StorageAssumption DEF ReadFile, TypeOK, MigrationType
  <2>2. QED
    BY <1>4, <2>1, TypeStutter DEF ReadFile, TypeOK
<1>5. CASE PutObject \/ PutFails
  <2>1. current \in Segments
    BY <1>5 DEF PutObject, PutFails, TypeOK, MigrationType
  <2>2. body \in {"none", "part", "whole"}
    BY DEF TypeOK, MigrationType
  <2>3. FilesType'
    BY <1>5, <2>1, <2>2 DEF PutObject, PutFails, TypeOK, FilesType
  <2>4. MigrationType'
    BY <1>5, <2>1, StorageAssumption
       DEF PutObject, PutFails, TypeOK, MigrationType
  <2>5. HistoryType'
    BY <1>5, HistoryStep DEF PutObject, PutFails
  <2>6. QED
    BY <1>5, <2>3, <2>4, <2>5, TypeStutter DEF PutObject, PutFails, TypeOK
<1>6. CASE Notify
  <2>1. current \in Segments
    BY <1>6 DEF Notify, TypeOK, MigrationType
  <2>2. ClientType'
    BY <1>6, <2>1, AppendProperties DEF Notify, TypeOK, ClientType, clientVars
  <2>3. MigrationType'
    BY <1>6, <2>1, StorageAssumption DEF Notify, TypeOK, MigrationType
  <2>4. HistoryType'
    BY <1>6, HistoryStep DEF Notify
  <2>5. QED
    BY <1>6, <2>2, <2>3, <2>4, TypeStutter DEF Notify, TypeOK
<1>7. CASE RemoveFile
  <2>1. FilesType'
    BY <1>7 DEF RemoveFile, TypeOK, FilesType
  <2>2. MigrationType'
    BY <1>7 DEF RemoveFile, TypeOK, MigrationType
  <2>3. QED
    BY <1>7, <2>1, <2>2, TypeStutter DEF RemoveFile, TypeOK
<1>8. CASE Connect \/ Disconnect
  <2>1. ClientType'
    <3>1. deletions' \in Seq(Expired)
      BY <1>8, EmptySeq DEF Connect, Disconnect
    <3>2. session' \in Nat
      BY <1>8 DEF Connect, Disconnect, TypeOK, ClientType
    <3>3. QED
      BY <1>8, <3>1, <3>2 DEF Connect, Disconnect, TypeOK, ClientType
  <2>2. QED
    BY <1>8, <2>1, TypeStutter DEF Connect, Disconnect, TypeOK, clientVars
<1>9. CASE FlushQueue
  <2>1. PICK order \in [1..Cardinality(queue) -> queue] :
          Transmit([i \in DOMAIN order |->
                      [kind |-> "complete", seg |-> order[i]]])
    BY <1>9 DEF FlushQueue
  <2>2. CoordinatorType'
    BY <1>9, <2>1, FlushedType, TransmitType
       DEF FlushQueue, TypeOK, CoordinatorType
  <2>3. FilesType' /\ ClientType'
    BY <1>9 DEF FlushQueue, TypeOK, FilesType, ClientType
  <2>4. HistoryType'
    BY <1>9, HistoryStep DEF FlushQueue
  <2>5. QED
    BY <1>9, <2>2, <2>3, <2>4, TypeStutter DEF FlushQueue, TypeOK
<1>10. CASE SendMigrated
  <2>1. Head(channel) \in Segments /\ Tail(channel) \in Seq(Segments)
    BY <1>10, HeadTailProperties DEF SendMigrated, TypeOK, ClientType
  <2>2. [kind |-> "migrated", seg |-> Head(channel)] \in NodeMessage
    BY <2>1 DEF NodeMessage
  <2>3. <<[kind |-> "migrated", seg |-> Head(channel)]>> \in Seq(NodeMessage)
    BY <2>2
  <2>4. CoordinatorType'
    BY <1>10, <2>3, TransmitType DEF SendMigrated, TypeOK, CoordinatorType
  <2>5. ClientType'
    BY <1>10, <2>1 DEF SendMigrated, TypeOK, ClientType, clientVars
  <2>6. HistoryType'
    BY <1>10, <2>1, HistoryStep DEF SendMigrated, Causes
  <2>7. QED
    BY <1>10, <2>4, <2>5, <2>6, TypeStutter DEF SendMigrated, TypeOK
<1>11. CASE HandleDeletion
  <2>1. Head(deletions) \in Expired /\ Tail(deletions) \in Seq(Expired)
    BY <1>11, HeadTailProperties DEF HandleDeletion, TypeOK, ClientType
  <2>2. FilesType'
    BY <1>11, <2>1 DEF HandleDeletion, TypeOK, FilesType
  <2>3. ClientType'
    BY <1>11, <2>1 DEF HandleDeletion, TypeOK, ClientType, clientVars
  <2>4. HistoryType'
    BY <1>11, <2>1, HistoryStep DEF HandleDeletion, Causes, Expired
  <2>5. QED
    BY <1>11, <2>2, <2>3, <2>4, TypeStutter DEF HandleDeletion, TypeOK
<1>12. ASSUME NEW s \in Sessions,
              HandleComplete(s) \/ HandleMigrated(s) \/ LoseWire(s)
       PROVE  TypeOK'
  <2>1. wire[s] # <<>> /\ wire[s] \in Seq(NodeMessage)
    BY <1>12 DEF HandleComplete, HandleMigrated, LoseWire, TypeOK,
                 CoordinatorType
  <2>2. Head(wire[s]) \in NodeMessage /\ Tail(wire[s]) \in Seq(NodeMessage)
    BY <2>1, HeadTailProperties
  <2>3. wire' \in [Sessions -> Seq(NodeMessage)]
    BY <1>12, <2>2, EmptySeq DEF HandleComplete, HandleMigrated, LoseWire,
                                 TypeOK, CoordinatorType
  <2>4. row' \in [Segments -> {"none", "local", "s3"}]
    BY <1>12, <2>2 DEF HandleComplete, HandleMigrated, LoseWire, TypeOK,
                       CoordinatorType, NodeMessage
  <2>5. MigratedOnWire(s) \in SUBSET Segments
    BY OnWireType
  <2>6. {Head(wire[s]).seg} \in SUBSET Segments
    BY <2>2 DEF NodeMessage
  <2>7. HistoryType'
    <3>1. CASE HandleComplete(s)
      BY <3>1, HistoryStep DEF HandleComplete
    <3>2. CASE HandleMigrated(s)
      BY <3>2, <2>6, HistoryStep DEF HandleMigrated, Causes
    <3>3. CASE LoseWire(s)
      BY <3>3, <2>5, HistoryStep DEF LoseWire, Causes
    <3>4. QED
      BY <1>12, <3>1, <3>2, <3>3
  <2>8. QED
    BY <1>12, <2>3, <2>4, <2>7, TypeStutter
       DEF HandleComplete, HandleMigrated, LoseWire, TypeOK, CoordinatorType
<1>13. CASE QueryExpired
  <2>1. CoordinatorType'
    BY <1>13 DEF QueryExpired, TypeOK, CoordinatorType
  <2>2. QED
    BY <1>13, <2>1, TypeStutter DEF QueryExpired, TypeOK
<1>14. ASSUME NEW x \in Expired, DeleteAndNotify(x) PROVE TypeOK'
  <2>1. CoordinatorType'
    BY <1>14 DEF DeleteAndNotify, TypeOK, CoordinatorType
  <2>2. ClientType'
    BY <1>14, AppendProperties
       DEF DeleteAndNotify, TypeOK, ClientType, clientVars
  <2>3. HistoryType'
    BY <1>14, HistoryStep DEF DeleteAndNotify, Causes, Expired
  <2>4. QED
    BY <1>14, <2>1, <2>2, <2>3, TypeStutter DEF DeleteAndNotify, TypeOK
<1>15. CASE BreakLink
  <2>1. ClientType' /\ HistoryType'
    BY <1>15, HistoryStep DEF BreakLink, TypeOK, ClientType
  <2>2. QED
    BY <1>15, <2>1, TypeStutter DEF BreakLink, TypeOK
<1>16. CASE CrashNode
  <2>1. MigrationType'
    BY <1>16 DEF CrashNode, TypeOK, MigrationType
  <2>2. ClientType'
    BY <1>16, EmptySeq DEF CrashNode, TypeOK, ClientType
  <2>3. Range(channel) \in SUBSET Segments
    BY LenProperties DEF TypeOK, ClientType, Range
  <2>4. HistoryType'
    BY <1>16, <2>3, HistoryStep DEF CrashNode, Causes
  <2>5. QED
    BY <1>16, <2>1, <2>2, <2>4, TypeStutter DEF CrashNode, TypeOK
<1>17. CASE UNCHANGED vars
  BY <1>17, TypeStutter DEF vars, TypeOK
<1>18. QED
  BY <1>1, <1>2, <1>3, <1>4, <1>5, <1>6, <1>7, <1>8, <1>9, <1>10, <1>11, <1>12,
     <1>13, <1>14, <1>15, <1>16, <1>17 DEF Next, Migration

(* The variables keep their types, whatever the number of segments and     *)
(* faults.                                                                 *)
THEOREM TypeCorrect == Spec => []TypeOK
BY InitType, NextType, PTL DEF Spec
-----------------------------------------------------------------------------
(* Which steps disturb which variables                                     *)

LEMMA Frames ==
  [Next]_vars =>
    /\ \/ UNCHANGED age
       \/ \E g \in Segments : StartFile(g) \/ FinishFile(g) \/ GrowOld(g)
    /\ \/ UNCHANGED file
       \/ \E g \in Segments : StartFile(g) \/ Cull(g)
       \/ RemoveFile \/ HandleDeletion
    /\ UNCHANGED object \/ PutObject \/ PutFails
    /\ \/ UNCHANGED row
       \/ \E s \in Sessions : HandleComplete(s) \/ HandleMigrated(s)
       \/ \E x \in Expired : DeleteAndNotify(x)
    /\ \/ UNCHANGED queue
       \/ \E g \in Segments : StartFile(g) \/ FinishFile(g)
       \/ FlushQueue
    /\ \/ UNCHANGED migVars
       \/ StartPass \/ EndPass \/ (\E g \in Segments : ReadFile(g))
       \/ PutObject \/ PutFails \/ Notify \/ RemoveFile \/ CrashNode
    /\ UNCHANGED channel \/ Notify \/ SendMigrated \/ CrashNode
    /\ \/ UNCHANGED wire
       \/ FlushQueue \/ SendMigrated
       \/ \E s \in Sessions :
            HandleComplete(s) \/ HandleMigrated(s) \/ LoseWire(s)
    /\ adrift \subseteq adrift' \/ Notify
BY DEF Next, Migration, vars, migVars, clientVars, Adrift, StartFile,
   FinishFile, GrowOld, Cull, StartPass, ReadFile, EndPass, PutObject,
   PutFails, Notify, RemoveFile, Connect, FlushQueue, SendMigrated,
   HandleDeletion, Disconnect, HandleComplete, HandleMigrated, QueryExpired,
   DeleteAndNotify, BreakLink, LoseWire, CrashNode

(* A file that has existed is present or removed from then on.             *)
LEMMA FilesStay ==
  ASSUME TypeOK, [Next]_vars, NEW g \in Segments, file[g] # "none"
  PROVE  file'[g] # "none"
BY Frames DEF StartFile, Cull, RemoveFile, HandleDeletion, TypeOK, FilesType

(* A cause is forgotten only when the segment is migrated after all.       *)
LEMMA CausesStay ==
  ASSUME [Next]_vars, NEW g, NEW causes, Because(g, causes),
         ~(Notify /\ g = current)
  PROVE  Because(g, causes)'
<1>1. PICK a \in adrift : a.seg = g /\ a.cause \in causes
  BY DEF Because
<1>2. a \in adrift'
  BY <1>1, Frames DEF Notify
<1>3. QED
  BY <1>1, <1>2 DEF Because

(* The history names what Adrift adds to it.                               *)
LEMMA AdriftNames ==
  ASSUME NEW segs, NEW c, Adrift(segs, c), NEW g \in segs, NEW causes,
         c \in causes
  PROVE  Because(g, causes)'
<1>1. [seg |-> g, cause |-> c] \in adrift'
  BY DEF Adrift
<1>2. QED
  BY <1>1 DEF Because

-----------------------------------------------------------------------------
(* The migration keeps the data                                            *)

(* A candidate of the migration has been closed.                           *)
CandidatesOld == \A g \in candidates : age[g] \in {"old", "expired"}

(* What is uploaded is a whole file, and it has been uploaded when the     *)
(* coordinator is told and the file removed.                               *)
UploadFirst ==
  /\ migPc = "put" => body = "whole"
  /\ migPc \in {"notify", "remove"} => object[current] = "whole"

MigrationInv == CandidatesOld /\ UploadFirst /\ MigrationKeepsData

LEMMA CandidatesStep ==
  ASSUME TypeOK, CandidatesOld, [Next]_vars
  PROVE  CandidatesOld'
<1> SUFFICES ASSUME NEW g \in candidates' PROVE age'[g] \in {"old", "expired"}
  BY DEF CandidatesOld
<1>1. CASE StartPass
  BY <1>1 DEF StartPass
<1>2. CASE ~StartPass
  <2>1. g \in candidates
    BY <1>2, Frames DEF migVars, EndPass, ReadFile, PutObject, PutFails, Notify,
                        RemoveFile, CrashNode
  <2>2. age[g] \in {"old", "expired"} /\ g \in Segments
    BY <2>1 DEF CandidatesOld, TypeOK, MigrationType
  <2>3. QED
    BY <2>2, Frames DEF StartFile, FinishFile, GrowOld, TypeOK, FilesType
<1>3. QED
  BY <1>1, <1>2

(* An object that is whole is never replaced by a part.                    *)
LEMMA ObjectsStay ==
  ASSUME TypeOK, UploadFirst, [Next]_vars, NEW g \in Segments,
         object[g] = "whole"
  PROVE  object'[g] = "whole"
BY Frames DEF PutObject, PutFails, UploadFirst, TypeOK, FilesType

LEMMA UploadStep ==
  ASSUME TypeOK, CandidatesOld, UploadFirst, [Next]_vars
  PROVE  UploadFirst'
<1>1. CASE UNCHANGED migVars
  <2>1. migPc \in {"notify", "remove"} =>
          current \in Segments /\ object[current] = "whole"
    BY DEF UploadFirst, TypeOK, MigrationType
  <2>2. QED
    BY <1>1, <2>1, ObjectsStay DEF UploadFirst, migVars
<1>2. ASSUME NEW g \in Segments, ReadFile(g) PROVE UploadFirst'
  <2>1. g \in candidates => age[g] # "open"
    BY DEF CandidatesOld
  <2>2. QED
    BY <1>2, <2>1 DEF ReadFile, UploadFirst, TypeOK, MigrationType
<1>3. CASE PutObject
  BY <1>3 DEF PutObject, UploadFirst, TypeOK, MigrationType, FilesType
<1>4. CASE Notify
  BY <1>4 DEF Notify, UploadFirst
<1>5. CASE StartPass \/ EndPass \/ PutFails \/ RemoveFile \/ CrashNode
  BY <1>5 DEF StartPass, EndPass, PutFails, RemoveFile, CrashNode, UploadFirst
<1>6. QED
  BY <1>1, <1>2, <1>3, <1>4, <1>5, Frames

LEMMA KeepsDataStep ==
  ASSUME TypeOK, UploadFirst, MigrationKeepsData, [Next]_vars
  PROVE  MigrationKeepsData'
<1> DEFINE ByOthers == {"culled", "deleted"}
<1> SUFFICES ASSUME NEW g \in Segments, file'[g] = "removed"
             PROVE  object'[g] = "whole" \/ Because(g, ByOthers)'
  BY DEF MigrationKeepsData
<1>1. CASE file[g] = "removed"
  <2>1. object[g] = "whole" \/ Because(g, ByOthers)
    BY <1>1 DEF MigrationKeepsData
  <2>2. CASE object[g] = "whole"
    BY <2>2, ObjectsStay
  <2>3. CASE Because(g, ByOthers) /\ ~(Notify /\ g = current)
    BY <2>3, CausesStay
  <2>4. CASE Notify /\ g = current
    BY <2>4 DEF Notify, UploadFirst
  <2>5. QED
    BY <2>1, <2>2, <2>3, <2>4
<1>2. CASE file[g] # "removed"
  <2>1. ASSUME NEW h \in Segments, Cull(h) PROVE Because(g, ByOthers)'
    <3>1. g = h
      BY <1>2, <2>1 DEF Cull, TypeOK, FilesType
    <3>2. QED
      BY <2>1, <3>1, AdriftNames DEF Cull
  <2>2. CASE HandleDeletion
    <3>1. g = Head(deletions).seg /\ Adrift({Head(deletions).seg}, "deleted")
      BY <1>2, <2>2 DEF HandleDeletion, TypeOK, FilesType
    <3>2. QED
      BY <3>1, AdriftNames
  <2>3. CASE RemoveFile
    BY <1>2, <2>3 DEF RemoveFile, UploadFirst, TypeOK, FilesType
  <2>4. ASSUME NEW h \in Segments, StartFile(h) PROVE FALSE
    BY <1>2, <2>4 DEF StartFile, TypeOK, FilesType
  <2>5. QED
    BY <1>2, <2>1, <2>2, <2>3, <2>4, Frames
<1>3. QED
  BY <1>1, <1>2

LEMMA InitMigration == Init => MigrationInv
BY DEF Init, MigrationInv, CandidatesOld, UploadFirst, MigrationKeepsData

(* The migration never destroys data: a file that is gone is whole in S3,  *)
(* or the watchdog or the retention deleted it.  The file is deleted only  *)
(* after a successful upload of what was read from a finished file, and no *)
(* later upload replaces the whole object by less.                         *)
THEOREM DataKept == Spec => []MigrationKeepsData
<1>1. TypeOK /\ MigrationInv /\ [Next]_vars => MigrationInv'
  BY CandidatesStep, UploadStep, KeepsDataStep DEF MigrationInv
<1>2. MigrationInv => MigrationKeepsData
  BY DEF MigrationInv
<1>3. QED
  BY <1>1, <1>2, InitMigration, TypeCorrect, PTL DEF Spec
-----------------------------------------------------------------------------
(* Messages on the way                                                     *)

(* The elements of a sequence are its head and those of its tail.          *)
LEMMA RangeTail ==
  ASSUME NEW S, NEW s \in Seq(S), s # <<>>
  PROVE  Range(s) = {Head(s)} \cup Range(Tail(s))
<1>1. Len(s) \in Nat \ {0} /\ DOMAIN s = 1..Len(s) /\ Head(s) = s[1]
  BY EmptySeq, LenProperties
<1>2. DOMAIN Tail(s) = 1..(Len(s) - 1)
  BY <1>1, HeadTailProperties, LenProperties
<1>3. \A i \in DOMAIN Tail(s) : i + 1 \in DOMAIN s /\ Tail(s)[i] = s[i + 1]
  BY <1>1, <1>2, HeadTailProperties
<1>4. \A i \in DOMAIN s : i = 1 \/ i - 1 \in DOMAIN Tail(s)
  BY <1>1, <1>2
<1>5. \A i \in DOMAIN s : s[i] \in {Head(s)} \cup Range(Tail(s))
  <2>1. SUFFICES ASSUME NEW i \in DOMAIN s, i # 1
                 PROVE  s[i] \in Range(Tail(s))
    BY <1>1
  <2>2. i - 1 \in DOMAIN Tail(s) /\ Tail(s)[i - 1] = s[i]
    BY <1>1, <1>3, <1>4, <2>1
  <2>3. QED
    BY <2>2 DEF Range
<1>6. QED
  BY <1>1, <1>3, <1>5 DEF Range

LEMMA RangeConcat ==
  ASSUME NEW S, NEW s \in Seq(S), NEW t \in Seq(S)
  PROVE  Range(s \o t) = Range(s) \cup Range(t)
<1>1. /\ Len(s) \in Nat /\ DOMAIN s = 1..Len(s)
      /\ Len(t) \in Nat /\ DOMAIN t = 1..Len(t)
  BY LenProperties
<1>2. DOMAIN (s \o t) = 1..(Len(s) + Len(t))
  BY ConcatProperties, LenProperties
<1>3. \A i \in DOMAIN s : i \in DOMAIN (s \o t) /\ (s \o t)[i] = s[i]
  BY <1>1, <1>2, ConcatProperties
<1>4. \A i \in DOMAIN t :
        Len(s) + i \in DOMAIN (s \o t) /\ (s \o t)[Len(s) + i] = t[i]
  BY <1>1, <1>2, ConcatProperties
<1>5. \A i \in DOMAIN (s \o t) :
        \/ i \in DOMAIN s
        \/ i - Len(s) \in DOMAIN t /\ (s \o t)[i] = t[i - Len(s)]
  BY <1>1, <1>2, ConcatProperties
<1>6. Range(s \o t) \subseteq Range(s) \cup Range(t)
  BY <1>3, <1>5 DEF Range
<1>7. Range(s) \cup Range(t) \subseteq Range(s \o t)
  BY <1>3, <1>4, ZenonT(60) DEF Range
<1>8. QED
  BY <1>6, <1>7, Zenon

LEMMA RangeAppend ==
  ASSUME NEW S, NEW s \in Seq(S), NEW e \in S
  PROVE  Range(Append(s, e)) = Range(s) \cup {e}
<1>1. Append(s, e) = s \o <<e>> /\ <<e>> \in Seq(S)
  BY AppendIsConcat
<1>2. Range(<<e>>) = {e}
  BY DEF Range
<1>3. Range(s \o <<e>>) = Range(s) \cup Range(<<e>>)
  BY <1>1, RangeConcat
<1>4. QED
  BY <1>1, <1>2, <1>3, Zenon

(* What is transmitted joins the wire of the session in use, if its link   *)
(* is up, and no wire loses anything.                                      *)
LEMMA WireGrows ==
  ASSUME TypeOK, NEW msgs \in Seq(NodeMessage), Transmit(msgs),
         NEW s \in Sessions
  PROVE  Range(wire'[s]) = Range(wire[s]) \cup
                           IF link = "up" /\ s = session THEN Range(msgs) ELSE {}
<1>1. wire[s] \in Seq(NodeMessage)
  BY DEF TypeOK, CoordinatorType
<1>2. wire'[s] = IF link = "up" /\ s = session THEN wire[s] \o msgs ELSE wire[s]
  BY DEF Transmit, TypeOK, CoordinatorType
<1>3. QED
  BY <1>1, <1>2, RangeConcat

(* A message handled is the head of its wire.                              *)
LEMMA WireShrinks ==
  ASSUME TypeOK, NEW s \in Sessions, wire[s] # <<>>,
         wire' = [wire EXCEPT ![s] = Tail(@)]
  PROVE  /\ Head(wire[s]) \in NodeMessage
         /\ Range(wire[s]) = {Head(wire[s])} \cup Range(wire'[s])
         /\ \A t \in Sessions \ {s} : wire'[t] = wire[t]
<1>1. wire[s] \in Seq(NodeMessage) /\ wire'[s] = Tail(wire[s])
  BY DEF TypeOK, CoordinatorType
<1>2. Head(wire[s]) \in NodeMessage
  BY <1>1, HeadTailProperties
<1>3. Range(wire[s]) = {Head(wire[s])} \cup Range(wire'[s])
  BY <1>1, RangeTail
<1>4. QED
  BY <1>2, <1>3 DEF TypeOK, CoordinatorType
-----------------------------------------------------------------------------
(* The session in use has a wire                                           *)

(* Every connection but the one in use was ended by a fault.               *)
SessionBound ==
  /\ session <= faults + (IF link = "up" THEN 1 ELSE 0)
  /\ wsPc = "down" => link = "down"
  /\ wsPc # "down" => session >= 1

LEMMA SessionStep ==
  ASSUME TypeOK, SessionBound, [Next]_vars
  PROVE  SessionBound'
<1> faults \in Nat /\ session \in Nat
  BY StorageAssumption DEF TypeOK, ClientType, HistoryType
<1>1. CASE Connect \/ Disconnect \/ BreakLink \/ CrashNode
  BY <1>1 DEF Connect, Disconnect, BreakLink, CrashNode, Fault, SessionBound
<1>2. CASE FlushQueue
  BY <1>2 DEF FlushQueue, Fault, SessionBound
<1>3. CASE UNCHANGED clientVars /\ (Fault \/ UNCHANGED faults)
  BY <1>3 DEF clientVars, Fault, SessionBound
<1>4. QED
  BY <1>1, <1>2, <1>3
     DEF Next, Migration, vars, StartFile, FinishFile, GrowOld, Cull,
         StartPass, ReadFile, EndPass, PutObject, PutFails, Notify,
         RemoveFile, SendMigrated, HandleDeletion, HandleComplete,
         HandleMigrated, QueryExpired, DeleteAndNotify, LoseWire

LEMMA SessionInSessions ==
  ASSUME TypeOK, SessionBound, link = "up"
  PROVE  session \in Sessions
BY StorageAssumption DEF SessionBound, TypeOK, ClientType, HistoryType, Sessions

-----------------------------------------------------------------------------
(* News of a migration reaches its row, or is lost in a named way          *)

(* The row says s3://, or will be told so, or its loss has a name.         *)
Known(g) == row[g] = "s3" \/ News(g) \/ Because(g, Causes)

(* News is on the wire as a message of its own.                            *)
LEMMA NewsOnWire ==
  ASSUME NEW s, NEW g
  PROVE  g \in MigratedOnWire(s) <=>
           \E m \in Range(wire[s]) : m.kind = "migrated" /\ m.seg = g
BY DEF MigratedOnWire

LEMMA ChannelNews ==
  ASSUME TypeOK, SessionBound, [Next]_vars, NEW g \in Segments,
         g \in Range(channel)
  PROVE  Known(g)'
<1> channel \in Seq(Segments)
  BY DEF TypeOK, ClientType
<1>1. CASE Notify
  <2>1. channel' = Append(channel, current) /\ current \in Segments
    BY <1>1 DEF Notify, TypeOK, MigrationType
  <2>2. g \in Range(channel')
    BY <2>1, RangeAppend
  <2>3. QED
    BY <2>2 DEF Known, News
<1>2. CASE SendMigrated
  <2>1. channel # <<>> /\ channel' = Tail(channel)
    BY <1>2 DEF SendMigrated
  <2>2. CASE g \in Range(channel')
    BY <2>2 DEF Known, News
  <2>3. CASE g = Head(channel) /\ link = "up"
    <3> DEFINE msg == [kind |-> "migrated", seg |-> g]
    <3>1. msg \in NodeMessage /\ <<msg>> \in Seq(NodeMessage)
      BY DEF NodeMessage
    <3>2. session \in Sessions
      BY <2>3, SessionInSessions
    <3>3. Range(<<msg>>) \subseteq Range(wire'[session])
      BY <1>2, <2>3, <3>1, <3>2, WireGrows DEF SendMigrated
    <3>4. msg \in Range(wire'[session])
      BY <3>3 DEF Range
    <3>5. g \in MigratedOnWire(session)'
      <4>1. session' = session
        BY <1>2 DEF SendMigrated, clientVars
      <4>2. QED
        BY <3>4, <4>1 DEF MigratedOnWire
    <3>6. QED
      BY <1>2, <3>2, <3>5 DEF Known, News, SendMigrated, clientVars
  <2>4. CASE g = Head(channel) /\ link # "up"
    <3>1. Adrift({g}, "link")
      BY <1>2, <2>4 DEF SendMigrated
    <3>2. QED
      BY <3>1, AdriftNames DEF Known, Causes
  <2>5. QED
    BY <2>1, <2>2, <2>3, <2>4, RangeTail
<1>3. CASE CrashNode
  BY <1>3, AdriftNames DEF CrashNode, Known, Causes
<1>4. CASE UNCHANGED channel
  BY <1>4 DEF Known, News
<1>5. QED
  BY <1>1, <1>2, <1>3, <1>4, Frames

LEMMA WireNews ==
  ASSUME TypeOK, [Next]_vars, NEW g \in Segments, NEW s \in Sessions,
         g \in MigratedOnWire(s)
  PROVE  Known(g)'
<1>1. PICK m \in Range(wire[s]) : m.kind = "migrated" /\ m.seg = g
  BY NewsOnWire
<1>2. m \in Range(wire'[s]) => Known(g)'
  <2>1. m \in Range(wire'[s]) => g \in MigratedOnWire(s)'
    BY <1>1 DEF MigratedOnWire
  <2>2. QED
    BY <2>1 DEF Known, News
<1>3. CASE FlushQueue
  <2>1. PICK order \in [1..Cardinality(queue) -> queue] :
          Transmit([i \in DOMAIN order |->
                      [kind |-> "complete", seg |-> order[i]]])
    BY <1>3 DEF FlushQueue
  <2>2. QED
    BY <1>2, <2>1, FlushedType, WireGrows
<1>4. CASE SendMigrated
  <2>1. Head(channel) \in Segments
    BY <1>4, HeadTailProperties DEF SendMigrated, TypeOK, ClientType
  <2>2. <<[kind |-> "migrated", seg |-> Head(channel)]>> \in Seq(NodeMessage)
    BY <2>1 DEF NodeMessage
  <2>3. QED
    BY <1>2, <1>4, <2>2, WireGrows DEF SendMigrated
<1>5. ASSUME NEW t \in Sessions, HandleComplete(t) PROVE Known(g)'
  <2>1. Range(wire[t]) = {Head(wire[t])} \cup Range(wire'[t])
    BY <1>5, WireShrinks DEF HandleComplete
  <2>2. \A u \in Sessions \ {t} : wire'[u] = wire[u]
    BY <1>5, WireShrinks DEF HandleComplete
  <2>3. Head(wire[t]).kind # "migrated"
    BY <1>5 DEF HandleComplete
  <2>4. QED
    BY <1>1, <1>2, <2>1, <2>2, <2>3
<1>6. ASSUME NEW t \in Sessions, HandleMigrated(t) PROVE Known(g)'
  <2>1. /\ Range(wire[t]) = {Head(wire[t])} \cup Range(wire'[t])
        /\ \A u \in Sessions \ {t} : wire'[u] = wire[u]
    BY <1>6, WireShrinks DEF HandleMigrated
  <2>2. CASE m # Head(wire[t]) \/ s # t
    BY <1>1, <1>2, <2>1, <2>2
  <2>3. CASE g = Head(wire[t]).seg
    <3>1. \/ row'[g] = "s3"
          \/ \E c \in {"unindexed", "database"} : Adrift({g}, c)
      BY <1>6, <2>3 DEF HandleMigrated, TypeOK, CoordinatorType
    <3>2. QED
      BY <3>1, AdriftNames DEF Known, Causes
  <2>4. QED
    BY <1>1, <2>2, <2>3
<1>7. ASSUME NEW t \in Sessions, LoseWire(t) PROVE Known(g)'
  <2>1. CASE s = t
    BY <1>7, <2>1, AdriftNames DEF LoseWire, Known, Causes
  <2>2. CASE s # t
    BY <1>1, <1>2, <1>7, <2>2 DEF LoseWire, TypeOK, CoordinatorType
  <2>3. QED
    BY <2>1, <2>2
<1>8. CASE UNCHANGED wire
  BY <1>1, <1>2, <1>8
<1>9. QED
  BY <1>3, <1>4, <1>5, <1>6, <1>7, <1>8, Frames
LEMMA RowNews ==
  ASSUME TypeOK, [Next]_vars, NEW g \in Segments, row[g] = "s3"
  PROVE  Known(g)'
<1>1. ASSUME NEW x \in Expired, DeleteAndNotify(x) PROVE Known(g)'
  <2>1. row'[g] = "s3" \/ (g = x.seg /\ Adrift({g}, "expired"))
    BY <1>1 DEF DeleteAndNotify, TypeOK, CoordinatorType
  <2>2. QED
    BY <2>1, AdriftNames DEF Known, Causes
<1>2. ASSUME NEW s \in Sessions, HandleComplete(s) \/ HandleMigrated(s)
      PROVE  row'[g] = "s3"
  BY <1>2 DEF HandleComplete, HandleMigrated, TypeOK, CoordinatorType
<1>3. QED
  BY <1>1, <1>2, Frames DEF Known

(* What is known of a segment's migration stays known, through every hand  *)
(* over between the tasks and whatever is lost on the way.                 *)
LEMMA KnownStays ==
  ASSUME TypeOK, SessionBound, [Next]_vars, NEW g \in Segments, Known(g)
  PROVE  Known(g)'
<1>1. CASE row[g] = "s3"
  BY <1>1, RowNews
<1>2. CASE News(g)
  BY <1>2, ChannelNews, WireNews DEF News
<1>3. CASE Because(g, Causes) /\ ~(Notify /\ g = current)
  BY <1>3, CausesStay DEF Known, Causes
<1>4. CASE Notify /\ g = current
  <2>1. channel' = Append(channel, g) /\ channel \in Seq(Segments)
    BY <1>4 DEF Notify, TypeOK, ClientType
  <2>2. g \in Range(channel')
    BY <2>1, RangeAppend
  <2>3. QED
    BY <2>2 DEF Known, News
<1>5. QED
  BY <1>1, <1>2, <1>3, <1>4 DEF Known

(* News comes from the migration task only.                                *)
LEMMA NewsComes ==
  ASSUME TypeOK, [Next]_vars, NEW g \in Segments, News(g)'
  PROVE  News(g) \/ (Notify /\ g = current)
<1> channel \in Seq(Segments)
  BY DEF TypeOK, ClientType
<1>1. CASE g \in Range(channel')
  <2>1. CASE Notify
    <3>1. channel' = Append(channel, current) /\ current \in Segments
      BY <2>1 DEF Notify, TypeOK, MigrationType
    <3>2. QED
      BY <1>1, <2>1, <3>1, RangeAppend DEF News
  <2>2. CASE SendMigrated
    BY <1>1, <2>2, RangeTail DEF SendMigrated, News
  <2>3. CASE CrashNode
    BY <1>1, <2>3 DEF CrashNode, Range
  <2>4. CASE UNCHANGED channel
    BY <1>1, <2>4 DEF News
  <2>5. QED
    BY <2>1, <2>2, <2>3, <2>4, Frames
<1>2. ASSUME NEW s \in Sessions, g \in MigratedOnWire(s)' PROVE News(g)
  <2>1. PICK m \in Range(wire'[s]) : m.kind = "migrated" /\ m.seg = g
    BY <1>2 DEF MigratedOnWire
  <2>2. m \in Range(wire[s]) => News(g)
    BY <2>1 DEF News, MigratedOnWire
  <2>3. CASE FlushQueue
    <3>1. PICK order \in [1..Cardinality(queue) -> queue] :
            Transmit([i \in DOMAIN order |->
                        [kind |-> "complete", seg |-> order[i]]])
      BY <2>3 DEF FlushQueue
    <3>2. \A n \in Range([i \in DOMAIN order |->
                            [kind |-> "complete", seg |-> order[i]]]) :
            n.kind = "complete"
      BY DEF Range
    <3>3. QED
      BY <2>1, <2>2, <3>1, <3>2, FlushedType, WireGrows
  <2>4. CASE SendMigrated
    <3> DEFINE msgs == <<[kind |-> "migrated", seg |-> Head(channel)]>>
    <3>1. Head(channel) \in Segments /\ Head(channel) \in Range(channel)
      BY <2>4, HeadTailProperties, RangeTail DEF SendMigrated
    <3>2. msgs \in Seq(NodeMessage) /\ \A n \in Range(msgs) : n.seg = Head(channel)
      BY <3>1 DEF NodeMessage, Range
    <3>3. m \in Range(wire[s]) \/ m \in Range(msgs)
      BY <2>1, <2>4, <3>2, WireGrows DEF SendMigrated
    <3>4. QED
      BY <2>1, <2>2, <3>1, <3>2, <3>3 DEF News
  <2>5. ASSUME NEW t \in Sessions, HandleComplete(t) \/ HandleMigrated(t)
        PROVE  Range(wire'[s]) \subseteq Range(wire[s])
    <3>1. /\ Range(wire[t]) = {Head(wire[t])} \cup Range(wire'[t])
          /\ \A u \in Sessions \ {t} : wire'[u] = wire[u]
      BY <2>5, WireShrinks DEF HandleComplete, HandleMigrated
    <3>2. QED
      BY <3>1
  <2>6. ASSUME NEW t \in Sessions, LoseWire(t)
        PROVE  Range(wire'[s]) \subseteq Range(wire[s])
    <3>1. wire'[s] = IF s = t THEN <<>> ELSE wire[s]
      BY <2>6 DEF LoseWire, TypeOK, CoordinatorType
    <3>2. QED
      BY <3>1 DEF Range
  <2>7. QED
    BY <2>1, <2>2, <2>3, <2>4, <2>5, <2>6, Frames
<1>3. QED
  BY <1>1, <1>2 DEF News, Sessions
-----------------------------------------------------------------------------
(* Rows lead to data                                                       *)

(* Whatever is begun, queued, on a wire or indexed once had a file.        *)
EntriesOfFiles ==
  /\ \A g \in Segments : age[g] # "future" => file[g] # "none"
  /\ \A g \in queue : file[g] # "none"
  /\ \A s \in Sessions : \A m \in Range(wire[s]) :
       m.kind = "complete" => file[m.seg] # "none"
  /\ \A g \in Segments : row[g] # "none" => file[g] # "none"

(* News of a migration is true, on its way and in the row.                 *)
NewsTrue == \A g \in Segments : News(g) \/ row[g] = "s3" => object[g] = "whole"

(* A removed file's fate is known, and already when it is about to be      *)
(* removed.                                                                *)
GoneIsKnown ==
  /\ \A g \in Segments : file[g] = "removed" => Known(g)
  /\ migPc = "remove" => Known(current)

RowInv == SessionBound /\ EntriesOfFiles /\ NewsTrue /\ GoneIsKnown

LEMMA EntriesStep ==
  ASSUME TypeOK, EntriesOfFiles, [Next]_vars
  PROVE  EntriesOfFiles'
<1>1. ASSUME NEW g \in queue' PROVE file'[g] # "none"
  <2>1. ASSUME NEW h \in Segments, StartFile(h) PROVE file'[g] # "none"
    <3>1. CASE g = h
      BY <2>1, <3>1 DEF StartFile, TypeOK, FilesType
    <3>2. CASE g # h
      <4>1. g \in queue
        BY <1>1, <2>1, <3>2 DEF StartFile
      <4>2. QED
        BY <4>1, FilesStay DEF EntriesOfFiles, TypeOK, FilesType
    <3>3. QED
      BY <3>1, <3>2
  <2>2. ASSUME NEW h \in Segments, FinishFile(h) PROVE file'[g] # "none"
    BY <1>1, <2>2, FilesStay
       DEF FinishFile, EntriesOfFiles, TypeOK, FilesType
  <2>3. CASE FlushQueue \/ UNCHANGED queue
    <3>1. g \in queue
      BY <1>1, <2>3 DEF FlushQueue
    <3>2. QED
      BY <3>1, FilesStay DEF EntriesOfFiles, TypeOK, FilesType
  <2>4. QED
    BY <2>1, <2>2, <2>3, Frames
<1>2. ASSUME NEW s \in Sessions, NEW m \in Range(wire'[s]), m.kind = "complete"
      PROVE  file'[m.seg] # "none"
  <2> SUFFICES m.seg \in Segments /\ file[m.seg] # "none"
    BY FilesStay
  <2>1. m \in Range(wire[s]) => m.seg \in Segments /\ file[m.seg] # "none"
    <3>1. Range(wire[s]) \subseteq NodeMessage
      BY LenProperties DEF Range, TypeOK, CoordinatorType
    <3>2. QED
      BY <1>2, <3>1 DEF EntriesOfFiles, NodeMessage
  <2>2. CASE FlushQueue
    <3>1. PICK order \in [1..Cardinality(queue) -> queue] :
            Transmit([i \in DOMAIN order |->
                        [kind |-> "complete", seg |-> order[i]]])
      BY <2>2 DEF FlushQueue
    <3>2. \A n \in Range([i \in DOMAIN order |->
                            [kind |-> "complete", seg |-> order[i]]]) :
            n.seg \in queue
      BY DEF Range
    <3>3. m \in Range(wire[s]) \/ m.seg \in queue
      BY <1>2, <3>1, <3>2, FlushedType, WireGrows
    <3>4. QED
      BY <2>1, <3>3 DEF EntriesOfFiles, TypeOK, FilesType
  <2>3. CASE SendMigrated
    <3> DEFINE msgs == <<[kind |-> "migrated", seg |-> Head(channel)]>>
    <3>1. Head(channel) \in Segments
      BY <2>3, HeadTailProperties DEF SendMigrated, TypeOK, ClientType
    <3>2. msgs \in Seq(NodeMessage) /\ \A n \in Range(msgs) : n.kind # "complete"
      BY <3>1 DEF NodeMessage, Range
    <3>3. m \in Range(wire[s])
      BY <1>2, <2>3, <3>2, WireGrows DEF SendMigrated
    <3>4. QED
      BY <2>1, <3>3
  <2>4. ASSUME NEW t \in Sessions, HandleComplete(t) \/ HandleMigrated(t)
        PROVE  m \in Range(wire[s])
    <3>1. /\ Range(wire[t]) = {Head(wire[t])} \cup Range(wire'[t])
          /\ \A u \in Sessions \ {t} : wire'[u] = wire[u]
      BY <2>4, WireShrinks DEF HandleComplete, HandleMigrated
    <3>2. QED
      BY <1>2, <3>1
  <2>5. ASSUME NEW t \in Sessions, LoseWire(t) PROVE m \in Range(wire[s])
    <3>1. wire'[s] = IF s = t THEN <<>> ELSE wire[s]
      BY <2>5 DEF LoseWire, TypeOK, CoordinatorType
    <3>2. QED
      BY <1>2, <3>1 DEF Range
  <2>6. QED
    BY <1>2, <2>1, <2>2, <2>3, <2>4, <2>5, Frames
<1>3. ASSUME NEW g \in Segments, row'[g] # "none" PROVE file'[g] # "none"
  <2> SUFFICES file[g] # "none"
    BY FilesStay
  <2>1. ASSUME NEW s \in Sessions, HandleComplete(s), row[g] = "none"
        PROVE  file[g] # "none"
    <3>1. g = Head(wire[s]).seg /\ Head(wire[s]).kind = "complete"
      BY <1>3, <2>1 DEF HandleComplete, TypeOK, CoordinatorType
    <3>2. Head(wire[s]) \in Range(wire[s])
      BY <2>1, RangeTail DEF HandleComplete, TypeOK, CoordinatorType
    <3>3. QED
      BY <3>1, <3>2 DEF EntriesOfFiles
  <2>2. ASSUME NEW s \in Sessions, HandleMigrated(s) PROVE row[g] # "none"
    BY <1>3, <2>2 DEF HandleMigrated, TypeOK, CoordinatorType
  <2>3. ASSUME NEW x \in Expired, DeleteAndNotify(x) PROVE row[g] # "none"
    BY <1>3, <2>3 DEF DeleteAndNotify, TypeOK, CoordinatorType
  <2>4. QED
    BY <1>3, <2>1, <2>2, <2>3, Frames DEF EntriesOfFiles
<1>4. ASSUME NEW g \in Segments, age'[g] # "future" PROVE file'[g] # "none"
  <2>1. ASSUME NEW h \in Segments, StartFile(h), g = h PROVE file'[g] # "none"
    BY <2>1 DEF StartFile, TypeOK, FilesType
  <2>2. CASE age[g] # "future"
    BY <2>2, FilesStay DEF EntriesOfFiles
  <2>3. ASSUME NEW h \in Segments,
               (StartFile(h) /\ g # h) \/ FinishFile(h) \/ GrowOld(h)
        PROVE  age[g] # "future"
    BY <1>4, <2>3 DEF StartFile, FinishFile, GrowOld, TypeOK, FilesType
  <2>4. QED
    BY <1>4, <2>1, <2>2, <2>3, Frames
<1>5. QED
  BY <1>1, <1>2, <1>3, <1>4 DEF EntriesOfFiles

LEMMA NewsTrueStep ==
  ASSUME TypeOK, UploadFirst, NewsTrue, [Next]_vars
  PROVE  NewsTrue'
<1> SUFFICES ASSUME NEW g \in Segments, News(g)' \/ row'[g] = "s3"
             PROVE  object'[g] = "whole"
  BY DEF NewsTrue
<1> SUFFICES object[g] = "whole"
  BY ObjectsStay
<1>1. CASE News(g)'
  <2>1. CASE News(g)
    BY <2>1 DEF NewsTrue
  <2>2. CASE Notify /\ g = current
    BY <2>2 DEF Notify, UploadFirst
  <2>3. QED
    BY <1>1, <2>1, <2>2, NewsComes
<1>2. CASE row'[g] = "s3"
  <2>1. ASSUME NEW s \in Sessions, HandleMigrated(s), row[g] # "s3"
        PROVE  News(g)
    <3>1. g = Head(wire[s]).seg /\ Head(wire[s]).kind = "migrated"
      BY <1>2, <2>1 DEF HandleMigrated, TypeOK, CoordinatorType
    <3>2. Head(wire[s]) \in Range(wire[s])
      BY <2>1, RangeTail DEF HandleMigrated, TypeOK, CoordinatorType
    <3>3. QED
      BY <3>1, <3>2 DEF News, MigratedOnWire
  <2>2. ASSUME NEW s \in Sessions, HandleComplete(s) PROVE row[g] = "s3"
    BY <1>2, <2>2 DEF HandleComplete, TypeOK, CoordinatorType
  <2>3. ASSUME NEW x \in Expired, DeleteAndNotify(x) PROVE row[g] = "s3"
    BY <1>2, <2>3 DEF DeleteAndNotify, TypeOK, CoordinatorType
  <2>4. row[g] = "s3" \/ News(g)
    BY <1>2, <2>1, <2>2, <2>3, Frames
  <2>5. QED
    BY <2>4 DEF NewsTrue
<1>3. QED
  BY <1>1, <1>2

LEMMA GoneStep ==
  ASSUME TypeOK, SessionBound, GoneIsKnown, [Next]_vars
  PROVE  GoneIsKnown'
<1>1. ASSUME NEW g \in Segments, file'[g] = "removed" PROVE Known(g)'
  <2>1. CASE file[g] = "removed"
    BY <2>1, KnownStays DEF GoneIsKnown
  <2>2. ASSUME NEW h \in Segments, Cull(h), file[g] # "removed" PROVE Known(g)'
    <3>1. g = h
      BY <1>1, <2>2 DEF Cull, TypeOK, FilesType
    <3>2. QED
      BY <2>2, <3>1, AdriftNames DEF Cull, Known, Causes
  <2>3. CASE HandleDeletion /\ file[g] # "removed"
    <3>1. g = Head(deletions).seg /\ Adrift({Head(deletions).seg}, "deleted")
      BY <1>1, <2>3 DEF HandleDeletion, TypeOK, FilesType
    <3>2. QED
      BY <3>1, AdriftNames DEF Known, Causes
  <2>4. CASE RemoveFile /\ file[g] # "removed"
    <3>1. g = current /\ migPc = "remove"
      BY <1>1, <2>4 DEF RemoveFile, TypeOK, FilesType
    <3>2. QED
      BY <3>1, KnownStays DEF GoneIsKnown
  <2>5. ASSUME NEW h \in Segments, StartFile(h) PROVE file[g] = "removed"
    BY <1>1, <2>5 DEF StartFile, TypeOK, FilesType
  <2>6. QED
    BY <1>1, <2>1, <2>2, <2>3, <2>4, <2>5, Frames
<1>2. ASSUME migPc' = "remove" PROVE Known(current)'
  <2>1. CASE Notify
    <3>1. channel' = Append(channel, current) /\ current' = current
      BY <2>1 DEF Notify
    <3>2. current \in Segments /\ channel \in Seq(Segments)
      BY <2>1 DEF Notify, TypeOK, MigrationType, ClientType
    <3>3. current' \in Range(channel')
      BY <3>1, <3>2, RangeAppend
    <3>4. QED
      BY <3>3 DEF Known, News
  <2>2. CASE UNCHANGED migVars
    <3>1. migPc = "remove" /\ current' = current /\ current \in Segments
      BY <1>2, <2>2 DEF migVars, TypeOK, MigrationType
    <3>2. Known(current)
      BY <3>1 DEF GoneIsKnown
    <3>3. \A g \in Segments : Known(g) => Known(g)'
      BY KnownStays
    <3>4. QED
      BY <3>1, <3>2, <3>3 DEF Known, News, Because
  <2>3. QED
    BY <1>2, <2>1, <2>2, Frames
       DEF StartPass, EndPass, ReadFile, PutObject, PutFails, RemoveFile,
           CrashNode
<1>3. QED
  BY <1>1, <1>2 DEF GoneIsKnown

LEMMA InitRow == Init => RowInv
<1> SUFFICES ASSUME Init PROVE RowInv
  OBVIOUS
<1>1. \A g : ~News(g)
  BY DEF Init, News, MigratedOnWire, Range
<1>2. EntriesOfFiles
  BY DEF Init, EntriesOfFiles, Range
<1>3. SessionBound /\ NewsTrue /\ GoneIsKnown
  BY <1>1 DEF Init, SessionBound, NewsTrue, GoneIsKnown
<1>4. QED
  BY <1>2, <1>3 DEF RowInv

(* A row leads to the data: an s3:// URI to a complete object, a local://  *)
(* URI to a file, unless the news of its migration is on the way or was    *)
(* lost, or the file was deleted, in a named way.                          *)
THEOREM RowsLeadToData == Spec => []RowLeadsToData
<1>1. TypeOK /\ MigrationInv /\ [Next]_vars => MigrationInv'
  BY CandidatesStep, UploadStep, KeepsDataStep DEF MigrationInv
<1>2. TypeOK /\ MigrationInv /\ RowInv /\ [Next]_vars => RowInv'
  BY SessionStep, EntriesStep, NewsTrueStep, GoneStep DEF RowInv, MigrationInv
<1>3. TypeOK /\ RowInv => RowLeadsToData
  <2> SUFFICES ASSUME TypeOK, RowInv, NEW g \in Segments
               PROVE  /\ row[g] = "s3" => object[g] = "whole"
                      /\ row[g] = "local" =>
                           \/ file[g] = "present"
                           \/ News(g)
                           \/ Because(g, Causes)
    BY DEF RowLeadsToData
  <2>1. file[g] \in {"none", "present", "removed"}
    BY DEF TypeOK, FilesType
  <2>2. row[g] = "local" => file[g] # "none"
    BY DEF RowInv, EntriesOfFiles
  <2>3. file[g] = "removed" => row[g] = "s3" \/ News(g) \/ Because(g, Causes)
    BY DEF RowInv, GoneIsKnown, Known
  <2>4. row[g] = "s3" => object[g] = "whole"
    BY DEF RowInv, NewsTrue
  <2>5. QED
    BY <2>1, <2>2, <2>3, <2>4
<1>4. QED
  BY <1>1, <1>2, <1>3, InitMigration, InitRow, TypeCorrect, PTL DEF Spec

-----------------------------------------------------------------------------
(* The abstract store is implemented                                       *)

(* What the migration is uploading was a file, and what the enforcer is    *)
(* deleting has expired: neither goes back.  A segment that is not begun   *)
(* has left no trace.                                                      *)
CurrentSeen == current # Nobody => file[current] # "none"
BatchExpired == \A x \in expired : age[x.seg] = "expired"
Unbegun == \A g \in Segments :
             age[g] = "future" => file[g] = "none" /\ object[g] = "none"
StoreInv == CurrentSeen /\ BatchExpired /\ Unbegun

LEMMA PlaceCases ==
  ASSUME TypeOK, NEW g \in Segments
  PROVE  /\ file[g] = "none" <=> Place(g) = "nowhere"
         /\ file[g] = "present" =>
              Place(g) = IF object[g] = "whole" THEN "both" ELSE "node"
         /\ file[g] = "removed" =>
              Place(g) = IF object[g] = "whole" THEN "s3" ELSE "lost"
BY DEF Place, TypeOK, FilesType

LEMMA StoreInvStep ==
  ASSUME TypeOK, CandidatesOld, EntriesOfFiles, StoreInv, [Next]_vars
  PROVE  StoreInv'
<1>1. CurrentSeen'
  <2> SUFFICES ASSUME current' # Nobody PROVE file'[current'] # "none"
    BY DEF CurrentSeen
  <2>1. ASSUME NEW g \in Segments, ReadFile(g) PROVE file'[current'] # "none"
    <3>1. file' = file
      BY <2>1 DEF ReadFile
    <3>2. CASE file[g] = "present"
      BY <2>1, <3>1, <3>2 DEF ReadFile
    <3>3. CASE file[g] # "present"
      BY <2>1, <3>1, <3>3 DEF ReadFile, StoreInv, CurrentSeen
    <3>4. QED
      BY <3>2, <3>3
  <2>2. CASE current' = current
    <3>1. current \in Segments /\ file[current] # "none"
      BY <2>2 DEF StoreInv, CurrentSeen, TypeOK, MigrationType
    <3>2. QED
      BY <2>2, <3>1, FilesStay
  <2>3. QED
    BY <2>1, <2>2, Frames
       DEF migVars, StartPass, EndPass, PutObject, PutFails, Notify,
           RemoveFile, CrashNode
<1>2. BatchExpired'
  <2> SUFFICES ASSUME NEW x \in expired' PROVE age'[x.seg] = "expired"
    BY DEF BatchExpired
  <2>1. \A g \in Segments : age[g] = "expired" => age'[g] = "expired"
    BY Frames DEF StartFile, FinishFile, GrowOld, TypeOK, FilesType
  <2>2. expired \subseteq Expired /\ \A y \in Expired : y.seg \in Segments
    BY DEF TypeOK, CoordinatorType, Expired
  <2>3. CASE QueryExpired
    BY <2>3 DEF QueryExpired
  <2>4. CASE expired' \subseteq expired
    BY <2>1, <2>2, <2>4 DEF StoreInv, BatchExpired
  <2>5. expired' \subseteq expired \/ QueryExpired
    BY DEF Next, Migration, vars, StartFile, FinishFile, GrowOld, Cull,
       StartPass, ReadFile, EndPass, PutObject, PutFails, Notify, RemoveFile,
       Connect, FlushQueue, SendMigrated, HandleDeletion, Disconnect,
       HandleComplete, HandleMigrated, DeleteAndNotify, BreakLink, LoseWire,
       CrashNode
  <2>6. QED
    BY <2>3, <2>4, <2>5
<1>3. Unbegun'
  <2> SUFFICES ASSUME NEW g \in Segments, age'[g] = "future"
               PROVE  file'[g] = file[g] /\ object'[g] = object[g]
                      /\ age[g] = "future"
    BY DEF StoreInv, Unbegun
  <2>1. age[g] = "future"
    BY Frames DEF StartFile, FinishFile, GrowOld, TypeOK, FilesType
  <2>2. file[g] = "none" /\ ~StartFile(g)
    BY <2>1 DEF StoreInv, Unbegun, StartFile, TypeOK, FilesType
  <2>3. current # g
    BY <2>2, StorageAssumption DEF StoreInv, CurrentSeen
  <2>4. object'[g] = object[g]
    BY <2>3, Frames DEF PutObject, PutFails, TypeOK, FilesType
  <2>5. file'[g] = file[g]
    BY <2>2, <2>3, Frames
       DEF StartFile, Cull, RemoveFile, HandleDeletion, TypeOK, FilesType
  <2>6. QED
    BY <2>1, <2>4, <2>5
<1>4. QED
  BY <1>1, <1>2, <1>3 DEF StoreInv

(* One segment changes its place.                                          *)
LEMMA StoreMoves ==
  ASSUME NEW g \in Segments,
         \A h \in Segments \ {g} : file'[h] = file[h] /\ object'[h] = object[h],
         \A h \in Segments : age'[h] = "expired" <=> age[h] = "expired",
         row' = row,
         \/ Place(g)' = Place(g)
         \/ <<Place(g), Place(g)'>> \in
              {<<"nowhere", "node">>, <<"node", "both">>, <<"lost", "s3">>,
               <<"both", "s3">>, <<"node", "lost">>}
  PROVE  [Store!Next]_Store!vars
<1> DEFINE data == [h \in Segments |-> Place(h)]
           past == {h \in Segments : age[h] = "expired"}
<1>1. \A h \in Segments \ {g} : Place(h)' = Place(h)
  BY DEF Place
<1>2. past' = past
  OBVIOUS
<1>3. data' = [data EXCEPT ![g] = Place(g)']
  BY <1>1
<1>4. data[g] = Place(g)
  OBVIOUS
<1>5. CASE Place(g)' = Place(g)
  <2>1. data' = data
    BY <1>1, <1>5
  <2>2. QED
    BY <1>2, <2>1 DEF Store!vars
<1>6. CASE Place(g) = "nowhere" /\ Place(g)' = "node"
  <2>1. Store!Record(g)
    BY <1>2, <1>3, <1>4, <1>6 DEF Store!Record
  <2>2. QED
    BY <2>1 DEF Store!Next
<1>7. CASE \/ Place(g) = "node" /\ Place(g)' = "both"
           \/ Place(g) = "lost" /\ Place(g)' = "s3"
  <2>1. Store!Upload(g)
    BY <1>2, <1>3, <1>4, <1>7 DEF Store!Upload
  <2>2. QED
    BY <2>1 DEF Store!Next
<1>8. CASE \/ Place(g) = "both" /\ Place(g)' = "s3"
           \/ Place(g) = "node" /\ Place(g)' = "lost"
  <2>1. Store!Remove(g)
    BY <1>2, <1>3, <1>4, <1>8 DEF Store!Remove
  <2>2. QED
    BY <2>1 DEF Store!Next
<1>9. QED
  BY <1>5, <1>6, <1>7, <1>8

(* One row changes.                                                        *)
LEMMA StoreRowChanges ==
  ASSUME NEW g \in Segments, NEW u, row' = [row EXCEPT ![g] = u],
         row \in [Segments -> {"none", "local", "s3"}],
         UNCHANGED <<age, file, object>>,
         \/ u = row[g]
         \/ u = "local" /\ row[g] = "none" /\ Place(g) # "nowhere"
         \/ u = "s3" /\ row[g] = "local" /\ Place(g) \in {"both", "s3"}
         \/ u = "none" /\ age[g] = "expired"
  PROVE  [Store!Next]_Store!vars
<1> DEFINE data == [h \in Segments |-> Place(h)]
           past == {h \in Segments : age[h] = "expired"}
<1>1. data' = data /\ past' = past
  BY DEF Place
<1>2. data[g] = Place(g) /\ (g \in past <=> age[g] = "expired")
  OBVIOUS
<1> HIDE DEF data, past
<1>3. CASE u = row[g]
  BY <1>1, <1>3 DEF Store!vars, data, past
<1>4. CASE u = "local" /\ row[g] = "none" /\ Place(g) # "nowhere"
  <2>1. Store!Index(g)
    BY <1>1, <1>2, <1>4 DEF Store!Index, data, past
  <2>2. QED
    BY <2>1 DEF Store!Next
<1>5. CASE u = "s3" /\ row[g] = "local" /\ Place(g) \in {"both", "s3"}
  <2>1. Store!PointToObject(g)
    BY <1>1, <1>2, <1>5 DEF Store!PointToObject, data, past
  <2>2. QED
    BY <2>1 DEF Store!Next
<1>6. CASE u = "none" /\ age[g] = "expired"
  <2>1. Store!DropRow(g)
    BY <1>1, <1>2, <1>6 DEF Store!DropRow, data, past
  <2>2. QED
    BY <2>1 DEF Store!Next
<1>7. QED
  BY <1>3, <1>4, <1>5, <1>6

LEMMA StoreInit == Init => Store!Init /\ StoreInv
<1> SUFFICES ASSUME Init PROVE Store!Init /\ StoreInv
  OBVIOUS
<1>1. [g \in Segments |-> Place(g)] = [g \in Segments |-> "nowhere"]
  BY DEF Init, Place
<1>2. {g \in Segments : age[g] = "expired"} = {}
  BY DEF Init
<1>3. StoreInv
  BY DEF Init, StoreInv, CurrentSeen, BatchExpired, Unbegun
<1>4. QED
  BY <1>1, <1>2, <1>3 DEF Init, Store!Init

(* Every step of the two tiers is one of the store, or does not show.      *)
LEMMA StoreStep ==
  ASSUME TypeOK, TypeOK', UploadFirst, EntriesOfFiles, NewsTrue, StoreInv,
         [Next]_vars
  PROVE  [Store!Next]_Store!vars
<1>1. ASSUME NEW g \in Segments, StartFile(g) PROVE [Store!Next]_Store!vars
  <2>1. /\ file[g] = "none" /\ file'[g] = "present"
        /\ object'[g] # "whole" /\ row' = row
    BY <1>1 DEF StartFile, StoreInv, Unbegun, TypeOK, FilesType
  <2>2. /\ \A h \in Segments \ {g} :
             file'[h] = file[h] /\ object'[h] = object[h]
        /\ \A h \in Segments : age'[h] = "expired" <=> age[h] = "expired"
    BY <1>1 DEF StartFile, TypeOK, FilesType
  <2>3. Place(g) = "nowhere" /\ Place(g)' = "node"
    BY <2>1 DEF Place
  <2>4. QED
    BY <2>1, <2>2, <2>3, StoreMoves
<1>2. ASSUME NEW g \in Segments, FinishFile(g) PROVE [Store!Next]_Store!vars
  <2>1. UNCHANGED <<file, object, row>>
    BY <1>2 DEF FinishFile
  <2>2. \A h \in Segments : age'[h] = "expired" <=> age[h] = "expired"
    BY <1>2 DEF FinishFile, TypeOK, FilesType
  <2>3. Place(g)' = Place(g)
    BY <2>1 DEF Place
  <2>4. QED
    BY <2>1, <2>2, <2>3, StoreMoves
<1>3. ASSUME NEW g \in Segments, GrowOld(g) PROVE [Store!Next]_Store!vars
  <2> DEFINE data == [h \in Segments |-> Place(h)]
             past == {h \in Segments : age[h] = "expired"}
  <2>1. data' = data /\ row' = row
    BY <1>3 DEF GrowOld, Place
  <2>2. CASE age'[g] # "expired"
    <3>1. past' = past
      BY <1>3, <2>2 DEF GrowOld, TypeOK, FilesType
    <3>2. QED
      BY <2>1, <3>1 DEF Store!vars
  <2>3. CASE age'[g] = "expired"
    <3>1. past' = past \cup {g}
      BY <1>3, <2>3 DEF GrowOld, TypeOK, FilesType
    <3>2. data[g] # "nowhere"
      BY <1>3, PlaceCases DEF GrowOld, EntriesOfFiles
    <3>3. Store!Expire(g)
      BY <2>1, <3>1, <3>2 DEF Store!Expire
    <3>4. QED
      BY <3>3 DEF Store!Next
  <2>4. QED
    BY <2>2, <2>3
<1>4. ASSUME NEW g \in Segments,
             \/ Cull(g)
             \/ RemoveFile /\ g = current
             \/ HandleDeletion /\ g = Head(deletions).seg
      PROVE  [Store!Next]_Store!vars
  <2>1. UNCHANGED <<age, object, row>>
    BY <1>4 DEF Cull, RemoveFile, HandleDeletion
  <2>2. file' = [file EXCEPT ![g] = "removed"] \/ file' = file
    BY <1>4 DEF Cull, RemoveFile, HandleDeletion
  <2>3. \A h \in Segments \ {g} : file'[h] = file[h]
    BY <2>2 DEF TypeOK, FilesType
  <2>4. file[g] # "none" \/ file' = file
    BY <1>4 DEF Cull, RemoveFile, HandleDeletion, StoreInv, CurrentSeen,
                TypeOK, MigrationType
  <2>5. \/ Place(g)' = Place(g)
        \/ Place(g) = "both" /\ Place(g)' = "s3"
        \/ Place(g) = "node" /\ Place(g)' = "lost"
    BY <2>1, <2>2, <2>4 DEF Place, TypeOK, FilesType
  <2>6. QED
    BY <2>1, <2>3, <2>5, StoreMoves
<1>5. CASE PutObject \/ PutFails
  <2>1. current \in Segments /\ file[current] # "none"
    BY <1>5 DEF PutObject, PutFails, StoreInv, CurrentSeen, TypeOK,
                MigrationType
  <2>2. /\ object' = [object EXCEPT ![current] = "whole"] \/ object' = object
        /\ UNCHANGED <<age, file, row>>
    BY <1>5 DEF PutObject, PutFails, UploadFirst
  <2>3. \A h \in Segments \ {current} : object'[h] = object[h]
    BY <2>2 DEF TypeOK, FilesType
  <2>4. PICK g \in Segments : g = current
    BY <2>1
  <2>5. \/ Place(g)' = Place(g)
        \/ Place(g) = "node" /\ Place(g)' = "both"
        \/ Place(g) = "lost" /\ Place(g)' = "s3"
    BY <2>1, <2>2, <2>4 DEF Place, TypeOK, FilesType
  <2>6. QED
    BY <2>2, <2>3, <2>4, <2>5, StoreMoves
<1>6. ASSUME NEW s \in Sessions, HandleComplete(s)
      PROVE  [Store!Next]_Store!vars
  <2>1. PICK m : m = Head(wire[s])
    OBVIOUS
  <2>2. m \in Range(wire[s]) /\ m \in NodeMessage /\ m.kind = "complete"
    BY <1>6, <2>1, RangeTail, OnWireType
       DEF HandleComplete, TypeOK, CoordinatorType
  <2>3. m.seg \in Segments /\ file[m.seg] # "none"
    BY <2>2 DEF NodeMessage, EntriesOfFiles
  <2>4. Place(m.seg) # "nowhere"
    BY <2>3, PlaceCases
  <2>5. /\ UNCHANGED <<age, file, object>>
        /\ \/ row' = row
           \/ row' = [row EXCEPT ![m.seg] =
                         IF @ = "none" THEN "local" ELSE @]
    BY <1>6, <2>1 DEF HandleComplete
  <2>6. \/ row' = [row EXCEPT ![m.seg] = "local"] /\ row[m.seg] = "none"
        \/ row' = [row EXCEPT ![m.seg] = row[m.seg]]
    BY <2>3, <2>5 DEF TypeOK, CoordinatorType
  <2>7. QED
    BY <2>3, <2>4, <2>5, <2>6, StoreRowChanges DEF TypeOK, CoordinatorType
<1>7. ASSUME NEW s \in Sessions, HandleMigrated(s)
      PROVE  [Store!Next]_Store!vars
  <2>1. PICK m : m = Head(wire[s])
    OBVIOUS
  <2>2. m \in Range(wire[s]) /\ m \in NodeMessage /\ m.kind = "migrated"
    BY <1>7, <2>1, RangeTail, OnWireType
       DEF HandleMigrated, TypeOK, CoordinatorType
  <2>3. m.seg \in Segments /\ object[m.seg] = "whole"
    BY <2>2 DEF NodeMessage, NewsTrue, News, MigratedOnWire
  <2>4. /\ UNCHANGED <<age, file, object>>
        /\ \/ row' = row
           \/ row' = [row EXCEPT ![m.seg] = "s3"] /\ row[m.seg] # "none"
    BY <1>7, <2>1 DEF HandleMigrated
  <2>5. row[m.seg] \in {"none", "local", "s3"}
    BY <2>3 DEF TypeOK, CoordinatorType
  <2>6. row[m.seg] # "none" => Place(m.seg) \in {"both", "s3"}
    BY <2>3 DEF Place, EntriesOfFiles, TypeOK, FilesType
  <2>7. CASE row' = row
    <3>1. row' = [row EXCEPT ![m.seg] = row[m.seg]]
      BY <2>3, <2>7 DEF TypeOK, CoordinatorType
    <3>2. QED
      BY <2>3, <2>4, <3>1, StoreRowChanges DEF TypeOK, CoordinatorType
  <2>8. QED
    BY <2>3, <2>4, <2>5, <2>6, <2>7, StoreRowChanges
       DEF TypeOK, CoordinatorType
<1>8. ASSUME NEW x \in Expired, DeleteAndNotify(x)
      PROVE  [Store!Next]_Store!vars
  <2>1. x.seg \in Segments /\ age[x.seg] = "expired"
    BY <1>8 DEF DeleteAndNotify, StoreInv, BatchExpired, Expired
  <2>2. /\ UNCHANGED <<age, file, object>>
        /\ row' = row \/ row' = [row EXCEPT ![x.seg] = "none"]
    BY <1>8 DEF DeleteAndNotify
  <2>3. \/ row' = [row EXCEPT ![x.seg] = row[x.seg]]
        \/ row' = [row EXCEPT ![x.seg] = "none"]
    BY <2>1, <2>2 DEF TypeOK, CoordinatorType
  <2>4. QED
    BY <2>1, <2>2, <2>3, StoreRowChanges DEF TypeOK, CoordinatorType
<1>9. CASE UNCHANGED <<age, file, object, row>>
  BY <1>9 DEF Store!vars, Place
<1>10. ASSUME HandleDeletion PROVE [Store!Next]_Store!vars
  <2>1. deletions \in Seq(Expired) /\ deletions # <<>>
    BY <1>10 DEF HandleDeletion, TypeOK, ClientType
  <2>2. Head(deletions) \in Expired
    BY <2>1
  <2>3. PICK g \in Segments : g = Head(deletions).seg
    BY <2>2 DEF Expired
  <2>4. QED
    BY <1>4, <1>10, <2>3
<1>11. CASE RemoveFile
  <2>1. current \in Segments
    BY <1>11 DEF RemoveFile, TypeOK, MigrationType
  <2>2. QED
    BY <1>4, <1>11, <2>1
<1>12. QED
  BY <1>1, <1>2, <1>3, <1>4, <1>5, <1>6, <1>7, <1>8, <1>9, <1>10, <1>11, Frames

(* The two tiers implement the abstract store: an upload that failed, was  *)
(* cut short or is repeated never replaces an object, a row goes from      *)
(* local:// to s3:// over data that is there and never back, and the       *)
(* enforcer deletes the rows of expired segments only, however long before *)
(* it selected them.                                                       *)
THEOREM StoreImplemented == Spec => ImplementsSegmentStore
<1>1. TypeOK /\ MigrationInv /\ [Next]_vars => MigrationInv'
  BY CandidatesStep, UploadStep, KeepsDataStep DEF MigrationInv
<1>2. TypeOK /\ MigrationInv /\ RowInv /\ [Next]_vars => RowInv'
  BY SessionStep, EntriesStep, NewsTrueStep, GoneStep DEF RowInv, MigrationInv
<1>3. TypeOK /\ MigrationInv /\ RowInv /\ StoreInv /\ [Next]_vars => StoreInv'
  BY StoreInvStep DEF RowInv, MigrationInv
<1>4. /\ TypeOK /\ TypeOK' /\ MigrationInv /\ RowInv /\ StoreInv
      /\ [Next]_vars
      => [Store!Next]_Store!vars
  BY StoreStep DEF RowInv, MigrationInv
<1>5. QED
  BY <1>1, <1>2, <1>3, <1>4, InitMigration, InitRow, StoreInit, TypeCorrect,
     PTL DEF Spec, ImplementsSegmentStore, Store!Spec
=============================================================================
