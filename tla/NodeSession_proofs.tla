------------------------- MODULE NodeSession_proofs -------------------------
(***************************************************************************)
(* Proofs about NodeSession, for every finite set of cameras and of        *)
(* requests, every capacity and any number of changes and faults.          *)
(***************************************************************************)
EXTENDS NodeSession, SequenceTheorems, FiniteSetTheorems, TLAPS

-----------------------------------------------------------------------------
(* Type correctness                                                        *)

USE DEF dbVars, sessionVars, nodeVars,
        DatabaseType, SocketType, NodeType, CountType

(* A part is kept by a step that leaves its variables alone.               *)
LEMMA TypeStutter ==
  ASSUME TypeOK
  PROVE  /\ UNCHANGED <<status, db, born, task>> => DatabaseType'
         /\ UNCHANGED <<registry, phase, snap, rx>> => SocketType'
         /\ UNCHANGED <<net, alive, nodeConn, session, list>> => NodeType'
BY DEF TypeOK

LEMMA NoCamerasType == NoCameras \in CameraList
BY SessionAssumption DEF NoCameras, CameraList

LEMMA IdleType == Idle \in Task /\ Idle.step = "idle"
BY DEF Idle, Task

(* Changes and faults are counted up to their bounds.                      *)
LEMMA CountStep ==
  ASSUME TypeOK,
         Change \/ UNCHANGED changes,
         Fault \/ UNCHANGED faults,
         excused' \in SUBSET Cameras
  PROVE  CountType'
BY SessionAssumption DEF TypeOK, Change, Fault

(* Messages that carry a change, or a whole list.                          *)
LEMMA ChangeType ==
  ASSUME NEW c \in Cameras, NEW v \in 0..MaxVersion,
         NEW k \in {"added", "updated", "removed"}
  PROVE  [kind |-> k, cam |-> c, ver |-> v] \in Message
BY DEF Message, CameraChange

LEMMA SyncType ==
  ASSUME NEW l \in CameraList
  PROVE  [kind |-> "sync", list |-> l] \in Message
BY DEF Message, ConfigSync

LEMMA PushType ==
  ASSUME NEW m \in Message
  PROVE  /\ [step |-> "push", msg |-> m] \in Task
         /\ [step |-> "push", msg |-> m].step = "push"
         /\ [step |-> "push", msg |-> m].msg = m
BY DEF Task

LEMMA TaskMessage ==
  ASSUME TypeOK, NEW h \in Handlers, task[h].step = "push"
  PROVE  task[h].msg \in Message
<1>1. task[h] \in Task
  BY DEF TypeOK
<1>2. QED
  BY <1>1 DEF Task

LEMMA TransmitType ==
  ASSUME TypeOK, NEW s \in Sessions, NEW m \in Message, Transmit(s, m)
  PROVE  net' \in [Sessions -> Seq(Message)]
<1>1. \A t \in Sessions : Append(net[t], m) \in Seq(Message)
  BY AppendProperties DEF TypeOK
<1>2. QED
  BY <1>1 DEF Transmit, TypeOK

(* A node's list stays a camera list, whatever it receives.                *)
LEMMA IncomingType ==
  ASSUME TypeOK, NEW m \in Message
  PROVE  HandleIncoming(m) \in CameraList
<1>1. CASE m \in ConfigSync
  <2>1. m.kind = "sync" /\ m.list \in CameraList
    BY <1>1 DEF ConfigSync
  <2>2. QED
    BY <2>1 DEF HandleIncoming
<1>2. CASE m \in CameraChange
  <2>1. /\ m.kind \in {"added", "updated", "removed"}
        /\ m.cam \in Cameras /\ m.ver \in 0..MaxVersion
    BY <1>2 DEF CameraChange
  <2>2. list \in [Cameras -> 0..MaxVersion] /\ 0 \in 0..MaxVersion
    BY SessionAssumption DEF TypeOK, CameraList
  <2>3. CASE m.kind = "added"
    BY <2>1, <2>2, <2>3 DEF HandleIncoming, CameraList
  <2>4. CASE m.kind = "updated"
    BY <2>1, <2>2, <2>4 DEF HandleIncoming, CameraList
  <2>5. CASE m.kind = "removed"
    BY <2>1, <2>2, <2>5 DEF HandleIncoming, CameraList
  <2>6. QED
    BY <2>1, <2>3, <2>4, <2>5
<1>3. QED
  BY <1>1, <1>2 DEF Message

LEMMA InitType == Init => TypeOK
<1> SUFFICES ASSUME Init PROVE TypeOK
  OBVIOUS
<1>1. DatabaseType
  BY NoCamerasType, IdleType DEF Init
<1>2. SocketType
  BY NoCamerasType, EmptySeq, SessionAssumption DEF Init
<1>3. NodeType
  BY NoCamerasType, EmptySeq, SessionAssumption DEF Init
<1>4. CountType
  BY SessionAssumption DEF Init
<1>5. QED
  BY <1>1, <1>2, <1>3, <1>4 DEF TypeOK

LEMMA HandlerType ==
  ASSUME TypeOK, NEW h \in Handlers,
         Request(h) \/ Handler(h) \/ CancelHandler(h)
  PROVE  TypeOK'
<1> USE IdleType
<1>1. CASE ResolveNode(h)
  <2>1. [step |-> "check"] \in Task
    BY DEF Task
  <2>2. DatabaseType'
    BY <1>1, <2>1 DEF ResolveNode, TypeOK
  <2>3. CountType'
    BY <1>1, CountStep DEF ResolveNode, TypeOK
  <2>4. QED
    BY <1>1, <2>2, <2>3, TypeStutter DEF ResolveNode, TypeOK
<1>2. CASE CheckCapacity(h)
  <2>1. [step |-> "insert"] \in Task
    BY DEF Task
  <2>2. DatabaseType'
    BY <1>2, <2>1 DEF CheckCapacity, TypeOK
  <2>3. CountType'
    BY <1>2, CountStep DEF CheckCapacity, TypeOK
  <2>4. QED
    BY <1>2, <2>2, <2>3, TypeStutter DEF CheckCapacity, TypeOK
<1>3. CASE InsertCamera(h)
  <2>1. ASSUME NEW c \in Cameras,
               db' = [db EXCEPT ![c] = 1], born' = born \cup {c},
               task' = [task EXCEPT ![h] =
                  [step |-> "push",
                   msg |-> [kind |-> "added", cam |-> c, ver |-> 1]]]
        PROVE  /\ db' \in CameraList /\ born' \in SUBSET Cameras
               /\ task' \in [Handlers -> Task]
    <3>1. 1 \in 0..MaxVersion
      BY SessionAssumption
    <3>2. [step |-> "push",
           msg |-> [kind |-> "added", cam |-> c, ver |-> 1]] \in Task
      BY <3>1, ChangeType, PushType
    <3>3. QED
      BY <2>1, <3>1, <3>2 DEF TypeOK, CameraList
  <2>2. DatabaseType'
    BY <1>3, <2>1 DEF InsertCamera, TypeOK
  <2>3. CountType'
    BY <1>3, CountStep DEF InsertCamera, ExcuseRace, TypeOK
  <2>4. QED
    BY <1>3, <2>2, <2>3, TypeStutter DEF InsertCamera, TypeOK
<1>4. ASSUME NEW c \in Cameras, UpdateCamera(h, c) PROVE TypeOK'
  <2>1. db[c] + 1 \in 0..MaxVersion
    BY <1>4, SessionAssumption DEF UpdateCamera
  <2>2. [step |-> "push",
         msg |-> [kind |-> "updated", cam |-> c, ver |-> db[c] + 1]] \in Task
    BY <2>1, ChangeType, PushType
  <2>3. DatabaseType'
    BY <1>4, <2>1, <2>2 DEF UpdateCamera, TypeOK, CameraList
  <2>4. CountType'
    BY <1>4, CountStep DEF UpdateCamera, ExcuseRace, TypeOK
  <2>5. QED
    BY <1>4, <2>3, <2>4, TypeStutter DEF UpdateCamera, TypeOK
<1>5. ASSUME NEW c \in Cameras, DeleteCamera(h, c) PROVE TypeOK'
  <2>1. 0 \in 0..MaxVersion
    BY SessionAssumption
  <2>2. [step |-> "push",
         msg |-> [kind |-> "removed", cam |-> c, ver |-> 0]] \in Task
    BY <2>1, ChangeType, PushType
  <2>3. DatabaseType'
    BY <1>5, <2>1, <2>2 DEF DeleteCamera, TypeOK, CameraList
  <2>4. CountType'
    BY <1>5, CountStep DEF DeleteCamera, ExcuseRace, TypeOK
  <2>5. QED
    BY <1>5, <2>3, <2>4, TypeStutter DEF DeleteCamera, TypeOK
<1>6. ASSUME NEW st \in {"pending", "approved", "rejected"},
             UpdateNodeStatus(h, st)
      PROVE  TypeOK'
  <2>1. [step |-> "fetch"] \in Task
    BY DEF Task
  <2>2. DatabaseType'
    BY <1>6, <2>1 DEF UpdateNodeStatus, TypeOK
  <2>3. CountType'
    BY <1>6, CountStep DEF UpdateNodeStatus, TypeOK
  <2>4. QED
    BY <1>6, <2>2, <2>3, TypeStutter
       DEF UpdateNodeStatus, TypeOK
<1>7. CASE FetchForSync(h)
  <2>1. \A l \in {db, NoCameras} :
          [step |-> "push", msg |-> [kind |-> "sync", list |-> l]] \in Task
    BY NoCamerasType, SyncType, PushType DEF TypeOK
  <2>2. DatabaseType'
    BY <1>7, <2>1 DEF FetchForSync, TypeOK
  <2>3. CountType'
    BY <1>7, CountStep DEF FetchForSync, TypeOK
  <2>4. QED
    BY <1>7, <2>2, <2>3, TypeStutter DEF FetchForSync, TypeOK
<1>8. CASE DeleteNode(h)
  <2>1. DatabaseType'
    BY <1>8, NoCamerasType DEF DeleteNode, TypeOK
  <2>2. CountType'
    BY <1>8, CountStep DEF DeleteNode, TypeOK
  <2>3. QED
    BY <1>8, <2>1, <2>2, TypeStutter DEF DeleteNode, TypeOK
<1>9. CASE PushToNode(h)
  <2>1. DatabaseType'
    BY <1>9 DEF PushToNode, TypeOK
  <2>2. CountType'
    BY <1>9, CountStep DEF PushToNode, TypeOK
  <2>3. \A s \in Sessions : Append(rx[s], task[h].msg) \in Seq(Message)
    BY <1>9, TaskMessage, AppendProperties DEF PushToNode, TypeOK
  <2>4. SocketType'
    BY <1>9, <2>3 DEF PushToNode, TypeOK
  <2>5. QED
    BY <1>9, <2>1, <2>2, <2>4, TypeStutter
       DEF PushToNode, TypeOK
<1>10. CASE CancelHandler(h)
  <2>1. DatabaseType'
    BY <1>10 DEF CancelHandler, TypeOK
  <2>2. task[h].step = "push" /\ task[h].msg.kind # "sync" =>
          task[h].msg.cam \in Cameras
    BY TaskMessage DEF Message, CameraChange, ConfigSync
  <2>3. CountType'
    BY <1>10, <2>2, CountStep DEF CancelHandler, TypeOK
  <2>4. QED
    BY <1>10, <2>1, <2>3, TypeStutter DEF CancelHandler, TypeOK
<1>11. QED
  BY <1>1, <1>2, <1>3, <1>4, <1>5, <1>6, <1>7, <1>8, <1>9, <1>10
     DEF Request, Handler

LEMMA SocketStepType ==
  ASSUME TypeOK, NEW s \in Sessions, Socket(s) \/ EndStream(s)
  PROVE  TypeOK'
<1>1. CASE RegisterNode(s)
  <2>1. SocketType'
    BY <1>1 DEF RegisterNode, TypeOK, Sessions
  <2>2. QED
    BY <1>1, <2>1, TypeStutter, CountStep DEF RegisterNode, TypeOK
<1>2. CASE FetchNodeCameras(s)
  <2>1. SocketType'
    BY <1>2, NoCamerasType DEF FetchNodeCameras, TypeOK
  <2>2. CountType'
    BY <1>2, CountStep DEF FetchNodeCameras, StillWrong, TypeOK
  <2>3. QED
    BY <1>2, <2>1, <2>2, TypeStutter DEF FetchNodeCameras, TypeOK
<1>3. CASE SendConfigSync(s)
  <2>1. SocketType'
    BY <1>3, NoCamerasType DEF SendConfigSync, TypeOK
  <2>2. net' \in [Sessions -> Seq(Message)]
    BY <1>3, SyncType, TransmitType DEF SendConfigSync, TypeOK
  <2>3. NodeType'
    BY <1>3, <2>2 DEF SendConfigSync, TypeOK
  <2>4. QED
    BY <1>3, <2>1, <2>3, TypeStutter, CountStep
       DEF SendConfigSync, TypeOK
<1>4. CASE Forward(s)
  <2>1. Head(rx[s]) \in Message /\ Tail(rx[s]) \in Seq(Message)
    BY <1>4, HeadTailProperties DEF Forward, TypeOK
  <2>2. SocketType'
    BY <1>4, <2>1 DEF Forward, TypeOK
  <2>3. net' \in [Sessions -> Seq(Message)]
    BY <1>4, <2>1, TransmitType DEF Forward
  <2>4. NodeType'
    BY <1>4, <2>3 DEF Forward, TypeOK
  <2>5. QED
    BY <1>4, <2>2, <2>4, TypeStutter, CountStep
       DEF Forward, TypeOK
<1>5. CASE EndStream(s)
  <2>1. SocketType'
    BY <1>5 DEF EndStream, TypeOK
  <2>2. QED
    BY <1>5, <2>1, TypeStutter, CountStep DEF EndStream, TypeOK
<1>6. CASE Teardown(s)
  <2>1. SocketType'
    BY <1>6, EmptySeq, SessionAssumption DEF Teardown, TypeOK
  <2>2. QED
    BY <1>6, <2>1, TypeStutter, CountStep DEF Teardown, TypeOK
<1>7. QED
  BY <1>1, <1>2, <1>3, <1>4, <1>5, <1>6 DEF Socket

LEMMA NodeStepType ==
  ASSUME TypeOK, Connect \/ Receive \/ Disconnect
  PROVE  TypeOK'
<1>1. CASE Connect
  <2>1. session + 1 \in 0..(MaxFaults + 1)
    BY <1>1, SessionAssumption DEF Connect, Sessions
  <2>2. NodeType'
    BY <1>1, <2>1 DEF Connect, TypeOK
  <2>3. SocketType'
    BY <1>1 DEF Connect, TypeOK
  <2>4. QED
    BY <1>1, <2>2, <2>3, TypeStutter, CountStep DEF Connect, TypeOK
<1>2. CASE Receive
  <2>1. nodeConn \in Sessions
    BY <1>2, SessionAssumption DEF Receive, TypeOK, Sessions
  <2>2. /\ Head(net[nodeConn]) \in Message
        /\ Tail(net[nodeConn]) \in Seq(Message)
    BY <1>2, <2>1, HeadTailProperties DEF Receive, TypeOK
  <2>3. NodeType'
    BY <1>2, <2>2, IncomingType DEF Receive, TypeOK
  <2>4. QED
    BY <1>2, <2>3, TypeStutter, CountStep DEF Receive, TypeOK
<1>3. CASE Disconnect
  <2>1. <<>> \in Seq(Message) /\ 0 \in 0..(MaxFaults + 1)
    BY EmptySeq, SessionAssumption
  <2>2. NodeType'
    BY <1>3, <2>1 DEF Disconnect, TypeOK
  <2>3. QED
    BY <1>3, <2>2, TypeStutter, CountStep DEF Disconnect, TypeOK
<1>4. QED
  BY <1>1, <1>2, <1>3

LEMMA FaultStepType ==
  ASSUME TypeOK, BreakLink \/ CrashNode \/ CrashCoordinator
  PROVE  TypeOK'
<1>1. CASE BreakLink
  <2>1. NodeType'
    BY <1>1 DEF BreakLink, TypeOK
  <2>2. QED
    BY <1>1, <2>1, TypeStutter, CountStep
       DEF BreakLink, TypeOK
<1>2. CASE CrashNode
  <2>1. alive' \in [Sessions -> BOOLEAN]
    BY <1>2 DEF CrashNode, TypeOK
  <2>2. net' \in [Sessions -> Seq(Message)]
    <3>1. CASE net' = net
      BY <3>1 DEF TypeOK
    <3>2. CASE net' = [net EXCEPT ![nodeConn] = <<>>]
      BY <3>2, EmptySeq DEF TypeOK
    <3>3. QED
      BY <1>2, <3>1, <3>2 DEF CrashNode
  <2>3. NodeType'
    BY <1>2, <2>1, <2>2, NoCamerasType, SessionAssumption
       DEF CrashNode, TypeOK
  <2>4. QED
    BY <1>2, <2>3, TypeStutter, CountStep DEF CrashNode, TypeOK
<1>3. CASE CrashCoordinator
  <2>1. DatabaseType'
    BY <1>3, IdleType DEF CrashCoordinator, TypeOK
  <2>2. SocketType'
    BY <1>3, EmptySeq, NoCamerasType, SessionAssumption
       DEF CrashCoordinator, TypeOK
  <2>3. NodeType'
    BY <1>3 DEF CrashCoordinator, TypeOK
  <2>4. QED
    BY <1>3, <2>1, <2>2, <2>3, CountStep
       DEF CrashCoordinator, TypeOK
<1>4. QED
  BY <1>1, <1>2, <1>3

LEMMA NextType == TypeOK /\ [Next]_vars => TypeOK'
<1> SUFFICES ASSUME TypeOK, [Next]_vars PROVE TypeOK'
  OBVIOUS
<1>1. CASE UNCHANGED vars
  BY <1>1 DEF vars, TypeOK
<1>2. QED
  BY <1>1, HandlerType, SocketStepType, NodeStepType, FaultStepType DEF Next

(* The variables keep to their types, whatever the sizes.                  *)
THEOREM TypeCorrect == Spec => []TypeOK
BY InitType, NextType, PTL DEF Spec

-----------------------------------------------------------------------------
(* How far a node's cameras can pass the cap                               *)

LEMMA FiniteParts ==
  /\ IsFiniteSet(Rows) /\ Cardinality(Rows) \in Nat
  /\ IsFiniteSet(Inserting) /\ Cardinality(Inserting) \in Nat
  /\ Cardinality(Handlers) \in Nat
<1>1. Rows \in SUBSET Cameras /\ Inserting \in SUBSET Handlers
  BY DEF Rows, Inserting
<1>2. QED
  BY <1>1, SessionAssumption, FS_Subset, FS_CardinalityType

(* A step that adds neither a row nor an insert keeps the bound.           *)
LEMMA Shrinks ==
  ASSUME OvershootBounded, Rows' \subseteq Rows, Inserting' \subseteq Inserting
  PROVE  OvershootBounded'
<1>1. /\ Cardinality(Rows') \in Nat
      /\ Cardinality(Rows') <= Cardinality(Rows)
  BY FiniteParts, FS_Subset, FS_CardinalityType
<1>2. /\ Cardinality(Inserting') \in Nat
      /\ Cardinality(Inserting') <= Cardinality(Inserting)
  BY FiniteParts, FS_Subset, FS_CardinalityType
<1>3. QED
  BY <1>1, <1>2, FiniteParts, SessionAssumption
     DEF OvershootBounded

(* The check lets a request go on when there is room for one more row, and *)
(* no more requests can be at their insert than there are requests.        *)
LEMMA CheckKeepsBound ==
  ASSUME TypeOK, OvershootBounded, NEW h \in Handlers, CheckCapacity(h)
  PROVE  OvershootBounded'
<1>1. Rows' = Rows
  BY DEF CheckCapacity, Rows
<1>2. CASE Cardinality(Rows) < Capacity
  <2>1. Inserting' \in SUBSET Handlers
    BY DEF Inserting
  <2>2. /\ Cardinality(Inserting') \in Nat
        /\ Cardinality(Inserting') <= Cardinality(Handlers)
    BY <2>1, SessionAssumption, FS_Subset, FS_CardinalityType
  <2>3. QED
    BY <1>1, <1>2, <2>2, FiniteParts, SessionAssumption
       DEF OvershootBounded
<1>3. CASE ~(Cardinality(Rows) < Capacity)
  <2>1. Inserting' \subseteq Inserting
    BY <1>3, IdleType DEF CheckCapacity, Rows, Inserting, TypeOK
  <2>2. QED
    BY <1>1, <2>1, Shrinks
<1>4. QED
  BY <1>2, <1>3

(* An insert turns into a row, or into none.                               *)
LEMMA InsertKeepsBound ==
  ASSUME TypeOK, OvershootBounded, NEW h \in Handlers, InsertCamera(h)
  PROVE  OvershootBounded'
<1>1. task'[h].step # "insert" /\ \A i \in Handlers \ {h} : task'[i] = task[i]
  BY IdleType, PushType DEF InsertCamera, TypeOK
<1>2. Inserting' = Inserting \ {h} /\ h \in Inserting
  BY <1>1 DEF InsertCamera, Inserting
<1>3. Cardinality(Inserting') = Cardinality(Inserting) - 1
  BY <1>2, FiniteParts, FS_RemoveElement
<1>4. CASE status = "deleted"
  BY <1>2, <1>4, Shrinks DEF InsertCamera, Rows
<1>5. CASE status # "deleted"
  <2>1. PICK c \in Cameras : db' = [db EXCEPT ![c] = 1]
    BY <1>5 DEF InsertCamera
  <2>2. Rows' = Rows \cup {c}
    BY <2>1 DEF Rows, TypeOK, CameraList
  <2>3. /\ Cardinality(Rows') \in Nat
        /\ Cardinality(Rows') <= Cardinality(Rows) + 1
    <3>1. Cardinality(Rows \cup {c}) = IF c \in Rows THEN Cardinality(Rows)
                                       ELSE Cardinality(Rows) + 1
      BY FiniteParts, FS_AddElement, Zenon
    <3>2. QED
      BY <2>2, <3>1, FiniteParts
  <2>4. QED
    BY <1>3, <2>3, FiniteParts, SessionAssumption
       DEF OvershootBounded
<1>6. QED
  BY <1>4, <1>5

LEMMA OvershootStep ==
  TypeOK /\ OvershootBounded /\ [Next]_vars => OvershootBounded'
<1> SUFFICES ASSUME TypeOK, OvershootBounded, [Next]_vars
             PROVE  OvershootBounded'
  OBVIOUS
<1>1. ASSUME NEW h \in Handlers, Request(h) PROVE OvershootBounded'
  <2>1. CASE ResolveNode(h)
    <3>1. Rows' = Rows
      BY <2>1 DEF ResolveNode, Rows
    <3>2. Inserting' \subseteq Inserting
      BY <2>1 DEF ResolveNode, Inserting, TypeOK
    <3>3. QED
      BY <3>1, <3>2, Shrinks
  <2>2. ASSUME NEW c \in Cameras, UpdateCamera(h, c) PROVE OvershootBounded'
    <3>1. Rows' \subseteq Rows
      BY <2>2 DEF UpdateCamera, Rows, TypeOK, CameraList
    <3>2. Inserting' \subseteq Inserting
      BY <2>2 DEF UpdateCamera, Inserting, TypeOK
    <3>3. QED
      BY <3>1, <3>2, Shrinks
  <2>3. ASSUME NEW c \in Cameras, DeleteCamera(h, c) PROVE OvershootBounded'
    <3>1. Rows' \subseteq Rows
      BY <2>3 DEF DeleteCamera, Rows, TypeOK, CameraList
    <3>2. Inserting' \subseteq Inserting
      BY <2>3 DEF DeleteCamera, Inserting, TypeOK
    <3>3. QED
      BY <3>1, <3>2, Shrinks
  <2>4. ASSUME NEW st \in {"pending", "approved", "rejected"},
               UpdateNodeStatus(h, st)
        PROVE  OvershootBounded'
    <3>1. Rows' = Rows
      BY <2>4 DEF UpdateNodeStatus, Rows
    <3>2. Inserting' \subseteq Inserting
      BY <2>4, IdleType DEF UpdateNodeStatus, Inserting, TypeOK
    <3>3. QED
      BY <3>1, <3>2, Shrinks
  <2>5. CASE DeleteNode(h)
    <3>1. Rows' \subseteq Rows
      BY <2>5 DEF DeleteNode, NoCameras, Rows
    <3>2. Inserting' \subseteq Inserting
      BY <2>5 DEF DeleteNode, Inserting
    <3>3. QED
      BY <3>1, <3>2, Shrinks
  <2>6. QED
    BY <1>1, <2>1, <2>2, <2>3, <2>4, <2>5 DEF Request
<1>2. ASSUME NEW h \in Handlers,
             FetchForSync(h) \/ PushToNode(h) \/ CancelHandler(h)
      PROVE  OvershootBounded'
  <2>1. Rows' = Rows
    BY <1>2 DEF FetchForSync, PushToNode, CancelHandler, Rows
  <2>2. CASE FetchForSync(h)
    <3>1. PICK l \in {db, NoCameras} :
            task' = [task EXCEPT ![h] =
              [step |-> "push", msg |-> [kind |-> "sync", list |-> l]]]
      BY <2>2 DEF FetchForSync
    <3>2. task'[h].step = "push" /\ \A i \in Handlers \ {h} : task'[i] = task[i]
      BY <3>1 DEF TypeOK
    <3>3. Inserting' \subseteq Inserting
      BY <3>2 DEF Inserting
    <3>4. QED
      BY <2>1, <3>3, Shrinks
  <2>3. CASE PushToNode(h)
    <3>1. Inserting' \subseteq Inserting
      BY <2>3, IdleType DEF PushToNode, Inserting, TypeOK
    <3>2. QED
      BY <2>1, <3>1, Shrinks
  <2>4. CASE CancelHandler(h)
    <3>1. Inserting' \subseteq Inserting
      BY <2>4, IdleType DEF CancelHandler, Inserting, TypeOK
    <3>2. QED
      BY <2>1, <3>1, Shrinks
  <2>5. QED
    BY <1>2, <2>2, <2>3, <2>4
<1>3. CASE CrashCoordinator
  BY <1>3, IdleType, Shrinks DEF CrashCoordinator, Rows, Inserting
<1>4. CASE UNCHANGED <<status, db, born, task>>
  BY <1>4, Shrinks DEF Rows, Inserting
<1>5. QED
  BY <1>1, <1>2, <1>3, <1>4, CheckKeepsBound, InsertKeepsBound
     DEF Next, Handler, Socket, EndStream, RegisterNode, FetchNodeCameras,
         SendConfigSync, Forward, Teardown, Connect, Receive, Disconnect,
         BreakLink, CrashNode, vars

(* Rows and inserts decided on pass the cap by less than the number of     *)
(* requests served at once, for every capacity and number of requests.     *)
THEOREM OvershootIsBounded == Spec => []OvershootBounded
<1>1. Init => OvershootBounded
  <2> SUFFICES ASSUME Init PROVE OvershootBounded
    OBVIOUS
  <2>1. Rows = {} /\ Inserting = {}
    BY IdleType DEF Init, NoCameras, Rows, Inserting
  <2>2. QED
    BY <2>1, FiniteParts, FS_EmptySet, SessionAssumption
       DEF OvershootBounded
<1>2. QED
  BY <1>1, OvershootStep, TypeCorrect, PTL DEF Spec
=============================================================================
