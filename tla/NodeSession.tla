---------------------------- MODULE NodeSession ----------------------------
(***************************************************************************)
(* How one node's camera list follows the coordinator's cameras table: the *)
(* HTTP handlers that change cameras and the node's status                 *)
(* (coordinator/src/routes/cameras.rs, nodes.rs), the registry of node     *)
(* connections (coordinator/src/state.rs), one handle_socket task per      *)
(* connection (coordinator/src/routes/node_ws.rs) and the WebSocket client *)
(* of the node (node/src/ws_client.rs).                                    *)
(*                                                                         *)
(* A handler commits to the database, then pushes the change to whichever  *)
(* connection is registered; other handlers, new connections and the       *)
(* teardown of old ones come in between.  `excused` is a history variable: *)
(* no action reads it.                                                     *)
(***************************************************************************)
EXTENDS Naturals, Sequences, FiniteSets

CONSTANTS Cameras,         \* camera identifiers the database may assign
          Handlers,        \* HTTP requests served at the same time
          Capacity,        \* MAX_CAMERAS_PER_NODE
          MaxVersion,      \* bound: configurations one camera goes through
          MaxChanges,      \* bound: requests that change the database
          MaxFaults        \* bound: broken connections, crashes, DB errors

ASSUME SessionAssumption ==
  /\ IsFiniteSet(Cameras) /\ IsFiniteSet(Handlers)
  /\ Capacity \in Nat \ {0}
  /\ MaxVersion \in Nat \ {0}
  /\ MaxChanges \in Nat
  /\ MaxFaults \in Nat

(* A camera's configuration is a version number, 0 if there is no row; a   *)
(* camera list is a function, so that `added` replaces an older entry as   *)
(* the node's retain-and-push does.                                        *)
CameraList == [Cameras -> 0..MaxVersion]
NoCameras == [c \in Cameras |-> 0]
CameraChange == [kind: {"added", "updated", "removed"}, cam: Cameras,
                 ver: 0..MaxVersion]
ConfigSync == [kind: {"sync"}, list: CameraList]
Message == CameraChange \cup ConfigSync

(* A connection is made only after the one before has broken.              *)
Sessions == 1..(MaxFaults + 1)

Idle == [step |-> "idle"]
Task == [step: {"idle", "check", "insert", "fetch"}]
          \cup [step: {"push"}, msg: Message]

VARIABLES
  status,      \* nodes.status of the node, or "deleted"
  db,          \* its rows in the cameras table
  born,        \* camera identifiers assigned so far
  task,        \* where each HTTP handler is
  registry,    \* the connection AppState.nodes holds for the node, 0 if none
  phase,       \* where the handle_socket task of each connection is
  snap,        \* the camera list it has fetched
  rx,          \* messages pushed to it and not forwarded yet
  net,         \* messages on the way to the node
  alive,       \* whether the connection works
  nodeConn,    \* the connection the node uses, 0 if none
  session,     \* number of connections made so far
  list,        \* the camera list of the node
  changes,     \* number of changes so far
  faults,      \* number of faults so far
  excused      \* history: cameras a named race or failure may have left wrong

dbVars == <<status, db, born>>
sessionVars == <<phase, snap, net>>
nodeVars == <<alive, nodeConn, session, list>>
vars == <<dbVars, task, registry, sessionVars, rx, nodeVars, changes, faults,
          excused>>

Fault == /\ faults < MaxFaults
         /\ faults' = faults + 1

Change == /\ changes < MaxChanges
          /\ changes' = changes + 1

(* Whether a message says something about a camera, and whether a handler  *)
(* other than h has such a message still to push.                          *)
Concerns(msg, c) == msg.kind = "sync" \/ msg.cam = c
Unpushed(c, h) == \E i \in Handlers \ {h} :
                    task[i].step = "push" /\ Concerns(task[i].msg, c)

(* History: committing a change of c now may be overtaken.                 *)
ExcuseRace(c, h) ==
  excused' = IF Unpushed(c, h) THEN excused \cup {c} ELSE excused

(* A node that registers itself is pending, one an admin creates approved. *)
Init ==
  /\ status \in {"pending", "approved"}
  /\ db = NoCameras
  /\ born = {}
  /\ task = [h \in Handlers |-> Idle]
  /\ registry = 0
  /\ phase = [s \in Sessions |-> "none"]
  /\ snap = [s \in Sessions |-> NoCameras]
  /\ rx = [s \in Sessions |-> <<>>]
  /\ net = [s \in Sessions |-> <<>>]
  /\ alive = [s \in Sessions |-> FALSE]
  /\ nodeConn = 0
  /\ session = 0
  /\ list = NoCameras
  /\ changes = 0
  /\ faults = 0
  /\ excused = {}

-----------------------------------------------------------------------------
(* HTTP handlers                                                           *)

(* create_camera: resolve_node accepts an approved node only.  When it     *)
(* chooses the node itself it wants one with room, which CheckCapacity     *)
(* looks at again.                                                         *)
ResolveNode(h) ==
  /\ task[h] = Idle
  /\ Change
  /\ status = "approved"
  /\ task' = [task EXCEPT ![h] = [step |-> "check"]]
  /\ UNCHANGED <<dbVars, registry, sessionVars, rx, nodeVars, faults, excused>>

Rows == {c \in Cameras : db[c] # 0}

(* Mutant: a full node passes too.                                         *)
CheckAdmitsOneMore(h) ==
  /\ task[h].step = "check"
  /\ task' = [task EXCEPT ![h] =
                IF Cardinality(Rows) <= Capacity
                THEN [step |-> "insert"] ELSE Idle]
  /\ UNCHANGED <<dbVars, registry, sessionVars, rx, nodeVars, changes, faults,
                 excused>>

CheckCapacity(h) ==
  /\ task[h].step = "check"
  /\ task' = [task EXCEPT ![h] =
                IF Cardinality(Rows) < Capacity
                THEN [step |-> "insert"] ELSE Idle]
  /\ UNCHANGED <<dbVars, registry, sessionVars, rx, nodeVars, changes, faults,
                 excused>>

(* The row gets a fresh identifier.  The foreign key refuses a row for a   *)
(* node deleted since; a node no longer approved gets it.                  *)
InsertCamera(h) ==
  /\ task[h].step = "insert"
  /\ \/ /\ status # "deleted"
        /\ \E c \in Cameras \ born :
             /\ db' = [db EXCEPT ![c] = 1]
             /\ born' = born \cup {c}
             /\ task' = [task EXCEPT ![h] =
                  [step |-> "push",
                   msg |-> [kind |-> "added", cam |-> c, ver |-> 1]]]
             /\ ExcuseRace(c, h)
     \/ /\ status = "deleted"
        /\ task' = [task EXCEPT ![h] = Idle]
        /\ UNCHANGED <<db, born, excused>>
  /\ UNCHANGED <<status, registry, sessionVars, rx, nodeVars, changes, faults>>

UpdateCamera(h, c) ==
  /\ task[h] = Idle
  /\ Change
  /\ db[c] \in 1..(MaxVersion - 1)
  /\ db' = [db EXCEPT ![c] = @ + 1]
  /\ task' = [task EXCEPT ![h] =
       [step |-> "push",
        msg |-> [kind |-> "updated", cam |-> c, ver |-> db[c] + 1]]]
  /\ ExcuseRace(c, h)
  /\ UNCHANGED <<status, born, registry, sessionVars, rx, nodeVars, faults>>

(* Mutant: the row is marked, not deleted.                                 *)
DeleteMarks(h, c) ==
  /\ task[h] = Idle
  /\ Change
  /\ db[c] # 0
  /\ db' = [db EXCEPT ![c] = MaxVersion + 1]
  /\ task' = [task EXCEPT ![h] =
       [step |-> "push",
        msg |-> [kind |-> "removed", cam |-> c, ver |-> 0]]]
  /\ ExcuseRace(c, h)
  /\ UNCHANGED <<status, born, registry, sessionVars, rx, nodeVars, faults>>

DeleteCamera(h, c) ==
  /\ task[h] = Idle
  /\ Change
  /\ db[c] # 0
  /\ db' = [db EXCEPT ![c] = 0]
  /\ task' = [task EXCEPT ![h] =
       [step |-> "push",
        msg |-> [kind |-> "removed", cam |-> c, ver |-> 0]]]
  /\ ExcuseRace(c, h)
  /\ UNCHANGED <<status, born, registry, sessionVars, rx, nodeVars, faults>>

(* update_node_status: an approval goes on to send the full list.          *)
UpdateNodeStatus(h, st) ==
  /\ task[h] = Idle
  /\ Change
  /\ status # "deleted"
  /\ status' = st
  /\ task' = [task EXCEPT ![h] =
                IF st = "approved" THEN [step |-> "fetch"] ELSE Idle]
  /\ UNCHANGED <<db, born, registry, sessionVars, rx, nodeVars, faults,
                 excused>>

(* fetch_node_cameras_full; a database error makes it an empty list.       *)
FetchForSync(h) ==
  /\ task[h].step = "fetch"
  /\ \/ /\ task' = [task EXCEPT ![h] =
             [step |-> "push", msg |-> [kind |-> "sync", list |-> db]]]
        /\ UNCHANGED <<faults, excused>>
     \/ /\ Fault
        /\ task' = [task EXCEPT ![h] =
             [step |-> "push", msg |-> [kind |-> "sync", list |-> NoCameras]]]
        /\ excused' = Cameras
  /\ UNCHANGED <<dbVars, registry, sessionVars, rx, nodeVars, changes>>

(* delete_node: the cameras go with the node, and nobody tells it.         *)
DeleteNode(h) ==
  /\ task[h] = Idle
  /\ Change
  /\ status # "deleted"
  /\ status' = "deleted"
  /\ db' = NoCameras
  /\ excused' = Cameras
  /\ UNCHANGED <<born, task, registry, sessionVars, rx, nodeVars, faults>>

(* Mutant: nothing is queued for a connection not in its select loop yet.  *)
PushIfOpen(h) ==
  /\ task[h].step = "push"
  /\ rx' = IF registry = 0 \/ phase[registry] # "open" THEN rx
           ELSE [rx EXCEPT ![registry] = Append(@, task[h].msg)]
  /\ task' = [task EXCEPT ![h] = Idle]
  /\ UNCHANGED <<dbVars, registry, sessionVars, nodeVars, changes, faults,
                 excused>>

(* push_to_node: dropped when no connection is registered.                 *)
PushToNode(h) ==
  /\ task[h].step = "push"
  /\ rx' = IF registry = 0 THEN rx
           ELSE [rx EXCEPT ![registry] = Append(@, task[h].msg)]
  /\ task' = [task EXCEPT ![h] = Idle]
  /\ UNCHANGED <<dbVars, registry, sessionVars, nodeVars, changes, faults,
                 excused>>

(* The client goes away or a query fails: the handler ends where it is, a  *)
(* committed change is not pushed.                                         *)
CancelHandler(h) ==
  /\ task[h] # Idle
  /\ Fault
  /\ task' = [task EXCEPT ![h] = Idle]
  /\ excused' = IF task[h].step = "push" /\ task[h].msg.kind # "sync"
                THEN excused \cup {task[h].msg.cam} ELSE excused
  /\ UNCHANGED <<dbVars, registry, sessionVars, rx, nodeVars, changes>>

-----------------------------------------------------------------------------
(* handle_socket, one task per connection                                  *)

RegisterNode(s) ==
  /\ phase[s] = "accepted"
  /\ registry' = s
  /\ phase' = [phase EXCEPT ![s] = "registered"]
  /\ UNCHANGED <<dbVars, task, snap, net, rx, nodeVars, changes, faults,
                 excused>>

(* History: a list fetched for the node's own connection puts right every  *)
(* camera that no message under way will touch again.                      *)
StillWrong(s) ==
  {c \in excused : \/ \E h \in Handlers : /\ task[h].step = "push"
                                          /\ Concerns(task[h].msg, c)
                   \/ \E i \in DOMAIN rx[s] : Concerns(rx[s][i], c)}

(* fetch_node_cameras; a database error makes it an empty list.            *)
FetchNodeCameras(s) ==
  /\ phase[s] = "registered"
  /\ phase' = [phase EXCEPT ![s] = "fetched"]
  /\ \/ /\ snap' = [snap EXCEPT ![s] = db]
        /\ excused' = IF s = nodeConn THEN StillWrong(s) ELSE excused
        /\ UNCHANGED faults
     \/ /\ Fault
        /\ snap' = [snap EXCEPT ![s] = NoCameras]
        /\ excused' = Cameras
  /\ UNCHANGED <<dbVars, task, registry, rx, net, nodeVars, changes>>

(* What the sink accepts reaches a working connection.                     *)
Transmit(s, msg) ==
  net' = IF alive[s] THEN [net EXCEPT ![s] = Append(@, msg)] ELSE net

SendConfigSync(s) ==
  /\ phase[s] = "fetched"
  /\ Transmit(s, [kind |-> "sync", list |-> snap[s]])
  /\ phase' = [phase EXCEPT ![s] = "open"]
  /\ snap' = [snap EXCEPT ![s] = NoCameras]
  /\ UNCHANGED <<dbVars, task, registry, rx, nodeVars, changes, faults,
                 excused>>

(* The select loop forwards what was pushed; on a broken connection the    *)
(* message is gone and the send may fail.                                  *)
Forward(s) ==
  /\ phase[s] = "open"
  /\ rx[s] # <<>>
  /\ rx' = [rx EXCEPT ![s] = Tail(@)]
  /\ Transmit(s, Head(rx[s]))
  /\ \/ UNCHANGED phase
     \/ ~alive[s] /\ phase' = [phase EXCEPT ![s] = "closing"]
  /\ UNCHANGED <<dbVars, task, registry, snap, nodeVars, changes, faults,
                 excused>>

(* The stream ends or fails: the loop is left.                             *)
EndStream(s) ==
  /\ phase[s] = "open"
  /\ ~alive[s]
  /\ phase' = [phase EXCEPT ![s] = "closing"]
  /\ UNCHANGED <<dbVars, task, registry, snap, net, rx, nodeVars, changes,
                 faults, excused>>

(* Whatever connection the registry holds for the node is removed.         *)
Teardown(s) ==
  /\ phase[s] = "closing"
  /\ registry' = 0
  /\ phase' = [phase EXCEPT ![s] = "gone"]
  /\ rx' = [rx EXCEPT ![s] = <<>>]
  /\ UNCHANGED <<dbVars, task, snap, net, nodeVars, changes, faults, excused>>

-----------------------------------------------------------------------------
(* The node                                                                *)

(* The coordinator's authenticate refuses a rejected or deleted node only. *)
Connect ==
  /\ nodeConn = 0
  /\ session + 1 \in Sessions
  /\ status \in {"pending", "approved"}
  /\ session' = session + 1
  /\ nodeConn' = session + 1
  /\ alive' = [alive EXCEPT ![session + 1] = TRUE]
  /\ phase' = [phase EXCEPT ![session + 1] = "accepted"]
  /\ UNCHANGED <<dbVars, task, registry, snap, net, rx, list, changes, faults,
                 excused>>

(* handle_incoming: the list after a message.  An update of a camera the   *)
(* node does not know changes nothing.                                     *)
HandleIncoming(msg) ==
  CASE msg.kind = "sync" -> msg.list
    [] msg.kind = "added" -> [list EXCEPT ![msg.cam] = msg.ver]
    [] msg.kind = "updated" -> [list EXCEPT ![msg.cam] =
                                  IF @ = 0 THEN 0 ELSE msg.ver]
    [] msg.kind = "removed" -> [list EXCEPT ![msg.cam] = 0]

Receive ==
  /\ nodeConn # 0
  /\ net[nodeConn] # <<>>
  /\ list' = HandleIncoming(Head(net[nodeConn]))
  /\ net' = [net EXCEPT ![nodeConn] = Tail(@)]
  /\ UNCHANGED <<dbVars, task, registry, phase, snap, rx, alive, nodeConn,
                 session, changes, faults, excused>>

(* connect_and_run returns; the node keeps its list.                       *)
Disconnect ==
  /\ nodeConn # 0
  /\ ~alive[nodeConn]
  /\ nodeConn' = 0
  /\ net' = [net EXCEPT ![nodeConn] = <<>>]
  /\ UNCHANGED <<dbVars, task, registry, phase, snap, rx, alive, session,
                 list, changes, faults, excused>>

-----------------------------------------------------------------------------
(* Faults                                                                  *)

(* The network breaks the connection; the two ends notice it separately,   *)
(* and the coordinator perhaps never.                                      *)
BreakLink ==
  /\ nodeConn # 0
  /\ alive[nodeConn]
  /\ Fault
  /\ alive' = [alive EXCEPT ![nodeConn] = FALSE]
  /\ UNCHANGED <<dbVars, task, registry, sessionVars, rx, nodeConn, session,
                 list, changes, excused>>

(* The node process dies and is started again.                             *)
CrashNode ==
  /\ Fault
  /\ list' = NoCameras
  /\ nodeConn' = 0
  /\ IF nodeConn = 0 THEN UNCHANGED <<alive, net>>
     ELSE /\ alive' = [alive EXCEPT ![nodeConn] = FALSE]
          /\ net' = [net EXCEPT ![nodeConn] = <<>>]
  /\ UNCHANGED <<dbVars, task, registry, phase, snap, rx, session, changes,
                 excused>>

(* The coordinator dies and is started again: its handlers, its registry   *)
(* and every connection with it.                                           *)
CrashCoordinator ==
  /\ Fault
  /\ task' = [h \in Handlers |-> Idle]
  /\ registry' = 0
  /\ phase' = [s \in Sessions |-> IF phase[s] = "none" THEN "none" ELSE "gone"]
  /\ snap' = [s \in Sessions |-> NoCameras]
  /\ rx' = [s \in Sessions |-> <<>>]
  /\ alive' = [s \in Sessions |-> FALSE]
  /\ UNCHANGED <<dbVars, net, nodeConn, session, list, changes, excused>>

-----------------------------------------------------------------------------
Handler(h) ==
  \/ CheckCapacity(h) \/ InsertCamera(h) \/ FetchForSync(h) \/ PushToNode(h)

Request(h) ==
  \/ ResolveNode(h)
  \/ \E c \in Cameras : UpdateCamera(h, c) \/ DeleteCamera(h, c)
  \/ \E st \in {"pending", "approved", "rejected"} : UpdateNodeStatus(h, st)
  \/ DeleteNode(h)

Socket(s) == \/ RegisterNode(s) \/ FetchNodeCameras(s) \/ SendConfigSync(s)
             \/ Forward(s) \/ Teardown(s)

Next ==
  \/ \E h \in Handlers : Request(h) \/ Handler(h) \/ CancelHandler(h)
  \/ \E s \in Sessions : Socket(s) \/ EndStream(s)
  \/ Connect \/ Receive \/ Disconnect
  \/ BreakLink \/ CrashNode \/ CrashCoordinator

Spec == Init /\ [][Next]_vars

(* Handlers and connection tasks keep running, and the node's client keeps *)
(* connecting.  The coordinator sends nothing to find out whether an idle  *)
(* connection still works, so EndStream is never due.                      *)
Fairness ==
  /\ \A h \in Handlers : WF_vars(Handler(h))
  /\ \A s \in Sessions : WF_vars(Socket(s))
  /\ WF_vars(Connect) /\ WF_vars(Receive) /\ WF_vars(Disconnect)

FairSpec == Spec /\ Fairness

-----------------------------------------------------------------------------
DatabaseType ==
  /\ status \in {"pending", "approved", "rejected", "deleted"}
  /\ db \in CameraList
  /\ born \in SUBSET Cameras
  /\ task \in [Handlers -> Task]

SocketType ==
  /\ registry \in 0..(MaxFaults + 1)
  /\ phase \in [Sessions -> {"none", "accepted", "registered", "fetched",
                             "open", "closing", "gone"}]
  /\ snap \in [Sessions -> CameraList]
  /\ rx \in [Sessions -> Seq(Message)]

NodeType ==
  /\ net \in [Sessions -> Seq(Message)]
  /\ alive \in [Sessions -> BOOLEAN]
  /\ nodeConn \in 0..(MaxFaults + 1)
  /\ session \in 0..(MaxFaults + 1)
  /\ list \in CameraList

CountType ==
  /\ changes \in 0..MaxChanges
  /\ faults \in 0..MaxFaults
  /\ excused \in SUBSET Cameras

TypeOK == DatabaseType /\ SocketType /\ NodeType /\ CountType

(* Nothing about c is under way: no handler has a message to push, none    *)
(* waits in the connection's queue or on the wire.                         *)
Quiet(c) ==
  /\ \A h \in Handlers : task[h].step = "push" => ~Concerns(task[h].msg, c)
  /\ \A i \in DOMAIN rx[nodeConn] : ~Concerns(rx[nodeConn][i], c)
  /\ \A i \in DOMAIN net[nodeConn] : ~Concerns(net[nodeConn][i], c)

(* The node's own connection is the registered one and in its loop.        *)
Served == /\ nodeConn # 0
          /\ alive[nodeConn]
          /\ registry = nodeConn
          /\ phase[nodeConn] = "open"

(* Registering before fetching the snapshot, and sending the snapshot      *)
(* before anything pushed, loses no change: once nothing about a camera is *)
(* under way to a served node, the node has the row of the database.  The  *)
(* cameras excused are those that two concurrent requests changed, whose   *)
(* request was cut off before its push, or that a failed fetch or the      *)
(* deletion of the node left behind, until a reconnection puts them right. *)
ServedNodeFollows ==
  Served => \A c \in Cameras \ excused : Quiet(c) => list[c] = db[c]

Inserting == {h \in Handlers : task[h].step = "insert"}

(* Nothing holds the count from CheckCapacity to InsertCamera, so a node   *)
(* may get more cameras than its capacity (CapacityRespected does not      *)
(* hold).  But rows and inserts decided on never pass it by as many as the *)
(* requests served at once: no sequence of requests adds up to more.       *)
OvershootBounded ==
  Cardinality(Rows) + Cardinality(Inserting)
    <= Capacity + Cardinality(Handlers) - 1

(* Every change reaches the node in the end, in the same sense: unless the *)
(* node may not connect or its connection is not registered any more.      *)
EventuallyFollows ==
  \A c \in Cameras :
    <>[](\/ c \in excused
         \/ list[c] = db[c]
         \/ nodeConn = 0 /\ status \in {"rejected", "deleted"}
         \/ nodeConn # 0 /\ registry # nodeConn)

-----------------------------------------------------------------------------
(* What the code's comments say and the program does not do.               *)

(* "Send a WS message to a connected node, silently drops if not           *)
(* connected." (coordinator/src/state.rs:29): while a node's connection    *)
(* works and its task runs its loop, a message pushed to the node is not   *)
(* dropped.                                                                *)
ConnectedIsReachable ==
  (nodeConn # 0 /\ alive[nodeConn] /\ phase[nodeConn] = "open")
    => registry # 0

(* "Hard-check that adding one more camera to `node_id` won't exceed the   *)
(* 64-camera cap." (coordinator/src/routes/cameras.rs:99)                  *)
CapacityRespected == Cardinality(Rows) <= Capacity
=============================================================================
