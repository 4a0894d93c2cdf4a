---------------------------- MODULE NodePresence ----------------------------
(***************************************************************************)
(* What the coordinator tells of a node: the address its connection task   *)
(* stores and the announcements it makes (handle_socket in coordinator/    *)
(* src/routes/node_ws.rs, broadcast_dashboard in state.rs), and how        *)
(* browsers receive them (routes/dashboard_ws.rs and the web interface's   *)
(* useStatusWs.ts).                                                        *)
(*                                                                         *)
(* A node that reconnects has two connection tasks for a while, and each   *)
(* goes at its own pace.  The registry and the camera lists of the same    *)
(* tasks are in NodeSession.  `late`, `blind` and `misled` are history      *)
(* variables.                                                              *)
(***************************************************************************)
EXTENDS Naturals, Sequences

CONSTANTS Addresses,      \* where the node may be
          Browsers,
          MaxConnects,    \* bound: connections of the node
          MaxVisits       \* bound: times a browser opens its WebSocket or gets
                          \* no snapshot, and crashes of the coordinator

ASSUME PresenceAssumption == MaxConnects \in Nat /\ MaxVisits \in Nat

Connections == 1..MaxConnects

VARIABLES
  at,        \* the address of the node
  conn,      \* the connection the node uses, 0 if none
  connects,  \* number of connections so far
  from,      \* the peer address of each connection
  stage,     \* how far the task of each connection is
  ipAddr,    \* nodes.ip_addr, or "null"
  listed,    \* whether the node has a row
  feed,      \* how far the WebSocket of each browser is
  inbox,     \* announcements in its channel
  shown,     \* browsers that show the node online
  visits,    \* number of openings and crashes so far
  late,      \* history: the newest address was overwritten or not stored
  blind,     \* history: browsers that may show a connected node offline
  misled     \* history: browsers that got no snapshot of the node

presenceVars == <<at, conn, connects, from, stage, ipAddr, listed, feed, inbox,
                  shown, visits, late, blind, misled>>

PresenceInit ==
  /\ at \in Addresses
  /\ conn = 0
  /\ connects = 0
  /\ from = [c \in Connections |-> at]
  /\ stage = [c \in Connections |-> "none"]
  /\ ipAddr = "null"
  /\ listed = TRUE
  /\ feed = [b \in Browsers |-> "closed"]
  /\ inbox = [b \in Browsers |-> <<>>]
  /\ shown = {}
  /\ visits = 0
  /\ late = FALSE
  /\ blind = {}
  /\ misled = {}

Announced(c) == stage[c] = "open"
Visit == visits < MaxVisits /\ visits' = visits + 1

-----------------------------------------------------------------------------
(* The node and its connections                                            *)

Dial ==
  /\ conn = 0
  /\ listed
  /\ connects < MaxConnects
  /\ connects' = connects + 1
  /\ conn' = connects + 1
  /\ from' = [from EXCEPT ![connects + 1] = at]
  /\ stage' = [stage EXCEPT ![connects + 1] = "accepted"]
  /\ UNCHANGED <<at, ipAddr, listed, feed, inbox, shown, visits, late, blind,
                 misled>>

(* The connection breaks, and the node may come back somewhere else.       *)
LoseLink ==
  /\ conn # 0
  /\ conn' = 0
  /\ at' \in Addresses
  /\ UNCHANGED <<connects, from, stage, ipAddr, listed, feed, inbox, shown,
                 visits, late, blind, misled>>

(* Mutant: the first address is kept.                                      *)
StoresFirstAddress(c) ==
  /\ stage[c] = "accepted"
  /\ stage' = [stage EXCEPT ![c] = "stored"]
  /\ ipAddr' = IF ipAddr = "null" THEN from[c] ELSE ipAddr
  /\ late' = \E d \in Connections :
               d > c /\ stage[d] \notin {"none", "accepted"}
  /\ UNCHANGED <<at, conn, connects, from, listed, feed, inbox, shown, visits,
                 blind, misled>>

(* UPDATE nodes SET ip_addr: behind a proxy, the address it forwards.  An  *)
(* error is ignored, and so is a row that is not there.                    *)
StoreAddress(c) ==
  /\ stage[c] = "accepted"
  /\ stage' = [stage EXCEPT ![c] = "stored"]
  /\ \/ /\ listed
        /\ ipAddr' = from[c]
        /\ late' = \E d \in Connections :
                     d > c /\ stage[d] \notin {"none", "accepted"}
     \/ ipAddr' = ipAddr /\ late' = TRUE
  /\ UNCHANGED <<at, conn, connects, from, listed, feed, inbox, shown, visits,
                 blind, misled>>

(* broadcast_dashboard: into the channel of every browser in the map.      *)
Broadcast(news) ==
  inbox' = [b \in Browsers |-> IF feed[b] = "closed" THEN inbox[b]
                               ELSE Append(inbox[b], news)]

AnnounceOnline(c) ==
  /\ stage[c] = "stored"
  /\ stage' = [stage EXCEPT ![c] = "open"]
  /\ Broadcast("online")
  /\ blind' = {b \in Browsers : feed[b] = "closed"}
  /\ UNCHANGED <<at, conn, connects, from, ipAddr, listed, feed, shown, visits,
                 late, misled>>

(* The select loop is left once the stream ends.                           *)
EndLoop(c) ==
  /\ stage[c] = "open"
  /\ conn # c
  /\ stage' = [stage EXCEPT ![c] = "closing"]
  /\ UNCHANGED <<at, conn, connects, from, ipAddr, listed, feed, inbox, shown,
                 visits, late, blind, misled>>

(* Mutant: a task that has been replaced ends without a word.              *)
EndsSilently(c) ==
  /\ stage[c] = "closing"
  /\ stage' = [stage EXCEPT ![c] = "gone"]
  /\ UNCHANGED <<at, conn, connects, from, ipAddr, listed, feed, inbox, shown,
                 visits, late, blind, misled>>

(* The teardown announces the node offline, whichever connection it has.   *)
AnnounceOffline(c) ==
  /\ stage[c] = "closing"
  /\ stage' = [stage EXCEPT ![c] = "gone"]
  /\ Broadcast("offline")
  /\ blind' = IF \E d \in Connections : Announced(d) THEN Browsers ELSE blind
  /\ UNCHANGED <<at, conn, connects, from, ipAddr, listed, feed, shown, visits,
                 late, misled>>

(* delete_node: the row goes; the connection and its task stay.            *)
UnlistNode ==
  /\ listed
  /\ listed' = FALSE
  /\ ipAddr' = "null"
  /\ UNCHANGED <<at, conn, connects, from, stage, feed, inbox, shown, visits,
                 late, blind, misled>>

-----------------------------------------------------------------------------
(* The browsers                                                            *)

(* handle_dashboard: into the map first ...                                *)
OpenFeed(b) ==
  /\ feed[b] = "closed"
  /\ Visit
  /\ feed' = [feed EXCEPT ![b] = "subscribed"]
  /\ blind' = IF \E c \in Connections : Announced(c) THEN blind \cup {b}
              ELSE blind \ {b}
  /\ UNCHANGED <<at, conn, connects, from, stage, ipAddr, listed, inbox, shown,
                 late, misled>>

(* Mutant: the snapshot drains what has been announced meanwhile.          *)
SnapshotLast(b) ==
  /\ feed[b] = "subscribed"
  /\ feed' = [feed EXCEPT ![b] = "open"]
  /\ shown' = shown \ {b}
  /\ inbox' = [inbox EXCEPT ![b] = <<>>]
  /\ UNCHANGED <<at, conn, connects, from, stage, ipAddr, listed, visits, late,
                 blind, misled>>

(* ... then the snapshot, in which the browser finds no connection state:  *)
(* it shows every node of the list offline, and leaves the others as they  *)
(* are.  If the query fails there is no snapshot.                          *)
SendSnapshot(b) ==
  /\ feed[b] = "subscribed"
  /\ feed' = [feed EXCEPT ![b] = "open"]
  /\ \/ /\ listed
        /\ shown' = shown \ {b}
        /\ misled' = misled \ {b}
        /\ UNCHANGED visits
     \/ /\ IF listed THEN Visit ELSE UNCHANGED visits
        /\ misled' = misled \cup {b}
        /\ UNCHANGED shown
  /\ UNCHANGED <<at, conn, connects, from, stage, ipAddr, listed, inbox, late,
                 blind>>

(* The loop forwards an announcement, and applyMessage shows it.           *)
ShowNews(b) ==
  /\ feed[b] = "open"
  /\ inbox[b] # <<>>
  /\ shown' = IF Head(inbox[b]) = "online" THEN shown \cup {b}
              ELSE shown \ {b}
  /\ inbox' = [inbox EXCEPT ![b] = Tail(@)]
  /\ misled' = misled \ {b}
  /\ UNCHANGED <<at, conn, connects, from, stage, ipAddr, listed, feed, visits,
                 late, blind>>

(* The WebSocket ends; the page keeps what it shows and opens another.     *)
CloseFeed(b) ==
  /\ feed[b] # "closed"
  /\ feed' = [feed EXCEPT ![b] = "closed"]
  /\ inbox' = [inbox EXCEPT ![b] = <<>>]
  /\ UNCHANGED <<at, conn, connects, from, stage, ipAddr, listed, shown,
                 visits, late, blind, misled>>

(* The coordinator dies and starts again: no teardown announces anything.  *)
RestartCoordinator ==
  /\ Visit
  /\ conn' = 0
  /\ stage' = [c \in Connections |-> IF stage[c] = "none" THEN "none"
                                     ELSE "gone"]
  /\ feed' = [b \in Browsers |-> "closed"]
  /\ inbox' = [b \in Browsers |-> <<>>]
  /\ UNCHANGED <<at, connects, from, ipAddr, listed, shown, late, blind,
                 misled>>

-----------------------------------------------------------------------------
PresenceNext ==
  \/ Dial \/ LoseLink \/ UnlistNode \/ RestartCoordinator
  \/ \E c \in Connections : \/ StoreAddress(c) \/ AnnounceOnline(c)
                            \/ EndLoop(c) \/ AnnounceOffline(c)
  \/ \E b \in Browsers : \/ OpenFeed(b) \/ SendSnapshot(b) \/ ShowNews(b)
                         \/ CloseFeed(b)

PresenceSpec == PresenceInit /\ [][PresenceNext]_presenceVars

-----------------------------------------------------------------------------
PresenceTypeOK ==
  /\ at \in Addresses
  /\ conn \in 0..MaxConnects
  /\ connects \in 0..MaxConnects
  /\ from \in [Connections -> Addresses]
  /\ stage \in [Connections -> {"none", "accepted", "stored", "open",
                                "closing", "gone"}]
  /\ ipAddr \in Addresses \cup {"null"}
  /\ listed \in BOOLEAN
  /\ feed \in [Browsers -> {"closed", "subscribed", "open"}]
  /\ inbox \in [Browsers -> Seq({"online", "offline"})]
  /\ shown \in SUBSET Browsers
  /\ visits \in 0..MaxVisits
  /\ late \in BOOLEAN
  /\ blind \in SUBSET Browsers
  /\ misled \in SUBSET Browsers

(* The stored address is where the node is, from the moment its connection *)
(* is announced, however often it moves, while it has a row; the excuses   *)
(* are an older connection's task that stores its own address last and an  *)
(* UPDATE that failed.                                                     *)
AddressIsCurrent ==
  listed /\ conn # 0 /\ stage[conn] \in {"stored", "open"} /\ ~late =>
    ipAddr = at

(* A browser that has read its channel.                                    *)
UpToDate(b) == feed[b] = "open" /\ inbox[b] = <<>>

(* The node is shown online only while the task of a connection is alive,  *)
(* through reconnections of the node and the browser and restarts of the   *)
(* coordinator, which nobody announces; but a browser whose snapshot is    *)
(* missing, or lacks the node since it was deleted, may show what it did.  *)
ShownOnlineIsAlive ==
  \A b \in shown \ misled : UpToDate(b) =>
    \E c \in Connections : stage[c] \in {"open", "closing"}

(* A connected node is shown online, but for two excuses: the browser came *)
(* after the announcement, which the snapshot does not repeat, or the task *)
(* of an older connection announced the node offline after it.             *)
ConnectedIsShown ==
  \A b \in Browsers \ blind :
    UpToDate(b) /\ (\E c \in Connections : Announced(c)) => b \in shown

(* What browsers show of the node agrees with its connection, both ways.   *)
ShownIsTrue == ShownOnlineIsAlive /\ ConnectedIsShown
=============================================================================
