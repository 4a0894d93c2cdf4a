--------------------------- MODULE TieredStorage ---------------------------
(***************************************************************************)
(* Where the data of a segment is and what the coordinator's row says of   *)
(* it: the migration of old files to S3 (node/src/storage/mod.rs), the     *)
(* disk watchdog (node/src/recorder/watchdog.rs), the update of the row    *)
(* (coordinator/src/routes/node_ws.rs) and the retention enforcer          *)
(* (coordinator/src/retention.rs), all of which work on the same files and *)
(* rows without a lock and tell one another by messages that may be lost.  *)
(*                                                                         *)
(* How a segment gets its row is SegmentDelivery's subject: here its entry *)
(* is queued or not, and a flush sends all entries queued.  `adrift` is a  *)
(* history variable: no action reads it.                                   *)
(***************************************************************************)
EXTENDS Naturals, Sequences, FiniteSets, Functions

CONSTANTS Segments,        \* segment files
          MaxFaults,       \* bound: broken connections, crashes, errors
          Nobody           \* "the migration holds no segment"

ASSUME StorageAssumption ==
  IsFiniteSet(Segments) /\ MaxFaults \in Nat /\ Nobody \notin Segments

(* The age of a segment decides what may be done with it: its file is      *)
(* being written, is complete, is past S3_MIGRATE_AFTER_HOURS, or past the *)
(* days its retention policy keeps it.                                     *)
Ages == {"future", "open", "closed", "old", "expired"}

(* A message of the node, and an entry of the enforcer's batch: the row's  *)
(* URI is local:// or s3://.                                               *)
NodeMessage == [kind: {"complete", "migrated"}, seg: Segments]
Expired == [seg: Segments, uri: {"local", "s3"}]

(* Why a row may say local:// of a file that is not there.                 *)
Causes == {"culled",       \* the watchdog deleted the file
           "deleted",      \* DeleteRecording deleted the file
           "expired",      \* the row had gone, its entry came once more
           "crash",        \* SegmentMigrated was in memory only
           "link",         \* SegmentMigrated was lost with the connection
           "unindexed",    \* SegmentMigrated came before the row
           "database"}     \* the UPDATE failed

Sessions == 1..(MaxFaults + 1)

VARIABLES
  age,         \* of each segment
  file,        \* the file on the node: "none", "present" or "removed"
  object,      \* the object in S3: "none", "part" or "whole"
  row,         \* the row's storage_uri: "none", "local" or "s3"
  queue,       \* segments in the durable queue of the node
  migPc,       \* the migration task
  candidates,  \* files its pass has still to migrate
  current,     \* the one it is migrating
  body,        \* what it has read of it
  channel,     \* migrations the WebSocket client has not sent yet
  wsPc,        \* the client: "down", "flush" (on connecting) or "idle"
  link,        \* its connection: "down", "up" or "half" (broken)
  session,     \* number of connections made so far
  wire,        \* per connection, messages the coordinator has to handle
  deletions,   \* DeleteRecording messages on the way to the node
  expired,     \* what the enforcer's pass has still to delete
  faults,      \* number of faults so far
  adrift       \* history: segments whose row may be wrong, and why

migVars == <<migPc, candidates, current, body>>
clientVars == <<wsPc, link, session>>
vars == <<age, file, object, row, queue, migVars, channel, clientVars, wire,
          deletions, expired, faults, adrift>>

Fault == /\ faults < MaxFaults
         /\ faults' = faults + 1

Adrift(segs, cause) == adrift' = adrift \cup [seg: segs, cause: {cause}]

Init ==
  /\ age = [g \in Segments |-> "future"]
  /\ file = [g \in Segments |-> "none"]
  /\ object = [g \in Segments |-> "none"]
  /\ row = [g \in Segments |-> "none"]
  /\ queue = {}
  /\ migPc = "wait"
  /\ candidates = {}
  /\ current = Nobody
  /\ body = "none"
  /\ channel = <<>>
  /\ wsPc = "down"
  /\ link = "down"
  /\ session = 0
  /\ wire = [s \in Sessions |-> <<>>]
  /\ deletions = <<>>
  /\ expired = {}
  /\ faults = 0
  /\ adrift = {}

-----------------------------------------------------------------------------
(* Time, MediaMTX and the recorder                                         *)

(* The recorder may queue an entry for the creation of a file already.     *)
StartFile(g) ==
  /\ age[g] = "future"
  /\ age' = [age EXCEPT ![g] = "open"]
  /\ file' = [file EXCEPT ![g] = "present"]
  /\ queue' \in {queue, queue \cup {g}}
  /\ UNCHANGED <<object, row, migVars, channel, clientVars, wire,
                 deletions, expired, faults, adrift>>

(* The recorder queues the finished segment, or misses it.                 *)
FinishFile(g) ==
  /\ age[g] = "open"
  /\ age' = [age EXCEPT ![g] = "closed"]
  /\ queue' \in {queue, queue \cup {g}}
  /\ UNCHANGED <<file, object, row, migVars, channel, clientVars, wire,
                 deletions, expired, faults, adrift>>

GrowOld(g) ==
  /\ \/ age[g] = "closed" /\ age' = [age EXCEPT ![g] = "old"]
     \/ age[g] = "old" /\ age' = [age EXCEPT ![g] = "expired"]
  /\ UNCHANGED <<file, object, row, queue, migVars, channel, clientVars, wire,
                 deletions, expired, faults, adrift>>

(* cull_until, when the disk is too full: the oldest files first, but one  *)
(* that cannot be deleted is passed over.  Nobody is told.                 *)
Cull(g) ==
  /\ file[g] = "present"
  /\ file' = [file EXCEPT ![g] = "removed"]
  /\ Adrift({g}, "culled")
  /\ UNCHANGED <<age, object, row, queue, migVars, channel, clientVars, wire,
                 deletions, expired, faults>>

-----------------------------------------------------------------------------
(* The migration task: migrate_pass, one file after the other              *)

(* Mutant: every file is a candidate.                                      *)
StartPassAnyAge ==
  /\ migPc = "wait"
  /\ candidates' = {g \in Segments : file[g] = "present"}
  /\ candidates' # {}
  /\ migPc' = "pick"
  /\ UNCHANGED <<age, file, object, row, queue, current, body, channel,
                 clientVars, wire, deletions, expired, faults, adrift>>

StartPass ==
  /\ migPc = "wait"
  /\ candidates' = {g \in Segments : /\ file[g] = "present"
                                     /\ age[g] \in {"old", "expired"}}
  /\ candidates' # {}
  /\ migPc' = "pick"
  /\ UNCHANGED <<age, file, object, row, queue, current, body, channel,
                 clientVars, wire, deletions, expired, faults, adrift>>

(* A candidate is read; one removed meanwhile is an error, logged.         *)
ReadFile(g) ==
  /\ migPc = "pick"
  /\ g \in candidates
  /\ candidates' = candidates \ {g}
  /\ IF file[g] = "present"
     THEN /\ current' = g
          /\ body' = IF age[g] = "open" THEN "part" ELSE "whole"
          /\ migPc' = "put"
     ELSE UNCHANGED <<current, body, migPc>>
  /\ UNCHANGED <<age, file, object, row, queue, channel, clientVars, wire,
                 deletions, expired, faults, adrift>>

EndPass ==
  /\ migPc = "pick"
  /\ candidates = {}
  /\ migPc' = "wait"
  /\ UNCHANGED <<age, file, object, row, queue, candidates, current, body,
                 channel, clientVars, wire, deletions, expired, faults, adrift>>

PutObject ==
  /\ migPc = "put"
  /\ object' = [object EXCEPT ![current] = body]
  /\ migPc' = "notify"
  /\ UNCHANGED <<age, file, row, queue, candidates, current, body, channel,
                 clientVars, wire, deletions, expired, faults, adrift>>

(* Mutant: the response's status is not looked at.                         *)
PutUnchecked ==
  /\ migPc = "put"
  /\ Fault
  /\ object' \in {object, [object EXCEPT ![current] = body]}
  /\ migPc' = "notify"
  /\ UNCHANGED <<age, file, row, queue, candidates, current, body, channel,
                 clientVars, wire, deletions, expired, adrift>>

(* Mutant: a failed upload ends the migration task.                        *)
PutFailsForGood ==
  /\ migPc = "put"
  /\ Fault
  /\ object' \in {object, [object EXCEPT ![current] = body]}
  /\ migPc' = "ended"
  /\ current' = Nobody
  /\ body' = "none"
  /\ UNCHANGED <<age, file, row, queue, candidates, channel, clientVars, wire,
                 deletions, expired, adrift>>

(* The PUT fails, or its answer is lost: the next pass tries again.        *)
PutFails ==
  /\ migPc = "put"
  /\ Fault
  /\ object' \in {object, [object EXCEPT ![current] = body]}
  /\ migPc' = "pick"
  /\ current' = Nobody
  /\ body' = "none"
  /\ UNCHANGED <<age, file, row, queue, candidates, channel, clientVars, wire,
                 deletions, expired, adrift>>

(* Mutant: the message carries the file, not its identifier.               *)
NotifyBody ==
  /\ migPc = "notify"
  /\ channel' = Append(channel, body)
  /\ migPc' = "remove"
  /\ UNCHANGED <<age, file, object, row, queue, candidates, current, body,
                 clientVars, wire, deletions, expired, faults, adrift>>

Notify ==
  /\ migPc = "notify"
  /\ channel' = Append(channel, current)
  /\ migPc' = "remove"
  /\ adrift' = {a \in adrift : a.seg # current}
  /\ UNCHANGED <<age, file, object, row, queue, candidates, current, body,
                 clientVars, wire, deletions, expired, faults>>

(* remove_file fails only on a file removed before.                        *)
RemoveFile ==
  /\ migPc = "remove"
  /\ file' = [file EXCEPT ![current] = "removed"]
  /\ migPc' = "pick"
  /\ current' = Nobody
  /\ body' = "none"
  /\ UNCHANGED <<age, object, row, queue, candidates, channel, clientVars,
                 wire, deletions, expired, faults, adrift>>

-----------------------------------------------------------------------------
(* The WebSocket client of the node                                        *)

Connect ==
  /\ wsPc = "down"
  /\ wsPc' = "flush"
  /\ link' = "up"
  /\ session' = session + 1
  /\ deletions' = <<>>
  /\ UNCHANGED <<age, file, object, row, queue, migVars, channel, wire,
                 expired, faults, adrift>>

(* What the socket accepts on a broken connection is lost.                 *)
Transmit(msgs) ==
  wire' = IF link = "up" THEN [wire EXCEPT ![session] = @ \o msgs] ELSE wire

(* flush_queue, on connecting and later: the entries are sent in some      *)
(* order and removed; or some send or the removal fails, and all entries   *)
(* are kept and sent again.                                                *)
FlushQueue ==
  /\ wsPc = "flush" \/ (wsPc = "idle" /\ queue # {})
  /\ \E order \in [1..Cardinality(queue) -> queue] :
       /\ IsInjective(order)
       /\ Transmit([i \in DOMAIN order |-> [kind |-> "complete",
                                            seg |-> order[i]]])
  /\ \/ queue' = {} /\ UNCHANGED faults
     \/ link = "half" /\ UNCHANGED <<queue, faults>>
     \/ queue # {} /\ Fault /\ UNCHANGED queue
  /\ wsPc' = "idle"
  /\ UNCHANGED <<age, file, object, row, migVars, channel, link, session,
                 deletions, expired, adrift>>

(* A migration is taken from the channel; an error of the send is ignored. *)
SendMigrated ==
  /\ wsPc = "idle"
  /\ channel # <<>>
  /\ channel' = Tail(channel)
  /\ Transmit(<<[kind |-> "migrated", seg |-> Head(channel)]>>)
  /\ IF link = "up" THEN UNCHANGED adrift ELSE Adrift({Head(channel)}, "link")
  /\ UNCHANGED <<age, file, object, row, queue, migVars, clientVars, deletions,
                 expired, faults>>

(* handle_incoming deletes the file of a local URI and ignores any other.  *)
HandleDeletion ==
  /\ wsPc = "idle"
  /\ deletions # <<>>
  /\ deletions' = Tail(deletions)
  /\ LET x == Head(deletions) IN
       IF x.uri = "local" /\ file[x.seg] = "present"
       THEN /\ file' = [file EXCEPT ![x.seg] = "removed"]
            /\ Adrift({x.seg}, "deleted")
       ELSE UNCHANGED <<file, adrift>>
  /\ UNCHANGED <<age, object, row, queue, migVars, channel, clientVars, wire,
                 expired, faults>>

Disconnect ==
  /\ wsPc = "idle"
  /\ link = "half"
  /\ wsPc' = "down"
  /\ link' = "down"
  /\ deletions' = <<>>
  /\ UNCHANGED <<age, file, object, row, queue, migVars, channel, session,
                 wire, expired, faults, adrift>>

-----------------------------------------------------------------------------
(* The coordinator                                                         *)

(* index_segment: a row that exists is left alone.                         *)
HandleComplete(s) ==
  /\ wire[s] # <<>>
  /\ Head(wire[s]).kind = "complete"
  /\ wire' = [wire EXCEPT ![s] = Tail(@)]
  /\ \/ /\ row' = [row EXCEPT ![Head(wire[s]).seg] =
                     IF @ = "none" THEN "local" ELSE @]
        /\ UNCHANGED faults
     \/ Fault /\ UNCHANGED row
  /\ UNCHANGED <<age, file, object, queue, migVars, channel, clientVars,
                 deletions, expired, adrift>>

(* update_segment_uri: no row, or a failed UPDATE, is logged and forgotten.*)
HandleMigrated(s) ==
  /\ wire[s] # <<>>
  /\ Head(wire[s]).kind = "migrated"
  /\ wire' = [wire EXCEPT ![s] = Tail(@)]
  /\ LET g == Head(wire[s]).seg IN
       \/ /\ row[g] # "none"
          /\ row' = [row EXCEPT ![g] = "s3"]
          /\ UNCHANGED <<faults, adrift>>
       \/ /\ row[g] = "none"
          /\ Adrift({g}, "unindexed")
          /\ UNCHANGED <<row, faults>>
       \/ /\ Fault
          /\ Adrift({g}, "database")
          /\ UNCHANGED row
  /\ UNCHANGED <<age, file, object, queue, migVars, channel, clientVars,
                 deletions, expired>>

(* Mutant: only rows with a local URI are looked for.                      *)
QueryLocal ==
  /\ expired = {}
  /\ expired' = {x \in Expired : /\ age[x.seg] = "expired"
                                 /\ row[x.seg] = x.uri
                                 /\ x.uri = "local"}
  /\ expired' # {}
  /\ UNCHANGED <<age, file, object, row, queue, migVars, channel, clientVars,
                 wire, deletions, faults, adrift>>

(* Mutant: every row older than the migration's age is selected.           *)
QueryOld ==
  /\ expired = {}
  /\ expired' = {x \in Expired : /\ age[x.seg] \in {"old", "expired"}
                                 /\ row[x.seg] = x.uri}
  /\ expired' # {}
  /\ UNCHANGED <<age, file, object, row, queue, migVars, channel, clientVars,
                 wire, deletions, faults, adrift>>

(* query_expired; a database error makes it an empty pass.                 *)
QueryExpired ==
  /\ expired = {}
  /\ expired' = {x \in Expired : age[x.seg] = "expired" /\ row[x.seg] = x.uri}
  /\ expired' # {}
  /\ UNCHANGED <<age, file, object, row, queue, migVars, channel, clientVars,
                 wire, deletions, faults, adrift>>

(* delete_and_notify: the row is deleted or, with an error ignored, not.   *)
(* The node is told in both cases, if the registry has its connection.     *)
DeleteAndNotify(x) ==
  /\ x \in expired
  /\ expired' = expired \ {x}
  /\ \/ /\ row' = [row EXCEPT ![x.seg] = "none"]
        /\ Adrift({x.seg}, "expired")
        /\ UNCHANGED faults
     \/ Fault /\ UNCHANGED <<row, adrift>>
  /\ \/ link = "up" /\ deletions' = Append(deletions, x)
     \/ UNCHANGED deletions
  /\ UNCHANGED <<age, file, object, queue, migVars, channel, clientVars, wire>>

-----------------------------------------------------------------------------
(* Faults                                                                  *)

BreakLink ==
  /\ link = "up"
  /\ Fault
  /\ link' = "half"
  /\ UNCHANGED <<age, file, object, row, queue, migVars, channel, wsPc,
                 session, wire, deletions, expired, adrift>>

(* What the coordinator had still to handle on a broken connection.        *)
MigratedOnWire(s) == {m.seg : m \in {n \in Range(wire[s]) : n.kind = "migrated"}}

LoseWire(s) ==
  /\ wire[s] # <<>>
  /\ s # session \/ link # "up"
  /\ wire' = [wire EXCEPT ![s] = <<>>]
  /\ Adrift(MigratedOnWire(s), "link")
  /\ UNCHANGED <<age, file, object, row, queue, migVars, channel, clientVars,
                 deletions, expired, faults>>

(* The node process dies and is started again.                             *)
CrashNode ==
  /\ Fault
  /\ migPc' = "wait"
  /\ candidates' = {}
  /\ current' = Nobody
  /\ body' = "none"
  /\ channel' = <<>>
  /\ wsPc' = "down"
  /\ link' = "down"
  /\ deletions' = <<>>
  /\ Adrift(Range(channel), "crash")
  /\ UNCHANGED <<age, file, object, row, queue, session, wire, expired>>

-----------------------------------------------------------------------------
Migration == \/ StartPass \/ EndPass \/ PutObject \/ Notify \/ RemoveFile
             \/ \E g \in Segments : ReadFile(g)

Next ==
  \/ \E g \in Segments : StartFile(g) \/ FinishFile(g) \/ GrowOld(g) \/ Cull(g)
  \/ Migration \/ PutFails
  \/ Connect \/ FlushQueue \/ SendMigrated \/ HandleDeletion \/ Disconnect
  \/ \E s \in Sessions : HandleComplete(s) \/ HandleMigrated(s) \/ LoseWire(s)
  \/ QueryExpired
  \/ \E x \in Expired : DeleteAndNotify(x)
  \/ BreakLink \/ CrashNode

Spec == Init /\ [][Next]_vars

(* The tasks keep running, each branch of the client's select loop is      *)
(* taken in the end, and the enforcer's interval keeps ticking.            *)
Fairness ==
  /\ WF_vars(Migration)
  /\ WF_vars(Connect) /\ WF_vars(FlushQueue) /\ WF_vars(Disconnect)
  /\ WF_vars(SendMigrated) /\ WF_vars(HandleDeletion)
  /\ \A s \in Sessions : WF_vars(HandleComplete(s) \/ HandleMigrated(s))
  /\ WF_vars(QueryExpired) /\ WF_vars(\E x \in Expired : DeleteAndNotify(x))

FairSpec == Spec /\ Fairness

-----------------------------------------------------------------------------
FilesType ==
  /\ age \in [Segments -> Ages]
  /\ file \in [Segments -> {"none", "present", "removed"}]
  /\ object \in [Segments -> {"none", "part", "whole"}]
  /\ queue \in SUBSET Segments

MigrationType ==
  /\ migPc \in {"wait", "pick", "put", "notify", "remove"}
  /\ candidates \in SUBSET Segments
  /\ current \in Segments \cup {Nobody}
  /\ body \in {"none", "part", "whole"}
  /\ migPc \in {"put", "notify", "remove"} <=> current # Nobody

ClientType ==
  /\ channel \in Seq(Segments)
  /\ wsPc \in {"down", "flush", "idle"}
  /\ link \in {"down", "up", "half"}
  /\ session \in Nat
  /\ deletions \in Seq(Expired)

CoordinatorType ==
  /\ row \in [Segments -> {"none", "local", "s3"}]
  /\ wire \in [Sessions -> Seq(NodeMessage)]
  /\ expired \in SUBSET Expired

HistoryType ==
  /\ faults \in 0..MaxFaults
  /\ adrift \in SUBSET [seg: Segments, cause: Causes]

TypeOK == /\ FilesType
          /\ MigrationType
          /\ ClientType
          /\ CoordinatorType
          /\ HistoryType

(* Why a segment is adrift, and whether the news of its migration is       *)
(* still on the way to its row.                                            *)
Because(g, causes) == \E a \in adrift : a.seg = g /\ a.cause \in causes
News(g) == \/ g \in Range(channel)
           \/ \E s \in Sessions : g \in MigratedOnWire(s)

(* The migration never destroys data: a file that is gone is whole in S3,  *)
(* or the watchdog or the retention deleted it.  This holds however the    *)
(* three interleave on one file, and through failed uploads and crashes.   *)
MigrationKeepsData ==
  \A g \in Segments :
    file[g] = "removed" =>
      object[g] = "whole" \/ Because(g, {"culled", "deleted"})

(* A row leads to the data: an s3:// URI to a complete object, a local://  *)
(* URI to a file, unless the news of its migration is on the way or was    *)
(* lost, or the file was deleted, in a named way.                          *)
RowLeadsToData ==
  \A g \in Segments :
    /\ row[g] = "s3" => object[g] = "whole"
    /\ row[g] = "local" =>
         file[g] = "present" \/ News(g) \/ Because(g, Causes)

(* The row of an expired recording goes in the end, whatever its URI and   *)
(* however late its entry arrived.                                         *)
ExpiredRowsGo ==
  \A g \in Segments : <>[](age[g] = "expired" => row[g] = "none")

(* A failed upload is tried again: a file past the age leaves the disk.    *)
OldFilesLeave ==
  \A g \in Segments : age[g] = "old" ~> file[g] = "removed"

(* The two tiers implement the abstract store: an upload that failed, was  *)
(* cut short or is repeated never replaces an object, a row goes from      *)
(* local:// to s3:// over data that is there and never back, and the       *)
(* enforcer deletes the rows of expired segments only, however long before *)
(* it selected them.                                                       *)
Place(g) ==
  CASE file[g] = "none" -> "nowhere"
    [] file[g] = "present" /\ object[g] # "whole" -> "node"
    [] file[g] = "present" /\ object[g] = "whole" -> "both"
    [] file[g] = "removed" /\ object[g] # "whole" -> "lost"
    [] file[g] = "removed" /\ object[g] = "whole" -> "s3"
Store == INSTANCE SegmentStore
           WITH data <- [g \in Segments |-> Place(g)],
                past <- {g \in Segments : age[g] = "expired"}
ImplementsSegmentStore == Store!Spec

-----------------------------------------------------------------------------
(* "The coordinator serves migrated segments via presigned redirect"       *)
(* (docs/deployment.md:234): once the migration has uploaded and deleted a *)
(* file, and no news of it is on the way, the row is not local any more.   *)
MigratedIsServed ==
  \A g \in Segments :
    /\ file[g] = "removed"
    /\ ~Because(g, {"culled", "deleted"})
    /\ current # g
    /\ ~News(g)
    => row[g] # "local"
=============================================================================
