-------------------------- MODULE SegmentDelivery --------------------------
(***************************************************************************)
(* From a segment file on a node to a row of the coordinator's recordings  *)
(* table: the file watcher (node/src/recorder/mod.rs), the durable JSONL   *)
(* queue (node/src/recorder/queue.rs), the flush of the WebSocket client   *)
(* (node/src/ws_client.rs) and the indexing of the coordinator             *)
(* (coordinator/src/routes/node_ws.rs).                                    *)
(*                                                                         *)
(* The recorder, the WebSocket client, the kernel's delayed file writes    *)
(* and one coordinator task per connection run concurrently; connections   *)
(* break, the node crashes and restarts, the coordinator's transactions    *)
(* fail.  `lost` and `unread` are history variables: no action reads them. *)
(***************************************************************************)
EXTENDS Naturals, Sequences, FiniteSets, Functions

CONSTANTS Segments,        \* segment files, one per stream path and start time
          Cameras,         \* cameras of the node
          CameraOf,        \* the camera whose stream path a file lies under
          MaxFaults,       \* bound: connection breaks, crashes and I/O errors
          NoEntry          \* "the recorder holds no entry"

ASSUME CameraAssumption == CameraOf \in [Segments -> Cameras]
ASSUME FaultAssumption == MaxFaults \in Nat

(* A SegmentPayload.  `seg` stands for the identifier, a UUIDv5 of the     *)
(* storage URI, so that both events of a file carry the same one; `size`   *)
(* tells the size of an unfinished file from that of the finished one;     *)
(* `ev`, the event the entry was made for, only tells two entries apart.   *)
Entry == [seg: Segments, ev: {"create", "close"}, size: {"part", "whole"}]

ASSUME NoEntryAssumption == NoEntry \notin Entry

(* Ways in which a finished segment may be missed.                         *)
Causes == {"unwatched",    \* the file was closed while the node was down
           "unknown",      \* its stream path is not in the node's camera list
           "unqueued",     \* the queue file could not be opened or written
           "crash",        \* the node crashed before the queue file had it
           "overtaken",    \* removed with the queue file, never sent
           "link",         \* accepted by the socket, lost with the connection
           "database"}     \* the coordinator's INSERT failed

Sessions == 1..(MaxFaults + 1)

(* A file-system event, an append to the queue file that is under way on   *)
(* the file it was opened on (`linked`: still there; `told`: signalled), a *)
(* line of the queue file, and an item of the history.                     *)
Event == [seg: Segments, ev: {"create", "close"}]
Write == [entry: Entry, linked: BOOLEAN, told: BOOLEAN]
Line == [entry: Entry, late: BOOLEAN]
Loss == [seg: Segments, cause: Causes]

VARIABLES
  file,        \* MediaMTX's files: "absent", "open" or "closed"
  nodeUp,      \* whether the node process runs
  cameras,     \* the camera list shared by the tasks of the node
  events,      \* file-system events the watcher has not handled yet
  recPc,       \* the recorder task, inside handle_segment
  recEntry,    \* the entry it is working on
  writing,     \* appends to the queue file that have not reached it yet
  lines,       \* the lines of the queue file
  notified,    \* whether the flush channel holds a message
  wsPc,        \* the WebSocket client task
  batch,       \* entries flush_queue has read and not sent yet
  taken,       \* number of leading lines the last flush has read
  unread,      \* history: leading lines the last flush could not read
  link,        \* the node's connection: "down", "up", "half" (broken, not
               \* noticed) or "dead" (broken, a send has failed)
  session,     \* number of connections made so far
  wire,        \* per connection, what the coordinator has still to handle
  recordings,  \* coordinator: the row of a segment, "none" or its size
  faults,      \* number of faults so far
  lost         \* history: finished segments that lost a copy, and why

nodeVars == <<nodeUp, cameras, events, recPc, recEntry, writing, notified>>
clientVars == <<wsPc, batch, taken, unread>>
vars == <<file, nodeVars, lines, clientVars, link, session, wire, recordings,
          faults, lost>>

(* The finished segments among a set of entries, with a cause.             *)
Missed(entries, cause) ==
  {[seg |-> e.seg, cause |-> cause] : e \in {x \in entries : x.ev = "close"}}

Fault == /\ faults < MaxFaults
         /\ faults' = faults + 1

Init ==
  /\ file = [g \in Segments |-> "absent"]
  /\ nodeUp = TRUE
  /\ cameras = {}
  /\ events = <<>>
  /\ recPc = "wait"
  /\ recEntry = NoEntry
  /\ writing = {}
  /\ lines = <<>>
  /\ notified = FALSE
  /\ wsPc = "down"
  /\ batch = <<>>
  /\ taken = 0
  /\ unread = 0
  /\ link = "down"
  /\ session = 0
  /\ wire = [s \in Sessions |-> <<>>]
  /\ recordings = [g \in Segments |-> "none"]
  /\ faults = 0
  /\ lost = {}

-----------------------------------------------------------------------------
(* MediaMTX and the file-system watcher                                    *)

(* Creating a file raises Create(File) and closing it Close(Write); the    *)
(* watcher takes both for a complete segment.  It sees neither while the   *)
(* node is down, and nothing looks for the files it missed.                *)
FileEvent(g, ev, from, to) ==
  /\ file[g] = from
  /\ file' = [file EXCEPT ![g] = to]
  /\ IF nodeUp
     THEN /\ events' = Append(events, [seg |-> g, ev |-> ev])
          /\ UNCHANGED lost
     ELSE /\ lost' = lost \cup Missed({[seg |-> g, ev |-> ev]}, "unwatched")
          /\ UNCHANGED events
  /\ UNCHANGED <<nodeUp, cameras, recPc, recEntry, writing, notified, lines,
                 clientVars, link, session, wire, recordings, faults>>

CreateFile(g) == FileEvent(g, "create", "absent", "open")
CloseFile(g) == FileEvent(g, "close", "open", "closed")

-----------------------------------------------------------------------------
(* The recorder task: handle_segment, one file event at a time             *)

(* The event is received and the size of the file, as it is now, is read.  *)
ReceiveEvent ==
  /\ recPc = "wait"
  /\ events # <<>>
  /\ LET e == Head(events) IN
       recEntry' = [seg |-> e.seg, ev |-> e.ev,
                    size |-> IF file[e.seg] = "closed" THEN "whole" ELSE "part"]
  /\ events' = Tail(events)
  /\ recPc' = "lookup"
  /\ UNCHANGED <<file, nodeUp, cameras, writing, notified, lines, clientVars,
                 link, session, wire, recordings, faults, lost>>

(* A file under a stream path the node does not know is skipped for good.  *)
LookUpCamera ==
  /\ recPc = "lookup"
  /\ IF CameraOf[recEntry.seg] \in cameras
     THEN /\ recPc' = "push"
          /\ UNCHANGED <<recEntry, lost>>
     ELSE /\ recPc' = "wait"
          /\ recEntry' = NoEntry
          /\ lost' = lost \cup Missed({recEntry}, "unknown")
  /\ UNCHANGED <<file, nodeUp, cameras, events, writing, notified, lines,
                 clientVars, link, session, wire, recordings, faults>>

(* SegmentQueue::push opens the file, creating it if there is none, and    *)
(* hands the line to a background thread (see WriteLands): it returns      *)
(* before the line is in the file.                                         *)
QueuePush ==
  /\ recPc = "push"
  /\ writing' = writing \cup
                  {[entry |-> recEntry, linked |-> TRUE, told |-> FALSE]}
  /\ recPc' = "signal"
  /\ UNCHANGED <<file, nodeUp, cameras, events, recEntry, notified, lines,
                 clientVars, link, session, wire, recordings, faults, lost>>

(* The queue file cannot be opened: handle_segment returns the error.      *)
QueuePushFails ==
  /\ recPc = "push"
  /\ Fault
  /\ recPc' = "wait"
  /\ recEntry' = NoEntry
  /\ lost' = lost \cup Missed({recEntry}, "unqueued")
  /\ UNCHANGED <<file, nodeUp, cameras, events, writing, notified, lines,
                 clientVars, link, session, wire, recordings>>

(* Mutant: the task does not return to waiting.                            *)
SignalFlushStays ==
  /\ recPc = "signal"
  /\ notified' = TRUE
  /\ recEntry' = NoEntry
  /\ UNCHANGED <<file, nodeUp, cameras, events, recPc, writing, lines,
                 clientVars, link, session, wire, recordings, faults, lost>>

SignalFlush ==
  /\ recPc = "signal"
  /\ notified' = TRUE
  /\ writing' = {IF w.entry = recEntry THEN [w EXCEPT !.told = TRUE] ELSE w :
                   w \in writing}
  /\ recPc' = "wait"
  /\ recEntry' = NoEntry
  /\ UNCHANGED <<file, nodeUp, cameras, events, lines, clientVars, link,
                 session, wire, recordings, faults, lost>>

(* Mutant: the queue file is opened with truncate instead of append.       *)
WriteTruncates(w) ==
  /\ w \in writing
  /\ writing' = writing \ {w}
  /\ lines' = <<[entry |-> w.entry, late |-> w.told]>>
  /\ UNCHANGED <<file, nodeUp, cameras, events, recPc, recEntry, notified,
                 clientVars, link, session, wire, recordings, faults, lost>>

(* A background write reaches the file it was opened on, which may have    *)
(* been removed since.  `late` records that the flush had been signalled   *)
(* before the line was there to be read.                                   *)
WriteLands(w) ==
  /\ w \in writing
  /\ writing' = writing \ {w}
  /\ IF w.linked
     THEN /\ lines' = Append(lines, [entry |-> w.entry, late |-> w.told])
          /\ UNCHANGED lost
     ELSE /\ lost' = lost \cup Missed({w.entry}, "overtaken")
          /\ UNCHANGED lines
  /\ UNCHANGED <<file, nodeUp, cameras, events, recPc, recEntry, notified,
                 clientVars, link, session, wire, recordings, faults>>

(* The background write fails: push has reported success already, nobody   *)
(* hears of the error and the line never reaches the file.                 *)
WriteFails(w) ==
  /\ w \in writing
  /\ Fault
  /\ writing' = writing \ {w}
  /\ lost' = lost \cup Missed({w.entry}, "unqueued")
  /\ UNCHANGED <<file, nodeUp, cameras, events, recPc, recEntry, notified,
                 lines, clientVars, link, session, wire, recordings>>

-----------------------------------------------------------------------------
(* The WebSocket client task: run, connect_and_run and flush_queue         *)

Connect ==
  /\ nodeUp
  /\ wsPc = "down"
  /\ wsPc' = "drain"
  /\ link' = "up"
  /\ session' = session + 1
  /\ UNCHANGED <<file, nodeVars, lines, batch, taken, unread, wire,
                 recordings, faults, lost>>

(* Mutant: nothing is backfilled on connecting.                            *)
DrainStaleOnly ==
  /\ wsPc = "drain"
  /\ notified' = FALSE
  /\ wsPc' = "idle"
  /\ UNCHANGED <<file, nodeUp, cameras, events, recPc, recEntry, writing,
                 lines, batch, taken, unread, link, session, wire, recordings,
                 faults, lost>>

(* Stale notifications are drained before the backfill flush, not after.   *)
DrainStale ==
  /\ wsPc = "drain"
  /\ notified' = FALSE
  /\ wsPc' = "flush"
  /\ UNCHANGED <<file, nodeUp, cameras, events, recPc, recEntry, writing,
                 lines, batch, taken, unread, link, session, wire, recordings,
                 faults, lost>>

(* The select loop takes a flush notification, and all others with it.     *)
WakeFlush ==
  /\ wsPc = "idle"
  /\ notified
  /\ notified' = FALSE
  /\ wsPc' = "flush"
  /\ UNCHANGED <<file, nodeUp, cameras, events, recPc, recEntry, writing,
                 lines, batch, taken, unread, link, session, wire, recordings,
                 faults, lost>>

(* flush_queue: read_all, an early return when there is nothing.           *)
ReadAll ==
  /\ wsPc = "flush"
  /\ batch' = [i \in 1..Len(lines) |-> lines[i].entry]
  /\ taken' = Len(lines)
  /\ unread' = 0
  /\ wsPc' = IF lines = <<>> THEN "idle" ELSE "send"
  /\ UNCHANGED <<file, nodeVars, lines, link, session, wire, recordings,
                 faults, lost>>

(* The file cannot be read: read_all makes that an empty list and the      *)
(* flush returns, its notification gone and the lines still in the file.   *)
ReadFails ==
  /\ wsPc = "flush"
  /\ lines # <<>>
  /\ Fault
  /\ unread' = Len(lines)
  /\ wsPc' = "idle"
  /\ UNCHANGED <<file, nodeVars, lines, batch, taken, link, session, wire,
                 recordings, lost>>

(* The socket accepts an entry.  On a broken connection it may do so too,  *)
(* and the entry goes nowhere.                                             *)
SendSegment ==
  /\ wsPc = "send"
  /\ batch # <<>>
  /\ link \in {"up", "half"}
  /\ batch' = Tail(batch)
  /\ IF link = "up"
     THEN /\ wire' = [wire EXCEPT ![session] = Append(@, Head(batch))]
          /\ UNCHANGED lost
     ELSE /\ lost' = lost \cup Missed({Head(batch)}, "link")
          /\ UNCHANGED wire
  /\ UNCHANGED <<file, nodeVars, lines, wsPc, taken, unread, link, session,
                 recordings, faults>>

(* Mutant: the file is removed although not everything was sent.           *)
SendFailsClears ==
  /\ wsPc = "send"
  /\ batch # <<>>
  /\ link \in {"half", "dead"}
  /\ link' = "dead"
  /\ batch' = <<>>
  /\ lines' = <<>>
  /\ taken' = 0
  /\ wsPc' = "idle"
  /\ UNCHANGED <<file, nodeVars, unread, session, wire, recordings, faults,
                 lost>>

(* A send fails: all_sent is false, the loop ends and the file is kept.    *)
SendFails ==
  /\ wsPc = "send"
  /\ batch # <<>>
  /\ link \in {"half", "dead"}
  /\ link' = "dead"
  /\ batch' = <<>>
  /\ taken' = 0
  /\ wsPc' = "idle"
  /\ UNCHANGED <<file, nodeVars, lines, unread, session, wire, recordings,
                 faults, lost>>

(* Everything read has been sent: SegmentQueue::clear removes the file,    *)
(* with the lines added to it since it was read; an append that is under   *)
(* way goes to the removed file.                                           *)
ClearQueue ==
  /\ wsPc = "send"
  /\ batch = <<>>
  /\ lines' = <<>>
  /\ lost' = lost \cup Missed({lines[i].entry : i \in (taken + 1)..Len(lines)},
                              "overtaken")
  /\ writing' = {[w EXCEPT !.linked = FALSE] : w \in writing}
  /\ taken' = 0
  /\ wsPc' = "idle"
  /\ UNCHANGED <<file, nodeUp, cameras, events, recPc, recEntry, notified,
                 batch, unread, link, session, wire, recordings, faults>>

(* The file cannot be removed, an error clear() ignores.                   *)
ClearFails ==
  /\ wsPc = "send"
  /\ batch = <<>>
  /\ Fault
  /\ wsPc' = "idle"
  /\ UNCHANGED <<file, nodeVars, lines, batch, taken, unread, link, session,
                 wire, recordings, lost>>

(* ConfigSync, CameraAdded, CameraUpdated and CameraRemoved change the     *)
(* camera list; here the coordinator may send the node any list.           *)
HandleCameras ==
  /\ wsPc = "idle"
  /\ link = "up"
  /\ \E list \in SUBSET Cameras : list # cameras /\ cameras' = list
  /\ UNCHANGED <<file, nodeUp, events, recPc, recEntry, writing, notified,
                 lines, clientVars, link, session, wire, recordings, faults,
                 lost>>

(* The heartbeat fails or the stream ends: connect_and_run returns and run *)
(* connects again after five seconds.                                      *)
Disconnect ==
  /\ wsPc = "idle"
  /\ link \in {"half", "dead"}
  /\ wsPc' = "down"
  /\ link' = "down"
  /\ taken' = 0
  /\ UNCHANGED <<file, nodeVars, lines, batch, unread, session, wire,
                 recordings, faults, lost>>

-----------------------------------------------------------------------------
(* The coordinator, one handle_socket task per connection                  *)

(* Mutant: ON CONFLICT DO UPDATE.                                          *)
IndexOverwrites(s) ==
  /\ wire[s] # <<>>
  /\ recordings' = [recordings EXCEPT ![Head(wire[s]).seg] = Head(wire[s]).size]
  /\ wire' = [wire EXCEPT ![s] = Tail(@)]
  /\ UNCHANGED <<file, nodeVars, lines, clientVars, link, session, faults,
                 lost>>

(* index_segment inserts the row unless the identifier has one already.    *)
IndexSegment(s) ==
  /\ wire[s] # <<>>
  /\ LET e == Head(wire[s]) IN
       recordings' = [recordings EXCEPT
                        ![e.seg] = IF @ = "none" THEN e.size ELSE @]
  /\ wire' = [wire EXCEPT ![s] = Tail(@)]
  /\ UNCHANGED <<file, nodeVars, lines, clientVars, link, session, faults,
                 lost>>

(* The INSERT fails: the error is logged and the segment forgotten.        *)
IndexFails(s) ==
  /\ wire[s] # <<>>
  /\ Fault
  /\ lost' = lost \cup Missed({Head(wire[s])}, "database")
  /\ wire' = [wire EXCEPT ![s] = Tail(@)]
  /\ UNCHANGED <<file, nodeVars, lines, clientVars, link, session, recordings>>

-----------------------------------------------------------------------------
(* Faults                                                                  *)

(* The network or the coordinator breaks the connection; what is on the    *)
(* wire may still be handled, or is lost.                                  *)
BreakLink ==
  /\ link = "up"
  /\ Fault
  /\ link' = "half"
  /\ UNCHANGED <<file, nodeVars, lines, clientVars, session, wire, recordings,
                 lost>>

LoseWire(s) ==
  /\ wire[s] # <<>>
  /\ s # session \/ link # "up"
  /\ lost' = lost \cup Missed(Range(wire[s]), "link")
  /\ wire' = [wire EXCEPT ![s] = <<>>]
  /\ UNCHANGED <<file, nodeVars, lines, clientVars, link, session, recordings,
                 faults>>

(* What the node holds in memory, and not in the queue file.               *)
Volatile == Range(events) \cup {w.entry : w \in writing}
              \cup ({recEntry} \ {NoEntry})

(* The node process dies.  The queue file and the segment files remain.    *)
CrashNode ==
  /\ nodeUp
  /\ Fault
  /\ nodeUp' = FALSE
  /\ lost' = lost \cup Missed(Volatile, "crash")
  /\ cameras' = {}
  /\ events' = <<>>
  /\ recPc' = "wait"
  /\ recEntry' = NoEntry
  /\ writing' = {}
  /\ notified' = FALSE
  /\ wsPc' = "down"
  /\ batch' = <<>>
  /\ taken' = 0
  /\ link' = "down"
  /\ UNCHANGED <<file, lines, unread, session, wire, recordings>>

RestartNode ==
  /\ ~nodeUp
  /\ nodeUp' = TRUE
  /\ UNCHANGED <<file, cameras, events, recPc, recEntry, writing, notified,
                 lines, clientVars, link, session, wire, recordings, faults,
                 lost>>

-----------------------------------------------------------------------------
Recorder == ReceiveEvent \/ LookUpCamera \/ QueuePush \/ SignalFlush

Client == \/ Connect \/ DrainStale \/ WakeFlush \/ ReadAll
          \/ SendSegment \/ SendFails \/ ClearQueue \/ Disconnect

Next ==
  \/ \E g \in Segments : CreateFile(g) \/ CloseFile(g)
  \/ Recorder
  \/ QueuePushFails
  \/ \E w \in writing : WriteLands(w) \/ WriteFails(w)
  \/ Client
  \/ ReadFails
  \/ ClearFails
  \/ HandleCameras
  \/ \E s \in Sessions : IndexSegment(s) \/ IndexFails(s) \/ LoseWire(s)
  \/ BreakLink
  \/ CrashNode
  \/ RestartNode

Spec == Init /\ [][Next]_vars

(* Every task of the node and of the coordinator keeps running, a crashed  *)
(* node is restarted, and the five-second loop of ws_client::run connects  *)
(* in the end.  No fault, and no file event, is ever due.                  *)
Fairness ==
  /\ WF_vars(Recorder)
  /\ WF_vars(\E w \in writing : WriteLands(w))
  /\ WF_vars(Client)
  /\ \A s \in Sessions : WF_vars(IndexSegment(s))
  /\ WF_vars(RestartNode)

FairSpec == Spec /\ Fairness

-----------------------------------------------------------------------------
(* Type invariant: the shape of every variable.                            *)
FilesType ==
  /\ file \in [Segments -> {"absent", "open", "closed"}]
  /\ nodeUp \in BOOLEAN
  /\ cameras \in SUBSET Cameras
  /\ events \in Seq(Event)

RecorderType ==
  /\ recPc \in {"wait", "lookup", "push", "signal"}
  /\ recEntry \in Entry \cup {NoEntry}
  /\ recPc # "wait" => recEntry \in Entry
  /\ writing \in SUBSET Write
  /\ lines \in Seq(Line)
  /\ notified \in BOOLEAN

ClientType ==
  /\ wsPc \in {"down", "drain", "flush", "send", "idle"}
  /\ batch \in Seq(Entry)
  /\ taken \in Nat
  /\ unread \in Nat
  /\ link \in {"down", "up", "half", "dead"}
  /\ session \in Nat

CoordinatorType ==
  /\ wire \in [Sessions -> Seq(Entry)]
  /\ recordings \in [Segments -> {"none", "part", "whole"}]

HistoryType ==
  /\ faults \in 0..MaxFaults
  /\ lost \in SUBSET Loss

TypeOK == /\ FilesType
          /\ RecorderType
          /\ ClientType
          /\ CoordinatorType
          /\ HistoryType

(* The stages a finished segment passes through.  The entry that counts is *)
(* the one made for the closing of its file; the recorder holds it until   *)
(* it has pushed it.                                                       *)
Watched(g) == [seg |-> g, ev |-> "close"] \in Range(events)
CloseEntries(g) == [seg: {g}, ev: {"close"}, size: {"part", "whole"}]
InRecorder(g) == recPc \in {"lookup", "push"} /\ recEntry \in CloseEntries(g)
BeingWritten(g) == \E w \in writing : w.entry \in CloseEntries(g)
Queued(g) == \E i \in DOMAIN lines : lines[i].entry \in CloseEntries(g)
OnWire(g) == \E s \in Sessions :
                 \E i \in DOMAIN wire[s] : wire[s][i] \in CloseEntries(g)
Indexed(g) == recordings[g] # "none"
CopyLost(g) == \E l \in lost : l.seg = g
Delivered(g) == OnWire(g) \/ Indexed(g) \/ CopyLost(g)

(* A finished segment is somewhere on its way, has its row, or has been    *)
(* lost in one of the named ways: nothing else in the recorder, in the     *)
(* flush (partial sends, retries, failed removals) or in a crash makes it  *)
(* disappear.                                                              *)
EverySegmentAccounted ==
  \A g \in Segments :
    file[g] = "closed" =>
      Watched(g) \/ InRecorder(g) \/ BeingWritten(g) \/ Queued(g) \/ Delivered(g)

(* No wake-up is lost without a named reason: while the client waits in    *)
(* its select loop with no notification pending and no failed send behind  *)
(* it, every line of the queue file is about to be signalled, or is one of *)
(* three kinds that wait for the next segment or reconnection: sent        *)
(* already (its removal failed), there at a flush that could not read the  *)
(* file, or written late, after its own signal was consumed.               *)
NamedSleeper(i) == i <= taken \/ i <= unread \/ lines[i].late
OnlyNamedLinesSleep ==
  (wsPc = "idle" /\ ~notified /\ link # "dead") =>
    \A i \in DOMAIN lines :
      NamedSleeper(i) \/ (recPc = "signal" /\ recEntry = lines[i].entry)

(* What flush_queue has still to send is what stands in the file behind    *)
(* the lines it has sent, whatever was appended since it read the file: so *)
(* the lines that clear() removes unsent are those after the first `taken`.*)
BatchIsPrefix ==
  wsPc = "send" =>
    /\ taken <= Len(lines)
    /\ Len(batch) <= taken
    /\ \A i \in 1..Len(batch) :
         batch[i] = lines[taken - Len(batch) + i].entry

(* A finished segment gets its row or is lost for good, unless its line    *)
(* stays in the queue file with no signal to come, in one of the three     *)
(* named ways.  Otherwise the flush is retried after every failed send,    *)
(* reconnection and restart.                                               *)
Settled(g) == Indexed(g) \/ (CopyLost(g) /\ ~Queued(g))
Sleeps(g) == \E i \in DOMAIN lines :
               lines[i].entry \in CloseEntries(g) /\ NamedSleeper(i)
EventuallySettled ==
  \A g \in Segments : <>[]Sleeps(g) \/ (file[g] = "closed" ~> Settled(g))

(* The abstract index is implemented: one row per segment, whatever is     *)
(* sent again over whichever connection, and it never changes.             *)
Index == INSTANCE RecordingIndex
           WITH Segments <- Segments, file <- file, recordings <- recordings
ImplementsRecordingIndex == Index!Spec

-----------------------------------------------------------------------------
(* What the code's comments say and the program does not do.               *)

(* An entry of the segment is somewhere between the watcher and the        *)
(* coordinator, or its file may still raise an event.                      *)
OnItsWay(g) ==
  \/ file[g] # "closed"
  \/ \E x \in Volatile \cup Range(batch) : x.seg = g
  \/ \E s \in Sessions : \E x \in Range(wire[s]) : x.seg = g
  \/ \E i \in DOMAIN lines : lines[i].entry.seg = g

(* "queues segment metadata in the durable JSONL queue"                    *)
(* (node/src/recorder/mod.rs:23) and "Removes all entries after a          *)
(* successful backfill flush" (queue.rs:37): a segment whose entry was     *)
(* removed unsent gets its row by another entry.                           *)
OvertakenStillIndexed ==
  \A l \in lost : l.cause = "overtaken" => Indexed(l.seg) \/ OnItsWay(l.seg)

(* "Watches `recordings_dir` for completed fMP4 segments"                  *)
(* (node/src/recorder/mod.rs:22): a row states the size of the finished    *)
(* file.                                                                   *)
RowsStateFinalSize == \A g \in Segments : recordings[g] # "part"
=============================================================================
