------------------------------ MODULE Playback ------------------------------
(***************************************************************************)
(* Watching what was recorded by one camera: the timeline and the segment, *)
(* export and live requests of the coordinator (coordinator/src/routes/    *)
(* playback.rs, whep.rs) and the choice of files by the node's playback    *)
(* server (node/src/playback.rs), while segments are recorded, indexed,    *)
(* migrated and removed.                                                   *)
(*                                                                         *)
(* A segment goes by the time it starts, which is its file's name and its  *)
(* row's started_at.  What the program does with times is compare them and *)
(* add the nominal length, so time is counted in any unit.                 *)
(***************************************************************************)
EXTENDS Integers

CONSTANTS SegmentLength,   \* nominal length of a segment, 60 seconds
          KeyFrameGap,     \* longest time between two key frames of the stream
          MaxTime,         \* bound: time followed
          Hosts            \* addresses the node may connect from

ASSUME PlaybackAssumption ==
  SegmentLength \in Nat \ {0} /\ KeyFrameGap \in Nat /\ MaxTime \in Nat

Times == 0..MaxTime
Nothing == -1              \* no segment is being recorded
SegmentPort == 8890        \* NODE_HTTP_PORT
LivePort == 8889           \* MEDIAMTX_WEBRTC_PORT

Status == [reply: {"status"}, code: {0, 302, 400, 404, 500}]
Proxied == [reply: {"proxied"}, host: Hosts, port: {80, SegmentPort, LivePort}]

VARIABLES
  now,         \* the time
  disk,        \* segments with a file on the node
  ends,        \* time of the last frame of each segment
  recording,   \* the segment being recorded, or Nothing
  uri,         \* storage_uri of each segment's row, "none" without a row
  nodeIp,      \* nodes.ip_addr, or "null"
  answer       \* the latest answer to a browser

playbackVars == <<now, disk, ends, recording, uri, nodeIp, answer>>

PlaybackInit ==
  /\ now = 0
  /\ disk = {}
  /\ ends = [s \in Times |-> s]
  /\ recording = Nothing
  /\ uri = [s \in Times |-> "none"]
  /\ nodeIp = "null"
  /\ answer = [reply |-> "status", code |-> 0]

-----------------------------------------------------------------------------
(* What the rest of the program does to segments                           *)

OpenSegment ==
  /\ recording = Nothing
  /\ now \in Times \ disk
  /\ uri[now] = "none"
  /\ disk' = disk \cup {now}
  /\ recording' = now
  /\ UNCHANGED <<now, ends, uri, nodeIp, answer>>

(* MediaMTX starts another file with the first key frame after the nominal *)
(* length, so a file may outlast it.                                       *)
Tick ==
  /\ now < MaxTime
  /\ recording # Nothing => now - recording < SegmentLength + KeyFrameGap
  /\ now' = now + 1
  /\ ends' = IF recording = Nothing THEN ends
             ELSE [ends EXCEPT ![recording] = now + 1]
  /\ UNCHANGED <<disk, recording, uri, nodeIp, answer>>

CloseSegment ==
  /\ recording # Nothing
  /\ now > recording
  /\ recording' = Nothing
  /\ UNCHANGED <<now, disk, ends, uri, nodeIp, answer>>

IndexSegment(s) ==
  /\ s \in disk
  /\ uri[s] = "none"
  /\ uri' = [uri EXCEPT ![s] = "local"]
  /\ UNCHANGED <<now, disk, ends, recording, nodeIp, answer>>

MigrateSegment(s) ==
  /\ s \in disk \ {recording}
  /\ uri[s] = "local"
  /\ uri' = [uri EXCEPT ![s] = "s3"]
  /\ disk' = disk \ {s}
  /\ UNCHANGED <<now, ends, recording, nodeIp, answer>>

(* The disk watchdog removes the file, retention the row.                  *)
RemoveSegment(s) ==
  /\ \/ s \in disk \ {recording} /\ disk' = disk \ {s} /\ UNCHANGED uri
     \/ /\ uri[s] # "none"
        /\ uri' = [uri EXCEPT ![s] = "none"]
        /\ UNCHANGED disk
  /\ UNCHANGED <<now, ends, recording, nodeIp, answer>>

NodeConnects(h) ==
  /\ nodeIp' = h
  /\ UNCHANGED <<now, disk, ends, recording, uri, answer>>

-----------------------------------------------------------------------------
(* Requests                                                                *)

(* list_recordings: started_at >= from AND started_at < to.                *)
ListRecordings(from, to) ==
  {s \in Times : uri[s] # "none" /\ from <= s /\ s < to}

(* Mutant: the comparison of the timeline, for the export.                 *)
StartsInRange(from, to) == {s \in disk : from <= s /\ s < to}

(* segments_in_range: every file is taken for one of the nominal length,   *)
(* whatever it holds.                                                      *)
SegmentsInRange(from, to) ==
  {s \in disk : s < to /\ s + SegmentLength > from}

(* CAST(ip_addr AS TEXT) of an INET value has its netmask length: put in   *)
(* front of a port, everything from the slash on is part of the URL's      *)
(* path, and the request goes to the default port.                         *)
CastAsText(ip) == [host |-> ip, suffix |-> "/32"]
ProxyGet(text, port) ==
  [reply |-> "proxied", host |-> text.host,
   port |-> IF text.suffix = "" THEN port ELSE 80]

Reply(code) == [reply |-> "status", code |-> code]

(* get_segment: an address that is NULL fails the query, whatever the URI; *)
(* a migrated segment is redirected if the coordinator knows its storage.  *)
GetSegment(s, s3Configured) ==
  /\ answer' =
       CASE uri[s] = "none" -> Reply(404)
         [] uri[s] # "none" /\ nodeIp = "null" -> Reply(500)
         [] uri[s] = "s3" /\ nodeIp # "null" ->
              Reply(IF s3Configured THEN 302 ELSE 500)
         [] uri[s] = "local" /\ nodeIp # "null" ->
              ProxyGet(CastAsText(nodeIp), SegmentPort)
  /\ UNCHANGED <<now, disk, ends, recording, uri, nodeIp>>

(* export_clip of the coordinator; without files the node answers 404.     *)
ExportClip ==
  /\ answer' = IF nodeIp = "null" THEN Reply(500)
               ELSE ProxyGet(CastAsText(nodeIp), SegmentPort)
  /\ UNCHANGED <<now, disk, ends, recording, uri, nodeIp>>

WhepProxy ==
  /\ answer' = IF nodeIp = "null" THEN Reply(400)
               ELSE ProxyGet(CastAsText(nodeIp), LivePort)
  /\ UNCHANGED <<now, disk, ends, recording, uri, nodeIp>>

-----------------------------------------------------------------------------
PlaybackNext ==
  \/ OpenSegment \/ Tick \/ CloseSegment
  \/ \E s \in Times : \/ IndexSegment(s) \/ MigrateSegment(s)
                      \/ RemoveSegment(s)
                      \/ \E c \in BOOLEAN : GetSegment(s, c)
  \/ \E h \in Hosts : NodeConnects(h)
  \/ ExportClip \/ WhepProxy

PlaybackSpec == PlaybackInit /\ [][PlaybackNext]_playbackVars

-----------------------------------------------------------------------------
PlaybackTypeOK ==
  /\ now \in Times
  /\ disk \in SUBSET Times
  /\ ends \in [Times -> Times]
  /\ recording \in Times \cup {Nothing}
  /\ uri \in [Times -> {"none", "local", "s3"}]
  /\ nodeIp \in Hosts \cup {"null"}
  /\ answer \in Status \cup Proxied

(* What a clip of [from, to) lacks of the files on the node with a frame   *)
(* in it.                                                                  *)
LeftOut(from, to) ==
  {s \in disk : s < to /\ ends[s] > from} \ SegmentsInRange(from, to)

(* A clip has every segment the timeline shows for its range, and all      *)
(* that the node still holds of it except, perhaps, the tail of one file   *)
(* that began before the range and outlasted the nominal length.  The      *)
(* file being recorded and the one cut short are no exception.             *)
ExportCoversRange ==
  \A from, to \in Times : from < to =>
    /\ ListRecordings(from, to) \cap disk \subseteq SegmentsInRange(from, to)
    /\ \A s \in LeftOut(from, to) :
         ends[s] - from <= KeyFrameGap /\ LeftOut(from, to) = {s}

-----------------------------------------------------------------------------
(* "The IP is used later by the playback proxy to reach this node's HTTP   *)
(* server." (coordinator/src/routes/node_ws.rs:112): a proxied request     *)
(* goes to a port the node serves.                                         *)
ProxyReachesNode ==
  answer.reply = "proxied" => answer.port \in {SegmentPort, LivePort}
=============================================================================
