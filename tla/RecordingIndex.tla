--------------------------- MODULE RecordingIndex ---------------------------
(***************************************************************************)
(* What the path from a segment file on a node to a row of the             *)
(* coordinator's `recordings` table promises, seen from the outside:       *)
(*   - a row exists only for a segment file that MediaMTX has created;     *)
(*   - there is at most one row for a segment, whatever is sent twice;     *)
(*   - a row never changes and never states the final size of a file that  *)
(*     is still being written.                                             *)
(* It does not promise that a segment gets a row: SegmentDelivery names    *)
(* the ways in which one is missed.                                        *)
(***************************************************************************)
CONSTANT Segments          \* segment files, one per stream path and start time

VARIABLES file,            \* MediaMTX's file: "absent", "open" or "closed"
          recordings       \* the row of the segment: "none", or the size it states

vars == <<file, recordings>>

Init ==
  /\ file = [g \in Segments |-> "absent"]
  /\ recordings = [g \in Segments |-> "none"]

(* MediaMTX starts, and later completes, the file of a segment.            *)
Record(g) ==
  /\ file[g] = "absent"
  /\ file' = [file EXCEPT ![g] = "open"]
  /\ UNCHANGED recordings

Complete(g) ==
  /\ file[g] = "open"
  /\ file' = [file EXCEPT ![g] = "closed"]
  /\ UNCHANGED recordings

(* The segment gets its one row, with the size read from an open file      *)
(* ("part") or from the completed one ("whole").                           *)
Index(g) ==
  /\ recordings[g] = "none"
  /\ \/ /\ file[g] # "absent"
        /\ recordings' = [recordings EXCEPT ![g] = "part"]
     \/ /\ file[g] = "closed"
        /\ recordings' = [recordings EXCEPT ![g] = "whole"]
  /\ UNCHANGED file

Next == \E g \in Segments : Record(g) \/ Complete(g) \/ Index(g)

Spec == Init /\ [][Next]_vars
=============================================================================
