---------------------------- MODULE SegmentStore ----------------------------
(***************************************************************************)
(* What the two tiers promise of a segment, seen from the outside:         *)
(*   - what is in S3 is whole and stays there: nothing in the program      *)
(*     deletes an object or replaces it by less;                           *)
(*   - a file that has left the node does not come back, and one that left *)
(*     it too early is lost unless its upload was already on the way;      *)
(*   - a row says s3:// only of what is in S3, never goes back to local:// *)
(*     and goes only when the segment has expired; its entry may come once *)
(*     more and give it a new row.                                         *)
(* It does not promise that a row follows its data: TieredStorage names    *)
(* the ways in which it does not.                                          *)
(***************************************************************************)
CONSTANT Segments

VARIABLES data,    \* where it is: "nowhere", "node", "both", "s3" or "lost"
          row,     \* what the row says: "none", "local" or "s3"
          past     \* the segments that have expired

vars == <<data, row, past>>

Init ==
  /\ data = [g \in Segments |-> "nowhere"]
  /\ row = [g \in Segments |-> "none"]
  /\ past = {}

Record(g) ==
  /\ data[g] = "nowhere"
  /\ data' = [data EXCEPT ![g] = "node"]
  /\ UNCHANGED <<row, past>>

(* An upload that was under way completes even if the file is gone.        *)
Upload(g) ==
  /\ \/ data[g] = "node" /\ data' = [data EXCEPT ![g] = "both"]
     \/ data[g] = "lost" /\ data' = [data EXCEPT ![g] = "s3"]
  /\ UNCHANGED <<row, past>>

(* The migration, the watchdog or the retention deletes the file.          *)
Remove(g) ==
  /\ \/ data[g] = "both" /\ data' = [data EXCEPT ![g] = "s3"]
     \/ data[g] = "node" /\ data' = [data EXCEPT ![g] = "lost"]
  /\ UNCHANGED <<row, past>>

Index(g) ==
  /\ data[g] # "nowhere"
  /\ row[g] = "none"
  /\ row' = [row EXCEPT ![g] = "local"]
  /\ UNCHANGED <<data, past>>

PointToObject(g) ==
  /\ data[g] \in {"both", "s3"}
  /\ row[g] = "local"
  /\ row' = [row EXCEPT ![g] = "s3"]
  /\ UNCHANGED <<data, past>>

Expire(g) ==
  /\ data[g] # "nowhere"
  /\ past' = past \cup {g}
  /\ UNCHANGED <<data, row>>

DropRow(g) ==
  /\ g \in past
  /\ row' = [row EXCEPT ![g] = "none"]
  /\ UNCHANGED <<data, past>>

Next ==
  \E g \in Segments :
    \/ Record(g) \/ Upload(g) \/ Remove(g)
    \/ Index(g) \/ PointToObject(g)
    \/ Expire(g) \/ DropRow(g)

Spec == Init /\ [][Next]_vars
=============================================================================
