------------------------- MODULE MCSegmentDelivery -------------------------
(* SegmentDelivery with two files under one camera's stream path, created  *)
(* in a fixed order (they are interchangeable).  A single file meets up to *)
(* MaxFaults faults, two files together up to MaxFaultsTogether.           *)
EXTENDS SegmentDelivery

CONSTANTS seg1, seg2, cam1, MaxFaultsTogether

MCCameraOf == [g \in Segments |-> cam1]

InBounds ==
  file[seg2] # "absent" =>
    file[seg1] # "absent" /\ faults <= MaxFaultsTogether

(* No step that is ever due leaves the bounds: only a fault and the        *)
(* creation of the second file can.                                        *)
MCSpec == Init /\ [][Next /\ InBounds']_vars /\ Fairness
=============================================================================
