---------------------------- MODULE MCPlayback -----------------------------
(* Playback on its own, with one address for the node.                     *)
EXTENDS Playback

CONSTANT host1
=============================================================================
