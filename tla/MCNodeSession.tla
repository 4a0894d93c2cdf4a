--------------------------- MODULE MCNodeSession ---------------------------
(* NodeSession on small sets.                                              *)
EXTENDS NodeSession

CONSTANTS cam1, cam2, req1, req2
=============================================================================
