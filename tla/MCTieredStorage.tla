-------------------------- MODULE MCTieredStorage --------------------------
(* TieredStorage on small sets.                                            *)
EXTENDS TieredStorage

CONSTANTS seg1, seg2
=============================================================================
