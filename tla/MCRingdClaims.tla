---------------------------- MODULE MCRingdClaims ----------------------------
(* Two identifiers: the node and one remote node. *)
EXTENDS RingdClaims

MCNodeId == 1 .. 2
=============================================================================
