------------------------------- MODULE MCRingd -------------------------------
(***************************************************************************)
(* Three identifiers: a node can have a lower and a higher remote node, and *)
(* two remote nodes that are not each other's duplicate.                    *)
(***************************************************************************)
EXTENDS Ringd

MCNodeId == 1 .. 3
=============================================================================
