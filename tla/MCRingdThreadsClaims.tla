-------------------------- MODULE MCRingdThreadsClaims --------------------------
(***************************************************************************)
(* The neighbour of the RPL hears the other node.                          *)
(***************************************************************************)
EXTENDS RingdThreadsClaims

MCNodeId == 1 .. 2
MCStart  == { c \in RingdConfig : c.is_rpl_neighbour /\ c.node_id = 1 }
MCCalls  == [loop |-> 1, worker |-> 1]
MCStack  == {0, 1}
=============================================================================
