---------------------------- MODULE MCRingdThreads ----------------------------
(***************************************************************************)
(* Two nodes, so that one daemon has a lower and one a higher node_id than  *)
(* the messages that arrive.  An end of the RPL has it at port0: with port1 *)
(* the two ports only change names.                                         *)
(***************************************************************************)
EXTENDS RingdThreads

MCNodeId == 1 .. 2
MCStart  == { c \in RingdConfig :
                /\ c.rpl_port # "port1"
                /\ c.node_id = IF c.is_rpl_owner THEN 2 ELSE 1 }
MCCalls  == [loop |-> 2, worker |-> 1]
MCStack  == {-1, 0, 1}
=============================================================================
