------------------------- MODULE MCErpsKernelCallbacks -------------------------
(***************************************************************************)
(* One caller and one ring, so that the callbacks of both links have it to *)
(* themselves.  The node is the neighbour of the RPL, which blocks a port  *)
(* when a message tells it to; the messages block it (NR,RB), open         *)
(* everything (FS), and make row 36 look at what is blocked (MS).          *)
(***************************************************************************)
EXTENDS ErpsKernel

MCNodeId == 1 .. 2

MCRequests ==
    { [ link |-> [p \in Port |-> IF p = "port0" THEN "em0" ELSE "em1"],
        rpl_port |-> "port1", is_rpl_owner |-> FALSE, is_rpl_neighbour |-> TRUE,
        is_revertive |-> TRUE ] }

Message(request, flags) == er_raps_encode([request |-> request, flags |-> flags], 2)

MCTraffic == { Message("NR", {"RB"}), Message("FS", {}), Message("MS", {}) }
=============================================================================
