--------------------------- MODULE MCErpsKernelClaims ---------------------------
(* One owner of the RPL on two interfaces, and data. *)
EXTENDS ErpsKernelClaims

MCNodeId == 1 .. 2

MCRequests ==
    { [ link |-> [p \in Port |-> IF p = "port0" THEN "em0" ELSE "em1"],
        rpl_port |-> "port0", is_rpl_owner |-> TRUE, is_rpl_neighbour |-> FALSE,
        is_revertive |-> TRUE ] }

MCTraffic == { [kind |-> "data"] }
=============================================================================
