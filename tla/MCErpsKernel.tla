----------------------------- MODULE MCErpsKernel -----------------------------
(***************************************************************************)
(* Three interfaces, so that two requests may share one of them and an     *)
(* operator may add one.  One request names no RPL port and is refused.    *)
(***************************************************************************)
EXTENDS ErpsKernel, TLC

MCNodeId == 1 .. 2

Link(a, b) == [p \in Port |-> IF p = "port0" THEN a ELSE b]

MCRequests ==
    { [ link |-> Link("em0", "em1"), rpl_port |-> "port0", is_rpl_owner |-> TRUE,
        is_rpl_neighbour |-> FALSE, is_revertive |-> TRUE ],
      [ link |-> Link("em1", "em2"), rpl_port |-> NoPort, is_rpl_owner |-> FALSE,
        is_rpl_neighbour |-> FALSE, is_revertive |-> FALSE ],
      [ link |-> Link("em0", "em1"), rpl_port |-> NoPort, is_rpl_owner |-> FALSE,
        is_rpl_neighbour |-> TRUE, is_revertive |-> FALSE ] }

Message(request, flags) == er_raps_encode([request |-> request, flags |-> flags], 2)

\* Data, NR,RB of another node, and a frame that does not parse.
MCTraffic == { [kind |-> "data"],
               Message("NR", {"RB"}),
               [Message("NR", {}) EXCEPT !.opcode = 1] }

Symmetry == Permutations(Caller)
=============================================================================
