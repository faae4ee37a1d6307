--------------------------- MODULE MCRingNetClaims ---------------------------
(* The ring of three of MCRingNet. *)
EXTENDS RingNetClaims

MCNodeId == 1 .. 3
MCPeer ==
    [ e \in MCNodeId \X {"port0", "port1"} |->
        IF e[2] = "port1" THEN << (e[1] % 3) + 1, "port0" >>
                          ELSE << ((e[1] + 1) % 3) + 1, "port1" >> ]
MCNoCommands == [m \in Menus |-> 0]
=============================================================================
