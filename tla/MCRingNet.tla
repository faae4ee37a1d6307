------------------------------ MODULE MCRingNet ------------------------------
(***************************************************************************)
(* Three daemons in a ring, port1 of each linked to port0 of the next.  With*)
(* three there is a node on either side of every link and one that is not   *)
(* an end of the RPL.  The ring of two has two links and both ends of the   *)
(* RPL, and is small enough for the refinement and for liveness.            *)
(***************************************************************************)
EXTENDS RingNet

MCNodeId == 1 .. 3
MCPeer ==
    [ e \in MCNodeId \X {"port0", "port1"} |->
        IF e[2] = "port1" THEN << (e[1] % 3) + 1, "port0" >>
                          ELSE << ((e[1] + 1) % 3) + 1, "port1" >> ]

MCNodeId2 == 1 .. 2
MCPeer2 ==
    [ e \in MCNodeId2 \X {"port0", "port1"} |->
        << 3 - e[1], IF e[2] = "port1" THEN "port0" ELSE "port1" >> ]

\* A switch and its end or two failures, and one manual switch.
MCHandoverCommands == [m \in Menus |-> IF m = {"ms"} THEN 1 ELSE 2]
\* Two commands of any kind, and the switch and two CLEARs that end a daemon.
MCHastyCommands    == [m \in Menus |-> IF m = {"fs", "clear"} THEN 3 ELSE 2]
\* Two failures and two recoveries.
MCReopensCommands  == [m \in Menus |-> 4]
=============================================================================
