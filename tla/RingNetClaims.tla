---------------------------- MODULE RingNetClaims ----------------------------
(***************************************************************************)
(* A statement a comment makes about the ring that the code does not keep. *)
(***************************************************************************)
EXTENDS RingNet

ForwardedTo(e) == /\ chan[e] = NoFrame
                  /\ chan'[e] # NoFrame
                  /\ chan'[e][1].node_id # Peer[e][1]

\* "forward original data to other ring port, if not blocked"
\* (extras/sim/ringd.c:160): a frame of another node leaves through a port that
\* is not blocked.  port_cb tests the port the frame came in on instead.
ForwardsToOpenPorts ==
    [][\A e \in Interface :
          ForwardedTo(e) => Peer[e][2] \notin node'[Peer[e][1]].blocked]_vars
=============================================================================
