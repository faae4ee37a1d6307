---------------------------- MODULE ErpsKernelClaims ----------------------------
(***************************************************************************)
(* A comment of er_forward_lookup that the module does not live up to.     *)
(***************************************************************************)
EXTENDS ErpsKernel

\* er_ring.c:1242: "destination port is blocked via VALE and NAF_SW_ONLY flag".  A
\* data frame that the callback lets through does not leave over a blocked link.
\* Nothing sets the flag: block_port only sets is_blocked, which netmap does not
\* read.
DataAvoidsBlockedPort ==
    \A i \in Interface :
        /\ rx[i].step = "learn" /\ ~er_is_raps_frame(rx[i].frame)
        /\ Readable(rx[i].slot)
        =>
        LET r == er_ring[rx[i].slot]
        IN  \A p \in r.fsm.blocked : r.link[p] \notin Learned(i)

=============================================================================
