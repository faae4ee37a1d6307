----------------------------- MODULE RingdClaims -----------------------------
(***************************************************************************)
(* Statements the sources make about the daemon, in comments, log messages *)
(* and usage text, that its code does not live up to.  Each is refuted by  *)
(* a run of its own.                                                       *)
(***************************************************************************)
EXTENDS Ringd

\* "impossible duplicit request received!" (extras/sim/ring.c:170): no request
\* that the deduplication calls impossible ever reaches the state machine, so
\* the daemon does not die.  Two CLEARs in a row at the RPL owner do it.
NoImpossibleDuplicate == alive

\* "we are RPL owner and we are triggering reversion (either via WTR, WTB or
\* manually)" (extras/sim/ring.c:936): the owner that waits to block reverts
\* like the owner that waits to restore.  Nothing ever polls the WTB timer.
WtbReverts == "wtb" \in ring.timers ~> (ring.state # "PENDING" \/ ~alive)
=============================================================================
