--------------------------- MODULE MCRateLimiter ----------------------------
(***************************************************************************)
(* Values for TLC.                                                         *)
(***************************************************************************)
EXTENDS RateLimiter

AllFaults == {"redis", "crash", "restart"}
NoFaults == {}

=============================================================================
