--------------------------- MODULE MCAuthSessions ---------------------------
(***************************************************************************)
(* Values for TLC.                                                         *)
(***************************************************************************)
EXTENDS AuthSessions, TLC

Either == BOOLEAN
AllSurprises == {"failure", "expiry", "deactivation"}
Symmetry == Permutations(Sessions) \cup Permutations(Requests)

=============================================================================
