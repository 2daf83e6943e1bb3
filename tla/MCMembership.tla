---------------------------- MODULE MCMembership ----------------------------
(***************************************************************************)
(* Values for TLC: the founder f, and others who are alike.                *)
(***************************************************************************)
EXTENDS Membership, TLC

Symmetry == Permutations(Requests) \cup Permutations(Users \ {Founder})

=============================================================================
