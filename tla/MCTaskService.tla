--------------------------- MODULE MCTaskService ----------------------------
(***************************************************************************)
(* TaskService and GuessedVersions for TLC.                                *)
(***************************************************************************)
EXTENDS GuessedVersions, TLC

Symmetry == Permutations(Requests) \cup Permutations(Users)

=============================================================================
