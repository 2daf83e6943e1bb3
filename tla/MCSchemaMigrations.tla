------------------------- MODULE MCSchemaMigrations -------------------------
(***************************************************************************)
(* Values for TLC.                                                         *)
(***************************************************************************)
EXTENDS SchemaMigrations

Symmetry == Permutations(Commands)

=============================================================================
