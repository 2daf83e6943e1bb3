--------------------------- MODULE MCUniqueInsert ---------------------------
(***************************************************************************)
(* Values for TLC: the table users, which has two columns.                 *)
(***************************************************************************)
EXTENDS UniqueInsert, TLC

UserColumns == <<"email", "username">>
FoldedColumns == {"email"}
Symmetry == Permutations(Requests) \cup Permutations(Names)

=============================================================================
