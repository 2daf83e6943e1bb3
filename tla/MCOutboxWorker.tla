--------------------------- MODULE MCOutboxWorker ---------------------------
(***************************************************************************)
(* Values for TLC: e1 is the oldest event; when there is a third, it has   *)
(* the created_at of the second, as the two events of one update_task do.  *)
(***************************************************************************)
EXTENDS OrderlyOutbox

CONSTANTS e1

CreatedAtDef == [e \in Events |-> IF e = e1 THEN 0 ELSE 1]
AllFaults == FaultKinds
CrashOnly == {"crash"}

=============================================================================
