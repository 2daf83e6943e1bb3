----------------------------- MODULE MCEventPath -----------------------------
(***************************************************************************)
(* Values for TLC.  Event d is the task.deleted of the task that both      *)
(* events are about; all handlers run in one process.                      *)
(***************************************************************************)
EXTENDS EventPath

CONSTANTS d, t1, c1

CreatedAtDef == [e \in Events |-> 0]
SubjectDef == [e \in Events |-> t1]
SubscribersDef == [e \in Events |-> Hooks]
DeletionsDef == {d}
HomeDef == [h \in Handlers |-> c1]
AllFaults == FaultKinds
ProcessFaults == {"crash", "database", "broker"}

=============================================================================
