---------------------------- MODULE VersionedTask ---------------------------
(***************************************************************************)
(* What the task API promises of one task: it is created once and changed  *)
(* in atomic steps, each of which replaces the version its client named,   *)
(* until it is removed for good.                                           *)
(***************************************************************************)
EXTENDS Naturals, Sequences

CONSTANTS Statuses, Todo, NoStatus

VARIABLES
    present,  \* the task exists
    version,
    status,
    granted   \* granted[i]: the version named by the i-th accepted update

avars == <<present, version, status, granted>>

AInit ==
    /\ present = FALSE
    /\ version = 0
    /\ status = NoStatus
    /\ granted = <<>>

Create ==
    /\ version = 0
    /\ present' = TRUE
    /\ version' = 1
    /\ status' = Todo
    /\ UNCHANGED granted

Change(new) ==
    /\ present
    /\ version' = version + 1
    /\ status' = new
    /\ granted' = Append(granted, version)
    /\ UNCHANGED present

Remove ==
    /\ present
    /\ present' = FALSE
    /\ UNCHANGED <<version, status, granted>>

ANext == Create \/ Remove \/ \E new \in Statuses : Change(new)

ASpec == AInit /\ [][ANext]_avars

=============================================================================
