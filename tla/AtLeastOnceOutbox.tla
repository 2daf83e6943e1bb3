------------------------- MODULE AtLeastOnceOutbox -------------------------
(***************************************************************************)
(* What the outbox promises the API that writes to it, whatever number of  *)
(* workers drains it: an event that was committed is handed to the broker  *)
(* at least once before it counts as processed, never more than MaxCopies  *)
(* times, and never again once it is settled.  OutboxWorker implements     *)
(* this specification.                                                     *)
(***************************************************************************)
EXTENDS Naturals

CONSTANTS
    Events,     \* rows of outbox_events
    MaxCopies   \* the most copies of one event the broker may be given

VARIABLES
    phase,      \* phase[e]: where the promise about e stands
    copies      \* copies[e]: copies of e the broker has accepted

avars == <<phase, copies>>

Phases == {"none", "queued", "sent", "dead"}

ATypeOK ==
    /\ phase \in [Events -> Phases]
    /\ copies \in [Events -> 0 .. MaxCopies]

AInit ==
    /\ phase = [e \in Events |-> "none"]
    /\ copies = [e \in Events |-> 0]

\* The API commits the event together with the change it reports.
Submit(e) ==
    /\ phase[e] = "none"
    /\ phase' = [phase EXCEPT ![e] = "queued"]
    /\ UNCHANGED copies

\* The broker takes one more copy of an event that is still owed.
Transmit(e) ==
    /\ phase[e] = "queued"
    /\ copies[e] < MaxCopies
    /\ copies' = [copies EXCEPT ![e] = @ + 1]
    /\ UNCHANGED phase

\* The event counts as processed: only after the broker has had it.
Complete(e) ==
    /\ phase[e] = "queued"
    /\ copies[e] > 0
    /\ phase' = [phase EXCEPT ![e] = "sent"]
    /\ UNCHANGED copies

\* The event is given up.
Abandon(e) ==
    /\ phase[e] = "queued"
    /\ phase' = [phase EXCEPT ![e] = "dead"]
    /\ UNCHANGED copies

ANext == \E e \in Events : Submit(e) \/ Transmit(e) \/ Complete(e) \/ Abandon(e)

ASpec == AInit /\ [][ANext]_avars

=============================================================================
