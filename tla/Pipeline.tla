------------------------------ MODULE Pipeline ------------------------------
(***************************************************************************)
(* An event on its way from the commit that causes it to the subscribers:  *)
(* the outbox, as far as AtLeastOnceOutbox promises it (OutboxWorker       *)
(* implements that), the exchange flowforge.events, the queue              *)
(* webhooks.events once it is bound to the exchange, and the webhook       *)
(* worker.                                                                 *)
(*                                                                         *)
(* The outbox worker declares the exchange only, the webhook worker        *)
(* declares the queues: the former may publish before the latter first     *)
(* starts.                                                                 *)
(***************************************************************************)
EXTENDS WebhookConsumer

VARIABLES
    phase,   \* phase[e]: where the row of e in outbox_events stands
    copies,  \* copies[e]: copies of e the exchange has accepted
    bound,   \* webhooks.events is declared and bound
    early    \* events committed before that (not a program variable)

Outbox == INSTANCE AtLeastOnceOutbox

pvars == <<vars, phase, copies, bound, early>>

PTypeOK == TypeOK /\ Outbox!ATypeOK /\ bound \in BOOLEAN /\ early \in SUBSET Events

PInit == Init /\ Outbox!AInit /\ bound = FALSE /\ early = {}

\* The transaction that reports e: a change of a task that exists, or its deletion, which
\* may find it gone and still report it.
ChangeTask(e) ==
    /\ IF e \in Deletions THEN tasks' = tasks \ {Subject[e]}
                          ELSE Subject[e] \in tasks /\ UNCHANGED tasks
    /\ early' = IF bound THEN early ELSE early \cup {e}
    /\ UNCHANGED <<queueVars, processed, recorded, job, ghostVars, faults, bound>>

\* The transaction commits the event with the change.
CommitEvent(e) == Outbox!Submit(e) /\ ChangeTask(e)

\* Mutant: a publisher without confirms, whose copy need not arrive.
RouteUnconfirmed(e) ==
    /\ IF bound THEN Publish(e) \/ UNCHANGED vars ELSE UNCHANGED vars
    /\ UNCHANGED <<bound, early>>

\* The exchange has accepted a copy: it queues it, or returns it (mandatory=True) when
\* there is no queue for it, which nothing looks at.
Route(e) ==
    /\ IF bound THEN Publish(e) ELSE UNCHANGED vars
    /\ UNCHANGED <<bound, early>>

\* publish, with confirms.
Transmit(e) == Outbox!Transmit(e) /\ Route(e)

\* The outbox worker settles the row: PROCESSED, or FAILED for good.
SettleRow(e) ==
    /\ Outbox!Complete(e) \/ Outbox!Abandon(e)
    /\ UNCHANGED <<vars, bound, early>>

\* The first start of a webhook worker.  Queue and bindings are durable.
DeclareTopology ==
    /\ ~bound
    /\ bound' = TRUE
    /\ UNCHANGED <<vars, phase, copies, early>>

Consume == ConsumerStep /\ UNCHANGED <<phase, copies, bound, early>>

PNext ==
    \/ \E e \in Events : CommitEvent(e) \/ Transmit(e) \/ SettleRow(e)
    \/ DeclareTopology
    \/ Consume

PSpec == PInit /\ [][PNext]_pvars

(***************************************************************************)
(* From end to end.                                                        *)
(***************************************************************************)

\* An event that was committed when the queue was there and that the outbox holds for
\* published is processed, dead-lettered or still on its way, whatever fails in either
\* worker: a row that is PROCESSED stands for an event that is in good hands.
PublishedIsAccounted ==
    \A e \in Events :
        phase[e] = "sent" /\ e \notin early => Handled(e) \/ InTransit(e)

\* A request is made only for an event that was committed, and never for the deletion
\* of a task: its organization is read through a row that the commit has removed, so
\* that task.deleted has no subscribers, whoever subscribed to it.
ToldIsCommitted ==
    \A e \in Events, k \in Hooks :
        posts[e][k] > 0 =>
            phase[e] # "none" /\ k \in Subscribers[e] /\ e \notin Deletions

=============================================================================
