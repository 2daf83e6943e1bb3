------------------------------ MODULE EventPath ------------------------------
(***************************************************************************)
(* Pipeline with the outbox workers themselves in place of the promise     *)
(* they keep: the rows of outbox_events and the worker processes of        *)
(* OutboxWorker, then the exchange, the queue and the webhook workers.     *)
(***************************************************************************)
EXTENDS OutboxWorker

CONSTANTS
    Hooks, Tasks, Handlers, Home, Malformed, Deletions, Subject, Subscribers,
    Unusable, Broken, MaxRetries, MaxFaults,  \* as in WebhookConsumer
    Consumers,       \* webhook worker processes
    ConsumerFaults   \* the kinds of disturbance that may happen to them

ASSUME PathAssumption ==
    /\ IsFiniteSet(Handlers)
    /\ Home \in [Handlers -> Consumers]
    /\ Malformed \subseteq Events /\ Deletions \subseteq Events
    /\ Subject \in [Events -> Tasks]
    /\ Subscribers \in [Events -> SUBSET Hooks]
    /\ Unusable \subseteq Hooks /\ Broken \subseteq Hooks
    /\ MaxRetries \in Nat /\ MaxFaults \in Nat
    /\ ConsumerFaults \subseteq {"crash", "database", "broker", "endpoint"}

VARIABLES
    ready, parked, dlq, tasks, processed, recorded, job, sent, posts, skipped,
    aborts, faults,  \* as in WebhookConsumer
    bound, early     \* as in Pipeline

Path == INSTANCE Pipeline
        WITH Workers <- Consumers,
             Faults <- ConsumerFaults,
             MaxCopies <- MaxAttempts,
             phase <- [e \in Events |-> PhaseOf(status[e])],
             copies <- accepted

\* All that is not in the outbox.
outside == <<ready, parked, dlq, tasks, processed, recorded, job, sent, posts, skipped,
             aborts, faults, bound, early>>

EInit == Init /\ Path!Init /\ bound = FALSE /\ early = {}

\* Whatever else an outbox worker, or the clock, does: nobody outside sees it.
WorkerStep ==
    \/ \E e \in Events : BackoffElapses(e)
    \/ \E w \in Workers :
          \/ UNCHANGED accepted /\ Advance(w)
          \/ DatabaseFails(w) \/ Shutdown(w) \/ Crash(w)

ENext ==
    \/ \E e \in Events : Enqueue(e) /\ Path!ChangeTask(e)
    \/ \E w \in Workers : BrokerAccepts(w) /\ Path!Route(cur[w])
    \/ WorkerStep /\ UNCHANGED outside
    \/ UNCHANGED vars /\ (Path!DeclareTopology \/ Path!Consume)

ESpec == EInit /\ [][ENext]_<<vars, outside>>
FairESpec == ESpec /\ Fairness /\ Path!Fairness

\* The outbox workers, the exchange and the webhook workers implement Pipeline.
FollowsPipeline == Path!PSpec

(***************************************************************************)
(* From end to end.                                                        *)
(***************************************************************************)

\* A row that is PROCESSED stands for an event that is processed by the webhook workers,
\* dead-lettered or on its way there, if it was committed when there was a queue
\* (mark_processed comes after the confirm of publish, the ack after the commit of
\* process_message).
ProcessedIsAccounted ==
    \A e \in Events :
        status[e] = "processed" /\ e \notin early => Path!Handled(e) \/ Path!InTransit(e)

\* Requests are made for committed events only, and for no deletion (see Pipeline).
ToldIsCommitted == Path!ToldIsCommitted

\* Once the outbox workers are spared crashes and database errors, every event that was
\* committed when there was a queue is processed or dead-lettered by the webhook
\* workers, unless its row is FAILED or stranded or a handler is stuck on a failed
\* publish_retry: nothing in between keeps it for ever.
CommittedIsHandled ==
    FaultsCease =>
        \A e \in Events :
            status[e] = "pending" /\ e \notin early
                ~> \/ Path!Handled(e)
                   \/ status[e] = "failed" \/ Stranded(e)
                   \/ \E h \in Handlers : Path!Stuck(h)

=============================================================================
