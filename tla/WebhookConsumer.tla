--------------------------- MODULE WebhookConsumer ---------------------------
(***************************************************************************)
(* The webhook worker: consumers of the queue webhooks.events deliver each *)
(* event to the subscribers of its organization                            *)
(* (src/src/webhook_worker.py over src/src/messaging and                   *)
(* src/src/webhooks/delivery.py).                                          *)
(*                                                                         *)
(* A handler is one running call of process_message; prefetch_count bounds *)
(* how many a worker has.  The whole delivery runs inside one database     *)
(* transaction, opened by inserting the row of the event into              *)
(* processed_messages; the message is acknowledged after its commit.       *)
(***************************************************************************)
EXTENDS Naturals, FiniteSets

CONSTANTS
    Events,      \* outbox events the outbox worker publishes
    Hooks,       \* webhook subscriptions
    Tasks,       \* tasks the events are about
    Workers,     \* webhook worker processes
    Handlers,    \* calls of process_message
    Home,        \* Home[h]: the worker a handler runs in
    Malformed,   \* events whose body OutboxMessage refuses
    Deletions,   \* events of type task.deleted
    Subject,     \* Subject[e]: payload["task_id"]
    Subscribers, \* Subscribers[e]: active subscriptions of its organization and type
    Unusable,    \* subscriptions without a secret, or with an unsafe URL
    Broken,      \* subscriptions whose secret does not decrypt
    NoEvent,     \* a handler without a message
    MaxRetries,  \* rungs of the retry ladder: 10s, 60s, 300s
    MaxCopies,   \* bound: copies of one event the outbox worker publishes
    MaxFaults,   \* bound: disturbances in a behaviour
    Faults       \* the kinds of disturbance that may happen

FaultKinds == {"crash", "database", "broker", "endpoint"}
Levels == 0 .. MaxRetries

ASSUME ConstantsAssumption ==
    /\ IsFiniteSet(Events) /\ IsFiniteSet(Handlers)
    /\ Home \in [Handlers -> Workers]
    /\ Malformed \subseteq Events /\ Deletions \subseteq Events
    /\ Subject \in [Events -> Tasks]
    /\ Subscribers \in [Events -> SUBSET Hooks]
    /\ Unusable \subseteq Hooks /\ Broken \subseteq Hooks
    /\ NoEvent \notin Events
    /\ MaxRetries \in Nat /\ MaxCopies \in Nat /\ MaxFaults \in Nat
    /\ Faults \subseteq FaultKinds

VARIABLES
    ready,      \* ready[e][r]: copies in webhooks.events with x-retry-count r
    parked,     \* parked[e][r]: copies in the retry queues
    dlq,        \* dlq[e]: copies in webhooks.events.dlq
    tasks,      \* rows of tasks
    processed,  \* events with a committed row in processed_messages
    recorded,   \* recorded[e][k]: committed rows of webhook_deliveries
    job,        \* job[h]: where a handler is, its message, and its open transaction
    sent,       \* sent[e]: copies published so far (not a program variable)
    posts,      \* posts[e][k]: requests subscription k received (not a program variable)
    skipped,    \* pairs <<e, k>> passed over (not a program variable)
    aborts,     \* aborts[e]: rolled back transactions of e (not a program variable)
    faults      \* disturbances so far

queueVars == <<ready, parked, dlq>>
dbVars == <<tasks, processed, recorded>>
ghostVars == <<sent, posts, skipped, aborts>>
vars == <<queueVars, dbVars, job, ghostVars, faults>>

Locations == {"idle", "begin", "resolving", "posting", "acking", "retrying",
              "rejecting", "stuck"}

\* event, level: the message and its x-retry-count.  live: its delivery tag is
\* still valid.  todo: subscriptions the loop has not come to.  rows: those it has
\* added a delivery row for.
Jobs == [at : Locations, event : Events \cup {NoEvent}, level : Levels, live : BOOLEAN,
         todo : SUBSET Hooks, rows : SUBSET Hooks]

Idle == [at |-> "idle", event |-> NoEvent, level |-> 0, live |-> FALSE,
         todo |-> {}, rows |-> {}]

Copies == [Events -> [Levels -> Nat]]

TypeOK ==
    /\ ready \in Copies /\ parked \in Copies /\ dlq \in [Events -> Nat]
    /\ tasks \in SUBSET Tasks /\ processed \in SUBSET Events
    /\ recorded \in [Events -> [Hooks -> Nat]]
    /\ job \in [Handlers -> Jobs]
    /\ \A h \in Handlers :
          IF job[h].at = "idle" THEN job[h] = Idle ELSE job[h].event \in Events
    /\ sent \in [Events -> 0 .. MaxCopies]
    /\ posts \in [Events -> [Hooks -> Nat]]
    /\ skipped \in SUBSET (Events \X Hooks)
    /\ aborts \in [Events -> Nat]
    /\ faults \in 0 .. MaxFaults

Init ==
    /\ ready = [e \in Events |-> [r \in Levels |-> 0]] /\ parked = ready
    /\ dlq = [e \in Events |-> 0]
    /\ tasks = Tasks /\ processed = {}
    /\ recorded = [e \in Events |-> [k \in Hooks |-> 0]]
    /\ job = [h \in Handlers |-> Idle]
    /\ sent = [e \in Events |-> 0] /\ skipped = {}
    /\ posts = [e \in Events |-> [k \in Hooks |-> 0]]
    /\ aborts = [e \in Events |-> 0]
    /\ faults = 0

Goto(h, from, to) == job[h].at = from /\ job' = [job EXCEPT ![h].at = to]

Return(h, from) == job[h].at = from /\ job' = [job EXCEPT ![h] = Idle]

Fault(kind) ==
    /\ kind \in Faults
    /\ faults < MaxFaults
    /\ faults' = faults + 1

(***************************************************************************)
(* Around the worker.                                                      *)
(***************************************************************************)

\* The outbox worker publishes an event, perhaps once more: the binding task.*
\* routes it to webhooks.events.  task.deleted is written by the transaction that
\* deletes the task.
Publish(e) ==
    /\ sent[e] < MaxCopies
    /\ e \in Deletions => Subject[e] \notin tasks
    /\ sent' = [sent EXCEPT ![e] = @ + 1]
    /\ ready' = [ready EXCEPT ![e][0] = @ + 1]
    /\ UNCHANGED <<parked, dlq, dbVars, job, posts, skipped, aborts, faults>>

DeleteTask(t) ==
    /\ t \in tasks
    /\ tasks' = tasks \ {t}
    /\ UNCHANGED <<queueVars, processed, recorded, job, ghostVars, faults>>

\* Mutant: the retry queue has no dead-letter exchange.
ExpireDropped(e, r) ==
    /\ parked[e][r] > 0
    /\ parked' = [parked EXCEPT ![e][r] = @ - 1]
    /\ UNCHANGED <<ready, dlq, dbVars, job, ghostVars, faults>>

\* x-message-ttl of a retry queue dead-letters the copy back to webhooks.events.
Expire(e, r) ==
    /\ parked[e][r] > 0
    /\ parked' = [parked EXCEPT ![e][r] = @ - 1]
    /\ ready' = [ready EXCEPT ![e][r] = @ + 1]
    /\ UNCHANGED <<dlq, dbVars, job, ghostVars, faults>>

(***************************************************************************)
(* process_message.                                                        *)
(***************************************************************************)

\* A body that is no OutboxMessage is rejected at once.
Receive(h, e, r) ==
    /\ job[h].at = "idle"
    /\ ready[e][r] > 0
    /\ ready' = [ready EXCEPT ![e][r] = @ - 1]
    /\ job' = [job EXCEPT ![h] =
                 [Idle EXCEPT !.at = IF e \in Malformed THEN "rejecting" ELSE "begin",
                              !.event = e, !.level = r, !.live = TRUE]]
    /\ UNCHANGED <<parked, dlq, dbVars, ghostVars, faults>>

\* The handler's transaction holds the uncommitted row of its event.
Acquired(h) == job[h].at \in {"resolving", "posting"}

\* Mutants: the result of the INSERT is ignored; nobody waits for an uncommitted row;
\* the row commits in a transaction of its own.
TryMarkProcessedIgnored(h) ==
    /\ \A g \in Handlers : Acquired(g) => job[g].event # job[h].event
    /\ Goto(h, "begin", "resolving")
    /\ UNCHANGED <<queueVars, dbVars, ghostVars, faults>>

TryMarkProcessedUnlocked(h) ==
    /\ Goto(h, "begin", IF job[h].event \in processed THEN "acking" ELSE "resolving")
    /\ UNCHANGED <<queueVars, dbVars, ghostVars, faults>>

TryMarkProcessedAlone(h) ==
    LET e == job[h].event
    IN  /\ Goto(h, "begin", IF e \in processed THEN "acking" ELSE "resolving")
        /\ processed' = processed \cup {e}
        /\ UNCHANGED <<queueVars, tasks, recorded, ghostVars, faults>>

\* INSERT ... ON CONFLICT DO NOTHING RETURNING: waits for another transaction that
\* inserted the row, returns nothing when the row is committed.
TryMarkProcessed(h) ==
    LET e == job[h].event
    IN  /\ \/ e \in processed /\ Goto(h, "begin", "acking")
           \/ /\ e \notin processed
              /\ \A g \in Handlers : Acquired(g) => job[g].event # e
              /\ Goto(h, "begin", "resolving")
        /\ UNCHANGED <<queueVars, dbVars, ghostVars, faults>>

\* Mutant: the organization is that of the message, not of the task.
ResolveFromMessage(h) ==
    /\ job[h].at = "resolving"
    /\ job' = [job EXCEPT ![h].at = "posting", ![h].todo = Subscribers[job[h].event]]
    /\ UNCHANGED <<queueVars, dbVars, ghostVars, faults>>

\* Task join Project finds the organization only while the task exists.
ResolveSubscribers(h) ==
    /\ job[h].at = "resolving"
    /\ LET e == job[h].event
       IN  job' = [job EXCEPT ![h].at = "posting",
                              ![h].todo =
                                  IF Subject[e] \in tasks THEN Subscribers[e] ELSE {}]
    /\ UNCHANGED <<queueVars, dbVars, ghostVars, faults>>

\* One request.  Any answer, or none (httpx.HTTPError is caught), ends in a delivery
\* row of the transaction: a refused event is not retried.
Post(h, k) ==
    /\ job[h].at = "posting"
    /\ k \in job[h].todo \ (Unusable \cup Broken)
    /\ job' = [job EXCEPT ![h].todo = @ \ {k}, ![h].rows = @ \cup {k}]
    /\ posts' = [posts EXCEPT ![job[h].event][k] = @ + 1]
    /\ UNCHANGED <<queueVars, dbVars, sent, skipped, aborts, faults>>

\* The subscription has no secret, or its URL is, or at this moment resolves to,
\* nothing is_safe_webhook_url accepts: no request and no row.
Skip(h, k) ==
    /\ job[h].at = "posting"
    /\ k \in job[h].todo
    /\ k \in Unusable \/ "endpoint" \in Faults
    /\ job' = [job EXCEPT ![h].todo = @ \ {k}]
    /\ skipped' = skipped \cup {<<job[h].event, k>>}
    /\ UNCHANGED <<queueVars, dbVars, sent, posts, aborts, faults>>

\* The transaction commits: the row of the event and all delivery rows.
Commit(h) ==
    /\ Goto(h, "posting", "acking")
    /\ job[h].todo = {}
    /\ LET e == job[h].event
       IN  /\ processed' = processed \cup {e}
           /\ recorded' = [recorded EXCEPT ![e] =
                             [k \in Hooks |-> IF k \in job[h].rows THEN @[k] + 1 ELSE @[k]]]
    /\ UNCHANGED <<queueVars, tasks, ghostVars, faults>>

\* The transaction rolls back, its delivery rows with it; its requests stay made.
Abort(h, to) ==
    /\ job' = [job EXCEPT ![h].at = to, ![h].todo = {}, ![h].rows = {}]
    /\ aborts' = [aborts EXCEPT ![job[h].event] = @ + 1]
    /\ UNCHANGED <<queueVars, dbVars, sent, posts, skipped>>

\* ValueError of decrypt_webhook_secret: "unexpected error".
DecryptFails(h, k) ==
    /\ job[h].at = "posting"
    /\ k \in (job[h].todo \cap Broken) \ Unusable
    /\ Abort(h, "rejecting")
    /\ UNCHANGED faults

\* A statement or the commit fails.  SQLAlchemyError leads to a retry, any other
\* error (the connection is refused) to the dead-letter queue.
DatabaseFails(h) ==
    /\ Fault("database")
    /\ \/ job[h].at \in {"begin", "resolving"}
       \/ job[h].at = "posting" /\ job[h].todo = {}
    /\ Abort(h, "retrying") \/ Abort(h, "rejecting")

\* ack() of the message, or of one whose delivery tag is gone: the broker has
\* requeued that one already and the error ends the handler.
Ack(h) ==
    /\ Return(h, "acking")
    /\ UNCHANGED <<queueVars, dbVars, ghostVars, faults>>

Reject(h) ==
    /\ Return(h, "rejecting")
    /\ dlq' = [dlq EXCEPT ![job[h].event] = IF job[h].live THEN @ + 1 ELSE @]
    /\ UNCHANGED <<ready, parked, dbVars, ghostVars, faults>>

\* handle_retry: a copy on the next rung, then the ack of the message.
Park(h) ==
    /\ job[h].level < MaxRetries
    /\ parked' = [parked EXCEPT ![job[h].event][job[h].level + 1] = @ + 1]

\* Mutant: after the copy the message is rejected.
ScheduleRetryRejects(h) ==
    /\ Goto(h, "retrying", "rejecting")
    /\ Park(h)
    /\ UNCHANGED <<ready, dlq, dbVars, ghostVars, faults>>

ScheduleRetry(h) ==
    /\ Goto(h, "retrying", "acking")
    /\ Park(h)
    /\ UNCHANGED <<ready, dlq, dbVars, ghostVars, faults>>

RetriesExhausted(h) ==
    /\ job[h].level = MaxRetries
    /\ Goto(h, "retrying", "rejecting")
    /\ UNCHANGED <<queueVars, dbVars, ghostVars, faults>>

\* Mutant: the error is swallowed and the message acked.
RetryFailsUnnoticed(h) ==
    /\ Fault("broker")
    /\ job[h].level < MaxRetries
    /\ Goto(h, "retrying", "acking")
    /\ UNCHANGED <<queueVars, dbVars, ghostVars>>

\* publish_retry raises, with or without the copy in the retry queue.  Nobody
\* catches it: the message is neither acked nor rejected and keeps its slot.
RetryFails(h) ==
    /\ Fault("broker")
    /\ job[h].at = "retrying" /\ job[h].level < MaxRetries
    /\ Park(h) \/ UNCHANGED parked
    /\ job' = [job EXCEPT ![h] = IF @.live THEN [@ EXCEPT !.at = "stuck"] ELSE Idle]
    /\ UNCHANGED <<ready, dlq, dbVars, ghostVars>>

(***************************************************************************)
(* The process and its connection.                                         *)
(***************************************************************************)

Residents(w) == {h \in Handlers : Home[h] = w}

\* The broker puts unacknowledged messages back, with their x-retry-count.
Requeue(w) ==
    ready' = [e \in Events |-> [r \in Levels |->
                ready[e][r] + Cardinality({h \in Residents(w) :
                  job[h].live /\ job[h].event = e /\ job[h].level = r})]]

\* The channel closes; handlers that are running go on with a dead delivery tag.
ConnectionLost(w) ==
    /\ Fault("broker")
    /\ \E h \in Residents(w) : job[h].live
    /\ Requeue(w)
    /\ job' = [h \in Handlers |->
                 IF h \notin Residents(w) THEN job[h]
                 ELSE IF job[h].at = "stuck" THEN Idle
                 ELSE [job[h] EXCEPT !.live = FALSE]]
    /\ UNCHANGED <<parked, dlq, dbVars, ghostVars>>

\* The process is killed, or stops on SIGTERM with handlers running, and starts
\* again: transactions roll back, messages return to the queue.
Crash(w) ==
    /\ Fault("crash")
    /\ \E h \in Residents(w) : job[h].at # "idle"
    /\ Requeue(w)
    /\ job' = [h \in Handlers |-> IF h \in Residents(w) THEN Idle ELSE job[h]]
    /\ aborts' = [e \in Events |->
                    IF \E h \in Residents(w) : Acquired(h) /\ job[h].event = e
                    THEN aborts[e] + 1 ELSE aborts[e]]
    /\ UNCHANGED <<parked, dlq, dbVars, sent, posts, skipped>>

Handle(h) ==
    \/ \E e \in Events, r \in Levels : Receive(h, e, r)
    \/ TryMarkProcessed(h) \/ ResolveSubscribers(h)
    \/ \E k \in Hooks : Post(h, k) \/ Skip(h, k) \/ DecryptFails(h, k)
    \/ Commit(h) \/ Ack(h) \/ Reject(h)
    \/ ScheduleRetry(h) \/ RetriesExhausted(h)

ConsumerStep ==
    \/ \E e \in Events, r \in Levels : Expire(e, r)
    \/ \E h \in Handlers : Handle(h) \/ DatabaseFails(h) \/ RetryFails(h)
    \/ \E w \in Workers : ConnectionLost(w) \/ Crash(w)

Next ==
    \/ \E e \in Events : Publish(e)
    \/ \E t \in Tasks : DeleteTask(t)
    \/ ConsumerStep

Spec == Init /\ [][Next]_vars

\* A running handler takes its next step (the HTTP client has a timeout) and the
\* broker expires parked messages.
Fairness ==
    /\ \A h \in Handlers : WF_vars(Handle(h))
    /\ \A e \in Events, r \in Levels : WF_vars(Expire(e, r))

(***************************************************************************)
(* Safety.                                                                 *)
(***************************************************************************)

\* However often an event is published, redelivered or retried, and whichever
\* handlers get its copies, one subscription has at most one delivery row for it
\* (try_mark_processed and the delivery rows commit together).
RecordedOnce ==
    \A e \in Events, k \in Hooks : recorded[e][k] <= 1

\* A subscription receives an event again only after a transaction that had already
\* posted it was rolled back: copies alone never repeat a request, not even those
\* that two handlers process at the same time.
RepeatsNeedRollback ==
    \A e \in Events, k \in Hooks : posts[e][k] <= 1 + aborts[e]

\* Copies of e that will still be handled.
InTransit(e) ==
    \/ \E r \in Levels : ready[e][r] + parked[e][r] > 0
    \/ \E h \in Handlers : job[h].live /\ job[h].event = e

\* A published event is processed, in the dead-letter queue, or still on its way,
\* whatever crashes between the steps of process_message and handle_retry.
NoMessageLost ==
    \A e \in Events :
        sent[e] > 0 => e \in processed \/ dlq[e] > 0 \/ InTransit(e)

\* An event that counts as processed was sent to every subscription that could be
\* used, unless its task is gone.
ProcessedReachedSubscribers ==
    \A e \in processed, k \in Hooks :
        /\ k \in Subscribers[e]
        /\ Subject[e] \in tasks
        /\ <<e, k>> \notin skipped
        => recorded[e][k] = 1 /\ posts[e][k] > 0

(***************************************************************************)
(* The promise to the subscribers.                                         *)
(***************************************************************************)

Delivery == INSTANCE EventDelivery
            WITH Unreachable <- Unusable \cup Broken,
                 offered <- {e \in Events : sent[e] > 0},
                 told <- posts,
                 passed <- skipped,
                 settled <- processed

\* Copies, handlers and faults do not show in what a subscriber sees: no request for
\* an event once it counts as processed, one processing of it, one delivery row for
\* each subscription, and all of these or, for a task that is gone, none.
DeliversEvents == Delivery!DSpec

(***************************************************************************)
(* How an event ends.                                                      *)
(***************************************************************************)

Handled(e) == e \in processed \/ dlq[e] > 0

\* publish_retry failed: the message stays unacknowledged until the channel closes.
Stuck(h) == job[h].at = "stuck"

=============================================================================
