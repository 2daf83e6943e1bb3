---------------------------- MODULE OutboxWorker ----------------------------
(***************************************************************************)
(* The outbox worker: any number of worker processes drain the table       *)
(* outbox_events into the RabbitMQ exchange flowforge.events               *)
(* (src/src/worker.py over src/src/outbox/repository.py and                *)
(* src/src/messaging/publisher.py).                                        *)
(*                                                                         *)
(* A worker claims a batch in one transaction, publishes the events one by *)
(* one outside any transaction, and settles each in a transaction of its   *)
(* own.  The process may die, the database may refuse a transaction and    *)
(* the broker may refuse a message, or lose its confirm, at every await.   *)
(***************************************************************************)
EXTENDS Naturals, FiniteSets

CONSTANTS
    Events,       \* rows the API may commit to outbox_events
    Workers,      \* worker processes
    BatchSize,    \* settings.outbox_batch_size
    MaxAttempts,  \* max_attempts of mark_failed_or_retry
    CreatedAt,    \* CreatedAt[e]: rank of the row's created_at
    NoEvent,      \* a worker that is at no event of its batch
    Faults        \* the kinds of disturbance that may happen

FaultKinds == {"crash", "database", "broker", "stop"}

ASSUME ConstantsAssumption ==
    /\ IsFiniteSet(Events)
    /\ BatchSize \in Nat \ {0}
    /\ MaxAttempts \in Nat \ {0}
    /\ CreatedAt \in [Events -> Nat]
    /\ NoEvent \notin Events
    /\ Faults \subseteq FaultKinds

VARIABLES
    status,    \* OutboxEvent.status, "absent" before the API commits the row
    attempts,  \* OutboxEvent.attempts
    due,       \* next_attempt_at is NULL or has passed
    accepted,  \* copies of the event the broker has taken (not a program variable)
    pc,        \* where each worker is
    batch,     \* events claimed by a worker and not settled by it yet
    cur        \* the event its loop is at

rowVars == <<status, attempts, due>>
vars == <<rowVars, accepted, pc, batch, cur>>

Statuses == {"absent", "pending", "processing", "processed", "failed"}
Settled == {"processed", "failed"}
Locations == {"down", "idle", "claiming", "looping", "publishing",
              "confirming", "marking", "handling"}

TypeOK ==
    /\ status \in [Events -> Statuses]
    /\ attempts \in [Events -> 0 .. MaxAttempts]
    /\ due \in [Events -> BOOLEAN]
    /\ accepted \in [Events -> 0 .. MaxAttempts]
    /\ pc \in [Workers -> Locations]
    /\ batch \in [Workers -> SUBSET Events]
    /\ cur \in [Workers -> Events \cup {NoEvent}]

Init ==
    /\ status = [e \in Events |-> "absent"]
    /\ attempts = [e \in Events |-> 0]
    /\ due = [e \in Events |-> FALSE]
    /\ accepted = [e \in Events |-> 0]
    /\ pc = [w \in Workers |-> "down"]
    /\ batch = [w \in Workers |-> {}]
    /\ cur = [w \in Workers |-> NoEvent]

Goto(w, from, to) == pc[w] = from /\ pc' = [pc EXCEPT ![w] = to]

(***************************************************************************)
(* The API and the clock.                                                  *)
(***************************************************************************)

\* A request commits a task change and its event: PENDING, no attempts made,
\* next_attempt_at NULL.  created_at is the start of that transaction, so rows
\* may appear in another order than their created_at.
Enqueue(e) ==
    /\ status[e] = "absent"
    /\ status' = [status EXCEPT ![e] = "pending"]
    /\ due' = [due EXCEPT ![e] = TRUE]
    /\ UNCHANGED <<attempts, accepted, pc, batch, cur>>

\* now reaches next_attempt_at, min(300, 2^attempts) seconds after the failure.
BackoffElapses(e) ==
    /\ status[e] = "pending"
    /\ ~due[e]
    /\ due' = [due EXCEPT ![e] = TRUE]
    /\ UNCHANGED <<status, attempts, accepted, pc, batch, cur>>

(***************************************************************************)
(* Claiming a batch.                                                       *)
(***************************************************************************)

\* Rows another claim transaction holds with FOR UPDATE.
Locked(e) == \E w \in Workers : pc[w] = "claiming" /\ e \in batch[w]

\* Mutants: a plain SELECT; a SELECT that also takes PROCESSING rows; one that
\* only takes rows whose next_attempt_at is NULL.
ClaimableUnlocked == {e \in Events : status[e] = "pending" /\ due[e]}
ClaimableProcessing ==
    {e \in Events : status[e] \in {"pending", "processing"} /\ due[e] /\ ~Locked(e)}
ClaimableFirstAttempt ==
    {e \in Events : status[e] = "pending" /\ attempts[e] = 0 /\ ~Locked(e)}

Claimable == {e \in Events : status[e] = "pending" /\ due[e] /\ ~Locked(e)}

\* Mutant: no ORDER BY.
AnyBatch(S) ==
    /\ S \subseteq Claimable
    /\ Cardinality(S) <= BatchSize
    /\ S = Claimable \/ Cardinality(S) = BatchSize

\* ORDER BY created_at LIMIT BatchSize; ties come in any order.
OldestBatch(S) ==
    /\ S \subseteq Claimable
    /\ Cardinality(S) <= BatchSize
    /\ S = Claimable \/ Cardinality(S) = BatchSize
    /\ \A e \in S, f \in Claimable \ S : CreatedAt[e] <= CreatedAt[f]

\* The SELECT ... FOR UPDATE SKIP LOCKED of claim_pending locks its rows; the
\* UPDATE to PROCESSING is invisible to others until the commit.  An empty
\* batch leaves the worker idle until its next poll.
ClaimPending(w) ==
    /\ Goto(w, "idle", "claiming")
    /\ \E S \in SUBSET Claimable :
          /\ S # {}
          /\ OldestBatch(S)
          /\ batch' = [batch EXCEPT ![w] = S]
    /\ UNCHANGED <<status, attempts, due, accepted, cur>>

\* Mutant: the rows are not set to PROCESSING.
CommitClaimUnmarked(w) ==
    /\ Goto(w, "claiming", "looping")
    /\ UNCHANGED <<status, attempts, due, accepted, batch, cur>>

CommitClaim(w) ==
    /\ Goto(w, "claiming", "looping")
    /\ status' = [e \in Events |->
                    IF e \in batch[w] THEN "processing" ELSE status[e]]
    /\ UNCHANGED <<attempts, due, accepted, batch, cur>>

\* The claim transaction rolls back; run_outbox_loop catches the error.
ClaimFails(w) ==
    /\ "database" \in Faults
    /\ Goto(w, "claiming", "idle")
    /\ batch' = [batch EXCEPT ![w] = {}]
    /\ UNCHANGED <<status, attempts, due, accepted, cur>>

(***************************************************************************)
(* The loop over the batch.                                                *)
(***************************************************************************)

\* The loop goes through the rows in the order the query returned them.
TakeNext(w) ==
    /\ Goto(w, "looping", "publishing")
    /\ \E e \in batch[w] :
          /\ \A f \in batch[w] : CreatedAt[e] <= CreatedAt[f]
          /\ cur' = [cur EXCEPT ![w] = e]
    /\ UNCHANGED <<status, attempts, due, accepted, batch>>

FinishBatch(w) ==
    /\ batch[w] = {}
    /\ Goto(w, "looping", "idle")
    /\ UNCHANGED <<status, attempts, due, accepted, batch, cur>>

\* The broker takes the message; the worker does not know yet.
BrokerAccepts(w) ==
    /\ Goto(w, "publishing", "confirming")
    /\ accepted' = [accepted EXCEPT ![cur[w]] = @ + 1]
    /\ UNCHANGED <<status, attempts, due, batch, cur>>

\* The publisher confirm arrives: publish() returns.
Confirmed(w) ==
    /\ Goto(w, "confirming", "marking")
    /\ UNCHANGED <<status, attempts, due, accepted, batch, cur>>

\* build_outbox_message or publish() raises, before or after the broker took
\* the message.
PublishRaises(w) ==
    /\ "broker" \in Faults
    /\ Goto(w, "publishing", "handling") \/ Goto(w, "confirming", "handling")
    /\ UNCHANGED <<status, attempts, due, accepted, batch, cur>>

\* The loop has dealt with its event and goes on to the rest of the batch.
DoneWithCurrent(w) ==
    /\ batch' = [batch EXCEPT ![w] = @ \ {cur[w]}]
    /\ cur' = [cur EXCEPT ![w] = NoEvent]

MarkProcessed(w) ==
    /\ Goto(w, "marking", "looping")
    /\ status' = [status EXCEPT ![cur[w]] = "processed"]
    /\ DoneWithCurrent(w)
    /\ UNCHANGED <<attempts, due, accepted>>

\* The transaction of mark_processed is inside the try: its failure is handled
\* like a failed publish although the broker has the message.
MarkProcessedFails(w) ==
    /\ "database" \in Faults
    /\ Goto(w, "marking", "handling")
    /\ UNCHANGED <<status, attempts, due, accepted, batch, cur>>

\* Mutants: the failure is settled as the three arguments say.
SettleFailure(w, counted, exhausted, retryStatus) ==
    /\ Goto(w, "handling", "looping")
    /\ attempts' = [attempts EXCEPT ![cur[w]] = counted]
    /\ status' = [status EXCEPT ![cur[w]] = IF exhausted THEN "failed" ELSE retryStatus]
    /\ due' = [due EXCEPT ![cur[w]] = exhausted /\ @]
    /\ DoneWithCurrent(w)
    /\ UNCHANGED accepted

RetryUncounted(w) == SettleFailure(w, attempts[cur[w]], FALSE, "pending")
RetryOnceMore(w) ==
    SettleFailure(w, attempts[cur[w]] + 1, attempts[cur[w]] + 1 > MaxAttempts, "pending")
RetryStaysProcessing(w) ==
    SettleFailure(w, attempts[cur[w]] + 1, attempts[cur[w]] + 1 >= MaxAttempts, "processing")

\* attempts reaches max_attempts: the event is FAILED and next_attempt_at stays.
\* Below it the event is PENDING again, to be claimed when its backoff elapses.
MarkFailedOrRetry(w) ==
    /\ Goto(w, "handling", "looping")
    /\ LET e == cur[w]
           exhausted == attempts[e] + 1 >= MaxAttempts
       IN  /\ attempts' = [attempts EXCEPT ![e] = @ + 1]
           /\ status' = [status EXCEPT ![e] = IF exhausted THEN "failed" ELSE "pending"]
           /\ due' = [due EXCEPT ![e] = exhausted /\ @]
    /\ DoneWithCurrent(w)
    /\ UNCHANGED accepted

\* The worker forgets its batch, whose unsettled rows stay PROCESSING.
DropBatch(w) ==
    /\ batch' = [batch EXCEPT ![w] = {}]
    /\ cur' = [cur EXCEPT ![w] = NoEvent]
    /\ UNCHANGED <<status, attempts, due, accepted>>

\* The transaction inside the except clause fails: the error leaves
\* process_outbox_once with the rest of the batch unvisited.
HandlerFails(w) ==
    /\ "database" \in Faults
    /\ Goto(w, "handling", "idle")
    /\ DropBatch(w)

(***************************************************************************)
(* The process.                                                            *)
(***************************************************************************)

Start(w) ==
    /\ Goto(w, "down", "idle")
    /\ UNCHANGED <<status, attempts, due, accepted, batch, cur>>

\* SIGTERM sets stop_event, which the loop reads only between two batches.
Shutdown(w) ==
    /\ "stop" \in Faults
    /\ Goto(w, "idle", "down")
    /\ UNCHANGED <<status, attempts, due, accepted, batch, cur>>

\* The process is killed at any point; an open claim transaction rolls back.
Crash(w) ==
    /\ "crash" \in Faults
    /\ pc[w] # "down"
    /\ pc' = [pc EXCEPT ![w] = "down"]
    /\ DropBatch(w)

Advance(w) ==
    \/ Start(w) \/ ClaimPending(w) \/ CommitClaim(w)
    \/ TakeNext(w) \/ FinishBatch(w)
    \/ BrokerAccepts(w) \/ Confirmed(w) \/ PublishRaises(w)
    \/ MarkProcessed(w) \/ MarkFailedOrRetry(w)

DatabaseFails(w) == ClaimFails(w) \/ MarkProcessedFails(w) \/ HandlerFails(w)

Next ==
    \/ \E e \in Events : Enqueue(e) \/ BackoffElapses(e)
    \/ \E w \in Workers :
          Advance(w) \/ DatabaseFails(w) \/ Shutdown(w) \/ Crash(w)

Spec == Init /\ [][Next]_vars

\* A process that runs takes its next step, and a publish returns or raises.
\* run_outbox_loop enters process_outbox_once before it looks at stop_event
\* again, so a worker that is idle again and again also claims.
Fairness ==
    /\ \A w \in Workers : WF_vars(Advance(w)) /\ SF_vars(ClaimPending(w))
    /\ \A e \in Events : WF_vars(BackoffElapses(e))

FairSpec == Spec /\ Fairness

(***************************************************************************)
(* Safety.                                                                 *)
(***************************************************************************)

\* No event is in the hands of two workers, neither while their claim
\* transactions are open nor after they have committed (FOR UPDATE SKIP LOCKED
\* and the recheck of status in claim_pending).
SingleOwner ==
    \A v, w \in Workers : v # w => batch[v] \cap batch[w] = {}

\* An event counts as processed only if the broker has had it (process_outbox_once
\* marks after publish() returned).
ProcessedWasAccepted ==
    \A e \in Events : status[e] = "processed" => accepted[e] > 0

\* Lost confirms, failed marks and crashes may duplicate an event, but the
\* broker never holds more copies than attempts were counted, plus the one that
\* is still being settled: a failing database cannot make a worker flood it.
DuplicatesAreCounted ==
    \A e \in Events :
        /\ accepted[e] <= attempts[e] + 1
        /\ status[e] \in {"pending", "failed"} => accepted[e] <= attempts[e]

\* An event is given up exactly when its attempts are used up: neither earlier,
\* nor left pending with none remaining (the >= of mark_failed_or_retry).
GivenUpWhenExhausted ==
    \A e \in Events :
        status[e] # "absent" => (status[e] = "failed" <=> attempts[e] = MaxAttempts)

\* A worker is at an event of its batch from the moment it publishes it.
InFlight == {"publishing", "confirming", "marking", "handling"}

\* What a worker believes of its batch is what the table says, although other
\* workers commit in between: its rows are PENDING and locked until the claim
\* commits, PROCESSING from then on; it marks only what the broker has had, and
\* only the event it is at may have a copy that no attempt counts yet.
WorkersAgreeWithRows ==
    \A w \in Workers :
        /\ pc[w] \in {"down", "idle"} => batch[w] = {}
        /\ IF pc[w] \in InFlight THEN cur[w] \in batch[w] ELSE cur[w] = NoEvent
        /\ \A e \in batch[w] :
              status[e] = IF pc[w] = "claiming" THEN "pending" ELSE "processing"
        /\ pc[w] \in {"confirming", "marking"} => accepted[cur[w]] > 0
        /\ \A e \in batch[w] :
              \/ accepted[e] <= attempts[e]
              \/ e = cur[w] /\ pc[w] \in {"confirming", "marking", "handling"}

\* A row the API has not committed has no history.
AbsentIsFresh ==
    \A e \in Events : status[e] = "absent" => attempts[e] = 0 /\ accepted[e] = 0

\* A row that is PROCESSING and belongs to no running worker.
Stranded(e) ==
    status[e] = "processing" /\ \A w \in Workers : e \notin batch[w]

\* Nothing ever takes a stranded row up again: claim_pending selects PENDING rows
\* only, and no other statement of the program writes to the table.
StrandedForGood ==
    [][\A e \in Events : Stranded(e) => Stranded(e)']_vars

\* Rows are stranded by nothing but a crash or a failing transaction of the except
\* clause (process_outbox_once): a broker that refuses strands none.
StrandedByFaults ==
    [][(\E e \in Events : ~Stranded(e) /\ Stranded(e)')
          => \E w \in Workers : Crash(w) \/ HandlerFails(w)]_vars

(***************************************************************************)
(* Liveness.                                                               *)
(***************************************************************************)

FaultsCease == <>[][\A w \in Workers : ~Crash(w) /\ ~DatabaseFails(w)]_vars

\* Once crashes and database errors cease, every event the API committed is
\* processed or given up, however often the broker fails and workers restart.
EveryEventSettles ==
    FaultsCease =>
        \A e \in Events : status[e] = "pending" ~> status[e] \in Settled

\* The only other fate of an event is to be stranded (by a fault before that, see
\* StrandedByFaults): none is skipped, starved or retried for ever.
SettlesOrStrands ==
    FaultsCease =>
        \A e \in Events :
            status[e] = "pending" ~> (status[e] \in Settled \/ Stranded(e))

(***************************************************************************)
(* The promise to the API.                                                 *)
(***************************************************************************)

PhaseOf(s) ==
    CASE s = "absent" -> "none"
      [] s \in {"pending", "processing"} -> "queued"
      [] s = "processed" -> "sent"
      [] s = "failed" -> "dead"

Promise == INSTANCE AtLeastOnceOutbox
           WITH MaxCopies <- MaxAttempts,
                phase <- [e \in Events |-> PhaseOf(status[e])],
                copies <- accepted

\* The workers implement the at-least-once outbox: published before processed,
\* at most MaxAttempts copies, and none after the event is settled.
KeepsPromise == Promise!ASpec

=============================================================================
