------------------------- MODULE OutboxWorkerProofs -------------------------
(***************************************************************************)
(* Theorems about OutboxWorker for every set of events and of workers,     *)
(* every batch size, every limit of attempts and every kind of fault.      *)
(*                                                                         *)
(* IInv is inductive.  SingleOwner alone is not: that no claim takes a row *)
(* of another worker follows from what a worker's rows look like in the    *)
(* table while it holds them, which is WorkersAgreeWithRows.               *)
(***************************************************************************)
EXTENDS OrderlyOutbox, EventPath, TLAPS

IInv ==
    /\ TypeOK
    /\ SingleOwner
    /\ WorkersAgreeWithRows
    /\ AbsentIsFresh
    /\ ProcessedWasAccepted
    /\ DuplicatesAreCounted
    /\ GivenUpWhenExhausted

LEMMA InitIInv == Init => IInv
BY ConstantsAssumption
   DEF Init, IInv, TypeOK, SingleOwner, WorkersAgreeWithRows, AbsentIsFresh,
       ProcessedWasAccepted, DuplicatesAreCounted, GivenUpWhenExhausted,
       Statuses, Locations, InFlight

(***************************************************************************)
(* One lemma per action.                                                   *)
(***************************************************************************)

LEMMA EnqueueIInv == ASSUME IInv, NEW e \in Events, Enqueue(e) PROVE IInv'
BY ConstantsAssumption
   DEF Enqueue, IInv, TypeOK, SingleOwner, WorkersAgreeWithRows, AbsentIsFresh,
       ProcessedWasAccepted, DuplicatesAreCounted, GivenUpWhenExhausted,
       Statuses, Locations, InFlight

LEMMA BackoffIInv == ASSUME IInv, NEW e \in Events, BackoffElapses(e) PROVE IInv'
BY DEF BackoffElapses, IInv, TypeOK, SingleOwner, WorkersAgreeWithRows,
       AbsentIsFresh, ProcessedWasAccepted, DuplicatesAreCounted,
       GivenUpWhenExhausted, Statuses, Locations, InFlight

LEMMA ClaimPendingIInv == ASSUME IInv, NEW w \in Workers, ClaimPending(w) PROVE IInv'
BY ConstantsAssumption
   DEF ClaimPending, Goto, Claimable, Locked, IInv, TypeOK, SingleOwner,
       WorkersAgreeWithRows, AbsentIsFresh, ProcessedWasAccepted,
       DuplicatesAreCounted, GivenUpWhenExhausted, Statuses, Locations, InFlight

LEMMA CommitClaimIInv == ASSUME IInv, NEW w \in Workers, CommitClaim(w) PROVE IInv'
BY ConstantsAssumption
   DEF CommitClaim, Goto, IInv, TypeOK, SingleOwner,
       WorkersAgreeWithRows, AbsentIsFresh, ProcessedWasAccepted,
       DuplicatesAreCounted, GivenUpWhenExhausted, Statuses, Locations, InFlight

LEMMA TakeNextIInv == ASSUME IInv, NEW w \in Workers, TakeNext(w) PROVE IInv'
BY ConstantsAssumption
   DEF TakeNext, Goto, IInv, TypeOK, SingleOwner,
       WorkersAgreeWithRows, AbsentIsFresh, ProcessedWasAccepted,
       DuplicatesAreCounted, GivenUpWhenExhausted, Statuses, Locations, InFlight

LEMMA BrokerAcceptsIInv == ASSUME IInv, NEW w \in Workers, BrokerAccepts(w) PROVE IInv'
<1> DEFINE e == cur[w]
<1>1. /\ e \in Events /\ e \in batch[w] /\ status[e] = "processing"
      /\ accepted[e] <= attempts[e]
      /\ attempts[e] # MaxAttempts
  BY ConstantsAssumption
     DEF BrokerAccepts, Goto, IInv, TypeOK, WorkersAgreeWithRows, InFlight,
         GivenUpWhenExhausted
<1>2. accepted[e] \in Nat /\ attempts[e] \in Nat /\ accepted[e] + 1 \in 0 .. MaxAttempts
  BY <1>1, ConstantsAssumption DEF IInv, TypeOK
<1>3. /\ accepted' = [accepted EXCEPT ![e] = accepted[e] + 1]
      /\ pc' = [pc EXCEPT ![w] = "confirming"] /\ pc[w] = "publishing"
      /\ UNCHANGED <<status, attempts, due, batch, cur>>
  BY DEF BrokerAccepts, Goto
<1>4. TypeOK'
  BY <1>1, <1>2, <1>3 DEF IInv, TypeOK, Locations
<1>5. SingleOwner'
  BY <1>3 DEF IInv, SingleOwner
<1>6. WorkersAgreeWithRows'
  <2> SUFFICES ASSUME NEW v \in Workers PROVE WorkersAgreeWithRows!(v)'
    BY DEF WorkersAgreeWithRows
  <2>1. CASE v = w
    BY <2>1, <1>1, <1>2, <1>3 DEF IInv, TypeOK, WorkersAgreeWithRows, InFlight
  <2>2. CASE v # w
    <3>1. e \notin batch[v]
      BY <2>2, <1>1 DEF IInv, SingleOwner
    <3>2. QED
      BY <2>2, <3>1, <1>1, <1>2, <1>3 DEF IInv, TypeOK, WorkersAgreeWithRows, InFlight
  <2>3. QED
    BY <2>1, <2>2
<1>7. AbsentIsFresh' /\ ProcessedWasAccepted' /\ DuplicatesAreCounted' /\ GivenUpWhenExhausted'
  BY <1>1, <1>2, <1>3
     DEF IInv, TypeOK, AbsentIsFresh, ProcessedWasAccepted, DuplicatesAreCounted,
         GivenUpWhenExhausted
<1>8. QED
  BY <1>4, <1>5, <1>6, <1>7 DEF IInv

LEMMA MarkProcessedIInv == ASSUME IInv, NEW w \in Workers, MarkProcessed(w) PROVE IInv'
BY ConstantsAssumption
   DEF MarkProcessed, DoneWithCurrent, Goto, IInv, TypeOK, SingleOwner,
       WorkersAgreeWithRows, AbsentIsFresh, ProcessedWasAccepted,
       DuplicatesAreCounted, GivenUpWhenExhausted, Statuses, Locations, InFlight

LEMMA MarkFailedOrRetryIInv ==
    ASSUME IInv, NEW w \in Workers, MarkFailedOrRetry(w) PROVE IInv'
<1> DEFINE e == cur[w]
           exhausted == attempts[e] + 1 >= MaxAttempts
<1>1. /\ e \in Events /\ e \in batch[w] /\ status[e] = "processing"
      /\ attempts[e] # MaxAttempts
  BY ConstantsAssumption
     DEF MarkFailedOrRetry, Goto, IInv, TypeOK, WorkersAgreeWithRows, InFlight,
         GivenUpWhenExhausted
<1>2. /\ accepted[e] \in Nat /\ attempts[e] \in Nat
      /\ attempts[e] + 1 \in 0 .. MaxAttempts
      /\ accepted[e] <= attempts[e] + 1
      /\ exhausted <=> attempts[e] + 1 = MaxAttempts
  BY <1>1, ConstantsAssumption DEF IInv, TypeOK, DuplicatesAreCounted
<1>3. /\ attempts' = [attempts EXCEPT ![e] = attempts[e] + 1]
      /\ status' = [status EXCEPT ![e] = IF exhausted THEN "failed" ELSE "pending"]
      /\ due' = [due EXCEPT ![e] = exhausted /\ due[e]]
      /\ pc' = [pc EXCEPT ![w] = "looping"] /\ pc[w] = "handling"
      /\ batch' = [batch EXCEPT ![w] = batch[w] \ {e}]
      /\ cur' = [cur EXCEPT ![w] = NoEvent]
      /\ accepted' = accepted
  BY DEF MarkFailedOrRetry, DoneWithCurrent, Goto
<1> HIDE DEF exhausted
<1>4. TypeOK'
  <2>1. due' \in [Events -> BOOLEAN]
    BY <1>1, <1>3 DEF IInv, TypeOK
  <2>2. QED
    BY <2>1, <1>1, <1>2, <1>3 DEF IInv, TypeOK, Locations, Statuses
<1>5. SingleOwner'
  BY <1>3 DEF IInv, TypeOK, SingleOwner
<1>6. WorkersAgreeWithRows'
  <2> SUFFICES ASSUME NEW v \in Workers PROVE WorkersAgreeWithRows!(v)'
    BY DEF WorkersAgreeWithRows
  <2>1. CASE v = w
    BY <2>1, <1>1, <1>2, <1>3 DEF IInv, TypeOK, WorkersAgreeWithRows, InFlight
  <2>2. CASE v # w
    <3>1. e \notin batch[v]
      BY <2>2, <1>1 DEF IInv, SingleOwner
    <3>2. QED
      BY <2>2, <3>1, <1>1, <1>2, <1>3 DEF IInv, TypeOK, WorkersAgreeWithRows, InFlight
  <2>3. QED
    BY <2>1, <2>2
<1>7. AbsentIsFresh' /\ ProcessedWasAccepted' /\ DuplicatesAreCounted' /\ GivenUpWhenExhausted'
  BY <1>1, <1>2, <1>3
     DEF IInv, TypeOK, AbsentIsFresh, ProcessedWasAccepted, DuplicatesAreCounted,
         GivenUpWhenExhausted
<1>8. QED
  BY <1>4, <1>5, <1>6, <1>7 DEF IInv

\* The steps that only move a worker's program counter.
LEMMA MovesOnlyIInv ==
    ASSUME IInv, NEW w \in Workers,
           \/ FinishBatch(w) \/ Confirmed(w) \/ PublishRaises(w)
           \/ MarkProcessedFails(w) \/ Start(w) \/ Shutdown(w)
    PROVE  IInv'
<1>1. /\ UNCHANGED <<status, attempts, due, accepted, batch, cur>>
      /\ \/ /\ pc[w] \in {"looping", "down", "idle"} /\ batch[w] = {}
            /\ pc' = [pc EXCEPT ![w] = "idle"] \/ pc' = [pc EXCEPT ![w] = "down"]
         \/ pc[w] = "confirming" /\ pc' = [pc EXCEPT ![w] = "marking"]
         \/ /\ pc[w] \in {"publishing", "confirming", "marking"}
            /\ pc' = [pc EXCEPT ![w] = "handling"]
  BY DEF IInv, WorkersAgreeWithRows, FinishBatch, Confirmed, PublishRaises,
         MarkProcessedFails, Start, Shutdown, Goto
<1>2. TypeOK' /\ SingleOwner'
  BY <1>1 DEF IInv, TypeOK, SingleOwner, Locations
<1>3. WorkersAgreeWithRows'
  BY <1>1 DEF IInv, TypeOK, WorkersAgreeWithRows, InFlight
<1>4. AbsentIsFresh' /\ ProcessedWasAccepted' /\ DuplicatesAreCounted' /\ GivenUpWhenExhausted'
  BY <1>1 DEF IInv, AbsentIsFresh, ProcessedWasAccepted, DuplicatesAreCounted,
              GivenUpWhenExhausted
<1>5. QED
  BY <1>2, <1>3, <1>4 DEF IInv

\* The steps after which a worker has forgotten its batch.
LEMMA ForgetsIInv ==
    ASSUME IInv, NEW w \in Workers, ClaimFails(w) \/ HandlerFails(w) \/ Crash(w)
    PROVE  IInv'
<1>1. /\ UNCHANGED <<status, attempts, due, accepted>>
      /\ batch' = [batch EXCEPT ![w] = {}] /\ cur' = [cur EXCEPT ![w] = NoEvent]
      /\ pc' = [pc EXCEPT ![w] = "idle"] \/ pc' = [pc EXCEPT ![w] = "down"]
  BY DEF IInv, TypeOK, WorkersAgreeWithRows, InFlight, ClaimFails, HandlerFails, Crash,
         DropBatch, Goto
<1>2. TypeOK' /\ SingleOwner'
  BY <1>1 DEF IInv, TypeOK, SingleOwner, Locations
<1>3. WorkersAgreeWithRows'
  BY <1>1 DEF IInv, TypeOK, WorkersAgreeWithRows, InFlight
<1>4. AbsentIsFresh' /\ ProcessedWasAccepted' /\ DuplicatesAreCounted' /\ GivenUpWhenExhausted'
  BY <1>1 DEF IInv, AbsentIsFresh, ProcessedWasAccepted, DuplicatesAreCounted,
              GivenUpWhenExhausted
<1>5. QED
  BY <1>2, <1>3, <1>4 DEF IInv

(***************************************************************************)
(* The invariant and what follows from it.                                 *)
(***************************************************************************)

LEMMA NextIInv == IInv /\ [Next]_vars => IInv'
<1> SUFFICES ASSUME IInv, [Next]_vars PROVE IInv'
  OBVIOUS
<1>1. CASE \E e \in Events : Enqueue(e) \/ BackoffElapses(e)
  BY <1>1, EnqueueIInv, BackoffIInv
<1>2. CASE \E w \in Workers : Advance(w)
  BY <1>2, MovesOnlyIInv, ClaimPendingIInv, CommitClaimIInv, TakeNextIInv,
     BrokerAcceptsIInv, MarkProcessedIInv, MarkFailedOrRetryIInv
     DEF Advance
<1>3. CASE \E w \in Workers : DatabaseFails(w) \/ Shutdown(w) \/ Crash(w)
  BY <1>3, MovesOnlyIInv, ForgetsIInv DEF DatabaseFails
<1>4. CASE UNCHANGED vars
  BY <1>4 DEF vars, rowVars, IInv, TypeOK, SingleOwner, WorkersAgreeWithRows, AbsentIsFresh,
              ProcessedWasAccepted, DuplicatesAreCounted, GivenUpWhenExhausted
<1>5. QED
  BY <1>1, <1>2, <1>3, <1>4 DEF Next

\* IInv holds in every reachable state.
THEOREM Invariance == Spec => []IInv
BY InitIInv, NextIInv, PTL DEF Spec

\* The variables of the outbox worker keep their types; in particular no event
\* is attempted, or given to the broker, more than MaxAttempts times.
THEOREM TypeCorrect == Spec => []TypeOK
<1>1. IInv => TypeOK
  BY DEF IInv
<1>2. QED
  BY <1>1, Invariance, PTL

\* Two workers never hold the same outbox event (FOR UPDATE SKIP LOCKED).
THEOREM EventsHaveOneOwner == Spec => []SingleOwner
<1>1. IInv => SingleOwner
  BY DEF IInv
<1>2. QED
  BY <1>1, Invariance, PTL

\* A processed event was published, and duplicates are bounded by the attempts
\* counted for it.
THEOREM PublishedBeforeProcessed == Spec => [](ProcessedWasAccepted /\ DuplicatesAreCounted)
<1>1. IInv => ProcessedWasAccepted /\ DuplicatesAreCounted
  BY DEF IInv
<1>2. QED
  BY <1>1, Invariance, PTL

\* Events are given up exactly when their attempts are used up.
THEOREM GivesUpExactlyWhenExhausted == Spec => []GivenUpWhenExhausted
<1>1. IInv => GivenUpWhenExhausted
  BY DEF IInv
<1>2. QED
  BY <1>1, Invariance, PTL

(***************************************************************************)
(* Stranded rows.                                                          *)
(***************************************************************************)

LEMMA StrandedStep ==
    ASSUME IInv, [Next]_vars, NEW e \in Events, Stranded(e) PROVE Stranded(e)'
<1>1. status[e] = "processing" /\ \A w \in Workers : e \notin batch[w]
  BY DEF Stranded
<1>2. CASE \E f \in Events : Enqueue(f) \/ BackoffElapses(f)
  BY <1>1, <1>2 DEF IInv, TypeOK, Stranded, Enqueue, BackoffElapses
<1>3. ASSUME NEW w \in Workers, ClaimPending(w) PROVE Stranded(e)'
  BY <1>1, <1>3 DEF IInv, TypeOK, Stranded, ClaimPending, Claimable
<1>4. ASSUME NEW w \in Workers, CommitClaim(w) PROVE Stranded(e)'
  BY <1>1, <1>4 DEF IInv, TypeOK, Stranded, CommitClaim
<1>5. ASSUME NEW w \in Workers, MarkProcessed(w) \/ MarkFailedOrRetry(w) PROVE Stranded(e)'
  <2>1. cur[w] \in batch[w]
    BY <1>5 DEF IInv, WorkersAgreeWithRows, InFlight, MarkProcessed, MarkFailedOrRetry, Goto
  <2>2. cur[w] # e
    BY <1>1, <2>1
  <2>3. status'[e] = status[e] /\ batch' = [batch EXCEPT ![w] = batch[w] \ {cur[w]}]
    BY <1>5, <2>2 DEF IInv, TypeOK, MarkProcessed, MarkFailedOrRetry, DoneWithCurrent
  <2>4. QED
    BY <1>1, <2>3 DEF IInv, TypeOK, Stranded
<1>6. ASSUME NEW w \in Workers, ClaimFails(w) \/ HandlerFails(w) \/ Crash(w)
      PROVE  Stranded(e)'
  BY <1>1, <1>6 DEF IInv, TypeOK, Stranded, ClaimFails, HandlerFails, Crash, DropBatch
<1>7. ASSUME NEW w \in Workers,
             \/ Start(w) \/ TakeNext(w) \/ FinishBatch(w) \/ BrokerAccepts(w) \/ Confirmed(w)
             \/ PublishRaises(w) \/ MarkProcessedFails(w) \/ Shutdown(w)
      PROVE  Stranded(e)'
  BY <1>1, <1>7 DEF Stranded, Start, TakeNext, FinishBatch, BrokerAccepts, Confirmed,
                    PublishRaises, MarkProcessedFails, Shutdown
<1>8. CASE UNCHANGED vars
  BY <1>1, <1>8 DEF Stranded, vars, rowVars
<1>9. QED
  BY <1>2, <1>3, <1>4, <1>5, <1>6, <1>7, <1>8 DEF Next, Advance, DatabaseFails

\* A row left PROCESSING by a worker that died or dropped its batch is never taken
\* up again, whatever the other workers do.
THEOREM StrandedRowsStay == Spec => StrandedForGood
<1>1. IInv /\ [Next]_vars => [\A e \in Events : Stranded(e) => Stranded(e)']_vars
  BY StrandedStep
<1>2. QED
  BY <1>1, Invariance, PTL DEF Spec, StrandedForGood

\* What a step that is no such fault strands was stranded before.
LEMMA NothingElseStrands ==
    ASSUME IInv, [Next]_vars, NEW e \in Events, Stranded(e)',
           \A w \in Workers : ~Crash(w) /\ ~HandlerFails(w)
    PROVE  Stranded(e)
<1>1. status'[e] = "processing" /\ \A w \in Workers : e \notin batch'[w]
  BY DEF Stranded
<1>2. CASE \E f \in Events : Enqueue(f) \/ BackoffElapses(f)
  BY <1>1, <1>2 DEF IInv, TypeOK, Stranded, Enqueue, BackoffElapses
<1>3. ASSUME NEW w \in Workers, ClaimPending(w) PROVE Stranded(e)
  <2>1. batch[w] = {} /\ status' = status
    BY <1>3 DEF IInv, WorkersAgreeWithRows, ClaimPending, Goto
  <2>2. \A v \in Workers \ {w} : batch'[v] = batch[v]
    BY <1>3 DEF IInv, TypeOK, ClaimPending
  <2>3. QED
    BY <1>1, <2>1, <2>2 DEF Stranded
<1>4. ASSUME NEW w \in Workers, CommitClaim(w) PROVE Stranded(e)
  BY <1>1, <1>4 DEF IInv, TypeOK, Stranded, CommitClaim
<1>5. ASSUME NEW w \in Workers, MarkProcessed(w) \/ MarkFailedOrRetry(w) PROVE Stranded(e)
  <2>1. cur[w] \in Events
    BY <1>5 DEF IInv, TypeOK, WorkersAgreeWithRows, InFlight, MarkProcessed,
                MarkFailedOrRetry, Goto
  <2>2. status'[cur[w]] # "processing"
    BY <1>5, <2>1 DEF IInv, TypeOK, MarkProcessed, MarkFailedOrRetry
  <2>3. e # cur[w]
    BY <1>1, <2>2
  <2>4. status'[e] = status[e] /\ batch' = [batch EXCEPT ![w] = batch[w] \ {cur[w]}]
    BY <1>5, <2>3 DEF IInv, TypeOK, MarkProcessed, MarkFailedOrRetry, DoneWithCurrent
  <2>5. QED
    BY <1>1, <2>3, <2>4 DEF IInv, TypeOK, Stranded
<1>6. ASSUME NEW w \in Workers, ClaimFails(w) PROVE Stranded(e)
  <2>1. e \notin batch[w] /\ status[e] = "processing"
    BY <1>1, <1>6 DEF IInv, WorkersAgreeWithRows, ClaimFails, Goto
  <2>2. \A v \in Workers \ {w} : batch'[v] = batch[v]
    BY <1>6 DEF IInv, TypeOK, ClaimFails
  <2>3. QED
    BY <1>1, <2>1, <2>2 DEF Stranded
<1>7. ASSUME NEW w \in Workers,
             \/ Start(w) \/ TakeNext(w) \/ FinishBatch(w) \/ BrokerAccepts(w) \/ Confirmed(w)
             \/ PublishRaises(w) \/ MarkProcessedFails(w) \/ Shutdown(w)
      PROVE  Stranded(e)
  BY <1>1, <1>7 DEF Stranded, Start, TakeNext, FinishBatch, BrokerAccepts, Confirmed,
                    PublishRaises, MarkProcessedFails, Shutdown
<1>8. CASE UNCHANGED vars
  BY <1>1, <1>8 DEF Stranded, vars, rowVars
<1>9. QED
  BY <1>2, <1>3, <1>4, <1>5, <1>6, <1>7, <1>8 DEF Next, Advance, DatabaseFails

\* Only a crash, or a failing transaction of the except clause, leaves a row
\* PROCESSING without a worker (process_outbox_once): neither the broker nor another
\* failing transaction does, whatever the other workers do meanwhile.
THEOREM OnlyFaultsStrand == Spec => StrandedByFaults
<1>1. IInv /\ [Next]_vars =>
        [(\E e \in Events : ~Stranded(e) /\ Stranded(e)')
            => \E w \in Workers : Crash(w) \/ HandlerFails(w)]_vars
  BY NothingElseStrands
<1>2. QED
  BY <1>1, Invariance, PTL DEF Spec, StrandedByFaults

(***************************************************************************)
(* Refinement of the at-least-once outbox.                                 *)
(***************************************************************************)

LEMMA PromiseInit == Init => Promise!AInit
BY DEF Init, Promise!AInit, PhaseOf

\* A step that changes neither the broker nor the phase of any row stutters.
LEMMA PromiseStutters ==
    ASSUME accepted' = accepted,
           \A e \in Events : PhaseOf(status'[e]) = PhaseOf(status[e])
    PROVE  UNCHANGED Promise!avars
BY DEF Promise!avars

\* What a step that rewrites the status of one row does to the phases.
LEMMA PromiseOneRow ==
    ASSUME TypeOK, NEW e \in Events, NEW s \in Statuses,
           status' = [status EXCEPT ![e] = s]
    PROVE  [f \in Events |-> PhaseOf(status'[f])]
             = [[f \in Events |-> PhaseOf(status[f])] EXCEPT ![e] = PhaseOf(s)]
BY DEF TypeOK

\* A worker at an event: the row is PROCESSING, and what the broker has was counted.
LEMMA InFlightKnows ==
    ASSUME IInv, NEW w \in Workers, pc[w] \in InFlight
    PROVE  /\ TypeOK
           /\ cur[w] \in Events /\ status[cur[w]] = "processing"
           /\ accepted[cur[w]] \in Nat
           /\ pc[w] = "marking" => accepted[cur[w]] > 0
BY DEF IInv, TypeOK, WorkersAgreeWithRows, InFlight

LEMMA EnqueueSubmits == ASSUME IInv, NEW e \in Events, Enqueue(e) PROVE Promise!Submit(e)
BY PromiseOneRow DEF IInv, Enqueue, Promise!Submit, PhaseOf, Statuses

\* A worker about to publish has room for one more copy.
LEMMA PublishingHasRoom ==
    ASSUME IInv, NEW w \in Workers, pc[w] = "publishing"
    PROVE  accepted[cur[w]] < MaxAttempts
<1>1. pc[w] \in InFlight
  BY DEF InFlight
<1>2. accepted[cur[w]] <= attempts[cur[w]] /\ attempts[cur[w]] # MaxAttempts
  BY <1>1, InFlightKnows DEF IInv, WorkersAgreeWithRows, GivenUpWhenExhausted, InFlight
<1>3. attempts[cur[w]] \in 0 .. MaxAttempts /\ accepted[cur[w]] \in Nat
  BY <1>1, InFlightKnows DEF TypeOK
<1>4. QED
  BY <1>2, <1>3, ConstantsAssumption

LEMMA AcceptTransmits ==
    ASSUME IInv, NEW w \in Workers, BrokerAccepts(w)
    PROVE  cur[w] \in Events /\ Promise!Transmit(cur[w])
<1>1. pc[w] = "publishing" /\ pc[w] \in InFlight
  BY DEF BrokerAccepts, Goto, InFlight
<1>2. /\ accepted' = [accepted EXCEPT ![cur[w]] = accepted[cur[w]] + 1]
      /\ status' = status
  BY DEF BrokerAccepts
<1>3. QED
  BY <1>1, <1>2, InFlightKnows, PublishingHasRoom DEF Promise!Transmit, PhaseOf

\* The row of one event is settled.
Settles(e) == Promise!Complete(e) \/ Promise!Abandon(e)

LEMMA WorkerStepSettles ==
    ASSUME IInv, WorkerStep PROVE (\E e \in Events : Settles(e)) \/ UNCHANGED Promise!avars
<1>1. ASSUME NEW w \in Workers, MarkProcessed(w)
      PROVE  cur[w] \in Events /\ Promise!Complete(cur[w])
  <2>1. pc[w] \in InFlight /\ pc[w] = "marking"
    BY <1>1 DEF MarkProcessed, Goto, InFlight
  <2>2. QED
    BY <1>1, <2>1, InFlightKnows, PromiseOneRow
       DEF MarkProcessed, Promise!Complete, PhaseOf, Statuses
<1>2. ASSUME NEW w \in Workers, MarkFailedOrRetry(w)
      PROVE  (cur[w] \in Events /\ Promise!Abandon(cur[w])) \/ UNCHANGED Promise!avars
  <2> DEFINE e == cur[w]
             exhausted == attempts[e] + 1 >= MaxAttempts
  <2>1. pc[w] \in InFlight
    BY <1>2 DEF MarkFailedOrRetry, Goto, InFlight
  <2>2. /\ status' = [status EXCEPT ![e] = IF exhausted THEN "failed" ELSE "pending"]
        /\ accepted' = accepted
    BY <1>2 DEF MarkFailedOrRetry
  <2> HIDE DEF exhausted
  <2>3. CASE exhausted
    BY <2>1, <2>2, <2>3, InFlightKnows, PromiseOneRow
       DEF Promise!Abandon, PhaseOf, Statuses
  <2>4. CASE ~exhausted
    <3>1. \A f \in Events : PhaseOf(status'[f]) = PhaseOf(status[f])
      BY <2>1, <2>2, <2>4, InFlightKnows DEF TypeOK, PhaseOf
    <3>2. QED
      BY <2>2, <3>1, PromiseStutters
  <2>5. QED
    BY <2>3, <2>4
<1>3. ASSUME NEW w \in Workers, CommitClaim(w) PROVE UNCHANGED Promise!avars
  <2>1. \A e \in batch[w] : status[e] = "pending"
    BY <1>3 DEF IInv, WorkersAgreeWithRows, CommitClaim, Goto
  <2>2. \A e \in Events : PhaseOf(status'[e]) = PhaseOf(status[e])
    BY <1>3, <2>1 DEF CommitClaim, PhaseOf
  <2>3. QED
    BY <1>3, <2>2, PromiseStutters DEF CommitClaim
<1>4. CASE status' = status /\ accepted' = accepted
  BY <1>4, PromiseStutters
<1>5. ASSUME NEW w \in Workers, BrokerAccepts(w) PROVE accepted' # accepted
  <2>1. pc[w] \in InFlight
    BY <1>5 DEF BrokerAccepts, Goto, InFlight
  <2>2. cur[w] \in Events /\ accepted \in [Events -> 0 .. MaxAttempts] /\ accepted[cur[w]] \in Nat
    BY <2>1, InFlightKnows DEF TypeOK
  <2>3. accepted'[cur[w]] = accepted[cur[w]] + 1
    BY <1>5, <2>2 DEF BrokerAccepts
  <2>4. QED
    BY <2>2, <2>3
<1>6. QED
  <2>1. CASE \E e \in Events : BackoffElapses(e)
    BY <2>1, <1>4 DEF BackoffElapses
  <2>2. CASE \E w \in Workers : Advance(w) /\ UNCHANGED accepted
    BY <2>2, <1>1, <1>2, <1>3, <1>4, <1>5
       DEF Settles, Advance, Start, ClaimPending, TakeNext, FinishBatch, Confirmed,
           PublishRaises
  <2>3. CASE \E w \in Workers : DatabaseFails(w) \/ Shutdown(w) \/ Crash(w)
    BY <2>3, <1>4
       DEF DatabaseFails, ClaimFails, MarkProcessedFails, HandlerFails, DropBatch,
           Shutdown, Crash
  <2>4. QED
    BY <2>1, <2>2, <2>3 DEF WorkerStep

LEMMA PromiseStep == IInv /\ [Next]_vars => [Promise!ANext]_(Promise!avars)
<1> SUFFICES ASSUME IInv, [Next]_vars
             PROVE  Promise!ANext \/ UNCHANGED Promise!avars
  OBVIOUS
<1>1. CASE \E e \in Events : Enqueue(e)
  BY <1>1, EnqueueSubmits DEF Promise!ANext
<1>2. CASE \E w \in Workers : BrokerAccepts(w)
  BY <1>2, AcceptTransmits DEF Promise!ANext
<1>3. CASE WorkerStep
  BY <1>3, WorkerStepSettles DEF Settles, Promise!ANext
<1>4. CASE UNCHANGED vars
  BY <1>4, PromiseStutters DEF vars, rowVars
<1>5. QED
  <2>1. ASSUME NEW w \in Workers, Advance(w), ~BrokerAccepts(w) PROVE accepted' = accepted
    BY <2>1 DEF Advance, Start, ClaimPending, CommitClaim, TakeNext, FinishBatch, Confirmed,
                PublishRaises, MarkProcessed, MarkFailedOrRetry
  <2>2. QED
    BY <2>1, <1>1, <1>2, <1>3, <1>4 DEF Next, WorkerStep

\* Any number of workers, crashing and failing as they may, keep the promise of the
\* outbox: published before processed, at most MaxAttempts copies, and none after
\* the event is settled.
THEOREM WorkersKeepPromise == Spec => KeepsPromise
<1>1. Init => Promise!AInit
  BY PromiseInit
<1>2. IInv /\ [Next]_vars => [Promise!ANext]_(Promise!avars)
  BY PromiseStep
<1>3. QED
  BY <1>1, <1>2, Invariance, PTL DEF Spec, KeepsPromise, Promise!ASpec

(***************************************************************************)
(* The order of publication.  As long as every step is orderly, the rows   *)
(* split by created_at into settled ones, the batch of the one worker that *)
(* has one, pending ones and absent ones, in this order: OrderedRows.      *)
(***************************************************************************)

OrderedRows ==
    /\ \A e \in Events : attempts[e] = 0 /\ (status[e] = "pending" => due[e])
    /\ \A e, f \in Events : CreatedAt[e] < CreatedAt[f] =>
          /\ status[f] # "absent" => status[e] # "absent"
          /\ status[f] \in {"processing", "processed"} => status[e] # "pending"
          /\ \A w \in Workers :
                f \in batch[w] /\ status[e] = "pending" => e \in batch[w]

OrderedBatch ==
    /\ \A v, w \in Workers : batch[v] # {} /\ batch[w] # {} => v = w
    /\ \A e \in Events : ~Stranded(e)
    /\ \A w \in Workers : cur[w] # NoEvent =>
          \A g \in batch[w] : CreatedAt[cur[w]] <= CreatedAt[g]

Ordered == OrderedRows /\ OrderedBatch /\ PublishedInOrder

\* What an orderly step does to the rows: nothing, or one row is committed, or the
\* rows of a claim are marked, or one row is marked processed.
LEMMA OrderlyStep ==
    ASSUME IInv, Ordered, [Next]_vars, attempts' = attempts
    PROVE  /\ \A e \in Events : status'[e] = "pending" => due'[e]
           /\ \/ status' = status
              \/ \E e \in Events : Enqueue(e)
              \/ \E w \in Workers : CommitClaim(w) \/ MarkProcessed(w)
<1>1. ASSUME NEW w \in Workers PROVE ~MarkFailedOrRetry(w)
  <2>1. SUFFICES ASSUME MarkFailedOrRetry(w) PROVE FALSE
    OBVIOUS
  <2>2. cur[w] \in Events /\ attempts[cur[w]] \in Nat
    BY <2>1, ConstantsAssumption
       DEF MarkFailedOrRetry, Goto, IInv, TypeOK, WorkersAgreeWithRows, InFlight
  <2>3. attempts'[cur[w]] = attempts[cur[w]] + 1
    BY <2>1, <2>2 DEF MarkFailedOrRetry, IInv, TypeOK
  <2>4. QED
    BY <2>2, <2>3
<1>2. \A e \in Events : status[e] = "pending" => due[e]
  BY DEF Ordered, OrderedRows
<1>3. CASE \E e \in Events : Enqueue(e) \/ BackoffElapses(e)
  BY <1>2, <1>3 DEF Enqueue, BackoffElapses, IInv, TypeOK
<1>4. CASE \E w \in Workers : CommitClaim(w) \/ MarkProcessed(w)
  BY <1>2, <1>4, ConstantsAssumption DEF CommitClaim, MarkProcessed, IInv, TypeOK
<1>5. CASE UNCHANGED <<status, due>>
  BY <1>2, <1>5
<1>6. QED
  BY <1>1, <1>3, <1>4, <1>5
     DEF Next, Advance, DatabaseFails, Start, ClaimPending, TakeNext, FinishBatch,
         BrokerAccepts, Confirmed, PublishRaises, ClaimFails, MarkProcessedFails,
         HandlerFails, Shutdown, Crash, DropBatch, vars, rowVars

\* A batch changes when it is claimed, when one of its rows is settled, or is dropped.
LEMMA BatchChanges ==
    ASSUME IInv, [Next]_vars, NEW w \in Workers
    PROVE  \/ ClaimPending(w) \/ batch'[w] = batch[w] \/ batch'[w] = {}
           \/ /\ MarkProcessed(w) \/ MarkFailedOrRetry(w)
              /\ batch'[w] \subseteq batch[w]
<1>1. ASSUME NEW v \in Workers, Advance(v) \/ DatabaseFails(v) \/ Shutdown(v) \/ Crash(v)
      PROVE  \/ ClaimPending(w) \/ batch'[w] = batch[w] \/ batch'[w] = {}
             \/ /\ MarkProcessed(w) \/ MarkFailedOrRetry(w)
                /\ batch'[w] \subseteq batch[w]
  BY <1>1 DEF Advance, DatabaseFails, Start, ClaimPending, CommitClaim, TakeNext, FinishBatch,
              BrokerAccepts, Confirmed, PublishRaises, MarkProcessed, MarkFailedOrRetry,
              DoneWithCurrent, ClaimFails, MarkProcessedFails, HandlerFails, Shutdown, Crash,
              DropBatch, IInv, TypeOK
<1>2. CASE (\E e \in Events : Enqueue(e) \/ BackoffElapses(e)) \/ UNCHANGED vars
  BY <1>2 DEF Enqueue, BackoffElapses, vars
<1>3. QED
  BY <1>1, <1>2 DEF Next

\* A pending row that is older than one of a batch is in the batch too: it was due
\* when the batch was claimed and nobody had it locked.
LEMMA ClaimsTakeOlder ==
    ASSUME IInv, Ordered, [Next]_vars, Orderly, NEW w \in Workers,
           NEW e \in Events, NEW f \in Events, CreatedAt[e] < CreatedAt[f],
           f \in batch'[w], status'[e] = "pending"
    PROVE  e \in batch'[w]
<1>0. CreatedAt[e] \in Nat /\ CreatedAt[f] \in Nat
  BY ConstantsAssumption
<1>1. CASE ClaimPending(w)
  <2>1. PICK S \in SUBSET Claimable :
            S # {} /\ OldestBatch(S) /\ batch' = [batch EXCEPT ![w] = S]
    BY <1>1 DEF ClaimPending
  <2>2. batch'[w] = S /\ \A u \in Workers \ {w} : batch'[u] = batch[u]
    BY <2>1 DEF IInv, TypeOK
  <2>3. ~Locked(e)
    <3>1. SUFFICES ASSUME NEW u \in Workers, pc[u] = "claiming", e \in batch[u] PROVE FALSE
      BY DEF Locked
    <3>2. u # w
      BY <1>1, <3>1 DEF ClaimPending, Goto
    <3>3. QED
      BY <2>1, <2>2, <3>1, <3>2 DEF Orderly
  <2>4. status[e] = "pending" /\ due[e]
    BY <1>1 DEF ClaimPending, Ordered, OrderedRows
  <2>5. e \in Claimable
    BY <2>3, <2>4 DEF Claimable
  <2>6. QED
    BY <1>0, <2>1, <2>2, <2>5 DEF OldestBatch
<1>2. CASE ~ClaimPending(w)
  <2>1. f \in batch[w]
    BY <1>2, BatchChanges
  <2>2. CASE status[e] = "pending"
    <3>1. e \in batch[w]
      BY <2>1, <2>2 DEF Ordered, OrderedRows
    <3>2. CASE batch'[w] = batch[w]
      BY <3>1, <3>2
    <3>3. CASE batch'[w] # batch[w]
      <4>1. \/ batch'[w] = {}
            \/ MarkProcessed(w) \/ MarkFailedOrRetry(w)
        BY <1>2, <3>3, BatchChanges
      <4>2. ~MarkProcessed(w) /\ ~MarkFailedOrRetry(w)
        BY <2>2, <3>1 DEF MarkProcessed, MarkFailedOrRetry, Goto, IInv, WorkersAgreeWithRows
      <4>3. QED
        BY <4>1, <4>2
    <3>4. QED
      BY <3>2, <3>3
  <2>3. CASE status[e] # "pending"
    <3>1. status[f] # "absent"
      BY <2>1 DEF IInv, WorkersAgreeWithRows
    <3>2. status[e] = "absent"
      BY <2>3, OrderlyStep
         DEF Orderly, Enqueue, CommitClaim, MarkProcessed, IInv, TypeOK
    <3>3. QED
      BY <3>1, <3>2 DEF Ordered, OrderedRows
  <2>4. QED
    BY <2>2, <2>3
<1>3. QED
  BY <1>1, <1>2

LEMMA NextOrderedRows ==
    ASSUME IInv, Ordered, [Next]_vars, Orderly PROVE OrderedRows'
<1>1. /\ attempts' = attempts
      /\ \A e \in Events : status'[e] = "pending" => due'[e]
      /\ \/ status' = status
         \/ \E e \in Events : Enqueue(e)
         \/ \E w \in Workers : CommitClaim(w) \/ MarkProcessed(w)
  BY OrderlyStep DEF Orderly
<1>2. ASSUME NEW e \in Events PROVE status[e] # "absent" => status'[e] # "absent"
  BY <1>1, ConstantsAssumption DEF Enqueue, CommitClaim, MarkProcessed, IInv, TypeOK
<1>3. ASSUME NEW e \in Events, NEW f \in Events, CreatedAt[e] < CreatedAt[f],
             status'[f] # "absent"
      PROVE  status'[e] # "absent"
  <2>1. status[e] # "absent"
    BY <1>3 DEF Orderly, Ordered, OrderedRows
  <2>2. QED
    BY <1>2, <2>1
<1>4. ASSUME NEW e \in Events, NEW f \in Events, CreatedAt[e] < CreatedAt[f],
             status'[f] \in {"processing", "processed"}
      PROVE  status'[e] # "pending"
  <2>1. CASE status' = status
    BY <1>4, <2>1 DEF Ordered, OrderedRows
  <2>2. ASSUME NEW g \in Events, Enqueue(g) PROVE status'[e] # "pending"
    <3>1. /\ status[g] = "absent" /\ status' = [status EXCEPT ![g] = "pending"]
      BY <2>2 DEF Enqueue
    <3>2. f # g /\ status'[f] = status[f]
      BY <1>4, <3>1 DEF IInv, TypeOK
    <3>3. status[e] # "pending" /\ status[e] # "absent"
      BY <1>4, <3>2 DEF Ordered, OrderedRows
    <3>4. QED
      BY <3>1, <3>3 DEF IInv, TypeOK
  <2>3. ASSUME NEW w \in Workers, CommitClaim(w) PROVE status'[e] # "pending"
    <3>1. /\ status' = [g \in Events |-> IF g \in batch[w] THEN "processing" ELSE status[g]]
      BY <2>3 DEF CommitClaim
    <3>2. CASE f \in batch[w]
      BY <1>4, <3>1, <3>2 DEF Ordered, OrderedRows
    <3>3. CASE f \notin batch[w]
      BY <1>4, <3>1, <3>3 DEF Ordered, OrderedRows
    <3>4. QED
      BY <3>2, <3>3
  <2>4. ASSUME NEW w \in Workers, MarkProcessed(w) PROVE status'[e] # "pending"
    <3>1. /\ cur[w] \in Events /\ status[cur[w]] = "processing"
          /\ status' = [status EXCEPT ![cur[w]] = "processed"]
      BY <2>4 DEF MarkProcessed, Goto, IInv, TypeOK, WorkersAgreeWithRows, InFlight
    <3>2. status[f] \in {"processing", "processed"}
      BY <1>4, <3>1 DEF IInv, TypeOK
    <3>3. QED
      BY <1>4, <3>1, <3>2 DEF IInv, TypeOK, Ordered, OrderedRows
  <2>5. QED
    BY <1>1, <2>1, <2>2, <2>3, <2>4
<1>5. \A e \in Events : attempts'[e] = 0
  BY <1>1 DEF Ordered, OrderedRows
<1>6. QED
  BY <1>1, <1>3, <1>4, <1>5, ClaimsTakeOlder DEF OrderedRows

LEMMA NextOrderedBatch ==
    ASSUME IInv, Ordered, [Next]_vars, Orderly PROVE OrderedBatch'
<1>1. ASSUME NEW w \in Workers, cur'[w] # NoEvent, NEW g \in batch'[w]
      PROVE  CreatedAt[cur'[w]] <= CreatedAt[g]
  <2>1. CASE TakeNext(w)
    BY <1>1, <2>1 DEF TakeNext, IInv, TypeOK
  <2>2. CASE cur'[w] = cur[w] /\ batch'[w] \subseteq batch[w]
    BY <1>1, <2>2 DEF Ordered, OrderedBatch
  <2>3. CASE ClaimPending(w)
    BY <1>1, <2>3 DEF ClaimPending, Goto, IInv, WorkersAgreeWithRows, InFlight
  <2>4. CASE cur'[w] = NoEvent
    BY <1>1, <2>4
  <2>5. ASSUME NEW v \in Workers, Advance(v) \/ DatabaseFails(v) \/ Shutdown(v) \/ Crash(v)
        PROVE  \/ TakeNext(w) \/ ClaimPending(w) \/ cur'[w] = NoEvent
               \/ cur'[w] = cur[w] /\ batch'[w] \subseteq batch[w]
    BY <2>5 DEF Advance, DatabaseFails, Start, ClaimPending, CommitClaim, TakeNext,
                FinishBatch, BrokerAccepts, Confirmed, PublishRaises, MarkProcessed,
                MarkFailedOrRetry, DoneWithCurrent, ClaimFails, MarkProcessedFails,
                HandlerFails, Shutdown, Crash, DropBatch, IInv, TypeOK
  <2>6. CASE (\E e \in Events : Enqueue(e) \/ BackoffElapses(e)) \/ UNCHANGED vars
    BY <2>2, <2>6 DEF Enqueue, BackoffElapses, vars
  <2>7. QED
    BY <2>1, <2>2, <2>3, <2>4, <2>5, <2>6 DEF Next
<1>2. QED
  BY <1>1 DEF Orderly, OrderedBatch

\* The event that the broker takes is the oldest that it has not had.
LEMMA NextPublishedInOrder ==
    ASSUME IInv, Ordered, [Next]_vars PROVE PublishedInOrder'
<1>1. CASE accepted' = accepted
  BY <1>1 DEF Ordered, PublishedInOrder
<1>2. ASSUME NEW w \in Workers, BrokerAccepts(w) PROVE PublishedInOrder'
  <2> DEFINE c == cur[w]
  <2>1. /\ c \in Events /\ c \in batch[w] /\ status[c] = "processing"
        /\ accepted' = [accepted EXCEPT ![c] = accepted[c] + 1]
        /\ \A e \in Events : accepted[e] \in Nat
    BY <1>2, ConstantsAssumption
       DEF BrokerAccepts, Goto, IInv, TypeOK, WorkersAgreeWithRows, InFlight
  <2>2. ASSUME NEW e \in Events, CreatedAt[e] < CreatedAt[c] PROVE accepted[e] > 0
    <3>1. CreatedAt[e] \in Nat /\ CreatedAt[c] \in Nat
      BY <2>1, ConstantsAssumption
    <3>2. status[e] # "absent" /\ status[e] # "pending"
      BY <2>1, <2>2 DEF Ordered, OrderedRows
    <3>3. status[e] # "failed"
      BY ConstantsAssumption, <3>2 DEF IInv, GivenUpWhenExhausted, Ordered, OrderedRows
    <3>4. status[e] # "processing"
      <4>1. SUFFICES ASSUME status[e] = "processing" PROVE FALSE
        OBVIOUS
      <4>2. PICK v \in Workers : e \in batch[v]
        BY <4>1 DEF Ordered, OrderedBatch, Stranded
      <4>3. v = w
        BY <2>1, <4>2 DEF Ordered, OrderedBatch
      <4>4. CreatedAt[c] <= CreatedAt[e]
        BY <2>1, <4>2, <4>3, ConstantsAssumption DEF Ordered, OrderedBatch
      <4>5. QED
        BY <2>2, <3>1, <4>4
    <3>5. status[e] = "processed"
      BY <3>2, <3>3, <3>4 DEF IInv, TypeOK, Statuses
    <3>6. QED
      BY <3>5 DEF IInv, ProcessedWasAccepted
  <2>3. QED
    BY <2>1, <2>2 DEF Ordered, PublishedInOrder, IInv, TypeOK
<1>3. QED
  BY <1>1, <1>2
     DEF Next, Enqueue, BackoffElapses, Advance, DatabaseFails, Start, ClaimPending,
         CommitClaim, TakeNext, FinishBatch, Confirmed, PublishRaises, MarkProcessed,
         MarkFailedOrRetry, ClaimFails, MarkProcessedFails, HandlerFails, Shutdown, Crash,
         DropBatch, vars

\* As long as rows are committed in created_at order, one worker at a time has a batch,
\* no attempt fails and no row is stranded, the broker gets the events in the order of
\* created_at (the ORDER BY of claim_pending and the loop of process_outbox_once).
THEOREM OrderIsKept == OSpec => []OrderKept
<1> DEFINE Inv == IInv /\ (orderly => Ordered)
<1>1. OInit => Inv
  <2>1. OInit => IInv
    BY InitIInv DEF OInit
  <2>2. OInit => Ordered
    BY DEF OInit, Init, Ordered, OrderedRows, OrderedBatch, PublishedInOrder, Stranded
  <2>3. QED
    BY <2>1, <2>2
<1>2. Inv /\ [ONext]_<<vars, orderly>> => Inv'
  <2> SUFFICES ASSUME Inv, [ONext]_<<vars, orderly>> PROVE Inv'
    OBVIOUS
  <2>1. [Next]_vars
    BY DEF ONext
  <2>2. IInv'
    BY <2>1, NextIInv
  <2>3. ASSUME orderly' PROVE Ordered'
    <3>1. CASE ONext
      <4>1. Ordered /\ Orderly
        BY <2>3, <3>1 DEF ONext
      <4>2. OrderedRows' /\ OrderedBatch' /\ PublishedInOrder'
        BY <2>1, <4>1, NextOrderedRows, NextOrderedBatch, NextPublishedInOrder
      <4>3. QED
        BY <4>2 DEF Ordered
    <3>2. CASE UNCHANGED <<vars, orderly>>
      BY <2>3, <3>2
         DEF vars, rowVars, Ordered, OrderedRows, OrderedBatch, PublishedInOrder, Stranded
    <3>3. QED
      BY <3>1, <3>2
  <2>4. QED
    BY <2>2, <2>3
<1>3. Inv => OrderKept
  BY DEF Ordered, OrderKept
<1>4. QED
  BY <1>1, <1>2, <1>3, PTL DEF OSpec

(***************************************************************************)
(* EventPath: the workers in their surroundings.                           *)
(***************************************************************************)

LEMMA PathStepInOutbox == [ENext]_<<vars, outside>> => [Next]_vars
<1> SUFFICES ASSUME ENext PROVE [Next]_vars
  OBVIOUS
<1>1. ASSUME NEW w \in Workers, BrokerAccepts(w) PROVE Next
  BY <1>1 DEF Advance, Next
<1>2. QED
  BY <1>1 DEF ENext, WorkerStep, Next

\* What is proved of the outbox workers alone holds of them in front of a broker.
THEOREM PathRunsOutbox == ESpec => Spec
<1>1. EInit => Init
  BY DEF EInit
<1>2. QED
  BY <1>1, PathStepInOutbox, PTL DEF ESpec, Spec

LEMMA PathStepFollows == IInv /\ [ENext]_<<vars, outside>> => [Path!PNext]_(Path!pvars)
<1> SUFFICES ASSUME IInv, ENext PROVE [Path!PNext]_(Path!pvars)
  BY DEF vars, rowVars, outside, Path!pvars, Path!vars, Path!queueVars, Path!dbVars,
         Path!ghostVars
<1>1. ASSUME NEW e \in Events, Enqueue(e), Path!ChangeTask(e) PROVE Path!PNext
  <2>1. Path!CommitEvent(e)
    BY <1>1, EnqueueSubmits DEF Path!CommitEvent, Promise!Submit, Path!Outbox!Submit
  <2>2. QED
    BY <2>1 DEF Path!PNext
<1>2. ASSUME NEW w \in Workers, BrokerAccepts(w), Path!Route(cur[w]) PROVE Path!PNext
  <2>1. cur[w] \in Events /\ Path!Transmit(cur[w])
    BY <1>2, AcceptTransmits DEF Path!Transmit, Promise!Transmit, Path!Outbox!Transmit
  <2>2. QED
    BY <2>1 DEF Path!PNext
<1>3. CASE WorkerStep /\ UNCHANGED outside
  <2>1. UNCHANGED <<Path!vars, bound, early>>
    BY <1>3 DEF outside, Path!vars, Path!queueVars, Path!dbVars, Path!ghostVars
  <2>2. CASE \E e \in Events : Settles(e)
    <3>1. \E e \in Events : Path!SettleRow(e)
      BY <2>1, <2>2
         DEF Settles, Path!SettleRow, Promise!Complete, Promise!Abandon,
             Path!Outbox!Complete, Path!Outbox!Abandon
    <3>2. QED
      BY <3>1 DEF Path!PNext
  <2>3. CASE UNCHANGED Promise!avars
    BY <2>1, <2>3 DEF Promise!avars, Path!pvars
  <2>4. QED
    BY <1>3, <2>2, <2>3, WorkerStepSettles
<1>4. CASE Path!DeclareTopology \/ Path!Consume
  BY <1>4 DEF Path!PNext
<1>5. QED
  BY <1>1, <1>2, <1>3, <1>4 DEF ENext

\* The outbox workers, the exchange and the webhook workers implement Pipeline.
THEOREM PathFollowsPipeline == ESpec => FollowsPipeline
<1>1. EInit => Path!PInit
  BY DEF EInit, Init, Path!PInit, Path!Outbox!AInit, PhaseOf
<1>2. QED
  BY <1>1, PathStepFollows, PathRunsOutbox, Invariance, PTL
     DEF ESpec, FollowsPipeline, Path!PSpec

\* The theorems of the webhook worker, for this composition.
Webhooks == INSTANCE WebhookConsumerProofs
            WITH Workers <- Consumers,
                 Faults <- ConsumerFaults,
                 MaxCopies <- MaxAttempts,
                 phase <- [e \in Events |-> PhaseOf(status[e])],
                 copies <- accepted,
                 connected <- TRUE

LEMMA WebhookAssumption ==
    /\ Webhooks!IsFiniteSet(Events) /\ Webhooks!IsFiniteSet(Handlers)
    /\ Home \in [Handlers -> Consumers]
    /\ Malformed \subseteq Events /\ Deletions \subseteq Events
    /\ Subject \in [Events -> Tasks]
    /\ Subscribers \in [Events -> SUBSET Hooks]
    /\ Unusable \subseteq Hooks /\ Broken \subseteq Hooks
    /\ NoEvent \notin Events
    /\ MaxRetries \in Nat /\ MaxAttempts \in Nat /\ MaxFaults \in Nat
    /\ ConsumerFaults \subseteq Webhooks!FaultKinds
BY ConstantsAssumption, PathAssumption DEF IsFiniteSet, Webhooks!IsFiniteSet, Webhooks!FaultKinds

\* Pipeline means the same in EventPath and in the module of those theorems.
LEMMA SameConsume == Path!Consume <=> Webhooks!Consume
BY DEF Path!Consume, Webhooks!Consume, Path!ConsumerStep, Webhooks!ConsumerStep, Path!Handle,
    Webhooks!Handle, Path!Expire, Webhooks!Expire, Path!Receive, Webhooks!Receive,
    Path!TryMarkProcessed, Webhooks!TryMarkProcessed, Path!ResolveSubscribers,
    Webhooks!ResolveSubscribers, Path!Post, Webhooks!Post, Path!Skip, Webhooks!Skip,
    Path!DecryptFails, Webhooks!DecryptFails, Path!Commit, Webhooks!Commit, Path!Ack,
    Webhooks!Ack, Path!Reject, Webhooks!Reject, Path!ScheduleRetry,
    Webhooks!ScheduleRetry, Path!RetriesExhausted, Webhooks!RetriesExhausted,
    Path!DatabaseFails, Webhooks!DatabaseFails, Path!RetryFails, Webhooks!RetryFails,
    Path!ConnectionLost, Webhooks!ConnectionLost, Path!Crash, Webhooks!Crash,
    Path!Abort, Webhooks!Abort, Path!Fault, Webhooks!Fault, Path!Park, Webhooks!Park,
    Path!Requeue, Webhooks!Requeue, Path!Residents, Webhooks!Residents, Path!Acquired,
    Webhooks!Acquired, Path!Goto, Webhooks!Goto, Path!Return, Webhooks!Return,
    Path!Idle, Webhooks!Idle, Path!Levels, Webhooks!Levels, Path!queueVars,
    Webhooks!queueVars, Path!dbVars, Webhooks!dbVars, Path!ghostVars,
    Webhooks!ghostVars, Path!Cardinality, Webhooks!Cardinality

LEMMA SameStep == [Path!PNext]_(Path!pvars) => [Webhooks!PNext]_(Webhooks!pvars)
BY SameConsume
DEF Path!PNext, Webhooks!PNext, Path!pvars, Webhooks!pvars, Path!CommitEvent,
    Webhooks!CommitEvent, Path!ChangeTask, Webhooks!ChangeTask, Path!Transmit,
    Webhooks!Transmit, Path!Route, Webhooks!Route, Path!Publish, Webhooks!Publish,
    Path!SettleRow, Webhooks!SettleRow, Path!DeclareTopology, Webhooks!DeclareTopology,
    Path!Outbox!Submit, Webhooks!Outbox!Submit, Path!Outbox!Transmit,
    Webhooks!Outbox!Transmit, Path!Outbox!Complete, Webhooks!Outbox!Complete,
    Path!Outbox!Abandon, Webhooks!Outbox!Abandon, Path!vars, Webhooks!vars,
    Path!queueVars, Webhooks!queueVars, Path!dbVars, Webhooks!dbVars, Path!ghostVars,
    Webhooks!ghostVars

LEMMA SamePipeline == Path!PSpec => Webhooks!PSpec
<1>1. Path!PInit => Webhooks!PInit
  BY DEF Path!PInit, Webhooks!PInit, Path!Init, Webhooks!Init, Path!Outbox!AInit,
      Webhooks!Outbox!AInit, Path!Idle, Webhooks!Idle, Path!Levels, Webhooks!Levels
<1>2. QED
  BY <1>1, SameStep, PTL DEF Path!PSpec, Webhooks!PSpec

\* An event whose row is PROCESSED was committed before there was a queue, or is processed,
\* dead-lettered or on its way: through every fault of both kinds of worker.
THEOREM ProcessedAccounted == ESpec => []ProcessedIsAccounted
<1>1. Webhooks!PSpec => []Webhooks!PublishedIsAccounted
  BY WebhookAssumption, Webhooks!PublishedAccounted
<1>2. Webhooks!PublishedIsAccounted => ProcessedIsAccounted
  BY DEF ProcessedIsAccounted, PhaseOf, Path!PublishedIsAccounted, Webhooks!PublishedIsAccounted, Path!Handled,
      Webhooks!Handled, Path!InTransit, Webhooks!InTransit, Path!Levels, Webhooks!Levels
<1>3. QED
  BY <1>1, <1>2, PathFollowsPipeline, SamePipeline, PTL DEF FollowsPipeline

\* With the outbox workers in front, too, requests are made for committed events only, and
\* never for a deletion.
THEOREM PathTellsCommitted == ESpec => []ToldIsCommitted
<1>1. Webhooks!PSpec => []Webhooks!ToldIsCommitted
  BY WebhookAssumption, Webhooks!ToldCommitted
<1>2. Webhooks!ToldIsCommitted => ToldIsCommitted
  BY DEF ToldIsCommitted, Path!ToldIsCommitted, Webhooks!ToldIsCommitted
<1>3. QED
  BY <1>1, <1>2, PathFollowsPipeline, SamePipeline, PTL DEF FollowsPipeline

\* The system as a whole keeps both promises: the one to the API and, for what the API
\* committed, the one to the subscribers.
THEOREM PathKeepsPromises == ESpec => KeepsPromise /\ Webhooks!DeliversEvents
<1>1. Webhooks!PSpec => Webhooks!DeliversEvents
  BY WebhookAssumption, Webhooks!PipelineKeepsPromises
<1>2. QED
  BY <1>1, PathRunsOutbox, WorkersKeepPromise, PathFollowsPipeline, SamePipeline
     DEF FollowsPipeline

\* The broker's side never disables a publish: whenever a worker hands a message over and
\* there is a queue, the guards of Publish hold.
PublishIsTaken ==
    \A w \in Workers :
        pc[w] = "publishing" =>
            /\ sent[cur[w]] < MaxAttempts
            /\ cur[w] \in Deletions => Subject[cur[w]] \notin tasks

THEOREM PathHoldsNothingBack == ESpec => []PublishIsTaken
<1>1. Webhooks!PSpec => []Webhooks!PublishIsFree
  BY WebhookAssumption, Webhooks!NothingHeldBack
<1>2. IInv /\ Webhooks!PublishIsFree => PublishIsTaken
  <2> SUFFICES ASSUME IInv, Webhooks!PublishIsFree, NEW w \in Workers, pc[w] = "publishing"
               PROVE  /\ sent[cur[w]] < MaxAttempts
                      /\ cur[w] \in Deletions => Subject[cur[w]] \notin tasks
    BY DEF PublishIsTaken
  <2>1. cur[w] \in Events /\ status[cur[w]] = "processing"
    BY InFlightKnows DEF InFlight
  <2>2. accepted[cur[w]] < MaxAttempts
    BY PublishingHasRoom
  <2>3. QED
    BY <2>1, <2>2 DEF Webhooks!PublishIsFree, PhaseOf
<1>3. QED
  BY <1>1, <1>2, PathRunsOutbox, Invariance, PathFollowsPipeline, SamePipeline, PTL
     DEF FollowsPipeline

=============================================================================
