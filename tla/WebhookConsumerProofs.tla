----------------------- MODULE WebhookConsumerProofs ------------------------
(***************************************************************************)
(* Theorems about WebhookConsumer for every set of events, subscriptions,  *)
(* workers and handlers, and any number of faults.                         *)
(*                                                                         *)
(* None of the properties is inductive.  What makes them hold is that the  *)
(* uncommitted row of processed_messages is held by one handler at a time  *)
(* (OneTransaction, AcquiredIsNew), and what that handler knows of the     *)
(* subscriptions it has been to (LoopState, Whole).  Copies are counted as *)
(* the elements of finite sets (Conserved).  The last sections are about   *)
(* the promise to the subscribers (EventDelivery) and about the worker     *)
(* behind the outbox (Pipeline).                                           *)
(***************************************************************************)
EXTENDS ConnectedConsumer, Pipeline, FiniteSetTheorems, TLAPS

\* Two handlers never have a transaction on the same event, and none on an event
\* that is processed.
OneTransaction ==
    \A g, h \in Handlers :
        Acquired(g) /\ Acquired(h) /\ job[g].event = job[h].event => g = h

AcquiredIsNew == \A h \in Handlers : Acquired(h) => job[h].event \notin processed

\* The loop of a delivery: what it has to do and what it has done are apart; and it
\* has been to every subscription it need not go to any more.
LoopState ==
    \A h \in Handlers :
        /\ job[h].at \in {"begin", "resolving"} => job[h].rows = {}
        /\ job[h].at = "posting" =>
               /\ job[h].todo \cap job[h].rows = {}
               /\ \A k \in job[h].rows : posts[job[h].event][k] > 0
               /\ Subject[job[h].event] \in tasks =>
                      \A k \in Subscribers[job[h].event] :
                          \/ k \in job[h].todo \cup job[h].rows
                          \/ <<job[h].event, k>> \in skipped

\* Delivery rows appear with the row of their event.
RecordedLate ==
    \A e \in Events, k \in Hooks : e \notin processed => recorded[e][k] = 0

\* A request that is not paid for by a rollback is in the open transaction.
PostsAccounted ==
    \A e \in Events, k \in Hooks :
        /\ posts[e][k] <= 1 + aborts[e]
        /\ e \notin processed
           /\ (\A h \in Handlers : Acquired(h) /\ job[h].event = e => k \notin job[h].rows)
              => posts[e][k] <= aborts[e]

\* A message that is about to be acknowledged is not needed any more.
Held(e) ==
    \/ \E r \in Levels : ready[e][r] + parked[e][r] > 0
    \/ \E h \in Handlers : job[h].live /\ job[h].event = e /\ job[h].at # "acking"

Retained == \A e \in Events : sent[e] > 0 => e \in processed \/ dlq[e] > 0 \/ Held(e)

-----------------------------------------------------------------------------
(***************************************************************************)
(* Types.                                                                  *)
(***************************************************************************)

JobsOK ==
    /\ job \in [Handlers -> Jobs]
    /\ \A h \in Handlers :
          IF job[h].at = "idle" THEN job[h] = Idle ELSE job[h].event \in Events

LEMMA IdleIsJob == Idle \in Jobs /\ Idle.at = "idle" /\ ~Idle.live
BY ConstantsAssumption DEF Idle, Jobs, Locations, Levels

LEMMA InitTypeOK == Init => TypeOK
<1> SUFFICES ASSUME Init PROVE TypeOK
  OBVIOUS
<1>1. /\ ready \in Copies /\ parked \in Copies /\ dlq \in [Events -> Nat]
      /\ recorded \in [Events -> [Hooks -> Nat]] /\ posts \in [Events -> [Hooks -> Nat]]
      /\ aborts \in [Events -> Nat]
  BY DEF Init, Copies
<1>2. /\ tasks \in SUBSET Tasks /\ processed \in SUBSET Events
      /\ sent \in [Events -> 0 .. MaxCopies] /\ skipped \in SUBSET (Events \X Hooks)
      /\ faults \in 0 .. MaxFaults
  BY ConstantsAssumption DEF Init
<1>3. JobsOK
  BY IdleIsJob DEF Init, JobsOK
<1>4. QED
  BY <1>1, <1>2, <1>3 DEF TypeOK, JobsOK

\* A queue that gains or loses a copy is still one.
LEMMA CopiesChange ==
    ASSUME NEW q \in Copies, NEW e \in Events, NEW r \in Levels
    PROVE  /\ [q EXCEPT ![e][r] = @ + 1] \in Copies
           /\ q[e][r] > 0 => [q EXCEPT ![e][r] = @ - 1] \in Copies
BY DEF Copies

\* One handler moves on, or is done.
LEMMA JobsChange ==
    ASSUME TypeOK, NEW h \in Handlers, NEW j \in Jobs,
           (j.at # "idle" /\ j.event \in Events) \/ j = Idle,
           job' = [job EXCEPT ![h] = j]
    PROVE  JobsOK'
<1>1. job' \in [Handlers -> Jobs]
  BY DEF TypeOK
<1>2. ASSUME NEW g \in Handlers
      PROVE  IF job'[g].at = "idle" THEN job'[g] = Idle ELSE job'[g].event \in Events
  <2>1. CASE g = h
    BY <2>1, IdleIsJob DEF TypeOK
  <2>2. CASE g # h
    BY <2>2 DEF TypeOK
  <2>3. QED
    BY <2>1, <2>2
<1>3. QED
  BY <1>1, <1>2 DEF JobsOK

LEMMA GotoJob ==
    ASSUME TypeOK, NEW h \in Handlers, NEW from, NEW to \in Locations \ {"idle"},
           from # "idle", Goto(h, from, to)
    PROVE  JobsOK'
<1>1. [job[h] EXCEPT !.at = to] \in Jobs
  <2>1. job[h] \in Jobs
    BY DEF TypeOK
  <2>2. QED
    BY <2>1 DEF Jobs
<1>2. job[h].at # "idle" /\ job[h].event \in Events
  BY DEF TypeOK, Goto
<1>3. job' = [job EXCEPT ![h] = [job[h] EXCEPT !.at = to]]
  BY DEF Goto
<1>4. [job[h] EXCEPT !.at = to].at = to /\ [job[h] EXCEPT !.at = to].event = job[h].event
  BY DEF TypeOK, Jobs
<1>5. QED
  BY <1>1, <1>2, <1>3, <1>4, JobsChange

LEMMA ReturnJob ==
    ASSUME TypeOK, NEW h \in Handlers, NEW from, Return(h, from)
    PROVE  JobsOK'
BY IdleIsJob, JobsChange DEF Return

LEMMA TypeFrom ==
    ASSUME TypeOK, JobsOK', UNCHANGED <<queueVars, dbVars, ghostVars, faults>>
    PROVE  TypeOK'
BY DEF TypeOK, JobsOK, queueVars, dbVars, ghostVars

LEMMA FaultType == ASSUME TypeOK, NEW kind, Fault(kind) PROVE faults' \in 0 .. MaxFaults
BY ConstantsAssumption DEF TypeOK, Fault

LEMMA PublishTypeOK == ASSUME TypeOK, NEW e \in Events, Publish(e) PROVE TypeOK'
<1>1. ready' \in Copies
  <2>1. 0 \in Levels
    BY ConstantsAssumption DEF Levels
  <2>2. QED
    BY <2>1, CopiesChange DEF Publish, TypeOK
<1>2. sent' \in [Events -> 0 .. MaxCopies]
  BY ConstantsAssumption DEF Publish, TypeOK
<1>3. QED
  BY <1>1, <1>2 DEF Publish, TypeOK, dbVars

LEMMA DeleteTaskTypeOK == ASSUME TypeOK, NEW t \in Tasks, DeleteTask(t) PROVE TypeOK'
BY DEF DeleteTask, TypeOK, queueVars, ghostVars

LEMMA ExpireTypeOK ==
    ASSUME TypeOK, NEW e \in Events, NEW r \in Levels, Expire(e, r) PROVE TypeOK'
<1>1. ready' \in Copies /\ parked' \in Copies
  BY CopiesChange DEF Expire, TypeOK
<1>2. QED
  BY <1>1 DEF Expire, TypeOK, dbVars, ghostVars

LEMMA ReceiveTypeOK ==
    ASSUME TypeOK, NEW h \in Handlers, NEW e \in Events, NEW r \in Levels, Receive(h, e, r)
    PROVE  TypeOK'
<1> DEFINE j == [Idle EXCEPT !.at = IF e \in Malformed THEN "rejecting" ELSE "begin",
                             !.event = e, !.level = r, !.live = TRUE]
<1>1. j \in Jobs /\ j.at # "idle" /\ j.event = e
  BY IdleIsJob DEF Jobs, Idle, Locations
<1>2. JobsOK'
  BY <1>1, JobsChange DEF Receive
<1>3. ready' \in Copies
  BY CopiesChange DEF Receive, TypeOK
<1>4. QED
  BY <1>2, <1>3 DEF Receive, TypeOK, JobsOK, dbVars, ghostVars

\* Steps that only move the handler.
LEMMA MovesTypeOK ==
    ASSUME TypeOK, NEW h \in Handlers,
           \/ TryMarkProcessed(h) \/ Ack(h) \/ RetriesExhausted(h)
    PROVE  TypeOK'
<1>1. CASE TryMarkProcessed(h)
  BY <1>1, GotoJob, TypeFrom DEF TryMarkProcessed, Locations
<1>2. CASE Ack(h)
  BY <1>2, ReturnJob, TypeFrom DEF Ack
<1>3. CASE RetriesExhausted(h)
  BY <1>3, GotoJob, TypeFrom DEF RetriesExhausted, Locations
<1>4. QED
  BY <1>1, <1>2, <1>3

\* Steps inside the transaction of a handler.
LEMMA LoopJob ==
    ASSUME TypeOK, NEW h \in Handlers, job[h].at # "idle",
           NEW at \in Locations \ {"idle"}, NEW todo \in SUBSET Hooks, NEW rows \in SUBSET Hooks,
           job' = [job EXCEPT ![h] = [job[h] EXCEPT !.at = at, !.todo = todo, !.rows = rows]]
    PROVE  JobsOK'
<1> DEFINE j == [job[h] EXCEPT !.at = at, !.todo = todo, !.rows = rows]
<1>1. j \in Jobs /\ j.at # "idle" /\ j.event = job[h].event
  <2>1. job[h] \in Jobs
    BY DEF TypeOK
  <2>2. QED
    BY <2>1 DEF Jobs
<1>2. job[h].event \in Events
  BY DEF TypeOK
<1>3. QED
  BY <1>1, <1>2, JobsChange

LEMMA ResolveTypeOK ==
    ASSUME TypeOK, NEW h \in Handlers, ResolveSubscribers(h) PROVE TypeOK'
<1> DEFINE todo == IF Subject[job[h].event] \in tasks THEN Subscribers[job[h].event] ELSE {}
<1>1. job[h].at = "resolving" /\ job[h].event \in Events
  BY DEF ResolveSubscribers, TypeOK
<1>2. todo \in SUBSET Hooks /\ job[h].rows \in SUBSET Hooks
  BY <1>1, ConstantsAssumption DEF TypeOK, Jobs
<1>3. job' = [job EXCEPT ![h] = [job[h] EXCEPT !.at = "posting", !.todo = todo,
                                              !.rows = job[h].rows]]
  BY DEF ResolveSubscribers, TypeOK, Jobs
<1>4. JobsOK'
  BY <1>1, <1>2, <1>3, LoopJob DEF Locations
<1>5. QED
  BY <1>4, TypeFrom DEF ResolveSubscribers

LEMMA PostTypeOK ==
    ASSUME TypeOK, NEW h \in Handlers, NEW k \in Hooks, Post(h, k) PROVE TypeOK'
<1>1. job[h].at = "posting" /\ job[h].event \in Events
  BY DEF Post, TypeOK
<1>2. job[h].todo \ {k} \in SUBSET Hooks /\ job[h].rows \cup {k} \in SUBSET Hooks
  BY DEF TypeOK, Jobs
<1>3. job' = [job EXCEPT ![h] = [job[h] EXCEPT !.at = "posting", !.todo = job[h].todo \ {k},
                                              !.rows = job[h].rows \cup {k}]]
  BY <1>1 DEF Post, TypeOK, Jobs
<1>4. JobsOK'
  BY <1>1, <1>2, <1>3, LoopJob DEF Locations
<1>5. posts' \in [Events -> [Hooks -> Nat]]
  BY <1>1 DEF Post, TypeOK
<1>6. QED
  BY <1>4, <1>5 DEF Post, TypeOK, JobsOK, queueVars, dbVars

LEMMA SkipTypeOK ==
    ASSUME TypeOK, NEW h \in Handlers, NEW k \in Hooks, Skip(h, k) PROVE TypeOK'
<1>1. job[h].at = "posting" /\ job[h].event \in Events
  BY DEF Skip, TypeOK
<1>2. job[h].todo \ {k} \in SUBSET Hooks /\ job[h].rows \in SUBSET Hooks
  BY DEF TypeOK, Jobs
<1>3. job' = [job EXCEPT ![h] = [job[h] EXCEPT !.at = "posting", !.todo = job[h].todo \ {k},
                                              !.rows = job[h].rows]]
  BY <1>1 DEF Skip, TypeOK, Jobs
<1>4. JobsOK'
  BY <1>1, <1>2, <1>3, LoopJob DEF Locations
<1>5. skipped' \in SUBSET (Events \X Hooks)
  BY <1>1 DEF Skip, TypeOK
<1>6. QED
  BY <1>4, <1>5 DEF Skip, TypeOK, JobsOK, queueVars, dbVars

LEMMA CommitTypeOK ==
    ASSUME TypeOK, NEW h \in Handlers, Commit(h) PROVE TypeOK'
<1>1. job[h].event \in Events
  BY DEF Commit, Goto, TypeOK
<1>2. JobsOK'
  BY GotoJob DEF Commit, Locations
<1>3. recorded' \in [Events -> [Hooks -> Nat]]
  <2>1. recorded' = [recorded EXCEPT ![job[h].event] =
                       [k \in Hooks |-> IF k \in job[h].rows
                                        THEN recorded[job[h].event][k] + 1
                                        ELSE recorded[job[h].event][k]]]
    BY DEF Commit
  <2>2. [k \in Hooks |-> IF k \in job[h].rows THEN recorded[job[h].event][k] + 1
                         ELSE recorded[job[h].event][k]] \in [Hooks -> Nat]
    BY <1>1 DEF TypeOK
  <2>3. QED
    BY <2>1, <2>2 DEF TypeOK
<1>4. processed' \in SUBSET Events
  BY <1>1 DEF Commit, TypeOK
<1>5. QED
  BY <1>2, <1>3, <1>4 DEF Commit, TypeOK, JobsOK, queueVars, ghostVars

LEMMA AbortTypeOK ==
    ASSUME TypeOK, NEW h \in Handlers, job[h].at # "idle",
           NEW to \in Locations \ {"idle"}, Abort(h, to), faults' \in 0 .. MaxFaults
    PROVE  TypeOK'
<1>1. job[h].event \in Events
  BY DEF TypeOK
<1>2. job' = [job EXCEPT ![h] = [job[h] EXCEPT !.at = to, !.todo = {}, !.rows = {}]]
  BY DEF Abort, TypeOK, Jobs
<1>3. JobsOK'
  <2>1. {} \in SUBSET Hooks
    OBVIOUS
  <2>2. QED
    BY <1>2, <2>1, LoopJob
<1>4. aborts' \in [Events -> Nat]
  BY <1>1 DEF Abort, TypeOK
<1>5. QED
  BY <1>3, <1>4 DEF Abort, TypeOK, JobsOK, queueVars, dbVars

LEMMA AbortsTypeOK ==
    ASSUME TypeOK, NEW h \in Handlers,
           (\E k \in Hooks : DecryptFails(h, k)) \/ DatabaseFails(h)
    PROVE  TypeOK'
<1>1. CASE \E k \in Hooks : DecryptFails(h, k)
  <2>1. job[h].at # "idle" /\ Abort(h, "rejecting") /\ faults' = faults
    BY <1>1 DEF DecryptFails
  <2>2. faults' \in 0 .. MaxFaults
    BY <2>1 DEF TypeOK
  <2>3. QED
    BY <2>1, <2>2, AbortTypeOK DEF Locations
<1>2. CASE DatabaseFails(h)
  <2>1. /\ job[h].at # "idle" /\ Fault("database")
        /\ Abort(h, "retrying") \/ Abort(h, "rejecting")
    BY <1>2 DEF DatabaseFails
  <2>2. faults' \in 0 .. MaxFaults
    BY <2>1, FaultType
  <2>3. QED
    BY <2>1, <2>2, AbortTypeOK DEF Locations
<1>3. QED
  BY <1>1, <1>2

LEMMA ParkType ==
    ASSUME TypeOK, NEW h \in Handlers, job[h].at # "idle", Park(h)
    PROVE  parked' \in Copies /\ \E r \in Levels : parked'[job[h].event][r] > 0
<1>1. job[h].event \in Events /\ job[h].level + 1 \in Levels
  BY ConstantsAssumption DEF TypeOK, Jobs, Levels, Park
<1>2. parked' = [parked EXCEPT ![job[h].event][job[h].level + 1] = @ + 1]
  BY DEF Park
<1>3. parked' \in Copies
  BY <1>1, <1>2, CopiesChange DEF TypeOK
<1>4. parked'[job[h].event][job[h].level + 1] > 0
  BY <1>1, <1>2 DEF TypeOK, Copies
<1>5. QED
  BY <1>1, <1>3, <1>4

LEMMA EndsTypeOK ==
    ASSUME TypeOK, NEW h \in Handlers, Reject(h) \/ ScheduleRetry(h) PROVE TypeOK'
<1>1. CASE Reject(h)
  <2>1. JobsOK'
    BY <1>1, ReturnJob DEF Reject
  <2>2. dlq' \in [Events -> Nat]
    BY <1>1 DEF Reject, Return, TypeOK
  <2>3. QED
    BY <1>1, <2>1, <2>2 DEF Reject, TypeOK, JobsOK, dbVars, ghostVars
<1>2. CASE ScheduleRetry(h)
  <2>1. JobsOK'
    BY <1>2, GotoJob DEF ScheduleRetry, Locations
  <2>2. parked' \in Copies
    BY <1>2, ParkType DEF ScheduleRetry, Goto
  <2>3. QED
    BY <1>2, <2>1, <2>2 DEF ScheduleRetry, TypeOK, JobsOK, dbVars, ghostVars
<1>3. QED
  BY <1>1, <1>2

LEMMA RetryFailsTypeOK ==
    ASSUME TypeOK, NEW h \in Handlers, RetryFails(h) PROVE TypeOK'
<1> DEFINE j == IF job[h].live THEN [job[h] EXCEPT !.at = "stuck"] ELSE Idle
<1>1. job[h].at = "retrying" /\ job[h].event \in Events
  BY DEF RetryFails, TypeOK
<1>2. j \in Jobs /\ ((j.at # "idle" /\ j.event \in Events) \/ j = Idle)
  BY <1>1, IdleIsJob DEF TypeOK, Jobs, Locations
<1>3. job' = [job EXCEPT ![h] = j]
  BY DEF RetryFails, TypeOK
<1>4. JobsOK'
  BY <1>2, <1>3, JobsChange
<1>5. parked' \in Copies
  BY <1>1, ParkType DEF RetryFails, TypeOK
<1>6. faults' \in 0 .. MaxFaults
  BY FaultType DEF RetryFails
<1>7. QED
  BY <1>4, <1>5, <1>6 DEF RetryFails, TypeOK, JobsOK, dbVars, ghostVars

\* The messages of a worker that the broker puts back as copies of e on rung r.
Returned(w, e, r) ==
    {h \in Residents(w) : job[h].live /\ job[h].event = e /\ job[h].level = r}

LEMMA ReturnedIsFinite ==
    ASSUME NEW w, NEW e, NEW r
    PROVE  /\ Cardinality(Returned(w, e, r)) \in Nat
           /\ Returned(w, e, r) # {} => Cardinality(Returned(w, e, r)) > 0
<1>1. Returned(w, e, r) \subseteq Handlers
  BY DEF Returned, Residents
<1>2. IsFiniteSet(Returned(w, e, r))
  BY <1>1, ConstantsAssumption, FS_Subset
<1>3. Cardinality(Returned(w, e, r)) \in Nat
  BY <1>2, FS_CardinalityType
<1>4. Cardinality(Returned(w, e, r)) = 0 <=> Returned(w, e, r) = {}
  BY <1>2, FS_EmptySet
<1>5. QED
  BY <1>3, <1>4

\* The broker has every message again that a worker had.
LEMMA RequeueType ==
    ASSUME TypeOK, NEW w \in Workers, Requeue(w)
    PROVE  /\ ready' \in Copies
           /\ \A e \in Events, r \in Levels : ready'[e][r] >= ready[e][r]
           /\ \A h \in Residents(w) : job[h].live /\ job[h].event \in Events =>
                  ready'[job[h].event][job[h].level] > 0
<1> DEFINE back(e, r) == Cardinality(Returned(w, e, r))
<1>1. \A e, r : back(e, r) \in Nat
  BY ReturnedIsFinite
<1>2. ready' = [e \in Events |-> [r \in Levels |-> ready[e][r] + back(e, r)]]
  BY DEF Requeue, Returned
<1> HIDE DEF back
<1>3. \A e \in Events, r \in Levels :
          ready[e][r] \in Nat /\ ready'[e][r] = ready[e][r] + back(e, r)
  BY <1>2 DEF TypeOK, Copies
<1>4. ready' \in Copies
  BY <1>1, <1>2, <1>3 DEF Copies
<1>5. \A e \in Events, r \in Levels : ready'[e][r] >= ready[e][r]
  BY <1>1, <1>3
<1>6. ASSUME NEW h \in Residents(w), job[h].live, job[h].event \in Events
      PROVE  ready'[job[h].event][job[h].level] > 0
  <2>1. job[h].level \in Levels
    BY <1>6 DEF Residents, TypeOK, Jobs
  <2>2. h \in Returned(w, job[h].event, job[h].level)
    BY <1>6 DEF Returned
  <2>3. back(job[h].event, job[h].level) > 0
    BY <2>2, ReturnedIsFinite DEF back
  <2>4. QED
    BY <1>1, <1>3, <1>6, <2>1, <2>3
<1>7. QED
  BY <1>4, <1>5, <1>6

LEMMA ConnectionLostTypeOK ==
    ASSUME TypeOK, NEW w \in Workers, ConnectionLost(w) PROVE TypeOK'
<1>1. job' = [h \in Handlers |->
                 IF h \notin Residents(w) THEN job[h]
                 ELSE IF job[h].at = "stuck" THEN Idle
                 ELSE [job[h] EXCEPT !.live = FALSE]]
  BY DEF ConnectionLost
<1>2. \A h \in Handlers : [job[h] EXCEPT !.live = FALSE] \in Jobs
  BY DEF TypeOK, Jobs
<1>3. job' \in [Handlers -> Jobs]
  BY <1>1, <1>2, IdleIsJob DEF TypeOK
<1>4. ASSUME NEW h \in Handlers
      PROVE  IF job'[h].at = "idle" THEN job'[h] = Idle ELSE job'[h].event \in Events
  <2>1. CASE h \in Residents(w) /\ job[h].at # "stuck"
    <3>1. job'[h] = [job[h] EXCEPT !.live = FALSE]
      BY <1>1, <2>1
    <3>2. [job[h] EXCEPT !.live = FALSE].at = job[h].at
          /\ [job[h] EXCEPT !.live = FALSE].event = job[h].event
      BY DEF TypeOK, Jobs
    <3>3. job[h] = Idle => [job[h] EXCEPT !.live = FALSE] = Idle
      <4>1. \A j \in Jobs : ~j.live => [j EXCEPT !.live = FALSE] = j
        BY DEF Jobs
      <4>2. QED
        BY <4>1, IdleIsJob
    <3>4. QED
      BY <3>1, <3>2, <3>3 DEF TypeOK
  <2>2. CASE h \notin Residents(w) \/ job[h].at = "stuck"
    BY <1>1, <2>2, IdleIsJob DEF TypeOK
  <2>3. QED
    BY <2>1, <2>2
<1>5. ready' \in Copies
  BY RequeueType DEF ConnectionLost
<1>6. faults' \in 0 .. MaxFaults
  BY FaultType DEF ConnectionLost
<1>7. QED
  BY <1>3, <1>4, <1>5, <1>6 DEF ConnectionLost, TypeOK, dbVars, ghostVars

LEMMA CrashTypeOK ==
    ASSUME TypeOK, NEW w \in Workers, Crash(w) PROVE TypeOK'
<1>1. JobsOK'
  BY IdleIsJob DEF Crash, JobsOK, TypeOK
<1>2. ready' \in Copies
  BY RequeueType DEF Crash
<1>3. faults' \in 0 .. MaxFaults
  BY FaultType DEF Crash
<1>4. aborts' \in [Events -> Nat]
  BY DEF Crash, TypeOK
<1>5. QED
  BY <1>1, <1>2, <1>3, <1>4 DEF Crash, TypeOK, JobsOK, dbVars

LEMMA NextTypeOK == TypeOK /\ [Next]_vars => TypeOK'
<1> SUFFICES ASSUME TypeOK, [Next]_vars PROVE TypeOK'
  OBVIOUS
<1>1. ASSUME NEW h \in Handlers, Handle(h) \/ DatabaseFails(h) \/ RetryFails(h)
      PROVE  TypeOK'
  BY <1>1, ReceiveTypeOK, MovesTypeOK, ResolveTypeOK, PostTypeOK, SkipTypeOK, CommitTypeOK,
     AbortsTypeOK, EndsTypeOK, RetryFailsTypeOK DEF Handle
<1>2. ASSUME NEW w \in Workers, ConnectionLost(w) \/ Crash(w) PROVE TypeOK'
  BY <1>2, ConnectionLostTypeOK, CrashTypeOK
<1>3. ASSUME NEW e \in Events, Publish(e) PROVE TypeOK'
  BY <1>3, PublishTypeOK
<1>4. ASSUME NEW t \in Tasks, DeleteTask(t) PROVE TypeOK'
  BY <1>4, DeleteTaskTypeOK
<1>5. ASSUME NEW e \in Events, NEW r \in Levels, Expire(e, r) PROVE TypeOK'
  BY <1>5, ExpireTypeOK
<1>6. CASE UNCHANGED vars
  <2>1. JobsOK' /\ UNCHANGED <<queueVars, dbVars, ghostVars, faults>>
    BY <1>6 DEF vars, TypeOK, JobsOK
  <2>2. QED
    BY <2>1, TypeFrom
<1>7. QED
  BY <1>1, <1>2, <1>3, <1>4, <1>5, <1>6 DEF Next, ConsumerStep

-----------------------------------------------------------------------------
(***************************************************************************)
(* Deliveries.                                                             *)
(***************************************************************************)

Deliveries ==
    /\ OneTransaction /\ AcquiredIsNew /\ LoopState /\ RecordedLate
    /\ RecordedOnce /\ PostsAccounted /\ ProcessedReachedSubscribers

LEMMA InitDeliveries == Init => Deliveries
<1> SUFFICES ASSUME Init PROVE Deliveries
  OBVIOUS
<1>1. \A h \in Handlers : job[h].at = "idle" /\ job[h].rows = {}
  BY DEF Init, Idle
<1>2. OneTransaction /\ AcquiredIsNew /\ LoopState
  BY <1>1 DEF OneTransaction, AcquiredIsNew, LoopState, Acquired
<1>3. \A e \in Events, k \in Hooks : recorded[e][k] = 0 /\ posts[e][k] = 0 /\ aborts[e] = 0
  BY DEF Init
<1>4. RecordedLate /\ RecordedOnce /\ PostsAccounted
  BY <1>3 DEF RecordedLate, RecordedOnce, PostsAccounted
<1>5. ProcessedReachedSubscribers
  BY DEF Init, ProcessedReachedSubscribers
<1>6. QED
  BY <1>2, <1>4, <1>5 DEF Deliveries

\* A handler that keeps its place in the delivery.
Keeps(h) ==
    /\ job'[h].at = job[h].at /\ job'[h].event = job[h].event
    /\ job'[h].todo = job[h].todo /\ job'[h].rows = job[h].rows

\* A handler that has no transaction and gets none.
Outside(h) ==
    /\ ~Acquired(h) /\ ~Acquired(h)'
    /\ job'[h].at = "begin" => job'[h].rows = {}

\* Most steps are outside of every transaction.
LEMMA OutsideSteps ==
    ASSUME Deliveries, tasks' \subseteq tasks,
           UNCHANGED <<processed, recorded, posts, skipped, aborts>>,
           \A h \in Handlers : Keeps(h) \/ Outside(h)
    PROVE  Deliveries'
<1>1. \A h \in Handlers : Acquired(h)' => Acquired(h) /\ Keeps(h)
  BY DEF Keeps, Outside, Acquired
<1>2. \A h \in Handlers : Acquired(h) => Acquired(h)' /\ Keeps(h)
  BY DEF Keeps, Outside, Acquired
<1>3. OneTransaction' /\ AcquiredIsNew'
  BY <1>1 DEF Deliveries, OneTransaction, AcquiredIsNew, Keeps
<1>4. LoopState'
  <2> SUFFICES ASSUME NEW h \in Handlers
      PROVE  /\ job'[h].at \in {"begin", "resolving"} => job'[h].rows = {}
             /\ job'[h].at = "posting" =>
                  /\ job'[h].todo \cap job'[h].rows = {}
                  /\ \A k \in job'[h].rows : posts'[job'[h].event][k] > 0
                  /\ Subject[job'[h].event] \in tasks' =>
                       \A k \in Subscribers[job'[h].event] :
                          \/ k \in job'[h].todo \cup job'[h].rows
                          \/ <<job'[h].event, k>> \in skipped'
    BY DEF LoopState
  <2>1. CASE Keeps(h)
    BY <2>1 DEF Deliveries, LoopState, Keeps
  <2>2. CASE Outside(h)
    BY <2>2 DEF Outside, Acquired
  <2>3. QED
    BY <2>1, <2>2
<1>5. RecordedLate' /\ RecordedOnce' /\ ProcessedReachedSubscribers'
  BY DEF Deliveries, RecordedLate, RecordedOnce, ProcessedReachedSubscribers
<1>6. PostsAccounted'
  BY <1>2 DEF Deliveries, PostsAccounted, Keeps
<1>7. QED
  BY <1>3, <1>4, <1>5, <1>6 DEF Deliveries

\* The INSERT returned the row: the handler's transaction begins.
LEMMA ClaimDeliveries ==
    ASSUME TypeOK, Deliveries, NEW h \in Handlers, TryMarkProcessed(h)
    PROVE  Deliveries'
<1>1. /\ job[h].at = "begin" /\ UNCHANGED <<tasks, processed, recorded, posts, skipped, aborts>>
      /\ \A g \in Handlers \ {h} : job'[g] = job[g]
  BY DEF TryMarkProcessed, Goto, TypeOK, dbVars, ghostVars
<1>2. /\ job'[h].event = job[h].event /\ job'[h].todo = job[h].todo
      /\ job'[h].rows = job[h].rows
  BY DEF TryMarkProcessed, Goto, TypeOK, Jobs
<1>3. CASE job'[h].at = "acking"
  BY <1>1, <1>3, OutsideSteps DEF Keeps, Outside, Acquired
<1>4. CASE job'[h].at # "acking"
  <2>1. /\ job[h].event \notin processed /\ job'[h].at = "resolving"
        /\ \A g \in Handlers : Acquired(g) => job[g].event # job[h].event
    BY <1>4 DEF TryMarkProcessed, Goto, TypeOK, Jobs
  <2>2. OneTransaction' /\ AcquiredIsNew'
    BY <1>1, <1>2, <2>1 DEF Deliveries, OneTransaction, AcquiredIsNew, Acquired
  <2>3. LoopState'
    BY <1>1, <1>2, <2>1 DEF Deliveries, LoopState
  <2>4. RecordedLate' /\ RecordedOnce' /\ ProcessedReachedSubscribers'
    BY <1>1 DEF Deliveries, RecordedLate, RecordedOnce, ProcessedReachedSubscribers
  <2>5. \A g \in Handlers : Acquired(g) =>
            Acquired(g)' /\ job'[g].event = job[g].event /\ job'[g].rows = job[g].rows
    BY <1>1, <1>2, <2>1 DEF Acquired
  <2>6. PostsAccounted'
    BY <1>1, <2>5 DEF Deliveries, PostsAccounted
  <2>7. QED
    BY <2>2, <2>3, <2>4, <2>6 DEF Deliveries
<1>5. QED
  BY <1>3, <1>4

LEMMA ResolveDeliveries ==
    ASSUME TypeOK, Deliveries, NEW h \in Handlers, ResolveSubscribers(h)
    PROVE  Deliveries'
<1>1. /\ job[h].at = "resolving"
      /\ UNCHANGED <<tasks, processed, recorded, posts, skipped, aborts>>
      /\ \A g \in Handlers \ {h} : job'[g] = job[g]
  BY DEF ResolveSubscribers, TypeOK, dbVars, ghostVars
<1>2. /\ job'[h].at = "posting" /\ job'[h].event = job[h].event /\ job'[h].rows = job[h].rows
      /\ job'[h].todo = IF Subject[job[h].event] \in tasks THEN Subscribers[job[h].event] ELSE {}
  BY DEF ResolveSubscribers, TypeOK, Jobs
<1>3. job[h].rows = {}
  BY <1>1 DEF Deliveries, LoopState
<1>4. \A g \in Handlers : /\ Acquired(g)' <=> Acquired(g)
                          /\ job'[g].event = job[g].event /\ job'[g].rows = job[g].rows
  BY <1>1, <1>2 DEF Acquired
<1>5. OneTransaction' /\ AcquiredIsNew'
  BY <1>1, <1>4 DEF Deliveries, OneTransaction, AcquiredIsNew
<1>6. LoopState'
  BY <1>1, <1>2, <1>3 DEF Deliveries, LoopState
<1>7. RecordedLate' /\ RecordedOnce' /\ ProcessedReachedSubscribers'
  BY <1>1 DEF Deliveries, RecordedLate, RecordedOnce, ProcessedReachedSubscribers
<1>8. PostsAccounted'
  BY <1>1, <1>4 DEF Deliveries, PostsAccounted
<1>9. QED
  BY <1>5, <1>6, <1>7, <1>8 DEF Deliveries

\* A request is made by the one handler that has the event, for a subscription that
\* this transaction has not been to.
LEMMA PostDeliveries ==
    ASSUME TypeOK, Deliveries, NEW h \in Handlers, NEW k \in Hooks, Post(h, k)
    PROVE  Deliveries'
<1> DEFINE e == job[h].event
<1>1. /\ job[h].at = "posting" /\ k \in job[h].todo /\ e \in Events
      /\ UNCHANGED <<tasks, processed, recorded, skipped, aborts>>
      /\ \A g \in Handlers \ {h} : job'[g] = job[g]
  BY DEF Post, TypeOK, dbVars
<1>2. /\ job'[h].at = "posting" /\ job'[h].event = e
      /\ job'[h].todo = job[h].todo \ {k} /\ job'[h].rows = job[h].rows \cup {k}
  BY <1>1 DEF Post, TypeOK, Jobs
<1>3. /\ posts'[e][k] = posts[e][k] + 1
      /\ \A d \in Events, j \in Hooks : /\ posts[d][j] \in Nat /\ posts'[d][j] \in Nat
                                        /\ aborts[d] \in Nat
                                        /\ posts'[d][j] >= posts[d][j]
                                        /\ <<d, j>> # <<e, k>> => posts'[d][j] = posts[d][j]
  BY <1>1 DEF Post, TypeOK
<1>4. /\ e \notin processed /\ k \notin job[h].rows
      /\ \A g \in Handlers : Acquired(g) /\ job[g].event = e => g = h
  BY <1>1 DEF Deliveries, AcquiredIsNew, OneTransaction, LoopState, Acquired
<1>5. \A g \in Handlers : /\ Acquired(g)' <=> Acquired(g)
                          /\ job'[g].event = job[g].event /\ job[g].rows \subseteq job'[g].rows
  BY <1>1, <1>2 DEF Acquired
<1>6. OneTransaction' /\ AcquiredIsNew'
  BY <1>1, <1>5 DEF Deliveries, OneTransaction, AcquiredIsNew
<1>7. LoopState'
  <2> SUFFICES ASSUME NEW g \in Handlers
      PROVE  /\ job'[g].at \in {"begin", "resolving"} => job'[g].rows = {}
             /\ job'[g].at = "posting" =>
                  /\ job'[g].todo \cap job'[g].rows = {}
                  /\ \A j \in job'[g].rows : posts'[job'[g].event][j] > 0
                  /\ Subject[job'[g].event] \in tasks' =>
                       \A j \in Subscribers[job'[g].event] :
                          \/ j \in job'[g].todo \cup job'[g].rows
                          \/ <<job'[g].event, j>> \in skipped'
    BY DEF LoopState
  <2>1. CASE g = h
    <3>1. /\ job[h].todo \cap job[h].rows = {}
          /\ \A j \in job[h].rows : posts[e][j] > 0 /\ j \in Hooks
          /\ Subject[e] \in tasks =>
                \A j \in Subscribers[e] :
                    j \in job[h].todo \cup job[h].rows \/ <<e, j>> \in skipped
      BY <1>1 DEF Deliveries, LoopState, TypeOK, Jobs
    <3>2. \A j \in job'[h].rows : posts'[e][j] > 0
      BY <1>1, <1>2, <1>3, <3>1
    <3> HIDE DEF e
    <3>3. job'[h].todo \cap job'[h].rows = {}
      BY <1>2, <3>1
    <3>4. Subject[e] \in tasks' =>
             \A j \in Subscribers[e] :
                 j \in job'[h].todo \cup job'[h].rows \/ <<e, j>> \in skipped'
      BY <1>1, <1>2, <3>1
    <3>5. QED
      BY <1>2, <2>1, <3>2, <3>3, <3>4
  <2>2. CASE g # h
    <3>1. job'[g] = job[g]
      BY <1>1, <2>2
    <3>2. /\ job[g].at \in {"begin", "resolving"} => job[g].rows = {}
          /\ job[g].at = "posting" =>
               /\ job[g].todo \cap job[g].rows = {} /\ job[g].event \in Events
               /\ \A j \in job[g].rows : posts[job[g].event][j] > 0 /\ j \in Hooks
               /\ Subject[job[g].event] \in tasks =>
                    \A j \in Subscribers[job[g].event] :
                       j \in job[g].todo \cup job[g].rows \/ <<job[g].event, j>> \in skipped
      BY DEF Deliveries, LoopState, TypeOK, Jobs
    <3>3. job[g].at = "posting" =>
              \A j \in job[g].rows : posts'[job[g].event][j] > 0
      BY <1>3, <3>2
    <3>4. QED
      BY <1>1, <3>1, <3>2, <3>3
  <2>3. QED
    BY <2>1, <2>2
<1>8. RecordedLate' /\ RecordedOnce'
  BY <1>1 DEF Deliveries, RecordedLate, RecordedOnce
<1>9. ProcessedReachedSubscribers'
  <2>1. \A d \in Events, j \in Hooks : posts[d][j] > 0 => posts'[d][j] > 0
    BY <1>3
  <2>2. processed \subseteq Events
    BY DEF TypeOK
  <2>3. QED
    BY <1>1, <2>1, <2>2 DEF Deliveries, ProcessedReachedSubscribers
<1>10. PostsAccounted'
  <2> SUFFICES ASSUME NEW d \in Events, NEW j \in Hooks
      PROVE  /\ posts'[d][j] <= 1 + aborts'[d]
             /\ d \notin processed'
                /\ (\A g \in Handlers :
                       Acquired(g)' /\ job'[g].event = d => j \notin job'[g].rows)
                   => posts'[d][j] <= aborts'[d]
    BY DEF PostsAccounted
  <2>1. CASE d = e /\ j = k
    <3>1. posts[e][k] <= aborts[e]
      BY <1>1, <1>4 DEF Deliveries, PostsAccounted
    <3>2. k \in job'[h].rows /\ Acquired(h)' /\ job'[h].event = e
      BY <1>2 DEF Acquired
    <3>3. posts'[e][k] <= 1 + aborts'[e]
      BY <1>1, <1>3, <3>1
    <3> HIDE DEF e
    <3>4. QED
      BY <2>1, <3>2, <3>3
  <2>2. CASE ~(d = e /\ j = k)
    <3>1. posts'[d][j] = posts[d][j]
      BY <1>3, <2>2
    <3>2. QED
      BY <1>1, <1>5, <3>1 DEF Deliveries, PostsAccounted
  <2>3. QED
    BY <2>1, <2>2
<1>11. QED
  BY <1>6, <1>7, <1>8, <1>9, <1>10 DEF Deliveries

LEMMA SkipDeliveries ==
    ASSUME TypeOK, Deliveries, NEW h \in Handlers, NEW k \in Hooks, Skip(h, k)
    PROVE  Deliveries'
<1> DEFINE e == job[h].event
<1>1. /\ job[h].at = "posting" /\ k \in job[h].todo
      /\ UNCHANGED <<tasks, processed, recorded, posts, aborts>>
      /\ skipped' = skipped \cup {<<e, k>>}
      /\ \A g \in Handlers \ {h} : job'[g] = job[g]
  BY DEF Skip, TypeOK, dbVars
<1>2. /\ job'[h].at = "posting" /\ job'[h].event = e
      /\ job'[h].todo = job[h].todo \ {k} /\ job'[h].rows = job[h].rows
  BY <1>1 DEF Skip, TypeOK, Jobs
<1>3. \A g \in Handlers : /\ Acquired(g)' <=> Acquired(g)
                          /\ job'[g].event = job[g].event /\ job'[g].rows = job[g].rows
  BY <1>1, <1>2 DEF Acquired
<1>4. OneTransaction' /\ AcquiredIsNew'
  BY <1>1, <1>3 DEF Deliveries, OneTransaction, AcquiredIsNew
<1>5. LoopState'
  <2> SUFFICES ASSUME NEW g \in Handlers
      PROVE  /\ job'[g].at \in {"begin", "resolving"} => job'[g].rows = {}
             /\ job'[g].at = "posting" =>
                  /\ job'[g].todo \cap job'[g].rows = {}
                  /\ \A j \in job'[g].rows : posts'[job'[g].event][j] > 0
                  /\ Subject[job'[g].event] \in tasks' =>
                       \A j \in Subscribers[job'[g].event] :
                          \/ j \in job'[g].todo \cup job'[g].rows
                          \/ <<job'[g].event, j>> \in skipped'
    BY DEF LoopState
  <2>1. CASE g = h
    BY <1>1, <1>2, <2>1 DEF Deliveries, LoopState
  <2>2. CASE g # h
    BY <1>1, <2>2 DEF Deliveries, LoopState
  <2>3. QED
    BY <2>1, <2>2
<1>6. RecordedLate' /\ RecordedOnce' /\ ProcessedReachedSubscribers'
  BY <1>1 DEF Deliveries, RecordedLate, RecordedOnce, ProcessedReachedSubscribers
<1>7. PostsAccounted'
  BY <1>1, <1>3 DEF Deliveries, PostsAccounted
<1>8. QED
  BY <1>4, <1>5, <1>6, <1>7 DEF Deliveries

\* The commit: every subscription was posted to, or skipped, and no other
\* transaction has recorded anything.
LEMMA CommitDeliveries ==
    ASSUME TypeOK, Deliveries, NEW h \in Handlers, Commit(h)
    PROVE  Deliveries'
<1> DEFINE e == job[h].event
<1>1. /\ job[h].at = "posting" /\ job[h].todo = {} /\ e \in Events
      /\ UNCHANGED <<tasks, posts, skipped, aborts>>
      /\ processed' = processed \cup {e}
      /\ \A g \in Handlers \ {h} : job'[g] = job[g]
      /\ job'[h].at = "acking"
  BY DEF Commit, Goto, TypeOK, Jobs, ghostVars
<1>2. /\ e \notin processed
      /\ \A g \in Handlers : Acquired(g) /\ job[g].event = e => g = h
  BY <1>1 DEF Deliveries, AcquiredIsNew, OneTransaction, Acquired
<1>3. /\ \A k \in Hooks : recorded'[e][k] = IF k \in job[h].rows THEN 1 ELSE 0
      /\ \A d \in Events : d # e => recorded'[d] = recorded[d]
  <2>1. \A k \in Hooks : recorded[e][k] = 0
    BY <1>1, <1>2 DEF Deliveries, RecordedLate
  <2>2. recorded' = [recorded EXCEPT ![e] =
                       [k \in Hooks |-> IF k \in job[h].rows THEN recorded[e][k] + 1
                                        ELSE recorded[e][k]]]
    BY DEF Commit
  <2>3. QED
    BY <1>1, <2>1, <2>2 DEF TypeOK
<1>4. \A g \in Handlers : Acquired(g)' =>
          /\ Acquired(g) /\ job'[g] = job[g] /\ job[g].event # e
  BY <1>1, <1>2 DEF Acquired
<1>5. OneTransaction' /\ AcquiredIsNew'
  BY <1>1, <1>4 DEF Deliveries, OneTransaction, AcquiredIsNew
<1>6. LoopState'
  BY <1>1 DEF Deliveries, LoopState
<1>7. RecordedLate'
  BY <1>1, <1>3 DEF Deliveries, RecordedLate
<1>8. RecordedOnce'
  BY <1>3 DEF Deliveries, RecordedOnce
<1>9. PostsAccounted'
  <2> SUFFICES ASSUME NEW d \in Events, NEW k \in Hooks,
                      d \notin processed' /\ \A g \in Handlers :
                          Acquired(g)' /\ job'[g].event = d => k \notin job'[g].rows
      PROVE  posts'[d][k] <= aborts'[d]
    BY <1>1 DEF Deliveries, PostsAccounted
  <2>1. d # e /\ d \notin processed
    BY <1>1
  <2>2. ASSUME NEW g \in Handlers, Acquired(g), job[g].event = d
        PROVE  k \notin job[g].rows
    <3>1. g # h
      BY <2>1, <2>2
    <3>2. job'[g] = job[g]
      BY <1>1, <3>1
    <3>3. QED
      BY <2>2, <3>2 DEF Acquired
  <2>3. QED
    BY <1>1, <2>1, <2>2 DEF Deliveries, PostsAccounted
<1>10. ProcessedReachedSubscribers'
  <2> SUFFICES ASSUME NEW d \in processed', NEW k \in Hooks, k \in Subscribers[d],
                      Subject[d] \in tasks', <<d, k>> \notin skipped'
      PROVE  recorded'[d][k] = 1 /\ posts'[d][k] > 0
    BY DEF ProcessedReachedSubscribers
  <2>1. CASE d = e
    <3>1. k \in job[h].rows
      BY <1>1, <2>1 DEF Deliveries, LoopState
    <3>2. posts[e][k] > 0
      BY <1>1, <3>1 DEF Deliveries, LoopState
    <3>3. QED
      BY <1>1, <1>3, <2>1, <3>1, <3>2
  <2>2. CASE d # e
    BY <1>1, <1>3, <2>2 DEF Deliveries, ProcessedReachedSubscribers, TypeOK
  <2>3. QED
    BY <2>1, <2>2
<1>11. QED
  BY <1>5, <1>6, <1>7, <1>8, <1>9, <1>10 DEF Deliveries

\* Rollbacks: of one handler, or of all those of a worker.  Each pays for the
\* requests its transaction made.
LEMMA RollbackDeliveries ==
    ASSUME TypeOK, TypeOK', Deliveries, NEW S \in SUBSET Handlers,
           UNCHANGED <<tasks, processed, recorded, posts, skipped>>,
           \A h \in S : ~Acquired(h)' /\ (job'[h].at = "begin" => job'[h].rows = {}),
           \A h \in Handlers \ S : job'[h] = job[h],
           \A e \in Events : aborts'[e] >= aborts[e],
           \A h \in S : Acquired(h) => aborts'[job[h].event] >= aborts[job[h].event] + 1
    PROVE  Deliveries'
<1>1. \A h \in Handlers : Acquired(h)' => Acquired(h) /\ job'[h] = job[h]
  BY DEF Acquired
<1>2. OneTransaction' /\ AcquiredIsNew'
  BY <1>1 DEF Deliveries, OneTransaction, AcquiredIsNew
<1>3. LoopState'
  <2> SUFFICES ASSUME NEW h \in Handlers
      PROVE  /\ job'[h].at \in {"begin", "resolving"} => job'[h].rows = {}
             /\ job'[h].at = "posting" =>
                  /\ job'[h].todo \cap job'[h].rows = {}
                  /\ \A k \in job'[h].rows : posts'[job'[h].event][k] > 0
                  /\ Subject[job'[h].event] \in tasks' =>
                       \A k \in Subscribers[job'[h].event] :
                          \/ k \in job'[h].todo \cup job'[h].rows
                          \/ <<job'[h].event, k>> \in skipped'
    BY DEF LoopState
  <2>1. CASE h \in S
    BY <2>1 DEF Acquired
  <2>2. CASE h \notin S
    BY <2>2 DEF Deliveries, LoopState
  <2>3. QED
    BY <2>1, <2>2
<1>4. RecordedLate' /\ RecordedOnce' /\ ProcessedReachedSubscribers'
  BY DEF Deliveries, RecordedLate, RecordedOnce, ProcessedReachedSubscribers
<1>5. PostsAccounted'
  <2> SUFFICES ASSUME NEW e \in Events, NEW k \in Hooks
      PROVE  /\ posts'[e][k] <= 1 + aborts'[e]
             /\ e \notin processed'
                /\ (\A h \in Handlers :
                       Acquired(h)' /\ job'[h].event = e => k \notin job'[h].rows)
                   => posts'[e][k] <= aborts'[e]
    BY DEF PostsAccounted
  <2>1. /\ posts[e][k] \in Nat /\ aborts[e] \in Nat /\ aborts'[e] \in Nat
        /\ posts'[e][k] = posts[e][k] /\ aborts'[e] >= aborts[e]
        /\ posts[e][k] <= 1 + aborts[e]
    BY DEF TypeOK, Deliveries, PostsAccounted
  <2>2. posts'[e][k] <= 1 + aborts'[e]
    BY <2>1
  <2>3. CASE \E h \in S : Acquired(h) /\ job[h].event = e
    BY <2>1, <2>2, <2>3
  <2>4. CASE ~\E h \in S : Acquired(h) /\ job[h].event = e
    <3> SUFFICES ASSUME e \notin processed',
                        \A h \in Handlers :
                            Acquired(h)' /\ job'[h].event = e => k \notin job'[h].rows
        PROVE  posts'[e][k] <= aborts'[e]
      BY <2>2
    <3>1. ASSUME NEW h \in Handlers, Acquired(h), job[h].event = e
          PROVE  k \notin job[h].rows
      <4>1. h \notin S
        BY <2>4, <3>1
      <4>2. job'[h] = job[h]
        BY <4>1
      <4>3. QED
        BY <3>1, <4>2 DEF Acquired
    <3>2. posts[e][k] <= aborts[e]
      BY <3>1 DEF Deliveries, PostsAccounted
    <3>3. QED
      BY <2>1, <3>2
  <2>5. QED
    BY <2>3, <2>4
<1>6. QED
  BY <1>2, <1>3, <1>4, <1>5 DEF Deliveries

LEMMA AbortDeliveries ==
    ASSUME TypeOK, TypeOK', Deliveries, NEW h \in Handlers, job[h].event \in Events,
           NEW to \in {"retrying", "rejecting"}, Abort(h, to)
    PROVE  Deliveries'
<1>1. /\ UNCHANGED <<tasks, processed, recorded, posts, skipped>>
      /\ \A g \in Handlers \ {h} : job'[g] = job[g]
      /\ job'[h].at = to /\ ~Acquired(h)'
  BY DEF Abort, TypeOK, Jobs, dbVars, Acquired
<1>2. /\ aborts'[job[h].event] = aborts[job[h].event] + 1
      /\ \A e \in Events : aborts'[e] >= aborts[e]
  BY DEF Abort, TypeOK
<1>3. aborts'[job[h].event] >= aborts[job[h].event] + 1
  BY <1>2 DEF TypeOK
<1> DEFINE S == {h}
<1>4. /\ S \in SUBSET Handlers
      /\ \A g \in S : ~Acquired(g)' /\ (job'[g].at = "begin" => job'[g].rows = {})
      /\ \A g \in Handlers \ S : job'[g] = job[g]
      /\ \A g \in S : Acquired(g) => aborts'[job[g].event] >= aborts[job[g].event] + 1
  BY <1>1, <1>3
<1> HIDE DEF S
<1>5. QED
  BY <1>1, <1>2, <1>4, RollbackDeliveries

LEMMA AbortsDeliveries ==
    ASSUME TypeOK, TypeOK', Deliveries, NEW h \in Handlers,
           (\E k \in Hooks : DecryptFails(h, k)) \/ DatabaseFails(h)
    PROVE  Deliveries'
<1>1. /\ Abort(h, "rejecting") \/ Abort(h, "retrying")
      /\ job[h].at # "idle"
  BY DEF DecryptFails, DatabaseFails
<1>2. job[h].event \in Events
  BY <1>1 DEF TypeOK
<1>3. QED
  BY <1>1, <1>2, AbortDeliveries

LEMMA CrashDeliveries ==
    ASSUME TypeOK, TypeOK', Deliveries, NEW w \in Workers, Crash(w)
    PROVE  Deliveries'
<1>1. Residents(w) \in SUBSET Handlers
  BY DEF Residents
<1>2. /\ UNCHANGED <<tasks, processed, recorded, posts, skipped>>
      /\ \A h \in Handlers \ Residents(w) : job'[h] = job[h]
      /\ \A h \in Residents(w) : job'[h] = Idle
  BY <1>1 DEF Crash, dbVars
<1>3. \A h \in Residents(w) : ~Acquired(h)' /\ (job'[h].at = "begin" => job'[h].rows = {})
  BY <1>2 DEF Idle, Acquired
<1>4. \A e \in Events :
          aborts'[e] = IF \E h \in Residents(w) : Acquired(h) /\ job[h].event = e
                       THEN aborts[e] + 1 ELSE aborts[e]
  BY DEF Crash
<1>5. \A e \in Events : aborts'[e] >= aborts[e]
  <2>1. \A e \in Events : aborts[e] \in Nat
    BY DEF TypeOK
  <2>2. QED
    BY <1>4, <2>1
<1>6. \A h \in Residents(w) : Acquired(h) => aborts'[job[h].event] >= aborts[job[h].event] + 1
  <2> SUFFICES ASSUME NEW h \in Residents(w), Acquired(h)
      PROVE  aborts'[job[h].event] >= aborts[job[h].event] + 1
    OBVIOUS
  <2>1. job[h].event \in Events
    BY <1>1 DEF Acquired, TypeOK
  <2>2. aborts'[job[h].event] = aborts[job[h].event] + 1
    BY <1>4, <2>1
  <2>3. QED
    BY <2>1, <2>2 DEF TypeOK
<1>7. QED
  BY <1>1, <1>2, <1>3, <1>5, <1>6, RollbackDeliveries

\* One handler moves outside of its transaction, or ends.
LEMMA OutsideMove ==
    ASSUME TypeOK, Deliveries, NEW h \in Handlers, NEW j, job' = [job EXCEPT ![h] = j],
           UNCHANGED <<tasks, processed, recorded, posts, skipped, aborts>>,
           job[h].at \notin {"resolving", "posting"}, j.at \notin {"resolving", "posting"},
           j.at = "begin" => j.rows = {}
    PROVE  Deliveries'
<1>1. \A g \in Handlers : job'[g] = IF g = h THEN j ELSE job[g]
  BY DEF TypeOK
<1>2. \A g \in Handlers : Keeps(g) \/ Outside(g)
  BY <1>1 DEF Keeps, Outside, Acquired
<1>3. QED
  BY <1>2, OutsideSteps

LEMMA HandlerDeliveries ==
    ASSUME TypeOK, Deliveries, NEW h \in Handlers,
           \/ \E e \in Events, r \in Levels : Receive(h, e, r)
           \/ Ack(h) \/ Reject(h) \/ ScheduleRetry(h) \/ RetriesExhausted(h) \/ RetryFails(h)
    PROVE  Deliveries'
<1>1. CASE \E e \in Events, r \in Levels : Receive(h, e, r)
  <2> PICK e \in Events, r \in Levels : Receive(h, e, r)
    BY <1>1
  <2> DEFINE j == [Idle EXCEPT !.at = IF e \in Malformed THEN "rejecting" ELSE "begin",
                               !.event = e, !.level = r, !.live = TRUE]
  <2>1. j.rows = {} /\ j.at \in {"rejecting", "begin"}
    BY DEF Idle
  <2>2. /\ job[h].at = "idle" /\ job' = [job EXCEPT ![h] = j]
        /\ UNCHANGED <<tasks, processed, recorded, posts, skipped, aborts>>
    BY DEF Receive, dbVars, ghostVars
  <2> HIDE DEF j
  <2>3. QED
    BY <2>1, <2>2, OutsideMove
<1>2. CASE Ack(h) \/ Reject(h)
  <2>1. /\ job[h].at \in {"acking", "rejecting"} /\ job' = [job EXCEPT ![h] = Idle]
        /\ UNCHANGED <<tasks, processed, recorded, posts, skipped, aborts>>
    BY <1>2 DEF Ack, Reject, Return, dbVars, ghostVars
  <2>2. QED
    BY <2>1, IdleIsJob, OutsideMove
<1>3. CASE ScheduleRetry(h) \/ RetriesExhausted(h)
  <2>1. PICK to \in {"acking", "rejecting"} : Goto(h, "retrying", to)
    BY <1>3 DEF ScheduleRetry, RetriesExhausted
  <2>2. UNCHANGED <<tasks, processed, recorded, posts, skipped, aborts>>
    BY <1>3 DEF ScheduleRetry, RetriesExhausted, dbVars, ghostVars
  <2>3. /\ job[h].at = "retrying" /\ job' = [job EXCEPT ![h] = [job[h] EXCEPT !.at = to]]
        /\ [job[h] EXCEPT !.at = to].at = to
    BY <2>1 DEF Goto, TypeOK, Jobs
  <2>4. QED
    BY <2>2, <2>3, OutsideMove
<1>4. CASE RetryFails(h)
  <2> DEFINE j == IF job[h].live THEN [job[h] EXCEPT !.at = "stuck"] ELSE Idle
  <2>1. j.at \in {"stuck", "idle"}
    BY IdleIsJob DEF TypeOK, Jobs
  <2>2. /\ job[h].at = "retrying" /\ job' = [job EXCEPT ![h] = j]
        /\ UNCHANGED <<tasks, processed, recorded, posts, skipped, aborts>>
    BY <1>4 DEF RetryFails, TypeOK, dbVars, ghostVars
  <2> HIDE DEF j
  <2>3. QED
    BY <2>1, <2>2, OutsideMove
<1>5. QED
  BY <1>1, <1>2, <1>3, <1>4

LEMMA ConnectionLostDeliveries ==
    ASSUME TypeOK, Deliveries, NEW w \in Workers, ConnectionLost(w) PROVE Deliveries'
<1>1. /\ UNCHANGED <<tasks, processed, recorded, posts, skipped, aborts>>
      /\ job' = [h \in Handlers |->
                   IF h \notin Residents(w) THEN job[h]
                   ELSE IF job[h].at = "stuck" THEN Idle
                   ELSE [job[h] EXCEPT !.live = FALSE]]
  BY DEF ConnectionLost, dbVars, ghostVars
<1>2. ASSUME NEW h \in Handlers PROVE Keeps(h) \/ Outside(h)
  <2>1. CASE h \in Residents(w) /\ job[h].at = "stuck"
    BY <1>1, <2>1, IdleIsJob DEF Outside, Acquired
  <2>2. CASE h \in Residents(w) /\ job[h].at # "stuck"
    <3>1. job'[h] = [job[h] EXCEPT !.live = FALSE]
      BY <1>1, <2>2
    <3>2. QED
      BY <3>1 DEF Keeps, TypeOK, Jobs
  <2>3. CASE h \notin Residents(w)
    BY <1>1, <2>3 DEF Keeps
  <2>4. QED
    BY <2>1, <2>2, <2>3
<1>3. QED
  BY <1>1, <1>2, OutsideSteps

LEMMA NextDeliveries ==
    ASSUME TypeOK, TypeOK', Deliveries, [Next]_vars PROVE Deliveries'
<1>1. ASSUME UNCHANGED <<processed, recorded, job, posts, skipped, aborts>>,
             tasks' \subseteq tasks
      PROVE  Deliveries'
  <2>1. \A h \in Handlers : Keeps(h)
    BY <1>1 DEF Keeps
  <2>2. QED
    BY <1>1, <2>1, OutsideSteps
<1>2. ASSUME NEW e \in Events, Publish(e) \/ \E r \in Levels : Expire(e, r)
      PROVE  Deliveries'
  BY <1>1, <1>2 DEF Publish, Expire, dbVars, ghostVars
<1>3. ASSUME NEW t \in Tasks, DeleteTask(t) PROVE Deliveries'
  BY <1>1, <1>3 DEF DeleteTask, ghostVars
<1>4. ASSUME NEW h \in Handlers, Handle(h) \/ DatabaseFails(h) \/ RetryFails(h)
      PROVE  Deliveries'
  BY <1>4, HandlerDeliveries, ClaimDeliveries, ResolveDeliveries, PostDeliveries,
     SkipDeliveries, CommitDeliveries, AbortsDeliveries DEF Handle
<1>5. ASSUME NEW w \in Workers, ConnectionLost(w) \/ Crash(w) PROVE Deliveries'
  BY <1>5, ConnectionLostDeliveries, CrashDeliveries
<1>6. CASE UNCHANGED vars
  BY <1>1, <1>6 DEF vars, dbVars, ghostVars
<1>7. QED
  BY <1>2, <1>3, <1>4, <1>5, <1>6 DEF Next, ConsumerStep

-----------------------------------------------------------------------------
(***************************************************************************)
(* Messages.                                                               *)
(***************************************************************************)

\* A handler that still answers for a copy of e.
Answers(h, e) == job[h].live /\ job[h].event = e /\ job[h].at # "acking"

\* What a step must not take from an event: it is enough that every handler that
\* answered for a copy still does, or leaves it in a queue.
LEMMA RetainedStep ==
    ASSUME TypeOK, TypeOK', Retained, UNCHANGED sent, processed \subseteq processed',
           \A e \in Events : dlq'[e] >= dlq[e],
           \A e \in Events, r \in Levels :
               ready[e][r] + parked[e][r] > 0 =>
                   e \in processed' \/ dlq'[e] > 0 \/ Held(e)',
           \A e \in Events, h \in Handlers :
               Answers(h, e) => e \in processed' \/ dlq'[e] > 0 \/ Held(e)'
    PROVE  Retained'
<1> SUFFICES ASSUME NEW e \in Events, sent'[e] > 0
    PROVE  e \in processed' \/ dlq'[e] > 0 \/ Held(e)'
  BY DEF Retained
<1>1. CASE e \in processed
  BY <1>1
<1>2. CASE dlq[e] > 0
  BY <1>2 DEF TypeOK
<1>3. CASE Held(e)
  BY <1>3 DEF Held, Answers
<1>4. QED
  BY <1>1, <1>2, <1>3 DEF Retained

\* A handler moves on with its message, and the queues stay.
LEMMA RetainedMove ==
    ASSUME TypeOK, TypeOK', Retained, NEW h \in Handlers,
           UNCHANGED <<sent, queueVars>>, processed \subseteq processed',
           NEW j, job' = [job EXCEPT ![h] = j],
           j.live = job[h].live, j.event = job[h].event,
           j.at = "acking" => job[h].event \in processed'
    PROVE  Retained'
<1>0. \A g \in Handlers : job'[g] = IF g = h THEN j ELSE job[g]
  BY DEF TypeOK
<1>1. \A e \in Events : dlq'[e] >= dlq[e]
  BY DEF TypeOK, queueVars
<1>2. ASSUME NEW e \in Events, NEW r \in Levels, ready[e][r] + parked[e][r] > 0
      PROVE  Held(e)'
  BY <1>2 DEF Held, queueVars
<1>3. ASSUME NEW e \in Events, NEW g \in Handlers, Answers(g, e)
      PROVE  e \in processed' \/ Held(e)'
  BY <1>0, <1>3 DEF Held, Answers
<1>4. QED
  BY <1>1, <1>2, <1>3, RetainedStep

LEMMA PublishRetained ==
    ASSUME TypeOK, TypeOK', Retained, NEW e \in Events, Publish(e) PROVE Retained'
<1>1. ready' = [ready EXCEPT ![e][0] = @ + 1] /\ 0 \in Levels
      /\ UNCHANGED <<parked, dlq, processed, job>>
      /\ \A d \in Events : d # e => sent'[d] = sent[d]
  BY ConstantsAssumption DEF Publish, Levels, dbVars, TypeOK
<1>2. ready'[e][0] + parked'[e][0] > 0
  BY <1>1 DEF TypeOK, Copies
<1>3. \A d \in Events : d # e => ready'[d] = ready[d]
  BY <1>1 DEF TypeOK, Copies
<1>4. QED
  BY <1>1, <1>2, <1>3 DEF Retained, Held

LEMMA ExpireRetained ==
    ASSUME TypeOK, TypeOK', Retained, NEW e \in Events, NEW r \in Levels, Expire(e, r)
    PROVE  Retained'
<1>1. /\ ready' = [ready EXCEPT ![e][r] = @ + 1]
      /\ parked' = [parked EXCEPT ![e][r] = @ - 1]
      /\ UNCHANGED <<dlq, processed, job, sent>>
  BY DEF Expire, dbVars, ghostVars
<1>2. \A d \in Events, q \in Levels :
          ready[d][q] + parked[d][q] > 0 => ready'[d][q] + parked'[d][q] > 0
  BY <1>1 DEF TypeOK, Copies
<1>3. QED
  BY <1>1, <1>2 DEF Retained, Held

LEMMA ReceiveRetained ==
    ASSUME TypeOK, TypeOK', Retained, NEW h \in Handlers, NEW e \in Events, NEW r \in Levels,
           Receive(h, e, r)
    PROVE  Retained'
<1>1. /\ ready' = [ready EXCEPT ![e][r] = @ - 1] /\ job[h].at = "idle"
      /\ UNCHANGED <<parked, dlq, processed, sent>>
      /\ \A g \in Handlers \ {h} : job'[g] = job[g]
  BY DEF Receive, TypeOK, dbVars, ghostVars
<1>2. job'[h].live /\ job'[h].event = e /\ job'[h].at # "acking"
  BY DEF Receive, TypeOK, Idle
<1>3. \A d \in Events : d # e => ready'[d] = ready[d]
  BY <1>1 DEF TypeOK, Copies
<1>4. ~job[h].live
  BY <1>1, IdleIsJob DEF TypeOK
<1>5. Held(e)'
  BY <1>2 DEF Held
<1>6. \A d \in Events : dlq'[d] >= dlq[d]
  BY <1>1 DEF TypeOK
<1>7. ASSUME NEW d \in Events, NEW q \in Levels, ready[d][q] + parked[d][q] > 0
      PROVE  Held(d)'
  BY <1>1, <1>3, <1>5, <1>7 DEF Held
<1>8. ASSUME NEW d \in Events, NEW g \in Handlers, Answers(g, d)
      PROVE  Held(d)'
  BY <1>1, <1>4, <1>8 DEF Held, Answers
<1>9. QED
  BY <1>1, <1>6, <1>7, <1>8, RetainedStep

LEMMA GotoRetained ==
    ASSUME TypeOK, TypeOK', Retained, NEW h \in Handlers, NEW from, NEW to,
           Goto(h, from, to), UNCHANGED <<sent, queueVars>>, processed \subseteq processed',
           to = "acking" => job[h].event \in processed'
    PROVE  Retained'
<1> DEFINE j == [job[h] EXCEPT !.at = to]
<1>1. j.live = job[h].live /\ j.event = job[h].event /\ j.at = to
  BY DEF TypeOK, Jobs
<1>2. job' = [job EXCEPT ![h] = j]
  BY DEF Goto, TypeOK
<1> HIDE DEF j
<1>3. QED
  BY <1>1, <1>2, RetainedMove

LEMMA MovesRetained ==
    ASSUME TypeOK, TypeOK', Retained, NEW h \in Handlers,
           TryMarkProcessed(h) \/ Commit(h) \/ RetriesExhausted(h)
    PROVE  Retained'
<1>1. CASE TryMarkProcessed(h)
  <2>1. UNCHANGED <<sent, queueVars>> /\ processed \subseteq processed'
    BY <1>1 DEF TryMarkProcessed, dbVars, ghostVars
  <2>2. \/ Goto(h, "begin", "acking") /\ job[h].event \in processed'
        \/ Goto(h, "begin", "resolving")
    BY <1>1 DEF TryMarkProcessed, dbVars
  <2>3. QED
    BY <2>1, <2>2, GotoRetained
<1>2. CASE Commit(h)
  BY <1>2, GotoRetained DEF Commit, ghostVars
<1>3. CASE RetriesExhausted(h)
  <2>1. UNCHANGED <<sent, queueVars>> /\ processed \subseteq processed'
    BY <1>3 DEF RetriesExhausted, dbVars, ghostVars
  <2>2. QED
    BY <1>3, <2>1, GotoRetained DEF RetriesExhausted
<1>4. QED
  BY <1>1, <1>2, <1>3

LEMMA LoopRetained ==
    ASSUME TypeOK, TypeOK', Retained, NEW h \in Handlers,
           UNCHANGED <<sent, queueVars>>, processed \subseteq processed',
           NEW at \in Locations \ {"acking"}, NEW todo, NEW rows,
           job' = [job EXCEPT ![h] = [job[h] EXCEPT !.at = at, !.todo = todo, !.rows = rows]]
    PROVE  Retained'
<1> DEFINE j == [job[h] EXCEPT !.at = at, !.todo = todo, !.rows = rows]
<1>1. j.live = job[h].live /\ j.event = job[h].event /\ j.at # "acking"
  BY DEF TypeOK, Jobs
<1> HIDE DEF j
<1>2. QED
  BY <1>1, RetainedMove DEF j

LEMMA TransactionRetained ==
    ASSUME TypeOK, TypeOK', Retained, NEW h \in Handlers,
           \/ ResolveSubscribers(h) \/ DatabaseFails(h)
           \/ \E k \in Hooks : Post(h, k) \/ Skip(h, k) \/ DecryptFails(h, k)
    PROVE  Retained'
<1>1. UNCHANGED <<sent, queueVars>> /\ processed \subseteq processed'
  BY DEF ResolveSubscribers, DatabaseFails, Post, Skip, DecryptFails, Abort, ghostVars, dbVars
<1>2. job \in [Handlers -> Jobs]
  BY DEF TypeOK
<1>3. CASE ResolveSubscribers(h)
  <2> DEFINE todo == IF Subject[job[h].event] \in tasks THEN Subscribers[job[h].event] ELSE {}
  <2>1. job' = [job EXCEPT ![h] = [job[h] EXCEPT !.at = "posting", !.todo = todo,
                                                !.rows = job[h].rows]]
    BY <1>2, <1>3 DEF ResolveSubscribers, Jobs
  <2> HIDE DEF todo
  <2>2. QED
    BY <1>1, <2>1, LoopRetained DEF Locations
<1>4. CASE \E k \in Hooks : Post(h, k)
  <2> PICK k \in Hooks : Post(h, k)
    BY <1>4
  <2>1. job[h].at = "posting"
    BY DEF Post
  <2>2. job' = [job EXCEPT ![h] = [job[h] EXCEPT !.at = "posting", !.todo = job[h].todo \ {k},
                                                !.rows = job[h].rows \cup {k}]]
    BY <1>2, <2>1 DEF Post, Jobs
  <2>3. QED
    BY <1>1, <2>2, LoopRetained DEF Locations
<1>5. CASE \E k \in Hooks : Skip(h, k)
  <2> PICK k \in Hooks : Skip(h, k)
    BY <1>5
  <2>1. job[h].at = "posting"
    BY DEF Skip
  <2>2. job' = [job EXCEPT ![h] = [job[h] EXCEPT !.at = "posting", !.todo = job[h].todo \ {k},
                                                !.rows = job[h].rows]]
    BY <1>2, <2>1 DEF Skip, Jobs
  <2>3. QED
    BY <1>1, <2>2, LoopRetained DEF Locations
<1>6. CASE DatabaseFails(h) \/ \E k \in Hooks : DecryptFails(h, k)
  <2>1. PICK to \in {"retrying", "rejecting"} : Abort(h, to)
    BY <1>6 DEF DatabaseFails, DecryptFails
  <2>2. job' = [job EXCEPT ![h] = [job[h] EXCEPT !.at = to, !.todo = {}, !.rows = {}]]
    BY <1>2, <2>1 DEF Abort, Jobs
  <2>3. QED
    BY <1>1, <2>2, LoopRetained DEF Locations
<1>7. QED
  BY <1>3, <1>4, <1>5, <1>6

LEMMA AckRetained ==
    ASSUME TypeOK, TypeOK', Retained, NEW h \in Handlers, Ack(h) PROVE Retained'
<1>1. /\ job[h].at = "acking" /\ UNCHANGED <<ready, parked, dlq, processed, sent>>
      /\ \A g \in Handlers \ {h} : job'[g] = job[g]
  BY DEF Ack, Return, TypeOK, queueVars, dbVars, ghostVars
<1>2. QED
  BY <1>1 DEF Retained, Held

LEMMA RejectRetained ==
    ASSUME TypeOK, TypeOK', Retained, NEW h \in Handlers, Reject(h) PROVE Retained'
<1>1. /\ job[h].at = "rejecting" /\ UNCHANGED <<ready, parked, processed, sent>>
      /\ \A g \in Handlers \ {h} : job'[g] = job[g]
      /\ job[h].event \in Events
  BY DEF Reject, Return, TypeOK, dbVars, ghostVars
<1>2. /\ \A e \in Events : dlq'[e] >= dlq[e]
      /\ job[h].live => dlq'[job[h].event] > 0
  BY <1>1 DEF Reject, TypeOK
<1>3. ASSUME NEW e \in Events, NEW r \in Levels, ready[e][r] + parked[e][r] > 0
      PROVE  Held(e)'
  BY <1>1, <1>3 DEF Held
<1>4. ASSUME NEW e \in Events, NEW g \in Handlers, Answers(g, e)
      PROVE  dlq'[e] > 0 \/ Held(e)'
  BY <1>1, <1>2, <1>4 DEF Held, Answers
<1>5. QED
  BY <1>1, <1>2, <1>3, <1>4, RetainedStep

\* The copy on the next rung is there before the message is let go.
LEMMA RetryRetained ==
    ASSUME TypeOK, TypeOK', Retained, NEW h \in Handlers, ScheduleRetry(h) \/ RetryFails(h)
    PROVE  Retained'
<1>1. /\ job[h].at = "retrying" /\ job[h].event \in Events
      /\ UNCHANGED <<ready, dlq, processed, sent>>
      /\ \A g \in Handlers \ {h} : job'[g] = job[g]
      /\ Park(h) \/ UNCHANGED parked
  BY DEF ScheduleRetry, RetryFails, Goto, TypeOK, dbVars, ghostVars
<1> DEFINE m == job[h].event
<1>2. \A e \in Events, r \in Levels : parked'[e][r] >= parked[e][r]
  <2>1. CASE UNCHANGED parked
    BY <2>1 DEF TypeOK, Copies
  <2>2. CASE Park(h)
    <3>1. \A e \in Events, r \in Levels :
              /\ parked[e][r] \in Nat
              /\ parked'[e][r] = parked[e][r] \/ parked'[e][r] = parked[e][r] + 1
      BY <2>2 DEF Park, TypeOK, Copies
    <3>2. QED
      BY <3>1
  <2>3. QED
    BY <1>1, <2>1, <2>2
<1>3. \A e \in Events : job[h].live /\ m = e => Held(e)'
  <2>1. CASE ScheduleRetry(h)
    <3>1. PICK r \in Levels : parked'[m][r] > 0
      BY <1>1, <2>1, ParkType DEF ScheduleRetry
    <3>2. ready'[m][r] \in Nat /\ parked'[m][r] \in Nat
      BY <1>1, <3>1 DEF TypeOK, Copies
    <3>3. ready'[m][r] + parked'[m][r] > 0
      BY <3>1, <3>2
    <3>4. QED
      BY <3>1, <3>3 DEF Held
  <2>2. CASE RetryFails(h)
    <3> SUFFICES ASSUME job[h].live PROVE \A e \in Events : m = e => Held(e)'
      OBVIOUS
    <3>1. job'[h].live /\ job'[h].event = m /\ job'[h].at = "stuck"
      BY <2>2 DEF RetryFails, TypeOK, Jobs
    <3>2. QED
      BY <3>1 DEF Held
  <2>3. QED
    BY <2>1, <2>2
<1>4. \A e \in Events : dlq'[e] >= dlq[e]
  BY <1>1 DEF TypeOK
<1>5. ASSUME NEW e \in Events, NEW r \in Levels, ready[e][r] + parked[e][r] > 0
      PROVE  Held(e)'
  BY <1>1, <1>2, <1>5 DEF Held, TypeOK, Copies
<1>6. ASSUME NEW e \in Events, NEW g \in Handlers, Answers(g, e)
      PROVE  Held(e)'
  BY <1>1, <1>3, <1>6 DEF Held, Answers
<1>7. QED
  BY <1>1, <1>4, <1>5, <1>6, RetainedStep

\* Whatever a worker leaves unacknowledged is back in the queue.
LEMMA LossRetained ==
    ASSUME TypeOK, TypeOK', Retained, NEW w \in Workers, ConnectionLost(w) \/ Crash(w)
    PROVE  Retained'
<1>1. /\ Requeue(w) /\ UNCHANGED <<parked, dlq, processed, sent>>
      /\ \A h \in Handlers \ Residents(w) : job'[h] = job[h]
  BY DEF ConnectionLost, Crash, Residents, dbVars, ghostVars
<1>2. /\ \A e \in Events, r \in Levels : ready'[e][r] >= ready[e][r]
      /\ \A h \in Residents(w) : job[h].live /\ job[h].event \in Events =>
             ready'[job[h].event][job[h].level] > 0 /\ job[h].level \in Levels
  <2>1. \A h \in Residents(w) : job[h].level \in Levels
    BY DEF Residents, TypeOK, Jobs
  <2>2. QED
    BY <1>1, <2>1, RequeueType
<1>3. \A e \in Events : dlq'[e] >= dlq[e]
  BY <1>1 DEF TypeOK
<1>4. \A e \in Events, r \in Levels : ready'[e][r] + parked'[e][r] >= ready[e][r] + parked[e][r]
                                      /\ ready[e][r] + parked[e][r] \in Nat
                                      /\ ready'[e][r] + parked'[e][r] >= ready'[e][r]
                                      /\ ready'[e][r] \in Nat /\ parked'[e][r] \in Nat
  BY <1>1, <1>2 DEF TypeOK, Copies
<1>5. ASSUME NEW e \in Events, NEW r \in Levels, ready[e][r] + parked[e][r] > 0
      PROVE  Held(e)'
  BY <1>4, <1>5 DEF Held
<1>6. ASSUME NEW e \in Events, NEW g \in Handlers, Answers(g, e)
      PROVE  Held(e)'
  <2>1. CASE g \in Residents(w)
    BY <1>2, <1>4, <1>6, <2>1 DEF Held, Answers
  <2>2. CASE g \notin Residents(w)
    BY <1>1, <1>6, <2>2 DEF Held, Answers
  <2>3. QED
    BY <2>1, <2>2
<1>7. QED
  BY <1>1, <1>3, <1>5, <1>6, RetainedStep

LEMMA NextRetained ==
    ASSUME TypeOK, TypeOK', Retained, [Next]_vars PROVE Retained'
<1>1. ASSUME NEW h \in Handlers, Handle(h) \/ DatabaseFails(h) \/ RetryFails(h)
      PROVE  Retained'
  BY <1>1, ReceiveRetained, MovesRetained, TransactionRetained, AckRetained,
     RejectRetained, RetryRetained
  DEF Handle
<1>2. ASSUME NEW w \in Workers, ConnectionLost(w) \/ Crash(w) PROVE Retained'
  BY <1>2, LossRetained
<1>3. ASSUME NEW e \in Events, Publish(e) \/ \E r \in Levels : Expire(e, r)
      PROVE  Retained'
  BY <1>3, PublishRetained, ExpireRetained
<1>4. ASSUME UNCHANGED <<queueVars, processed, job, sent>> PROVE Retained'
  BY <1>4 DEF Retained, Held, queueVars
<1>5. ASSUME NEW t \in Tasks, DeleteTask(t) PROVE Retained'
  BY <1>4, <1>5 DEF DeleteTask, ghostVars
<1>6. CASE UNCHANGED vars
  BY <1>4, <1>6 DEF vars, dbVars, ghostVars
<1>7. QED
  BY <1>1, <1>2, <1>3, <1>5, <1>6 DEF Next, ConsumerStep

-----------------------------------------------------------------------------
(***************************************************************************)
(* Copies are conserved while nothing disconnects: every step moves a copy *)
(* from one place to another, or lets one of a processed event go.         *)
(***************************************************************************)

\* Handlers that have a message can still answer it.
AllLive == \A h \in Handlers : job[h].at # "idle" => job[h].live

QueuesFinite ==
    \A e \in Events : IsFiniteSet(InQueue(ready, e)) /\ IsFiniteSet(InQueue(parked, e))

Conserved == AllLive /\ QueuesFinite /\ RetriesConserveCopies

\* A handler whose message is still to be dealt with, and is of e.
Counted(j, e) == j.live /\ j.event = e /\ j.at # "acking"

One(P) == IF P THEN 1 ELSE 0

\* The copies of e on rung r become n, and no others change.
Becomes(p, q, e, r, n) ==
    /\ p[e][r] = n
    /\ \A s \in Levels \ {r} : p[e][s] = q[e][s]
    /\ \A f \in Events \ {e} : p[f] = q[f]

LEMMA QueueGains ==
    ASSUME NEW q \in Copies, NEW e \in Events, NEW r \in Levels, NEW d \in Events,
           IsFiniteSet(InQueue(q, d)),
           NEW p, Becomes(p, q, e, r, q[e][r] + 1)
    PROVE  /\ IsFiniteSet(InQueue(p, d)) /\ Cardinality(InQueue(q, d)) \in Nat
           /\ Cardinality(InQueue(p, d)) = Cardinality(InQueue(q, d)) + One(d = e)
<1>1. CASE d # e
  <2>1. p[d] = q[d]
    BY <1>1 DEF Becomes
  <2>2. InQueue(p, d) = InQueue(q, d)
    BY <2>1 DEF InQueue
  <2>3. QED
    BY <1>1, <2>2, FS_CardinalityType DEF One
<1>2. CASE d = e
  <2> DEFINE x == <<r, q[e][r] + 1>>
  <2>1. q[e][r] \in Nat /\ \A s \in Levels : q[e][s] \in Nat
    BY DEF Copies
  <2>2. p[e][r] = q[e][r] + 1 /\ \A s \in Levels \ {r} : p[e][s] = q[e][s]
    BY DEF Becomes
  <2>3. 1 .. p[e][r] = (1 .. q[e][r]) \cup {q[e][r] + 1}
    BY <2>1, <2>2
  <2>4. InQueue(p, e) = InQueue(q, e) \cup {x}
    BY <2>2, <2>3 DEF InQueue
  <2>5. x \notin InQueue(q, e)
    BY <2>1 DEF InQueue
  <2>6. IsFiniteSet(InQueue(q, e)) /\ Cardinality(InQueue(q, e)) \in Nat
    BY <1>2, FS_CardinalityType
  <2>7. /\ IsFiniteSet(InQueue(q, e) \cup {x})
        /\ Cardinality(InQueue(q, e) \cup {x}) = Cardinality(InQueue(q, e)) + 1
    BY <2>5, <2>6, FS_AddElement
  <2>8. QED
    BY <1>2, <2>4, <2>6, <2>7 DEF One
<1>3. QED
  BY <1>1, <1>2

LEMMA QueueLoses ==
    ASSUME NEW q \in Copies, NEW e \in Events, NEW r \in Levels, NEW d \in Events,
           IsFiniteSet(InQueue(q, d)), q[e][r] > 0,
           NEW p, Becomes(p, q, e, r, q[e][r] - 1)
    PROVE  /\ IsFiniteSet(InQueue(p, d)) /\ Cardinality(InQueue(q, d)) \in Nat
           /\ Cardinality(InQueue(p, d)) = Cardinality(InQueue(q, d)) - One(d = e)
<1>1. CASE d # e
  <2>1. p[d] = q[d]
    BY <1>1 DEF Becomes
  <2>2. InQueue(p, d) = InQueue(q, d)
    BY <2>1 DEF InQueue
  <2>3. QED
    BY <1>1, <2>2, FS_CardinalityType DEF One
<1>2. CASE d = e
  <2> DEFINE x == <<r, q[e][r]>>
  <2>1. q[e][r] \in Nat /\ \A s \in Levels : q[e][s] \in Nat
    BY DEF Copies
  <2>2. p[e][r] = q[e][r] - 1 /\ \A s \in Levels \ {r} : p[e][s] = q[e][s]
    BY DEF Becomes
  <2>3. 1 .. p[e][r] = (1 .. q[e][r]) \ {q[e][r]} /\ q[e][r] \in 1 .. q[e][r]
    BY <2>1, <2>2
  <2>4. InQueue(p, e) = InQueue(q, e) \ {x}
    BY <2>2, <2>3 DEF InQueue
  <2>5. x \in InQueue(q, e)
    BY <2>3 DEF InQueue
  <2>6. IsFiniteSet(InQueue(q, e)) /\ Cardinality(InQueue(q, e)) \in Nat
    BY <1>2, FS_CardinalityType
  <2>7. /\ IsFiniteSet(InQueue(q, e) \ {x})
        /\ Cardinality(InQueue(q, e) \ {x}) = Cardinality(InQueue(q, e)) - 1
    BY <2>5, <2>6, FS_RemoveElement
  <2>8. QED
    BY <1>2, <2>4, <2>6, <2>7 DEF One
<1>3. QED
  BY <1>1, <1>2

\* One handler goes from job[h] to j.
LEMMA HandlingChange ==
    ASSUME TypeOK, NEW h \in Handlers, NEW j, job' = [job EXCEPT ![h] = j], NEW e \in Events
    PROVE  /\ Cardinality(Handling(e)) \in Nat
           /\ Cardinality(Handling(e))' =
                  Cardinality(Handling(e)) + One(Counted(j, e)) - One(Counted(job[h], e))
<1>1. /\ Handling(e) = {g \in Handlers : Counted(job[g], e)}
      /\ Handling(e)' = {g \in Handlers : Counted(job'[g], e)}
  BY DEF Handling, Counted
<1>2. IsFiniteSet(Handling(e))
  BY <1>1, ConstantsAssumption, FS_Subset
<1>3. job'[h] = j /\ \A g \in Handlers \ {h} : job'[g] = job[g]
  BY DEF TypeOK
<1>4. Handling(e)' = IF Counted(j, e) THEN Handling(e) \cup {h} ELSE Handling(e) \ {h}
  BY <1>1, <1>3
<1>5. h \in Handling(e) <=> Counted(job[h], e)
  BY <1>1
<1>6. /\ Cardinality(Handling(e)) \in Nat
      /\ Cardinality(Handling(e) \cup {h}) =
             IF h \in Handling(e) THEN Cardinality(Handling(e)) ELSE Cardinality(Handling(e)) + 1
      /\ Cardinality(Handling(e) \ {h}) =
             IF h \in Handling(e) THEN Cardinality(Handling(e)) - 1 ELSE Cardinality(Handling(e))
  BY <1>2, FS_CardinalityType, FS_AddElement, FS_RemoveElement
<1>7. QED
  BY <1>4, <1>5, <1>6 DEF One

\* What every step has to show.
LEMMA Balance ==
    ASSUME Conserved, AllLive', QueuesFinite', processed \subseteq processed',
           TypeOK, TypeOK',
           \A e \in Events :
               /\ Outstanding(e) \in Int /\ Outstanding(e)' \in Int
               /\ Outstanding(e)' - Outstanding(e) <= sent'[e] - sent[e]
               /\ e \notin processed' => Outstanding(e)' - Outstanding(e) = sent'[e] - sent[e]
    PROVE  Conserved'
<1>1. \A e \in Events : sent[e] \in Int /\ sent'[e] \in Int
  BY DEF TypeOK
<1> DEFINE before(e) == Outstanding(e)
           after(e) == Outstanding(e)'
<1>2. \A e \in Events : before(e) <= sent[e] /\ (e \notin processed => before(e) = sent[e])
  BY DEF Conserved, RetriesConserveCopies
<1>3. \A e \in Events :
          /\ before(e) \in Int /\ after(e) \in Int
          /\ after(e) - before(e) <= sent'[e] - sent[e]
          /\ e \notin processed' => after(e) - before(e) = sent'[e] - sent[e]
  OBVIOUS
<1> HIDE DEF before, after
<1>4. \A e \in Events : after(e) <= sent'[e] /\ (e \notin processed' => after(e) = sent'[e])
  BY <1>1, <1>2, <1>3
<1>5. RetriesConserveCopies'
  BY <1>4 DEF after, RetriesConserveCopies
<1>6. QED
  BY <1>5 DEF Conserved

\* The counts of one state are numbers.
LEMMA OutstandingType ==
    ASSUME TypeOK, QueuesFinite, NEW e \in Events
    PROVE  /\ Cardinality(InQueue(ready, e)) \in Nat /\ Cardinality(InQueue(parked, e)) \in Nat
           /\ Cardinality(Handling(e)) \in Nat /\ dlq[e] \in Nat /\ Outstanding(e) \in Int
<1>1. Cardinality(InQueue(ready, e)) \in Nat /\ Cardinality(InQueue(parked, e)) \in Nat
  BY FS_CardinalityType DEF QueuesFinite
<1>2. Handling(e) \in SUBSET Handlers
  BY DEF Handling
<1>3. Cardinality(Handling(e)) \in Nat
  BY <1>2, ConstantsAssumption, FS_Subset, FS_CardinalityType
<1>4. dlq[e] \in Nat
  BY DEF TypeOK
<1>5. QED
  BY <1>1, <1>3, <1>4 DEF Outstanding

LEMMA OthersLive ==
    ASSUME TypeOK, AllLive, NEW h \in Handlers, NEW j, j.at # "idle" => j.live,
           job' = [job EXCEPT ![h] = j]
    PROVE  AllLive'
BY DEF AllLive, TypeOK

\* Steps of a handler that keep the queues: it still has its message, or the event of
\* that is processed.
LEMMA HandlerConserves ==
    ASSUME Conserved, TypeOK, TypeOK', NEW h \in Handlers, NEW j,
           UNCHANGED <<ready, parked, dlq, sent>>, processed \subseteq processed',
           job' = [job EXCEPT ![h] = j], j.at # "idle" => j.live,
           \A e \in Events : \/ Counted(j, e) <=> Counted(job[h], e)
                             \/ ~Counted(j, e) /\ e \in processed'
    PROVE  Conserved'
<1>1. AllLive'
  BY OthersLive DEF Conserved
<1>2. QueuesFinite'
  BY DEF Conserved, QueuesFinite
<1>3. ASSUME NEW e \in Events
      PROVE  /\ Outstanding(e) \in Int /\ Outstanding(e)' \in Int
             /\ Outstanding(e)' - Outstanding(e) <= sent'[e] - sent[e]
             /\ e \notin processed' => Outstanding(e)' - Outstanding(e) = sent'[e] - sent[e]
  <2>1. /\ Cardinality(InQueue(ready, e)) \in Nat /\ Cardinality(InQueue(parked, e)) \in Nat
        /\ Cardinality(Handling(e)) \in Nat /\ dlq[e] \in Nat /\ Outstanding(e) \in Int
    BY OutstandingType DEF Conserved
  <2>2. Cardinality(Handling(e))' =
            Cardinality(Handling(e)) + One(Counted(j, e)) - One(Counted(job[h], e))
    BY HandlingChange
  <2>3. Outstanding(e)' = Cardinality(InQueue(ready, e)) + Cardinality(InQueue(parked, e))
                          + dlq[e] + Cardinality(Handling(e))'
    BY DEF Outstanding
  <2>4. sent[e] \in Int /\ sent'[e] = sent[e]
    BY DEF TypeOK
  <2>5. /\ One(Counted(j, e)) \in {0, 1} /\ One(Counted(job[h], e)) \in {0, 1}
        /\ One(Counted(j, e)) <= One(Counted(job[h], e))
        /\ e \notin processed' => One(Counted(j, e)) = One(Counted(job[h], e))
    BY DEF One
  <2> DEFINE H == Cardinality(Handling(e))
             K == Cardinality(Handling(e))'
  <2>6. K = H + One(Counted(j, e)) - One(Counted(job[h], e))
    BY <2>2
  <2>7. K \in Int /\ K <= H /\ (e \notin processed' => K = H)
    <3> HIDE DEF K
    <3>1. H \in Nat
      BY <2>1
    <3> HIDE DEF H
    <3> QED BY <2>5, <2>6, <3>1
  <2>8. Outstanding(e) = Cardinality(InQueue(ready, e)) + Cardinality(InQueue(parked, e))
                         + dlq[e] + H
    BY DEF Outstanding
  <2>9. QED
    <3>1. H \in Nat
      BY <2>1
    <3> HIDE DEF H, K
    <3> QED BY <2>1, <2>3, <2>4, <2>7, <2>8, <3>1 DEF K
<1>4. QED
  BY <1>1, <1>2, <1>3, Balance

\* Steps that leave queues, handlers and what was sent alone.
LEMMA QuietConserves ==
    ASSUME Conserved, UNCHANGED <<ready, parked, dlq, processed, job, sent>>
    PROVE  Conserved'
BY DEF Conserved, AllLive, QueuesFinite, RetriesConserveCopies, Outstanding, Handling

LEMMA PublishConserves ==
    ASSUME Conserved, TypeOK, TypeOK', NEW m \in Events, Publish(m) PROVE Conserved'
<1>1. AllLive' /\ UNCHANGED <<parked, dlq, processed, job>>
  BY DEF Publish, Conserved, AllLive, dbVars
<1>2. 0 \in Levels /\ ready \in Copies /\ Becomes(ready', ready, m, 0, ready[m][0] + 1)
  <2>1. 0 \in Levels /\ ready \in Copies
    BY ConstantsAssumption DEF TypeOK, Levels
  <2>2. ready' = [ready EXCEPT ![m][0] = ready[m][0] + 1]
    BY DEF Publish
  <2>3. QED
    BY <2>1, <2>2 DEF Copies, Becomes
<1>3. ASSUME NEW e \in Events
      PROVE  /\ IsFiniteSet(InQueue(ready', e))
             /\ Cardinality(InQueue(ready', e)) = Cardinality(InQueue(ready, e)) + One(e = m)
  <2>1. IsFiniteSet(InQueue(ready, e))
    BY DEF Conserved, QueuesFinite
  <2>2. QED
    BY <1>2, <2>1, QueueGains
<1>4. QueuesFinite'
  BY <1>1, <1>3 DEF Conserved, QueuesFinite
<1>5. ASSUME NEW e \in Events
      PROVE  /\ Outstanding(e) \in Int /\ Outstanding(e)' \in Int
             /\ Outstanding(e)' - Outstanding(e) = sent'[e] - sent[e]
  <2>1. Handling(e)' = Handling(e) /\ dlq'[e] = dlq[e] /\ parked' = parked
    BY <1>1 DEF Handling
  <2>2. Outstanding(e)' = Cardinality(InQueue(ready', e)) + Cardinality(InQueue(parked, e))
                          + dlq[e] + Cardinality(Handling(e))
    BY <2>1 DEF Outstanding
  <2>3. sent[e] \in Int /\ sent'[e] = sent[e] + One(e = m)
    BY DEF Publish, TypeOK, One
  <2>4. One(e = m) \in Int
    BY DEF One
  <2>5. QED
    BY <1>3, <2>2, <2>3, <2>4, OutstandingType DEF Conserved, Outstanding
<1>6. \A e \in Events : sent'[e] - sent[e] \in Int
  BY DEF TypeOK
<1>7. QED
  BY <1>1, <1>4, <1>5, <1>6, Balance

\* A copy goes from one queue to the other.
LEMMA ExpireConserves ==
    ASSUME Conserved, TypeOK, TypeOK', NEW m \in Events, NEW r \in Levels, Expire(m, r)
    PROVE  Conserved'
<1>1. AllLive' /\ UNCHANGED <<dlq, processed, job, sent>>
  BY DEF Expire, Conserved, AllLive, dbVars, ghostVars
<1>2. /\ ready \in Copies /\ Becomes(ready', ready, m, r, ready[m][r] + 1)
      /\ parked \in Copies /\ Becomes(parked', parked, m, r, parked[m][r] - 1)
      /\ parked[m][r] > 0
  BY DEF Expire, TypeOK, Copies, Becomes
<1>3. ASSUME NEW e \in Events
      PROVE  /\ IsFiniteSet(InQueue(ready', e))
             /\ Cardinality(InQueue(ready', e)) = Cardinality(InQueue(ready, e)) + One(e = m)
  <2>1. IsFiniteSet(InQueue(ready, e))
    BY DEF Conserved, QueuesFinite
  <2>2. QED
    BY <1>2, <2>1, QueueGains
<1>4. ASSUME NEW e \in Events
      PROVE  /\ IsFiniteSet(InQueue(parked', e))
             /\ Cardinality(InQueue(parked', e)) = Cardinality(InQueue(parked, e)) - One(e = m)
  <2>1. IsFiniteSet(InQueue(parked, e))
    BY DEF Conserved, QueuesFinite
  <2>2. QED
    BY <1>2, <2>1, QueueLoses
<1>5. QueuesFinite'
  BY <1>3, <1>4 DEF QueuesFinite
<1>6. ASSUME NEW e \in Events
      PROVE  /\ Outstanding(e) \in Int /\ Outstanding(e)' = Outstanding(e)
             /\ sent[e] \in Int /\ sent'[e] = sent[e]
  <2>1. Handling(e)' = Handling(e) /\ dlq'[e] = dlq[e] /\ sent' = sent
    BY <1>1 DEF Handling
  <2>2. Outstanding(e)' = Cardinality(InQueue(ready', e)) + Cardinality(InQueue(parked', e))
                          + dlq[e] + Cardinality(Handling(e))
    BY <2>1 DEF Outstanding
  <2>3. One(e = m) \in Int
    BY DEF One
  <2>4. sent[e] \in Int
    BY DEF TypeOK
  <2>5. QED
    BY <1>3, <1>4, <2>1, <2>2, <2>3, <2>4, OutstandingType DEF Conserved, Outstanding
<1>7. QED
  BY <1>1, <1>5, <1>6, Balance

LEMMA ReceiveConserves ==
    ASSUME Conserved, TypeOK, TypeOK', NEW h \in Handlers, NEW m \in Events, NEW r \in Levels,
           Receive(h, m, r)
    PROVE  Conserved'
<1> DEFINE j == [Idle EXCEPT !.at = IF m \in Malformed THEN "rejecting" ELSE "begin",
                             !.event = m, !.level = r, !.live = TRUE]
<1>1. /\ UNCHANGED <<parked, dlq, processed, sent>> /\ job' = [job EXCEPT ![h] = j]
      /\ j.live /\ j.event = m /\ j.at # "acking"
  BY DEF Receive, Idle, dbVars, ghostVars
<1>2. AllLive'
  BY <1>1, OthersLive DEF Conserved
<1>3. ready \in Copies /\ Becomes(ready', ready, m, r, ready[m][r] - 1) /\ ready[m][r] > 0
  BY DEF Receive, TypeOK, Copies, Becomes
<1>4. ASSUME NEW e \in Events
      PROVE  /\ IsFiniteSet(InQueue(ready', e))
             /\ Cardinality(InQueue(ready', e)) = Cardinality(InQueue(ready, e)) - One(e = m)
  <2>1. IsFiniteSet(InQueue(ready, e))
    BY DEF Conserved, QueuesFinite
  <2>2. QED
    BY <1>3, <2>1, QueueLoses
<1>5. QueuesFinite'
  BY <1>1, <1>4 DEF Conserved, QueuesFinite
<1>6. \A e \in Events : (Counted(j, e) <=> e = m) /\ ~Counted(job[h], e)
  <2>1. ~job[h].live
    BY IdleIsJob DEF Receive, TypeOK
  <2>2. QED
    BY <1>1, <2>1 DEF Counted
<1> HIDE DEF j
<1>7. ASSUME NEW e \in Events
      PROVE  /\ Outstanding(e) \in Int /\ Outstanding(e)' = Outstanding(e)
             /\ sent[e] \in Int /\ sent'[e] = sent[e]
  <2>1. Cardinality(Handling(e))' =
            Cardinality(Handling(e)) + One(Counted(j, e)) - One(Counted(job[h], e))
    BY <1>1, HandlingChange
  <2>2. One(Counted(j, e)) = One(e = m) /\ One(Counted(job[h], e)) = 0 /\ One(e = m) \in Int
    BY <1>6 DEF One
  <2>3. Outstanding(e)' = Cardinality(InQueue(ready', e)) + Cardinality(InQueue(parked, e))
                          + dlq[e] + Cardinality(Handling(e))'
    BY <1>1 DEF Outstanding
  <2>4. sent[e] \in Int
    BY DEF TypeOK
  <2>5. /\ Cardinality(InQueue(ready, e)) \in Nat /\ Cardinality(InQueue(parked, e)) \in Nat
        /\ Cardinality(Handling(e)) \in Nat /\ dlq[e] \in Nat /\ Outstanding(e) \in Int
    BY OutstandingType DEF Conserved
  <2>6. Cardinality(Handling(e))' = Cardinality(Handling(e)) + One(e = m)
    BY <2>1, <2>2, <2>5
  <2>7. QED
    BY <1>1, <1>4, <2>2, <2>3, <2>4, <2>5, <2>6 DEF Outstanding
<1>8. QED
  BY <1>1, <1>2, <1>5, <1>7, Balance

\* The message moves to the dead-letter queue.
LEMMA RejectConserves ==
    ASSUME Conserved, TypeOK, TypeOK', NEW h \in Handlers, Reject(h) PROVE Conserved'
<1> DEFINE m == job[h].event
<1>1. /\ UNCHANGED <<ready, parked, processed, sent>> /\ job' = [job EXCEPT ![h] = Idle]
      /\ job[h].at = "rejecting" /\ m \in Events
  BY DEF Reject, Return, TypeOK, dbVars, ghostVars
<1>2. job[h].live
  BY <1>1 DEF Conserved, AllLive
<1>3. AllLive'
  BY <1>1, IdleIsJob, OthersLive DEF Conserved
<1>4. QueuesFinite'
  BY <1>1 DEF Conserved, QueuesFinite
<1>5. ASSUME NEW e \in Events
      PROVE  /\ Outstanding(e) \in Int /\ Outstanding(e)' = Outstanding(e)
             /\ sent[e] \in Int /\ sent'[e] = sent[e]
  <2>1. Cardinality(Handling(e))' =
            Cardinality(Handling(e)) + One(Counted(Idle, e)) - One(Counted(job[h], e))
    BY <1>1, HandlingChange
  <2>2. One(Counted(Idle, e)) = 0 /\ One(Counted(job[h], e)) = One(e = m) /\ One(e = m) \in Int
    BY <1>1, <1>2, IdleIsJob DEF One, Counted
  <2>3. dlq'[e] = dlq[e] + One(e = m)
    BY <1>1, <1>2 DEF Reject, TypeOK, One
  <2>4. Outstanding(e)' = Cardinality(InQueue(ready, e)) + Cardinality(InQueue(parked, e))
                          + dlq'[e] + Cardinality(Handling(e))'
    BY <1>1 DEF Outstanding
  <2>5. sent[e] \in Int
    BY DEF TypeOK
  <2>6. /\ Cardinality(InQueue(ready, e)) \in Nat /\ Cardinality(InQueue(parked, e)) \in Nat
        /\ Cardinality(Handling(e)) \in Nat /\ dlq[e] \in Nat /\ Outstanding(e) \in Int
    BY OutstandingType DEF Conserved
  <2>7. Cardinality(Handling(e))' = Cardinality(Handling(e)) - One(e = m)
    BY <2>1, <2>2, <2>6
  <2>8. QED
    BY <1>1, <2>2, <2>3, <2>4, <2>5, <2>6, <2>7 DEF Outstanding
<1>6. QED
  BY <1>1, <1>3, <1>4, <1>5, Balance

\* The copy on the next rung takes the place of the message, which is let go.
LEMMA ScheduleRetryConserves ==
    ASSUME Conserved, TypeOK, TypeOK', NEW h \in Handlers, ScheduleRetry(h) PROVE Conserved'
<1> DEFINE m == job[h].event
           r == job[h].level + 1
           j == [job[h] EXCEPT !.at = "acking"]
<1>1. /\ UNCHANGED <<ready, dlq, processed, sent>> /\ job' = [job EXCEPT ![h] = j]
      /\ job[h].at = "retrying" /\ m \in Events
  BY DEF ScheduleRetry, Goto, TypeOK, dbVars, ghostVars
<1>2. job[h].live
  BY <1>1 DEF Conserved, AllLive
<1>3. j.at = "acking" /\ j.live
  BY <1>1, <1>2 DEF TypeOK, Jobs
<1>4. AllLive'
  BY <1>1, <1>3, OthersLive DEF Conserved
<1>5. r \in Levels /\ parked \in Copies /\ Becomes(parked', parked, m, r, parked[m][r] + 1)
  <2>1. r \in Levels
    BY <1>1, ConstantsAssumption DEF TypeOK, Jobs, Levels, ScheduleRetry, Park
  <2>2. QED
    BY <1>1, <2>1 DEF ScheduleRetry, Park, TypeOK, Copies, Becomes
<1> HIDE DEF j, r
<1>6. ASSUME NEW e \in Events
      PROVE  /\ IsFiniteSet(InQueue(parked', e))
             /\ Cardinality(InQueue(parked', e)) = Cardinality(InQueue(parked, e)) + One(e = m)
  <2>1. IsFiniteSet(InQueue(parked, e))
    BY DEF Conserved, QueuesFinite
  <2>2. QED
    BY <1>1, <1>5, <2>1, QueueGains
<1>7. QueuesFinite'
  BY <1>1, <1>6 DEF Conserved, QueuesFinite
<1>8. ASSUME NEW e \in Events
      PROVE  /\ Outstanding(e) \in Int /\ Outstanding(e)' = Outstanding(e)
             /\ sent[e] \in Int /\ sent'[e] = sent[e]
  <2>1. Cardinality(Handling(e))' =
            Cardinality(Handling(e)) + One(Counted(j, e)) - One(Counted(job[h], e))
    BY <1>1, HandlingChange
  <2>2. One(Counted(j, e)) = 0 /\ One(Counted(job[h], e)) = One(e = m) /\ One(e = m) \in Int
    BY <1>1, <1>2, <1>3 DEF One, Counted
  <2>3. Outstanding(e)' = Cardinality(InQueue(ready, e)) + Cardinality(InQueue(parked', e))
                          + dlq[e] + Cardinality(Handling(e))'
    BY <1>1 DEF Outstanding
  <2>4. sent[e] \in Int
    BY DEF TypeOK
  <2>5. /\ Cardinality(InQueue(ready, e)) \in Nat /\ Cardinality(InQueue(parked, e)) \in Nat
        /\ Cardinality(Handling(e)) \in Nat /\ dlq[e] \in Nat /\ Outstanding(e) \in Int
    BY OutstandingType DEF Conserved
  <2>6. Cardinality(Handling(e))' = Cardinality(Handling(e)) - One(e = m)
    BY <2>1, <2>2, <2>5
  <2>7. QED
    BY <1>1, <1>6, <2>2, <2>3, <2>4, <2>5, <2>6 DEF Outstanding
<1>9. QED
  BY <1>1, <1>4, <1>7, <1>8, Balance

\* The handler moves without a copy of its own: only the event of a message that is
\* acknowledged without one is processed.
LEMMA MovesConserve ==
    ASSUME Conserved, TypeOK, TypeOK', NEW h \in Handlers,
           TryMarkProcessed(h) \/ Commit(h) \/ RetriesExhausted(h)
    PROVE  Conserved'
<1>1. PICK to \in {"resolving", "acking", "rejecting"} :
          /\ job' = [job EXCEPT ![h].at = to]
          /\ to = "acking" => job[h].event \in processed'
  BY DEF TryMarkProcessed, Commit, RetriesExhausted, Goto, dbVars
<1>2. /\ UNCHANGED <<ready, parked, dlq, sent>> /\ processed \subseteq processed'
      /\ job[h].at \notin {"idle", "acking"}
  BY DEF TryMarkProcessed, Commit, RetriesExhausted, Goto, queueVars, dbVars, ghostVars
<1> DEFINE j == [job[h] EXCEPT !.at = to]
<1>3. job' = [job EXCEPT ![h] = j] /\ j.at = to /\ j.live = job[h].live /\ j.event = job[h].event
  BY <1>1 DEF TypeOK, Jobs
<1>4. job[h].live
  BY <1>2 DEF Conserved, AllLive
<1> HIDE DEF j
<1>5. \A e \in Events : \/ Counted(j, e) <=> Counted(job[h], e)
                        \/ ~Counted(j, e) /\ e \in processed'
  BY <1>1, <1>2, <1>3 DEF Counted
<1>6. QED
  BY <1>2, <1>3, <1>4, <1>5, HandlerConserves

LEMMA AckConserves ==
    ASSUME Conserved, TypeOK, TypeOK', NEW h \in Handlers, Ack(h) PROVE Conserved'
<1>1. /\ UNCHANGED <<ready, parked, dlq, processed, sent>> /\ job[h].at = "acking"
      /\ job' = [job EXCEPT ![h] = Idle]
  BY DEF Ack, Return, queueVars, dbVars, ghostVars
<1>2. \A e \in Events : ~Counted(Idle, e) /\ ~Counted(job[h], e)
  BY <1>1, IdleIsJob DEF Counted
<1>3. QED
  BY <1>1, <1>2, IdleIsJob, HandlerConserves

\* The handler keeps its message.
KeepsMessage(h) ==
    /\ job' = [job EXCEPT ![h] = job'[h]]
    /\ job'[h].event = job[h].event /\ job'[h].live = job[h].live
    /\ job'[h].at \notin {"idle", "acking"}

LEMMA ResolveKeeps == ASSUME TypeOK, NEW h \in Handlers, ResolveSubscribers(h) PROVE KeepsMessage(h)
<1> DEFINE todo == IF Subject[job[h].event] \in tasks THEN Subscribers[job[h].event] ELSE {}
<1>1. job' = [job EXCEPT ![h] = [job[h] EXCEPT !.at = "posting", !.todo = todo,
                                              !.rows = job[h].rows]]
  BY DEF ResolveSubscribers, TypeOK, Jobs
<1> HIDE DEF todo
<1>2. QED
  BY <1>1 DEF KeepsMessage, TypeOK, Jobs

LEMMA PostKeeps ==
    ASSUME TypeOK, NEW h \in Handlers, NEW k \in Hooks, Post(h, k) PROVE KeepsMessage(h)
<1>1. job[h].at = "posting"
  BY DEF Post
<1>2. job' = [job EXCEPT ![h] = [job[h] EXCEPT !.at = "posting", !.todo = job[h].todo \ {k},
                                              !.rows = job[h].rows \cup {k}]]
  BY <1>1 DEF Post, TypeOK, Jobs
<1>3. QED
  BY <1>2 DEF KeepsMessage, TypeOK, Jobs

LEMMA SkipKeeps ==
    ASSUME TypeOK, NEW h \in Handlers, NEW k \in Hooks, Skip(h, k) PROVE KeepsMessage(h)
<1>1. job[h].at = "posting"
  BY DEF Skip
<1>2. job' = [job EXCEPT ![h] = [job[h] EXCEPT !.at = "posting", !.todo = job[h].todo \ {k},
                                              !.rows = job[h].rows]]
  BY <1>1 DEF Skip, TypeOK, Jobs
<1>3. QED
  BY <1>2 DEF KeepsMessage, TypeOK, Jobs

LEMMA AbortKeeps ==
    ASSUME TypeOK, NEW h \in Handlers, NEW to \in {"retrying", "rejecting"}, Abort(h, to)
    PROVE  KeepsMessage(h)
<1>1. job' = [job EXCEPT ![h] = [job[h] EXCEPT !.at = to, !.todo = {}, !.rows = {}]]
  BY DEF Abort, TypeOK, Jobs
<1>2. QED
  BY <1>1 DEF KeepsMessage, TypeOK, Jobs

\* Inside the transaction, and when it rolls back, the message stays with the handler.
LEMMA TransactionConserves ==
    ASSUME Conserved, TypeOK, TypeOK', NEW h \in Handlers,
           \/ ResolveSubscribers(h) \/ DatabaseFails(h)
           \/ \E k \in Hooks : Post(h, k) \/ Skip(h, k) \/ DecryptFails(h, k)
    PROVE  Conserved'
<1>1. /\ UNCHANGED <<ready, parked, dlq, processed, sent>>
      /\ job[h].at \notin {"idle", "acking"}
  BY DEF ResolveSubscribers, DatabaseFails, Post, Skip, DecryptFails, Abort,
         queueVars, dbVars, ghostVars
<1>2. KeepsMessage(h)
  <2>1. CASE DatabaseFails(h) \/ \E k \in Hooks : DecryptFails(h, k)
    <3>1. PICK to \in {"retrying", "rejecting"} : Abort(h, to)
      BY <2>1 DEF DatabaseFails, DecryptFails
    <3>2. QED
      BY <3>1, AbortKeeps
  <2>2. QED
    BY <2>1, ResolveKeeps, PostKeeps, SkipKeeps
<1>3. job[h].live
  BY <1>1 DEF Conserved, AllLive
<1>4. \A e \in Events : Counted(job'[h], e) <=> Counted(job[h], e)
  BY <1>1, <1>2 DEF Counted, KeepsMessage
<1>5. QED
  BY <1>1, <1>2, <1>3, <1>4, HandlerConserves DEF KeepsMessage

LEMMA StepConserves ==
    ASSUME Conserved, TypeOK, TypeOK', [Next]_vars, ~Disconnection \/ UNCHANGED vars
    PROVE  Conserved'
<1>1. ASSUME NEW h \in Handlers, Handle(h) \/ DatabaseFails(h)
      PROVE  Conserved'
  BY <1>1, ReceiveConserves, MovesConserve, TransactionConserves, AckConserves,
     RejectConserves, ScheduleRetryConserves
  DEF Handle
<1>2. ASSUME NEW e \in Events, Publish(e) \/ \E r \in Levels : Expire(e, r)
      PROVE  Conserved'
  BY <1>2, PublishConserves, ExpireConserves
<1>3. ASSUME NEW t \in Tasks, DeleteTask(t) PROVE Conserved'
  BY <1>3, QuietConserves DEF DeleteTask, queueVars, ghostVars
<1>4. CASE UNCHANGED vars
  BY <1>4, QuietConserves DEF vars, queueVars, dbVars, ghostVars
<1>5. QED
  BY <1>1, <1>2, <1>3, <1>4 DEF Next, ConsumerStep, Disconnection

LEMMA InitConserved == Init => Conserved
<1> SUFFICES ASSUME Init PROVE Conserved
  OBVIOUS
<1>1. AllLive
  BY DEF Init, AllLive, Idle
<1>2. ASSUME NEW e \in Events
      PROVE  InQueue(ready, e) = {} /\ InQueue(parked, e) = {} /\ Handling(e) = {}
  <2>1. \A r \in Levels : ready[e][r] = 0 /\ parked[e][r] = 0
    BY DEF Init
  <2>2. 1 .. 0 = {}
    OBVIOUS
  <2>3. InQueue(ready, e) = {} /\ InQueue(parked, e) = {}
    BY <2>1, <2>2 DEF InQueue
  <2>4. Handling(e) = {}
    BY IdleIsJob DEF Init, Handling
  <2>5. QED
    BY <2>3, <2>4
<1>3. QueuesFinite
  BY <1>2, FS_EmptySet DEF QueuesFinite
<1>4. ASSUME NEW e \in Events PROVE Outstanding(e) = 0 /\ sent[e] = 0
  <2>1. dlq[e] = 0 /\ sent[e] = 0
    BY DEF Init
  <2>2. Outstanding(e) = Cardinality({}) + Cardinality({}) + 0 + Cardinality({})
    BY <1>2, <2>1 DEF Outstanding
  <2>3. QED
    BY <2>1, <2>2, FS_EmptySet
<1>5. QED
  BY <1>1, <1>3, <1>4 DEF Conserved, RetriesConserveCopies

-----------------------------------------------------------------------------
(***************************************************************************)
(* The theorems.                                                           *)
(***************************************************************************)

IInv == TypeOK /\ Deliveries /\ Retained

\* Every behaviour of the workers, with every fault, satisfies the invariant.
THEOREM IInvHolds == Spec => []IInv
<1>1. Init => IInv
  <2>1. Init => Retained
    BY DEF Init, Retained
  <2>2. QED
    BY <2>1, InitTypeOK, InitDeliveries DEF IInv
<1>2. IInv /\ [Next]_vars => IInv'
  BY NextTypeOK, NextDeliveries, NextRetained DEF IInv
<1>3. QED
  BY <1>1, <1>2, PTL DEF Spec

\* Handlers, queues, rows and counts stay within their types: no queue loses a copy it
\* does not have.
THEOREM TypesHold == Spec => []TypeOK
<1>1. IInv => TypeOK
  BY DEF IInv
<1>2. QED
  BY <1>1, IInvHolds, PTL

\* A subscription has at most one delivery row for an event, however many copies of it
\* are handled at once, retried or redelivered.
THEOREM RecordedAtMostOnce == Spec => []RecordedOnce
<1>1. IInv => RecordedOnce
  BY DEF IInv, Deliveries
<1>2. QED
  BY <1>1, IInvHolds, PTL

\* A subscription gets an event as often as transactions of it rolled back, and once
\* more.
THEOREM RepeatsAreRollbacks == Spec => []RepeatsNeedRollback
<1>1. IInv => RepeatsNeedRollback
  BY DEF IInv, Deliveries, PostsAccounted, RepeatsNeedRollback
<1>2. QED
  BY <1>1, IInvHolds, PTL

\* No fault between two steps loses a message that was neither processed nor
\* dead-lettered.
THEOREM MessagesKept == Spec => []NoMessageLost
<1>1. IInv => NoMessageLost
  BY DEF IInv, Retained, Held, NoMessageLost, InTransit
<1>2. QED
  BY <1>1, IInvHolds, PTL

\* What is processed reached the subscriptions that could be reached.
THEOREM SubscribersReached == Spec => []ProcessedReachedSubscribers
<1>1. IInv => ProcessedReachedSubscribers
  BY DEF IInv, Deliveries
<1>2. QED
  BY <1>1, IInvHolds, PTL

\* While the worker and its connection hold, a copy of an event that is not processed is
\* in a queue, with a handler or dead-lettered, once for each time it was published.
THEOREM RetriesConserveMessages == CSpec => []RetriesConserve
<1> DEFINE CInv == TypeOK /\ (connected => Conserved)
<1>1. CInit => CInv
  BY InitTypeOK, InitConserved DEF CInit
<1>2. CInv /\ [CNext]_<<vars, connected>> => CInv'
  <2> SUFFICES ASSUME CInv, [CNext]_<<vars, connected>> PROVE CInv'
    OBVIOUS
  <2>1. [Next]_vars
    BY DEF CNext
  <2>2. TypeOK'
    BY <2>1, NextTypeOK
  <2>3. ASSUME connected' PROVE connected /\ (~Disconnection \/ UNCHANGED vars)
    <3>1. CASE CNext
      BY <2>3, <3>1, Zenon DEF CNext
    <3>2. CASE UNCHANGED <<vars, connected>>
      BY <2>3, <3>2
    <3>3. QED
      BY <3>1, <3>2
  <2>4. QED
    BY <2>1, <2>2, <2>3, StepConserves
<1>3. CInv => RetriesConserve
  BY DEF RetriesConserve, Conserved
<1>4. QED
  BY <1>1, <1>2, <1>3, PTL DEF CSpec

-----------------------------------------------------------------------------
(***************************************************************************)
(* The promise to the subscribers.                                         *)
(***************************************************************************)

\* Only what was published is in a queue or with a handler; a deletion is published
\* when the task is gone.
Given ==
    /\ \A e \in Events, r \in Levels : ready[e][r] > 0 \/ parked[e][r] > 0 => sent[e] > 0
    /\ \A h \in Handlers : job[h].at # "idle" => sent[job[h].event] > 0
    /\ \A e \in Deletions : sent[e] > 0 => Subject[e] \notin tasks

\* A delivery is for all subscriptions of the event, or for none as its task is gone.
Whole ==
    \A h \in Handlers : job[h].at = "posting" =>
        /\ job[h].todo \cup job[h].rows \subseteq Subscribers[job[h].event]
        /\ \/ \A k \in Subscribers[job[h].event] :
                 k \in job[h].todo \cup job[h].rows \/ <<job[h].event, k>> \in skipped
           \/ job[h].todo = {} /\ job[h].rows = {} /\ Subject[job[h].event] \notin tasks
        /\ job[h].event \in Deletions => job[h].todo = {}

\* A handler that gets no other message, and one that is at no other point of its loop.
SameMessage(h) ==
    job'[h].at # "idle" => job[h].at # "idle" /\ job'[h].event = job[h].event

SameLoop(h) == job'[h].at = "posting" => Keeps(h)

LEMMA WholeStep ==
    ASSUME Whole, tasks' \subseteq tasks, skipped \subseteq skipped',
           \A h \in Handlers : SameLoop(h)
    PROVE  Whole'
<1> SUFFICES ASSUME NEW h \in Handlers, job'[h].at = "posting"
    PROVE  /\ job'[h].todo \cup job'[h].rows \subseteq Subscribers[job'[h].event]
           /\ \/ \A k \in Subscribers[job'[h].event] :
                    \/ k \in job'[h].todo \cup job'[h].rows
                    \/ <<job'[h].event, k>> \in skipped'
              \/ /\ job'[h].todo = {} /\ job'[h].rows = {}
                 /\ Subject[job'[h].event] \notin tasks'
           /\ job'[h].event \in Deletions => job'[h].todo = {}
  BY DEF Whole
<1>1. Keeps(h)
  BY DEF SameLoop
<1>2. QED
  BY <1>1 DEF Whole, Keeps

\* Queues get only copies that were in a queue, or that a handler had.
LEMMA GivenStep ==
    ASSUME Given, UNCHANGED sent, tasks' \subseteq tasks,
           \A h \in Handlers : SameMessage(h),
           \A e \in Events, r \in Levels : ready'[e][r] > 0 \/ parked'[e][r] > 0 =>
               \/ \E q \in Levels : ready[e][q] > 0 \/ parked[e][q] > 0
               \/ \E h \in Handlers : job[h].at # "idle" /\ job[h].event = e
    PROVE  Given'
<1>1. ASSUME NEW e \in Events, NEW r \in Levels, ready'[e][r] > 0 \/ parked'[e][r] > 0
      PROVE  sent'[e] > 0
  BY <1>1 DEF Given
<1>2. ASSUME NEW h \in Handlers, job'[h].at # "idle" PROVE sent'[job'[h].event] > 0
  BY <1>2 DEF Given, SameMessage
<1>3. \A e \in Deletions : sent'[e] > 0 => Subject[e] \notin tasks'
  BY DEF Given
<1>4. QED
  BY <1>1, <1>2, <1>3 DEF Given

\* One handler moves and keeps its message, or is done.
LEMMA MoveGiven ==
    ASSUME TypeOK, Given, UNCHANGED <<sent, tasks>>, NEW h \in Handlers, job[h].at # "idle",
           NEW j, job' = [job EXCEPT ![h] = j], j.at = "idle" \/ j.event = job[h].event,
           UNCHANGED <<ready, parked>> \/ (UNCHANGED ready /\ Park(h))
    PROVE  Given'
<1>1. \A g \in Handlers : job'[g] = IF g = h THEN j ELSE job[g]
  BY DEF TypeOK
<1>2. \A g \in Handlers : SameMessage(g)
  BY <1>1 DEF SameMessage
<1>3. ASSUME NEW e \in Events, NEW r \in Levels, ready'[e][r] > 0 \/ parked'[e][r] > 0
      PROVE  \/ \E q \in Levels : ready[e][q] > 0 \/ parked[e][q] > 0
             \/ \E g \in Handlers : job[g].at # "idle" /\ job[g].event = e
  <2>1. CASE e = job[h].event
    BY <2>1
  <2>2. CASE e # job[h].event
    <3>1. parked'[e] = parked[e]
      BY <2>2 DEF Park, TypeOK, Copies
    <3>2. QED
      BY <1>3, <3>1
  <2>3. QED
    BY <2>1, <2>2
<1>4. QED
  BY <1>2, <1>3, GivenStep

\* Every step of process_message but the receipt of a message is such a move.
Moves(h) ==
    \/ TryMarkProcessed(h) \/ ResolveSubscribers(h)
    \/ \E k \in Hooks : Post(h, k) \/ Skip(h, k) \/ DecryptFails(h, k)
    \/ Commit(h) \/ Ack(h) \/ Reject(h)
    \/ ScheduleRetry(h) \/ RetriesExhausted(h) \/ DatabaseFails(h) \/ RetryFails(h)

LEMMA MovesGiven ==
    ASSUME TypeOK, Given, NEW h \in Handlers, Moves(h)
    PROVE  Given'
<1>1. /\ UNCHANGED <<sent, tasks>> /\ job[h].at # "idle"
      /\ UNCHANGED <<ready, parked>> \/ (UNCHANGED ready /\ Park(h))
  BY DEF Moves, TryMarkProcessed, ResolveSubscribers, Post, Skip, DecryptFails, Commit, Ack,
         Reject, ScheduleRetry, RetriesExhausted, DatabaseFails, RetryFails, Abort, Goto,
         Return, queueVars, dbVars, ghostVars
<1>2. PICK j : job' = [job EXCEPT ![h] = j] /\ (j.at = "idle" \/ j.event = job[h].event)
  <2>1. CASE TryMarkProcessed(h) \/ Commit(h) \/ ScheduleRetry(h) \/ RetriesExhausted(h)
    <3>1. PICK from, to : Goto(h, from, to)
      BY <2>1 DEF TryMarkProcessed, Commit, ScheduleRetry, RetriesExhausted
    <3>2. /\ job' = [job EXCEPT ![h] = [job[h] EXCEPT !.at = to]]
          /\ [job[h] EXCEPT !.at = to].event = job[h].event
      BY <3>1 DEF Goto, TypeOK, Jobs
    <3>3. QED
      BY <3>2
  <2>2. CASE ResolveSubscribers(h) \/ \E k \in Hooks : Post(h, k) \/ Skip(h, k)
    <3>1. KeepsMessage(h)
      BY <2>2, ResolveKeeps, PostKeeps, SkipKeeps
    <3>2. QED
      BY <3>1 DEF KeepsMessage
  <2>3. CASE DatabaseFails(h) \/ \E k \in Hooks : DecryptFails(h, k)
    <3>1. PICK to \in {"retrying", "rejecting"} : Abort(h, to)
      BY <2>3 DEF DatabaseFails, DecryptFails
    <3>2. KeepsMessage(h)
      BY <3>1, AbortKeeps
    <3>3. QED
      BY <3>2 DEF KeepsMessage
  <2>4. CASE Ack(h) \/ Reject(h)
    BY <2>4, IdleIsJob DEF Ack, Reject, Return
  <2>5. CASE RetryFails(h)
    <3> DEFINE j == IF job[h].live THEN [job[h] EXCEPT !.at = "stuck"] ELSE Idle
    <3>1. j.at = "idle" \/ j.event = job[h].event
      BY IdleIsJob DEF TypeOK, Jobs
    <3>2. job' = [job EXCEPT ![h] = j]
      BY <2>5 DEF RetryFails, TypeOK
    <3>3. QED
      BY <3>1, <3>2
  <2>6. QED
    BY <2>1, <2>2, <2>3, <2>4, <2>5 DEF Moves
<1>3. QED
  BY <1>1, <1>2, MoveGiven

LEMMA ReceiveGiven ==
    ASSUME TypeOK, Given, NEW h \in Handlers, NEW e \in Events, NEW r \in Levels,
           Receive(h, e, r)
    PROVE  Given'
<1>1. /\ ready[e][r] > 0 /\ ready' = [ready EXCEPT ![e][r] = @ - 1]
      /\ UNCHANGED <<parked, sent, tasks>>
      /\ \A g \in Handlers \ {h} : job'[g] = job[g]
      /\ job'[h].event = e
  BY DEF Receive, TypeOK, dbVars, ghostVars, Idle
<1>2. \A d \in Events, q \in Levels : ready'[d][q] > 0 => ready[d][q] > 0
  BY <1>1 DEF TypeOK, Copies
<1>3. QED
  BY <1>1, <1>2 DEF Given

LEMMA AroundGiven ==
    ASSUME TypeOK, Given,
           \/ \E e \in Events : Publish(e) \/ \E r \in Levels : Expire(e, r)
           \/ \E t \in Tasks : DeleteTask(t)
           \/ UNCHANGED vars
    PROVE  Given'
<1>1. ASSUME NEW e \in Events, Publish(e) PROVE Given'
  <2>1. /\ e \in Deletions => Subject[e] \notin tasks
        /\ UNCHANGED <<parked, tasks, job>>
        /\ \A d \in Events \ {e} : ready'[d] = ready[d] /\ sent'[d] = sent[d]
        /\ sent'[e] > 0
    BY <1>1 DEF Publish, TypeOK, Copies, dbVars
  <2>2. Deletions \subseteq Events
    BY ConstantsAssumption
  <2>3. \A h \in Handlers : job[h].at # "idle" => job[h].event \in Events
    BY DEF TypeOK
  <2>4. QED
    BY <2>1, <2>2, <2>3 DEF Given
<1>2. ASSUME NEW e \in Events, NEW r \in Levels, Expire(e, r) PROVE Given'
  <2>1. /\ parked[e][r] > 0 /\ UNCHANGED <<sent, tasks, job>>
        /\ \A d \in Events \ {e} : ready'[d] = ready[d] /\ parked'[d] = parked[d]
    BY <1>2 DEF Expire, TypeOK, Copies, dbVars, ghostVars
  <2>2. \A h \in Handlers : SameMessage(h)
    BY <2>1 DEF SameMessage
  <2>3. QED
    BY <2>1, <2>2, GivenStep
<1>3. CASE UNCHANGED vars \/ \E t \in Tasks : DeleteTask(t)
  <2>1. UNCHANGED <<ready, parked, sent, job>> /\ tasks' \subseteq tasks
    BY <1>3 DEF DeleteTask, vars, queueVars, dbVars, ghostVars
  <2>2. \A h \in Handlers : SameMessage(h)
    BY <2>1 DEF SameMessage
  <2>3. QED
    BY <2>1, <2>2, GivenStep
<1>4. QED
  BY <1>1, <1>2, <1>3

LEMMA DisconnectGiven ==
    ASSUME TypeOK, Given, NEW w \in Workers, ConnectionLost(w) \/ Crash(w)
    PROVE  Given'
<1>1. UNCHANGED <<parked, sent, tasks>> /\ Requeue(w)
  BY DEF ConnectionLost, Crash, dbVars, ghostVars
<1>2. ASSUME NEW e \in Events, NEW r \in Levels, ready'[e][r] > 0
      PROVE  ready[e][r] > 0 \/ \E h \in Handlers : job[h].at # "idle" /\ job[h].event = e
  <2> DEFINE back == Cardinality(Returned(w, e, r))
  <2>1. ready'[e][r] = ready[e][r] + back
    BY <1>1 DEF Requeue, Returned
  <2>2. CASE Returned(w, e, r) = {}
    <3>1. back = 0
      BY <2>2, FS_EmptySet
    <3>2. QED
      BY <1>2, <2>1, <3>1 DEF TypeOK, Copies
  <2>3. CASE Returned(w, e, r) # {}
    <3>1. PICK h \in Handlers : job[h].live /\ job[h].event = e
      BY <2>3 DEF Returned, Residents
    <3>2. job[h].at # "idle"
      BY <3>1, IdleIsJob DEF TypeOK
    <3>3. QED
      BY <3>1, <3>2
  <2>4. QED
    BY <2>2, <2>3
<1>3. ASSUME NEW h \in Handlers PROVE SameMessage(h)
  <2>1. \/ job'[h] = job[h] \/ job'[h] = Idle
        \/ job'[h] = [job[h] EXCEPT !.live = FALSE]
    BY DEF ConnectionLost, Crash
  <2>2. QED
    BY <2>1, IdleIsJob DEF SameMessage, TypeOK, Jobs
<1>4. QED
  BY <1>1, <1>2, <1>3, GivenStep

LEMMA NextGiven == ASSUME TypeOK, Given, [Next]_vars PROVE Given'
<1>1. ASSUME NEW h \in Handlers, Handle(h) \/ DatabaseFails(h) \/ RetryFails(h)
      PROVE  Given'
  BY <1>1, ReceiveGiven, MovesGiven DEF Handle, Moves
<1>2. QED
  BY <1>1, AroundGiven, DisconnectGiven DEF Next, ConsumerStep

\* The loop begins: with all subscriptions, or with none as the task is gone.
LEMMA ResolveWhole ==
    ASSUME TypeOK, Given, Whole, Deliveries, NEW h \in Handlers, ResolveSubscribers(h)
    PROVE  Whole'
<1> DEFINE e == job[h].event
<1>1. /\ UNCHANGED <<tasks, skipped>> /\ job[h].at = "resolving"
      /\ \A g \in Handlers \ {h} : job'[g] = job[g]
  BY DEF ResolveSubscribers, TypeOK, dbVars, ghostVars
<1>2. /\ job'[h].event = e /\ job'[h].rows = {}
      /\ job'[h].todo = IF Subject[e] \in tasks THEN Subscribers[e] ELSE {}
  BY <1>1 DEF ResolveSubscribers, TypeOK, Jobs, Deliveries, LoopState
<1>3. e \in Deletions => Subject[e] \notin tasks
  BY <1>1 DEF Given
<1> HIDE DEF e
<1>4. QED
  BY <1>1, <1>2, <1>3 DEF Whole

\* The loop goes on by one subscription.
LEMMA LoopWhole ==
    ASSUME TypeOK, Whole, NEW h \in Handlers, NEW k \in Hooks, Post(h, k) \/ Skip(h, k)
    PROVE  Whole'
<1> DEFINE e == job[h].event
<1>1. /\ UNCHANGED tasks /\ skipped \subseteq skipped' /\ job[h].at = "posting"
      /\ k \in job[h].todo
      /\ \A g \in Handlers \ {h} : job'[g] = job[g]
  BY DEF Post, Skip, TypeOK, dbVars
<1>2. /\ job'[h].event = e /\ job'[h].todo = job[h].todo \ {k}
      /\ \/ job'[h].rows = job[h].rows \cup {k}
         \/ job'[h].rows = job[h].rows /\ <<e, k>> \in skipped'
  BY DEF Post, Skip, TypeOK, Jobs
<1>3. \A g \in Handlers \ {h} : job'[g].at = "posting" =>
          /\ job'[g].todo \cup job'[g].rows \subseteq Subscribers[job'[g].event]
          /\ \/ \A i \in Subscribers[job'[g].event] :
                   i \in job'[g].todo \cup job'[g].rows \/ <<job'[g].event, i>> \in skipped'
             \/ /\ job'[g].todo = {} /\ job'[g].rows = {}
                /\ Subject[job'[g].event] \notin tasks'
          /\ job'[g].event \in Deletions => job'[g].todo = {}
  BY <1>1 DEF Whole
<1>4. /\ job[h].todo \cup job[h].rows \subseteq Subscribers[e]
      /\ \A i \in Subscribers[e] : i \in job[h].todo \cup job[h].rows \/ <<e, i>> \in skipped
      /\ e \notin Deletions
  BY <1>1 DEF Whole
<1> HIDE DEF e
<1>5. /\ job'[h].todo \cup job'[h].rows \subseteq Subscribers[e]
      /\ \A i \in Subscribers[e] :
            i \in job'[h].todo \cup job'[h].rows \/ <<e, i>> \in skipped'
  BY <1>1, <1>2, <1>4
<1>6. QED
  BY <1>2, <1>3, <1>4, <1>5 DEF Whole

\* No other step brings a handler to its loop or moves it within.
LEMMA OtherWhole ==
    ASSUME TypeOK, Whole,
           \/ \E h \in Handlers :
                 \/ \E e \in Events, r \in Levels : Receive(h, e, r)
                 \/ TryMarkProcessed(h) \/ Commit(h) \/ Ack(h) \/ Reject(h)
                 \/ ScheduleRetry(h) \/ RetriesExhausted(h) \/ RetryFails(h)
                 \/ DatabaseFails(h) \/ \E k \in Hooks : DecryptFails(h, k)
           \/ \E w \in Workers : ConnectionLost(w) \/ Crash(w)
           \/ \E e \in Events : Publish(e) \/ \E r \in Levels : Expire(e, r)
           \/ \E t \in Tasks : DeleteTask(t)
           \/ UNCHANGED vars
    PROVE  Whole'
<1>1. tasks' \subseteq tasks /\ UNCHANGED skipped
  <2>1. ASSUME NEW h \in Handlers,
               \/ \E e \in Events, r \in Levels : Receive(h, e, r)
               \/ TryMarkProcessed(h) \/ Commit(h) \/ Ack(h) \/ Reject(h)
               \/ ScheduleRetry(h) \/ RetriesExhausted(h) \/ RetryFails(h)
               \/ DatabaseFails(h) \/ \E k \in Hooks : DecryptFails(h, k)
        PROVE  UNCHANGED <<tasks, skipped>>
    BY <2>1 DEF Receive, TryMarkProcessed, Commit, Ack, Reject, ScheduleRetry,
                RetriesExhausted, RetryFails, DatabaseFails, DecryptFails, Abort,
                dbVars, ghostVars
  <2>2. ASSUME NEW w \in Workers, ConnectionLost(w) \/ Crash(w)
        PROVE  UNCHANGED <<tasks, skipped>>
    BY <2>2 DEF ConnectionLost, Crash, dbVars, ghostVars
  <2>3. ASSUME \/ \E e \in Events : Publish(e) \/ \E r \in Levels : Expire(e, r)
               \/ \E t \in Tasks : DeleteTask(t)
               \/ UNCHANGED vars
        PROVE  tasks' \subseteq tasks /\ UNCHANGED skipped
    BY <2>3 DEF Publish, Expire, DeleteTask, vars, dbVars, ghostVars
  <2>4. QED
    BY <2>1, <2>2, <2>3
<1>2. ASSUME NEW g \in Handlers PROVE SameLoop(g)
  <2>1. CASE \E h \in Handlers : Ack(h) \/ Reject(h)
    BY <2>1, IdleIsJob DEF SameLoop, Keeps, Ack, Reject, Return, TypeOK
  <2>2. CASE \E h \in Handlers : TryMarkProcessed(h) \/ Commit(h) \/ ScheduleRetry(h)
                                 \/ RetriesExhausted(h)
    <3>1. PICK h \in Handlers, to \in Locations \ {"posting"} :
              job' = [job EXCEPT ![h].at = to]
      BY <2>2 DEF TryMarkProcessed, Commit, ScheduleRetry, RetriesExhausted, Goto, Locations
    <3>2. /\ \A i \in Handlers \ {h} : job'[i] = job[i]
          /\ job'[h].at = to
      BY <3>1 DEF TypeOK, Jobs
    <3>3. QED
      BY <3>2 DEF SameLoop, Keeps
  <2>3. CASE \E h \in Handlers : DatabaseFails(h) \/ \E k \in Hooks : DecryptFails(h, k)
    <3>1. PICK h \in Handlers, to \in {"retrying", "rejecting"} : Abort(h, to)
      BY <2>3 DEF DatabaseFails, DecryptFails
    <3>2. /\ \A i \in Handlers \ {h} : job'[i] = job[i]
          /\ job'[h].at = to
      BY <3>1 DEF Abort, TypeOK, Jobs
    <3>3. QED
      BY <3>2 DEF SameLoop, Keeps
  <2>4. CASE \E h \in Handlers, e \in Events, r \in Levels : Receive(h, e, r)
    <3>1. PICK h \in Handlers, e \in Events, r \in Levels : Receive(h, e, r)
      BY <2>4
    <3>2. /\ \A i \in Handlers \ {h} : job'[i] = job[i]
          /\ job'[h].at \in {"rejecting", "begin"}
      BY <3>1 DEF Receive, Idle, TypeOK
    <3>3. QED
      BY <3>2 DEF SameLoop, Keeps
  <2>5. CASE \E h \in Handlers : RetryFails(h)
    <3>1. PICK h \in Handlers :
              job' = [job EXCEPT ![h] = IF @.live THEN [@ EXCEPT !.at = "stuck"] ELSE Idle]
      BY <2>5 DEF RetryFails
    <3>2. /\ \A i \in Handlers \ {h} : job'[i] = job[i]
          /\ job'[h].at \in {"stuck", "idle"}
      BY <3>1, IdleIsJob DEF TypeOK, Jobs
    <3>3. QED
      BY <3>2 DEF SameLoop, Keeps
  <2>6. CASE \E w \in Workers : ConnectionLost(w) \/ Crash(w)
    <3>1. \/ job'[g] = job[g] \/ job'[g] = Idle
          \/ job'[g] = [job[g] EXCEPT !.live = FALSE]
      BY <2>6 DEF ConnectionLost, Crash
    <3>2. QED
      BY <3>1, IdleIsJob DEF SameLoop, Keeps, TypeOK, Jobs
  <2>7. CASE \/ \E e \in Events : Publish(e) \/ \E r \in Levels : Expire(e, r)
             \/ \E t \in Tasks : DeleteTask(t)
             \/ UNCHANGED vars
    BY <2>7 DEF Publish, Expire, DeleteTask, vars, ghostVars, SameLoop, Keeps
  <2>8. QED
    BY <2>1, <2>2, <2>3, <2>4, <2>5, <2>6, <2>7
<1>3. QED
  BY <1>1, <1>2, WholeStep

LEMMA NextWhole ==
    ASSUME TypeOK, Given, Whole, Deliveries, [Next]_vars PROVE Whole'
BY ResolveWhole, LoopWhole, OtherWhole DEF Next, ConsumerStep, Handle

DeliveryInv == IInv /\ Given /\ Whole

LEMMA InitDeliveryInv == Init => DeliveryInv
<1> SUFFICES ASSUME Init PROVE DeliveryInv
  OBVIOUS
<1>1. Retained
  BY DEF Init, Retained
<1>2. Given
  <2>1. \A e \in Events, r \in Levels : ready[e][r] = 0 /\ parked[e][r] = 0
    BY DEF Init
  <2>2. \A e \in Events : sent[e] = 0
    BY DEF Init
  <2>3. \A h \in Handlers : job[h].at = "idle"
    BY IdleIsJob DEF Init
  <2>4. Deletions \subseteq Events
    BY ConstantsAssumption
  <2>5. QED
    BY <2>1, <2>2, <2>3, <2>4 DEF Given
<1>3. Whole
  BY IdleIsJob DEF Init, Whole
<1>4. QED
  BY <1>1, <1>2, <1>3, InitTypeOK, InitDeliveries DEF DeliveryInv, IInv

LEMMA NextDeliveryInv == DeliveryInv /\ [Next]_vars => DeliveryInv'
BY NextTypeOK, NextDeliveries, NextRetained, NextGiven, NextWhole DEF DeliveryInv, IInv

\* The invariant the refinement rests on: that of the worker alone, and what a handler
\* in the middle of a delivery holds and knows.
THEOREM DeliveryInvHolds == Spec => []DeliveryInv
BY InitDeliveryInv, NextDeliveryInv, PTL DEF Spec

-----------------------------------------------------------------------------
(***************************************************************************)
(* Each step is one of EventDelivery, or none that a subscriber sees.      *)
(***************************************************************************)

LEMMA InitDelivers == Init => Delivery!DInit
<1> SUFFICES ASSUME Init PROVE Delivery!DInit
  OBVIOUS
<1>1. {e \in Events : sent[e] > 0} = {}
  BY DEF Init
<1>2. QED
  BY <1>1 DEF Init, Delivery!DInit

\* Most steps are hidden.
Unseen == UNCHANGED <<tasks, processed, recorded, sent, posts, skipped>>

LEMMA UnseenDelivers == Unseen => UNCHANGED Delivery!dvars
BY DEF Unseen, Delivery!dvars

LEMMA PublishDelivers ==
    ASSUME TypeOK, NEW e \in Events, Publish(e) PROVE Delivery!Offer(e)
<1>1. \A d \in Events : sent'[d] > 0 <=> sent[d] > 0 \/ d = e
  BY DEF Publish, TypeOK
<1>2. {d \in Events : sent'[d] > 0} = {d \in Events : sent[d] > 0} \cup {e}
  BY <1>1
<1>3. QED
  BY <1>2 DEF Publish, dbVars, Delivery!Offer

\* What a handler in its loop knows of its event.
LEMMA PostingKnows ==
    ASSUME DeliveryInv, NEW h \in Handlers, job[h].at = "posting"
    PROVE  /\ job[h].event \in Events /\ job[h].event \notin processed
           /\ job[h].event \in {e \in Events : sent[e] > 0}
           /\ \A k \in job[h].todo : k \in Subscribers[job[h].event]
           /\ job[h].todo # {} => job[h].event \notin Deletions
<1>1. job[h].event \in Events
  BY DEF DeliveryInv, IInv, TypeOK
<1>2. job[h].event \notin processed
  BY DEF DeliveryInv, IInv, Deliveries, AcquiredIsNew, Acquired
<1>3. QED
  BY <1>1, <1>2 DEF DeliveryInv, Given, Whole

LEMMA PostDelivers ==
    ASSUME DeliveryInv, NEW h \in Handlers, NEW k \in Hooks, Post(h, k)
    PROVE  Delivery!Tell(job[h].event, k)
<1>1. /\ job[h].at = "posting" /\ k \in job[h].todo /\ k \notin Unusable \cup Broken
      /\ posts' = [posts EXCEPT ![job[h].event][k] = @ + 1]
      /\ UNCHANGED <<tasks, processed, recorded, sent, skipped>>
  BY DEF Post, dbVars
<1>2. QED
  BY <1>1, PostingKnows DEF Delivery!Tell, Delivery!Open

LEMMA SkipDelivers ==
    ASSUME DeliveryInv, NEW h \in Handlers, NEW k \in Hooks, Skip(h, k)
    PROVE  Delivery!Pass(job[h].event, k)
<1>1. /\ job[h].at = "posting" /\ k \in job[h].todo
      /\ skipped' = skipped \cup {<<job[h].event, k>>}
      /\ UNCHANGED <<tasks, processed, recorded, sent, posts>>
  BY DEF Skip, dbVars
<1>2. QED
  BY <1>1, PostingKnows DEF Delivery!Pass, Delivery!Open

\* A commit settles the event with the rows of its transaction, the first of the event.
LEMMA CommitDelivers ==
    ASSUME DeliveryInv, NEW h \in Handlers, Commit(h)
    PROVE  Delivery!Settle(job[h].event, job[h].rows)
<1> DEFINE e == job[h].event
<1>1. /\ job[h].at = "posting" /\ job[h].todo = {}
      /\ processed' = processed \cup {e}
      /\ UNCHANGED <<tasks, sent, posts, skipped>>
  BY DEF Commit, Goto, ghostVars
<1>2. e \in Events /\ e \notin processed /\ e \in {d \in Events : sent[d] > 0}
  BY <1>1, PostingKnows
<1>3. \A k \in job[h].rows : k \in Subscribers[e] /\ posts[e][k] > 0
  BY <1>1 DEF DeliveryInv, IInv, Deliveries, LoopState, Whole
<1>4. \/ \A k \in Subscribers[e] : k \in job[h].rows \/ <<e, k>> \in skipped
      \/ job[h].rows = {} /\ Subject[e] \notin tasks
  BY <1>1 DEF DeliveryInv, Whole
<1>5. recorded' = [recorded EXCEPT ![e] = [k \in Hooks |-> IF k \in job[h].rows THEN 1 ELSE 0]]
  <2>1. \A k \in Hooks : recorded[e][k] = 0
    BY <1>2 DEF DeliveryInv, IInv, Deliveries, RecordedLate
  <2>2. recorded' = [recorded EXCEPT ![e] =
                       [k \in Hooks |-> IF k \in job[h].rows THEN recorded[e][k] + 1
                                        ELSE recorded[e][k]]]
    BY DEF Commit
  <2>3. [k \in Hooks |-> IF k \in job[h].rows THEN recorded[e][k] + 1 ELSE recorded[e][k]]
        = [k \in Hooks |-> IF k \in job[h].rows THEN 1 ELSE 0]
    BY <2>1
  <2>4. QED
    BY <2>2, <2>3
<1> HIDE DEF e
<1>6. QED
  BY <1>1, <1>2, <1>3, <1>4, <1>5 DEF Delivery!Settle, e

LEMMA StepDelivers == DeliveryInv /\ [Next]_vars => [Delivery!DNext]_(Delivery!dvars)
<1> SUFFICES ASSUME DeliveryInv, [Next]_vars PROVE [Delivery!DNext]_(Delivery!dvars)
  OBVIOUS
<1>1. TypeOK
  BY DEF DeliveryInv, IInv
<1>2. ASSUME NEW e \in Events, Publish(e) PROVE Delivery!DNext
  BY <1>1, <1>2, PublishDelivers DEF Delivery!DNext
<1>3. ASSUME NEW t \in Tasks, DeleteTask(t) PROVE Delivery!DNext
  <2>1. Delivery!RemoveTask(t)
    BY <1>3 DEF DeleteTask, ghostVars, Delivery!RemoveTask
  <2>2. QED
    BY <2>1 DEF Delivery!DNext
<1>4. ASSUME NEW h \in Handlers, NEW k \in Hooks, Post(h, k) \/ Skip(h, k)
      PROVE  Delivery!DNext
  <2>1. job[h].event \in Events
    BY <1>1, <1>4 DEF Post, Skip, TypeOK
  <2>2. QED
    BY <1>4, <2>1, PostDelivers, SkipDelivers DEF Delivery!DNext
<1>5. ASSUME NEW h \in Handlers, Commit(h) PROVE Delivery!DNext
  <2>1. job[h].event \in Events /\ job[h].rows \in SUBSET Hooks
    BY <1>1, <1>5 DEF Commit, Goto, TypeOK, Jobs
  <2>2. QED
    BY <1>5, <2>1, CommitDelivers DEF Delivery!DNext
<1>6. ASSUME NEW h \in Handlers,
             \/ \E e \in Events, r \in Levels : Receive(h, e, r)
             \/ TryMarkProcessed(h) \/ ResolveSubscribers(h)
             \/ \E k \in Hooks : DecryptFails(h, k)
             \/ Ack(h) \/ Reject(h) \/ ScheduleRetry(h) \/ RetriesExhausted(h)
             \/ DatabaseFails(h) \/ RetryFails(h)
      PROVE  Unseen
  BY <1>6 DEF Unseen, Receive, TryMarkProcessed, ResolveSubscribers, DecryptFails, Ack,
              Reject, ScheduleRetry, RetriesExhausted, DatabaseFails, RetryFails, Abort,
              dbVars, ghostVars
<1>7. ASSUME \/ \E e \in Events, r \in Levels : Expire(e, r)
             \/ \E w \in Workers : ConnectionLost(w) \/ Crash(w)
             \/ UNCHANGED vars
      PROVE  Unseen
  BY <1>7 DEF Unseen, Expire, ConnectionLost, Crash, vars, dbVars, ghostVars
<1>8. QED
  BY <1>2, <1>3, <1>4, <1>5, <1>6, <1>7, UnseenDelivers DEF Next, ConsumerStep, Handle

\* The webhook worker, with every interleaving and fault, implements EventDelivery.
THEOREM WorkersDeliverEvents == Spec => DeliversEvents
<1>1. Init => Delivery!DInit
  BY InitDelivers
<1>2. DeliveryInv /\ [Next]_vars => [Delivery!DNext]_(Delivery!dvars)
  BY StepDelivers
<1>3. QED
  BY <1>1, <1>2, DeliveryInvHolds, PTL DEF Spec, DeliversEvents, Delivery!DSpec

-----------------------------------------------------------------------------
(***************************************************************************)
(* From the commit to the subscribers.                                     *)
(***************************************************************************)

\* Whoever was told of an event was one of its subscribers, and the event was published
\* and no deletion.
Told ==
    \A e \in Events, k \in Hooks :
        posts[e][k] > 0 => sent[e] > 0 /\ k \in Subscribers[e] /\ e \notin Deletions

\* What the outbox counts as accepted and what the queue got: the same, but for events
\* that were committed before there was a queue.
Forwarded ==
    /\ \A e \in Events : sent[e] <= copies[e]
    /\ \A e \in Events \ early : sent[e] = copies[e] /\ (phase[e] # "none" => bound)
    /\ \A e \in Events :
          /\ phase[e] = "none" => copies[e] = 0
          /\ phase[e] = "sent" => copies[e] > 0
          /\ e \in Deletions /\ phase[e] # "none" => Subject[e] \notin tasks

PInv == PTypeOK /\ DeliveryInv /\ Told /\ Forwarded

\* A step of the whole is one of the webhook worker or its surroundings.
LEMMA PStepConsumes == [PNext]_pvars => [Next]_vars
<1> SUFFICES ASSUME PNext PROVE [Next]_vars
  BY DEF pvars
<1>1. ASSUME NEW e \in Events, CommitEvent(e) PROVE [Next]_vars
  <2>1. CASE e \in Deletions /\ Subject[e] \in tasks
    <3>1. DeleteTask(Subject[e])
      BY <1>1, <2>1 DEF CommitEvent, ChangeTask, DeleteTask
    <3>2. Subject[e] \in Tasks
      BY ConstantsAssumption
    <3>3. QED
      BY <3>1, <3>2 DEF Next
  <2>2. CASE ~(e \in Deletions /\ Subject[e] \in tasks)
    <3>1. tasks' = tasks
      BY <1>1, <2>2 DEF CommitEvent, ChangeTask
    <3>2. QED
      BY <1>1, <3>1 DEF CommitEvent, ChangeTask, vars, dbVars
  <2>3. QED
    BY <2>1, <2>2
<1>2. ASSUME NEW e \in Events, Transmit(e) \/ SettleRow(e) PROVE [Next]_vars
  BY <1>2 DEF Transmit, Route, SettleRow, Next
<1>3. CASE DeclareTopology \/ Consume
  BY <1>3 DEF DeclareTopology, Consume, Next
<1>4. QED
  BY <1>1, <1>2, <1>3 DEF PNext

\* And one of the outbox that AtLeastOnceOutbox describes.
LEMMA PStepSettles == [PNext]_pvars => [Outbox!ANext]_(Outbox!avars)
<1> SUFFICES ASSUME PNext PROVE [Outbox!ANext]_(Outbox!avars)
  BY DEF pvars, Outbox!avars
<1>1. ASSUME NEW e \in Events, CommitEvent(e) \/ Transmit(e) \/ SettleRow(e)
      PROVE  Outbox!ANext
  BY <1>1 DEF CommitEvent, ChangeTask, Transmit, Route, SettleRow, Outbox!ANext
<1>2. CASE DeclareTopology \/ Consume
  BY <1>2 DEF DeclareTopology, Consume, Outbox!avars
<1>3. QED
  BY <1>1, <1>2 DEF PNext

LEMMA InitPInv == PInit => PInv
<1> SUFFICES ASSUME PInit PROVE PInv
  OBVIOUS
<1>1. DeliveryInv /\ TypeOK
  BY InitDeliveryInv, InitTypeOK DEF PInit
<1>2. Outbox!ATypeOK
  <2>1. 0 \in 0 .. MaxCopies
    BY ConstantsAssumption
  <2>2. QED
    BY <2>1 DEF PInit, Outbox!AInit, Outbox!ATypeOK, Outbox!Phases
<1>3. \A e \in Events : phase[e] = "none" /\ copies[e] = 0 /\ sent[e] = 0
  BY DEF PInit, Init, Outbox!AInit
<1>4. \A e \in Events, k \in Hooks : posts[e][k] = 0
  BY DEF PInit, Init
<1>5. Told /\ Forwarded
  BY <1>3, <1>4 DEF Told, Forwarded
<1>6. QED
  BY <1>1, <1>2, <1>5 DEF PInit, PInv, PTypeOK

LEMMA NextPTypeOK ==
    ASSUME PTypeOK, TypeOK', [PNext]_pvars PROVE PTypeOK'
<1>1. Outbox!ATypeOK'
  <2>1. CASE Outbox!ANext
    BY <2>1, ConstantsAssumption
    DEF PTypeOK, Outbox!ATypeOK, Outbox!Phases, Outbox!ANext, Outbox!Submit,
        Outbox!Transmit, Outbox!Complete, Outbox!Abandon
  <2>2. CASE UNCHANGED Outbox!avars
    BY <2>2 DEF PTypeOK, Outbox!ATypeOK, Outbox!avars
  <2>3. QED
    BY <2>1, <2>2, PStepSettles
<1>2. bound' \in BOOLEAN /\ early' \in SUBSET Events
  <2>1. ASSUME NEW e \in Events, CommitEvent(e) PROVE early' \in SUBSET Events
    BY <2>1 DEF CommitEvent, ChangeTask, PTypeOK
  <2>2. QED
    BY <2>1 DEF PTypeOK, PNext, pvars, CommitEvent, ChangeTask, Transmit, Route, SettleRow, DeclareTopology,
                Consume
<1>3. QED
  BY <1>1, <1>2 DEF PTypeOK

\* Told follows from what EventDelivery allows.
LEMMA NextTold ==
    ASSUME TypeOK, DeliveryInv, Told, [Next]_vars PROVE Told'
<1>1. [Delivery!DNext]_(Delivery!dvars)
  BY StepDelivers
<1>2. {e \in Events : sent[e] > 0} \subseteq {e \in Events : sent'[e] > 0}
  BY <1>1 DEF Delivery!DNext, Delivery!dvars, Delivery!Offer, Delivery!RemoveTask,
              Delivery!Tell, Delivery!Pass, Delivery!Settle
<1>3. \A e \in Events : sent[e] > 0 => sent'[e] > 0
  BY <1>2
<1>4. CASE UNCHANGED posts
  BY <1>3, <1>4 DEF Told
<1>5. ASSUME NEW d \in Events, NEW i \in Hooks, Delivery!Tell(d, i) PROVE Told'
  <2>1. /\ sent[d] > 0 /\ d \notin Deletions /\ i \in Subscribers[d]
        /\ posts' = [posts EXCEPT ![d][i] = @ + 1]
    BY <1>5 DEF Delivery!Tell, Delivery!Open
  <2>2. ASSUME NEW e \in Events, NEW k \in Hooks, posts'[e][k] > 0
        PROVE  posts[e][k] > 0 \/ (e = d /\ k = i)
    BY <2>1, <2>2 DEF TypeOK
  <2>3. QED
    BY <1>3, <2>1, <2>2 DEF Told
<1>6. UNCHANGED posts \/ \E d \in Events, i \in Hooks : Delivery!Tell(d, i)
  BY <1>1 DEF Delivery!DNext, Delivery!dvars, Delivery!Offer, Delivery!RemoveTask,
              Delivery!Pass, Delivery!Settle
<1>7. QED
  BY <1>4, <1>5, <1>6

\* Only the surroundings publish or delete.
LEMMA ConsumeLeaves == ConsumerStep => UNCHANGED <<sent, tasks>>
<1>1. ASSUME NEW h \in Handlers, Handle(h) \/ DatabaseFails(h) \/ RetryFails(h)
      PROVE  UNCHANGED <<sent, tasks>>
  BY <1>1 DEF Handle, Receive, TryMarkProcessed, ResolveSubscribers, Post, Skip,
              DecryptFails, Commit, Ack, Reject, ScheduleRetry, RetriesExhausted,
              DatabaseFails, RetryFails, Abort, dbVars, ghostVars
<1>2. ASSUME NEW w \in Workers, ConnectionLost(w) \/ Crash(w)
      PROVE  UNCHANGED <<sent, tasks>>
  BY <1>2 DEF ConnectionLost, Crash, dbVars, ghostVars
<1>3. ASSUME NEW e \in Events, NEW r \in Levels, Expire(e, r)
      PROVE  UNCHANGED <<sent, tasks>>
  BY <1>3 DEF Expire, dbVars, ghostVars
<1>4. QED
  BY <1>1, <1>2, <1>3 DEF ConsumerStep

LEMMA CommitForwarded ==
    ASSUME PTypeOK, Forwarded, NEW e \in Events, CommitEvent(e) PROVE Forwarded'
<1>1. /\ phase[e] = "none" /\ phase'[e] = "queued" /\ UNCHANGED <<copies, sent, bound>>
      /\ \A d \in Events \ {e} : phase'[d] = phase[d]
  BY DEF CommitEvent, ChangeTask, Outbox!Submit, PTypeOK, Outbox!ATypeOK, ghostVars
<1>2. /\ tasks' \subseteq tasks /\ (e \in Deletions => Subject[e] \notin tasks')
      /\ early \subseteq early' /\ (e \notin early' => bound)
  BY DEF CommitEvent, ChangeTask
<1>3. QED
  BY <1>1, <1>2 DEF Forwarded

LEMMA TransmitForwarded ==
    ASSUME PTypeOK, Forwarded, NEW e \in Events, Transmit(e) PROVE Forwarded'
<1>1. /\ phase[e] = "queued" /\ UNCHANGED <<phase, bound, early, tasks>>
      /\ copies'[e] = copies[e] + 1 /\ copies[e] \in Nat
      /\ \A d \in Events \ {e} : copies'[d] = copies[d]
  BY DEF Transmit, Route, Outbox!Transmit, Publish, vars, dbVars, PTypeOK, Outbox!ATypeOK
<1>2. /\ sent'[e] = IF bound THEN sent[e] + 1 ELSE sent[e]
      /\ sent[e] \in Nat
      /\ \A d \in Events \ {e} : sent'[d] = sent[d]
  BY DEF Transmit, Route, Publish, vars, ghostVars, PTypeOK, TypeOK
<1>3. QED
  BY <1>1, <1>2 DEF Forwarded

LEMMA OtherForwarded ==
    ASSUME PTypeOK, Forwarded,
           \/ \E e \in Events : SettleRow(e)
           \/ DeclareTopology \/ Consume \/ UNCHANGED pvars
    PROVE  Forwarded'
<1>1. UNCHANGED <<copies, sent, tasks, early>> /\ (bound => bound')
  BY ConsumeLeaves DEF SettleRow, Outbox!Complete, Outbox!Abandon, DeclareTopology, Consume,
                       pvars, vars, dbVars, ghostVars
<1>2. \A e \in Events : \/ phase'[e] = phase[e]
                        \/ phase[e] = "queued" /\ phase'[e] = "dead"
                        \/ phase[e] = "queued" /\ phase'[e] = "sent" /\ copies[e] > 0
  BY DEF SettleRow, Outbox!Complete, Outbox!Abandon, DeclareTopology, Consume, pvars,
         PTypeOK, Outbox!ATypeOK
<1>3. QED
  BY <1>1, <1>2 DEF Forwarded

LEMMA NextPInv == PInv /\ [PNext]_pvars => PInv'
<1> SUFFICES ASSUME PInv, [PNext]_pvars PROVE PInv'
  OBVIOUS
<1>1. [Next]_vars
  BY PStepConsumes
<1>2. DeliveryInv'
  BY <1>1, NextDeliveryInv DEF PInv
<1>3. TypeOK /\ TypeOK' /\ PTypeOK'
  <2>1. TypeOK'
    BY <1>2 DEF DeliveryInv, IInv
  <2>2. QED
    BY <2>1, NextPTypeOK DEF PInv, PTypeOK
<1>4. Told'
  BY <1>1, <1>3, NextTold DEF PInv
<1>5. Forwarded'
  BY CommitForwarded, TransmitForwarded, OtherForwarded DEF PInv, PNext
<1>6. QED
  BY <1>2, <1>3, <1>4, <1>5 DEF PInv

\* The invariant of the composition: what the outbox accepted and the queue got agree.
THEOREM PInvHolds == PSpec => []PInv
BY InitPInv, NextPInv, PTL DEF PSpec

\* What is proved of the webhook worker alone holds of it behind the outbox.
THEOREM PipelineConsumes == PSpec => Spec
<1>1. PInit => Init
  BY DEF PInit
<1>2. QED
  BY <1>1, PStepConsumes, PTL DEF PSpec, Spec

\* The whole keeps both promises: the outbox's to the API, and the webhook worker's to
\* the subscribers.
THEOREM PipelineKeepsPromises == PSpec => Outbox!ASpec /\ DeliversEvents
<1>1. PInit => Outbox!AInit
  BY DEF PInit
<1>2. PSpec => Outbox!ASpec
  BY <1>1, PStepSettles, PTL DEF PSpec, Outbox!ASpec
<1>3. QED
  BY <1>2, PipelineConsumes, WorkersDeliverEvents

\* An event that was committed when there was a queue, and counts as published, is
\* processed, dead-lettered or on its way.
THEOREM PublishedAccounted == PSpec => []PublishedIsAccounted
<1>1. PInv => PublishedIsAccounted
  <2> SUFFICES ASSUME PInv, NEW e \in Events, phase[e] = "sent", e \notin early
      PROVE  Handled(e) \/ InTransit(e)
    BY DEF PublishedIsAccounted
  <2>1. sent[e] > 0
    BY DEF PInv, Forwarded
  <2>2. e \in processed \/ dlq[e] > 0 \/ Held(e)
    BY <2>1 DEF PInv, DeliveryInv, IInv, Retained
  <2>3. QED
    BY <2>2 DEF Handled, Held, InTransit
<1>2. QED
  BY <1>1, PInvHolds, PTL

\* Requests are made for committed events only, and for no deletion.
THEOREM ToldCommitted == PSpec => []ToldIsCommitted
<1>1. PInv => ToldIsCommitted
  <2> SUFFICES ASSUME PInv, NEW e \in Events, NEW k \in Hooks, posts[e][k] > 0
      PROVE  phase[e] # "none" /\ k \in Subscribers[e] /\ e \notin Deletions
    BY DEF ToldIsCommitted
  <2>1. sent[e] > 0 /\ k \in Subscribers[e] /\ e \notin Deletions
    BY DEF PInv, Told
  <2>2. sent[e] \in Nat /\ copies[e] \in Nat
    BY DEF PInv, PTypeOK, TypeOK, Outbox!ATypeOK
  <2>3. phase[e] # "none"
    BY <2>1, <2>2 DEF PInv, Forwarded
  <2>4. QED
    BY <2>1, <2>3
<1>2. QED
  BY <1>1, PInvHolds, PTL

\* The composition holds neither part back: whenever the outbox may hand over a copy,
\* the queue may take it.
PublishIsFree ==
    \A e \in Events :
        phase[e] = "queued" /\ copies[e] < MaxCopies =>
            sent[e] < MaxCopies /\ (e \in Deletions => Subject[e] \notin tasks)

THEOREM NothingHeldBack == PSpec => []PublishIsFree
<1>1. PInv => PublishIsFree
  <2> SUFFICES ASSUME PInv, NEW e \in Events, phase[e] = "queued", copies[e] < MaxCopies
      PROVE  sent[e] < MaxCopies /\ (e \in Deletions => Subject[e] \notin tasks)
    BY DEF PublishIsFree
  <2>1. sent[e] \in Nat /\ copies[e] \in Nat /\ MaxCopies \in Nat
    BY ConstantsAssumption DEF PInv, PTypeOK, TypeOK, Outbox!ATypeOK
  <2>2. QED
    BY <2>1 DEF PInv, Forwarded
<1>2. QED
  BY <1>1, PInvHolds, PTL

=============================================================================
