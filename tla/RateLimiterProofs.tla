------------------------- MODULE RateLimiterProofs --------------------------
(***************************************************************************)
(* Theorems about RateLimiter for every finite set of requests, every      *)
(* limit and every kind of fault.                                          *)
(*                                                                         *)
(* WithinLimit is not inductive: requests that have a value from the       *)
(* counter and are not yet admitted hold a ticket, and the admitted ones   *)
(* and the tickets together stay below the counter and the limit.          *)
(***************************************************************************)
EXTENDS RateLimiter, FiniteSetTheorems, TLAPS

HasTicket(r) == pc[r] \in {"arming", "deciding"} /\ ~late[r] /\ current[r] <= Limit

Tickets == {r \in Requests : HasTicket(r)}

TicketsWithin ==
    /\ admitted + Cardinality(Tickets) <= count
    /\ admitted + Cardinality(Tickets) <= Limit

IInv == TypeOK /\ TicketsWithin

(***************************************************************************)
(* Tickets.                                                                *)
(***************************************************************************)

LEMMA TicketsFinite ==
    /\ IsFiniteSet(Tickets) /\ Cardinality(Tickets) \in Nat
    /\ \A r \in Requests : /\ IsFiniteSet(Tickets \cup {r})
                           /\ r \notin Tickets =>
                                Cardinality(Tickets \cup {r}) = Cardinality(Tickets) + 1
                           /\ Cardinality(Tickets \cup {r}) <= Cardinality(Tickets) + 1
                           /\ Cardinality(Tickets \cup {r}) \in Nat
                           /\ r \in Tickets =>
                                Cardinality(Tickets \ {r}) = Cardinality(Tickets) - 1
                           /\ Cardinality(Tickets \ {r}) <= Cardinality(Tickets)
                           /\ Cardinality(Tickets \ {r}) \in Nat
<1>1. Tickets \subseteq Requests
  BY DEF Tickets
<1>2. IsFiniteSet(Tickets)
  BY <1>1, RateLimiterAssumption, FS_Subset
<1>3. Cardinality(Tickets) \in Nat
  BY <1>2, FS_CardinalityType
<1>4. ASSUME NEW r \in Requests
      PROVE  /\ IsFiniteSet(Tickets \cup {r})
             /\ Cardinality(Tickets \cup {r}) =
                    IF r \in Tickets THEN Cardinality(Tickets) ELSE Cardinality(Tickets) + 1
             /\ Cardinality(Tickets \ {r}) =
                    IF r \in Tickets THEN Cardinality(Tickets) - 1 ELSE Cardinality(Tickets)
             /\ IsFiniteSet(Tickets \ {r})
  BY <1>2, FS_AddElement, FS_RemoveElement
<1>5. ASSUME NEW r \in Requests
      PROVE  Cardinality(Tickets \cup {r}) \in Nat /\ Cardinality(Tickets \ {r}) \in Nat
  BY <1>4, FS_CardinalityType
<1>6. QED
  BY <1>2, <1>3, <1>4, <1>5

LEMMA Bounds == Limit \in Nat /\ Limit > 0 /\ 0 \in 0 .. Limit + 1
BY RateLimiterAssumption

LEMMA TicketsOfOthers ==
    ASSUME TypeOK, NEW r \in Requests,
           \A q \in Requests \ {r} :
              pc'[q] = pc[q] /\ late'[q] = late[q] /\ current'[q] = current[q]
    PROVE  Tickets' = IF HasTicket(r)' THEN Tickets \cup {r} ELSE Tickets \ {r}
BY DEF Tickets, HasTicket

LEMMA InitIInv == Init => IInv
<1> SUFFICES ASSUME Init PROVE IInv
  OBVIOUS
<1>1. TypeOK
  BY Bounds DEF Init, TypeOK
<1>2. Tickets = {}
  BY DEF Init, Tickets, HasTicket
<1>3. QED
  BY <1>1, <1>2, FS_EmptySet, RateLimiterAssumption DEF Init, IInv, TicketsWithin

(***************************************************************************)
(* Lemmas about the actions.                                               *)
(***************************************************************************)

\* A step of one request that takes no ticket, counts at most upwards and admits
\* nobody.
LEMMA NoNewTicket ==
    ASSUME IInv, NEW r \in Requests, TypeOK', count' >= count, admitted' = admitted,
           \A q \in Requests \ {r} :
              pc'[q] = pc[q] /\ late'[q] = late[q] /\ current'[q] = current[q],
           HasTicket(r)' => HasTicket(r)
    PROVE  TicketsWithin'
<1>1. Tickets' = Tickets \/ Tickets' = Tickets \ {r}
  BY TicketsOfOthers DEF IInv, Tickets
<1>2. Cardinality(Tickets') \in Nat /\ Cardinality(Tickets') <= Cardinality(Tickets)
  BY <1>1, TicketsFinite
<1>3. QED
  BY <1>2, TicketsFinite, RateLimiterAssumption DEF IInv, TypeOK, TicketsWithin

LEMMA IncreasedType ==
    ASSUME TypeOK
    PROVE  /\ Increased \in 1 .. Limit + 1 /\ Increased >= count
           /\ Increased <= Limit => Increased = count + 1
BY RateLimiterAssumption DEF TypeOK, Increased

LEMMA ArriveIInv == ASSUME IInv, NEW r \in Requests, Arrive(r) PROVE IInv'
<1>1. TypeOK'
  BY RateLimiterAssumption DEF Arrive, Goto, IInv, TypeOK
<1>2. /\ pc'[r] \in {"incrementing", "handling"}
      /\ \A q \in Requests \ {r} : pc'[q] = pc[q] /\ current'[q] = current[q]
      /\ count' = count /\ admitted' = admitted /\ late' = late
  BY DEF Arrive, Goto, IInv, TypeOK
<1>3. TicketsWithin'
  BY <1>1, <1>2, NoNewTicket DEF HasTicket, IInv, TypeOK
<1>4. QED
  BY <1>1, <1>3 DEF IInv

LEMMA IncrIInv == ASSUME IInv, NEW r \in Requests, Incr(r) PROVE IInv'
<1>1. /\ pc[r] = "incrementing" /\ pc'[r] \in {"arming", "deciding"}
      /\ pc' = [pc EXCEPT ![r] = pc'[r]]
      /\ current' = [current EXCEPT ![r] = Increased] /\ count' = Increased
      /\ late' = [late EXCEPT ![r] = FALSE]
      /\ UNCHANGED <<armed, admitted, answer, counted>>
  BY DEF Incr, Goto, IInv, TypeOK
<1>2. TypeOK'
  BY <1>1, IncreasedType, RateLimiterAssumption DEF IInv, TypeOK
<1>3. /\ current'[r] = Increased /\ r \notin Tickets
      /\ \A q \in Requests \ {r} :
            pc'[q] = pc[q] /\ late'[q] = late[q] /\ current'[q] = current[q]
  BY <1>1 DEF IInv, TypeOK, Tickets, HasTicket
<1>4. TicketsWithin'
  <2>1. CASE Increased <= Limit
    <3>1. Tickets' = Tickets \cup {r} \/ Tickets' = Tickets \ {r}
      BY <1>3, TicketsOfOthers DEF IInv
    <3>2. /\ Cardinality(Tickets') \in Nat
          /\ Cardinality(Tickets') <= Cardinality(Tickets) + 1
      <4>1. CASE Tickets' = Tickets \cup {r}
        BY <4>1, TicketsFinite
      <4>2. CASE Tickets' = Tickets \ {r}
        BY <4>2, TicketsFinite
      <4>3. QED
        BY <3>1, <4>1, <4>2
    <3>3. count' = count + 1 /\ count' <= Limit
      BY <1>1, <2>1, IncreasedType DEF IInv
    <3>4. QED
      BY <1>1, <3>2, <3>3, TicketsFinite, RateLimiterAssumption
         DEF IInv, TypeOK, TicketsWithin
  <2>2. CASE ~(Increased <= Limit)
    <3>1. ~HasTicket(r)' /\ count' >= count
      BY <1>1, <1>3, <2>2, IncreasedType DEF HasTicket, IInv
    <3>2. QED
      BY <1>1, <1>2, <1>3, <3>1, NoNewTicket
  <2>3. QED
    BY <2>1, <2>2
<1>5. QED
  BY <1>2, <1>4 DEF IInv

LEMMA ExpireIInv == ASSUME IInv, NEW r \in Requests, Expire(r) PROVE IInv'
<1>1. TypeOK'
  BY DEF Expire, Goto, IInv, TypeOK
<1>2. /\ pc[r] = "arming"
      /\ \A q \in Requests \ {r} : pc'[q] = pc[q]
      /\ UNCHANGED <<count, admitted, current, late>>
  BY DEF Expire, Goto, IInv, TypeOK
<1>3. TicketsWithin'
  BY <1>1, <1>2, NoNewTicket DEF HasTicket, IInv, TypeOK
<1>4. QED
  BY <1>1, <1>3 DEF IInv

LEMMA FailOpenIInv == ASSUME IInv, NEW r \in Requests, FailOpen(r) PROVE IInv'
<1>1. /\ count' = count \/ count' = Increased
      /\ armed' \in BOOLEAN
      /\ armed' => count' > 0
      /\ pc' = [pc EXCEPT ![r] = "handling"]
      /\ UNCHANGED <<admitted, current, late, answer, counted>>
  BY IncreasedType DEF FailOpen, IInv, TypeOK
<1>2. count' \in 0 .. Limit + 1 /\ count' >= count
  BY <1>1, IncreasedType, Bounds DEF IInv, TypeOK
<1>3. /\ pc' \in [Requests -> {"idle", "incrementing", "arming", "deciding", "handling"}]
      /\ pc'[r] = "handling"
      /\ \A q \in Requests \ {r} : pc'[q] = pc[q]
  BY <1>1 DEF IInv, TypeOK
<1>4. TypeOK'
  BY <1>1, <1>2, <1>3 DEF IInv, TypeOK
<1>5. TicketsWithin'
  BY <1>1, <1>2, <1>3, <1>4, NoNewTicket DEF HasTicket
<1>6. QED
  BY <1>4, <1>5 DEF IInv

LEMMA AdmitIInv == ASSUME IInv, NEW r \in Requests, Admit(r) PROVE IInv'
<1>1. /\ pc[r] = "deciding" /\ pc' = [pc EXCEPT ![r] = "handling"]
      /\ current[r] <= Limit
      /\ admitted' = IF late[r] THEN admitted ELSE admitted + 1
      /\ UNCHANGED <<count, armed, current, late, answer, counted>>
  BY RateLimiterAssumption DEF Admit, Goto, Exceeds, IInv, TypeOK
<1>2. TypeOK'
  BY <1>1 DEF IInv, TypeOK
<1>3. pc'[r] = "handling" /\ \A q \in Requests \ {r} : pc'[q] = pc[q]
  BY <1>1 DEF IInv, TypeOK
<1>4. Tickets' = Tickets \ {r}
  BY <1>1, <1>3, TicketsOfOthers DEF IInv, HasTicket
<1>5. TicketsWithin'
  <2>1. CASE late[r]
    BY <1>1, <1>2, <1>3, <2>1, NoNewTicket DEF HasTicket, IInv, TypeOK
  <2>2. CASE ~late[r]
    <3>1. r \in Tickets
      BY <1>1, <2>2 DEF Tickets, HasTicket
    <3>2. Cardinality(Tickets') = Cardinality(Tickets) - 1
      BY <1>4, <3>1, TicketsFinite
    <3>3. QED
      BY <1>1, <2>2, <3>2, TicketsFinite, RateLimiterAssumption
         DEF IInv, TypeOK, TicketsWithin
  <2>3. QED
    BY <2>1, <2>2
<1>6. QED
  BY <1>2, <1>5 DEF IInv

LEMMA StatusTypes ==
    ASSUME NEW layer, NEW outcome, NEW status
    PROVE  /\ StatusOf(layer, outcome, status) \in {200, status, 500}
           /\ CountedStatus(layer, outcome, status) \in {0, 200, status, 500}
BY DEF StatusOf, CountedStatus

LEMMA RespondIInv ==
    ASSUME IInv, NEW r \in Requests, NEW layer, NEW outcome,
           NEW status \in {DomainStatus, RateLimitStatus},
           pc[r] = "handling" \/ Exceeds(r), Respond(r, layer, outcome, status)
    PROVE  IInv'
<1>1. TypeOK'
  BY StatusTypes DEF Respond, IInv, TypeOK
<1>2. /\ pc'[r] = "idle"
      /\ \A q \in Requests \ {r} : pc'[q] = pc[q]
      /\ UNCHANGED <<count, admitted, current, late>>
  BY DEF Respond, IInv, TypeOK
<1>3. TicketsWithin'
  BY <1>1, <1>2, NoNewTicket DEF HasTicket, IInv, TypeOK
<1>4. QED
  BY <1>1, <1>3 DEF IInv

LEMMA StartOverIInv == ASSUME IInv, WindowEnds \/ RedisRestart PROVE IInv'
<1>1. /\ StartOver
      /\ count' \in 0 .. count
      /\ armed' \in BOOLEAN /\ (armed' => count' > 0)
  <2>1. CASE WindowEnds
    <3>1. StartOver /\ count' = 0 /\ armed' = FALSE
      BY <2>1, Zenon DEF WindowEnds
    <3>2. 0 \in 0 .. count
      BY RateLimiterAssumption DEF IInv, TypeOK
    <3>3. QED
      BY <3>1, <3>2
  <2>2. CASE RedisRestart
    <3>1. StartOver /\ count' \in 0 .. count
      BY <2>2 DEF RedisRestart
    <3>2. (armed' = FALSE) \/ (armed' = (armed /\ count' > 0))
      BY <2>2, Zenon DEF RedisRestart
    <3>3. armed' \in BOOLEAN /\ (armed' => count' > 0)
      BY <3>2, Zenon
    <3>4. QED
      BY <3>1, <3>3
  <2>3. QED
    BY <2>1, <2>2
<1>2. TypeOK'
  <2>1. count' \in 0 .. Limit + 1
    BY <1>1, RateLimiterAssumption DEF IInv, TypeOK
  <2>2. QED
    BY <1>1, <2>1 DEF StartOver, IInv, TypeOK
<1>3. Tickets' = {}
  BY <1>1 DEF StartOver, Tickets, HasTicket
<1>4. Cardinality(Tickets') = 0
  BY <1>3, FS_EmptySet
<1>5. TicketsWithin'
  BY <1>1, <1>2, <1>4, RateLimiterAssumption DEF StartOver, TicketsWithin, TypeOK
<1>6. QED
  BY <1>2, <1>5 DEF IInv

LEMMA CrashIInv == ASSUME IInv, NEW r \in Requests, Crash(r) PROVE IInv'
<1>1. TypeOK'
  BY DEF Crash, IInv, TypeOK
<1>2. /\ pc'[r] = "idle"
      /\ \A q \in Requests \ {r} : pc'[q] = pc[q]
      /\ UNCHANGED <<count, admitted, current, late>>
  BY DEF Crash, IInv, TypeOK
<1>3. TicketsWithin'
  BY <1>1, <1>2, NoNewTicket DEF HasTicket, IInv, TypeOK
<1>4. QED
  BY <1>1, <1>3 DEF IInv

LEMMA NextIInv == IInv /\ [Next]_vars => IInv'
<1> SUFFICES ASSUME IInv, [Next]_vars PROVE IInv'
  OBVIOUS
<1>1. ASSUME NEW r \in Requests, Proceed(r) PROVE IInv'
  <2>1. CASE Reject(r)
    BY <2>1, RespondIInv DEF Reject
  <2>2. CASE Handle(r)
    BY <2>2, RespondIInv DEF Handle
  <2>3. QED
    BY <1>1, <2>1, <2>2, IncrIInv, ExpireIInv, FailOpenIInv, AdmitIInv DEF Proceed
<1>2. CASE WindowEnds \/ RedisRestart
  BY <1>2, StartOverIInv
<1>3. CASE UNCHANGED vars
  BY <1>3 DEF vars, reqVars, IInv, TypeOK, TicketsWithin, Tickets, HasTicket
<1>4. QED
  BY <1>1, <1>2, <1>3, ArriveIInv, CrashIInv DEF Next

(***************************************************************************)
(* Theorems.                                                               *)
(***************************************************************************)

\* The inductive invariant holds in every reachable state.
THEOREM IInvHolds == Spec => []IInv
BY InitIInv, NextIInv, PTL DEF Spec

\* The counter, the places of requests and the statuses they are answered with keep
\* their types, and a key with an expiry exists.
THEOREM TypesHold == Spec => []TypeOK
<1>1. IInv => TypeOK
  BY DEF IInv
<1>2. QED
  BY <1>1, IInvHolds, PTL

\* While Redis answers, at most Limit requests are admitted as long as a key lives and
\* keeps its increments, whatever faults come in between (RateLimitMiddleware.dispatch).
THEOREM LimitIsKept == Spec => []WithinLimit
<1>1. IInv => WithinLimit
  BY TicketsFinite, RateLimiterAssumption DEF IInv, TypeOK, TicketsWithin, WithinLimit
<1>2. QED
  BY <1>1, IInvHolds, PTL

(***************************************************************************)
(* The layers of the application.                                          *)
(***************************************************************************)

\* The place of a layer, once for those the proofs name.
LEMMA DepthIs ==
    /\ Depth("server_error") = 1 /\ Depth("metrics") = 2 /\ Depth("rate_limit") = 4
    /\ Depth("exception_handlers") = 6 /\ Depth("router") = 7
<1>1. ASSUME NEW n \in 1 .. 7
      PROVE  Depth(Layers[n]) \in 1 .. 7 /\ Layers[Depth(Layers[n])] = Layers[n]
  BY DEF Depth, Layers
<1>2. ASSUME NEW i \in 1 .. 7, NEW j \in 1 .. 7, Layers[i] = Layers[j]
      PROVE  i = j
  BY <1>2 DEF Layers
<1>3. \A n \in 1 .. 7 : Depth(Layers[n]) = n
  BY <1>1, <1>2
<1>4. /\ Layers[1] = "server_error" /\ Layers[2] = "metrics" /\ Layers[4] = "rate_limit"
      /\ Layers[6] = "exception_handlers" /\ Layers[7] = "router"
  BY DEF Layers
<1>5. QED
  BY <1>3, <1>4

\* What happens inside of the metrics is counted as it is answered: an error that
\* passes them is answered by a layer that knows no status but 500.
LEMMA CountedInside ==
    ASSUME NEW layer \in {"rate_limit", "router"}, NEW outcome, NEW status
    PROVE  CountedStatus(layer, outcome, status) = StatusOf(layer, outcome, status)
<1>1. ~(Depth(layer) < Depth("metrics"))
  BY DepthIs
<1>2. CASE outcome # "ok" /\ Depth(Answering(layer, outcome)) < Depth("metrics")
  <2>1. Answering(layer, outcome) # "exception_handlers"
    BY <1>2, DepthIs
  <2>2. QED
    BY <1>1, <1>2, <2>1 DEF CountedStatus, StatusOf
<1>3. CASE ~(outcome # "ok" /\ Depth(Answering(layer, outcome)) < Depth("metrics"))
  BY <1>1, <1>3 DEF CountedStatus
<1>4. QED
  BY <1>2, <1>3

\* Around the rate limit there is only the outermost layer to answer for an error.
LEMMA RateLimitIsUnhandled == Answering("rate_limit", "app_error") = "server_error"
<1> DEFINE catching == {i \in 1 .. Depth("rate_limit") - 1 : Catches(Layers[i], "app_error")}
<1>1. catching = {1}
  BY DepthIs DEF Catches, Layers
<1>2. Max({1}) = 1
  BY DEF Max
<1>3. Layers[1] = "server_error"
  BY DEF Layers
<1>4. QED
  BY <1>1, <1>2, <1>3 DEF Answering

\* The metrics count for every request the status its client was answered with
\* (MetricsMiddleware around RateLimitMiddleware and the exception handlers).
THEOREM AnswersAreCounted == Spec => []CountedAsAnswered
<1>1. Init => CountedAsAnswered
  BY DEF Init, CountedAsAnswered
<1>2. TypeOK /\ CountedAsAnswered /\ [Next]_vars => CountedAsAnswered'
  <2> SUFFICES ASSUME TypeOK, CountedAsAnswered, [Next]_vars PROVE CountedAsAnswered'
    OBVIOUS
  <2>1. ASSUME NEW r \in Requests, NEW layer \in {"rate_limit", "router"}, NEW outcome,
               NEW status, Respond(r, layer, outcome, status)
        PROVE  CountedAsAnswered'
    BY <2>1, CountedInside DEF Respond, CountedAsAnswered, TypeOK
  <2>2. ASSUME NEW r \in Requests, Arrive(r) PROVE CountedAsAnswered'
    BY <2>2 DEF Arrive, CountedAsAnswered, TypeOK
  <2>3. ASSUME NEW r \in Requests, Reject(r) \/ Handle(r) PROVE CountedAsAnswered'
    BY <2>1, <2>3 DEF Reject, Handle
  <2>4. CASE UNCHANGED <<answer, counted>>
    BY <2>4 DEF CountedAsAnswered
  <2>5. QED
    BY <2>2, <2>3, <2>4
       DEF Next, Proceed, Incr, Expire, FailOpen, Admit, Crash, WindowEnds, RedisRestart,
           StartOver, vars, reqVars
<1>3. QED
  BY <1>1, <1>2, TypesHold, PTL DEF Spec

\* The status of RateLimitExceededError never reaches a client: whoever is over the
\* limit is answered like one that met an unexpected error.
THEOREM RejectionsAnswered500 ==
    Spec => [][\A r \in Requests : Reject(r) => answer'[r] = 500]_vars
<1>1. TypeOK /\ [Next]_vars => [\A r \in Requests : Reject(r) => answer'[r] = 500]_vars
  BY RateLimitIsUnhandled DEF Reject, Respond, StatusOf, TypeOK
<1>2. QED
  BY <1>1, TypesHold, PTL DEF Spec

(***************************************************************************)
(* Counters that stay.                                                     *)
(***************************************************************************)

\* A step without a fault leaves no counter behind that nobody will give an expiry.
LEMMA StuckStep ==
    ASSUME TypeOK, [Next]_vars, ~Stuck, Stuck'
    PROVE  RedisRestart \/ \E r \in Requests : FailOpen(r) \/ Crash(r)
<1>1. count' > 0 /\ ~armed' /\ \A r \in Requests : pc'[r] # "arming"
  BY DEF Stuck
<1>2. ASSUME NEW r \in Requests, Incr(r) PROVE FALSE
  <2>1. /\ pc[r] = "incrementing" /\ count' = Increased /\ armed' = armed
        /\ pc' = [pc EXCEPT ![r] = IF Increased = 1 THEN "arming" ELSE "deciding"]
    BY <1>2 DEF Incr, Goto
  <2>2. Increased # 1
    BY <1>1, <2>1 DEF TypeOK
  <2>3. count > 0 /\ ~armed
    BY <1>1, <2>1, <2>2, RateLimiterAssumption DEF Increased, TypeOK
  <2>4. PICK q \in Requests : pc[q] = "arming"
    BY <2>3 DEF Stuck
  <2>5. pc'[q] = "arming"
    BY <2>1, <2>4 DEF TypeOK
  <2>6. QED
    BY <1>1, <2>5
<1>3. ASSUME NEW r \in Requests, Expire(r) PROVE FALSE
  BY <1>1, <1>3 DEF Expire
<1>4. ASSUME NEW r \in Requests, Arrive(r) \/ Admit(r) \/ Reject(r) \/ Handle(r)
      PROVE  FALSE
  <2>1. /\ count' = count /\ armed' = armed /\ pc[r] # "arming"
        /\ \A q \in Requests \ {r} : pc'[q] = pc[q]
    BY <1>4 DEF Arrive, Admit, Reject, Handle, Respond, Goto, TypeOK
  <2>2. QED
    BY <1>1, <2>1 DEF Stuck
<1>5. CASE WindowEnds
  BY <1>1, <1>5 DEF WindowEnds
<1>6. CASE UNCHANGED vars
  BY <1>1, <1>6 DEF vars, reqVars, Stuck
<1>7. QED
  BY <1>2, <1>3, <1>4, <1>5, <1>6 DEF Next, Proceed

\* A counter without an expiry, which nobody is about to give it, is left behind by
\* nothing but a fault between INCR and EXPIRE (RateLimitMiddleware.dispatch).
THEOREM CountersStayByFaults == Spec => StuckByFaults
<1>1. TypeOK /\ [Next]_vars
        => [~Stuck /\ Stuck' =>
               RedisRestart \/ \E r \in Requests : FailOpen(r) \/ Crash(r)]_vars
  BY StuckStep
<1>2. QED
  BY <1>1, TypesHold, PTL DEF Spec, StuckByFaults

=============================================================================
