---------------------------- MODULE RateLimiter -----------------------------
(***************************************************************************)
(* The rate limit of one client and path: a counter in Redis that every    *)
(* request increments and that the first one gives an expiry               *)
(* (src/src/infrastructure/rate_limit.py), and the way the request and its *)
(* answer take through the middleware.                                     *)
(*                                                                         *)
(* INCR and EXPIRE are two commands under one timeout.  When Redis fails   *)
(* or is too slow the request is served without a limit; the command may   *)
(* have been executed all the same.                                        *)
(***************************************************************************)
EXTENDS HttpStack, FiniteSets

CONSTANTS
    Requests,  \* requests the API serves at the same time
    Limit,     \* settings.rate_limit_requests
    Faults     \* of "redis", "crash" and "restart"

ASSUME RateLimiterAssumption == Limit \in Nat \ {0} /\ IsFiniteSet(Requests)

VARIABLES
    count,     \* value of the key, 0 when there is none; BOUND: Limit + 1 stands for
               \* everything above the limit
    armed,     \* the key has an expiry
    pc,
    current,   \* what INCR returned
    late,      \* the key it incremented is gone (not a program variable)
    admitted,  \* requests admitted since the key appeared or Redis restarted (not a
               \* program variable)
    answer,    \* status of the last response, 0 before
    counted    \* status the metrics counted for it

reqVars == <<pc, current, late, answer, counted>>
vars == <<count, armed, admitted, reqVars>>

\* The status an AppError of the application has.
DomainStatus == 404
RateLimitStatus == 429

TypeOK ==
    /\ count \in 0 .. Limit + 1
    /\ armed \in BOOLEAN
    /\ admitted \in Nat
    /\ pc \in [Requests -> {"idle", "incrementing", "arming", "deciding", "handling"}]
    /\ current \in [Requests -> 0 .. Limit + 1]
    /\ late \in [Requests -> BOOLEAN]
    /\ answer \in [Requests -> {0, 200, DomainStatus, RateLimitStatus, 500}]
    /\ counted \in [Requests -> {0, 200, DomainStatus, RateLimitStatus, 500}]
    /\ armed => count > 0

Init ==
    /\ count = 0
    /\ armed = FALSE
    /\ admitted = 0
    /\ pc = [r \in Requests |-> "idle"]
    /\ current = [r \in Requests |-> 0]
    /\ late = [r \in Requests |-> FALSE]
    /\ answer = [r \in Requests |-> 0]
    /\ counted = [r \in Requests |-> 0]

Goto(r, from, to) == pc[r] = from /\ pc' = [pc EXCEPT ![r] = to]

\* Health checks are not limited.  GET /metrics, neither limited nor counted, is left
\* out.
Arrive(r) ==
    /\ \/ Goto(r, "idle", "incrementing")
       \/ Goto(r, "idle", "handling")
    /\ current' = [current EXCEPT ![r] = 0]
    /\ answer' = [answer EXCEPT ![r] = 0]
    /\ counted' = [counted EXCEPT ![r] = 0]
    /\ UNCHANGED <<count, armed, admitted, late>>

Increased == IF count > Limit THEN count ELSE count + 1

\* Mutant: the expiry is set when the limit is reached.
IncrArmingLate(r) ==
    /\ Goto(r, "incrementing", IF Increased = Limit THEN "arming" ELSE "deciding")
    /\ count' = Increased
    /\ current' = [current EXCEPT ![r] = Increased]
    /\ late' = [late EXCEPT ![r] = FALSE]
    /\ UNCHANGED <<armed, admitted, answer, counted>>

\* Mutant: the counter is written by SET, which takes the expiry away until the
\* EXPIRE of the same request.
IncrRenewing(r) ==
    /\ Goto(r, "incrementing", "arming")
    /\ count' = Increased
    /\ armed' = FALSE
    /\ current' = [current EXCEPT ![r] = Increased]
    /\ late' = [late EXCEPT ![r] = FALSE]
    /\ UNCHANGED <<admitted, answer, counted>>

Incr(r) ==
    /\ Goto(r, "incrementing", IF Increased = 1 THEN "arming" ELSE "deciding")
    /\ count' = Increased
    /\ current' = [current EXCEPT ![r] = Increased]
    /\ late' = [late EXCEPT ![r] = FALSE]
    /\ UNCHANGED <<armed, admitted, answer, counted>>

\* EXPIRE does nothing to a key that is gone.
Expire(r) ==
    /\ Goto(r, "arming", "deciding")
    /\ armed' = (count > 0)
    /\ UNCHANGED <<count, admitted, current, late, answer, counted>>

\* RedisError, RuntimeError or TimeoutError: the request is let through, whether
\* the command it waited for was executed or not.
FailOpen(r) ==
    /\ "redis" \in Faults
    /\ pc[r] \in {"incrementing", "arming"}
    /\ pc' = [pc EXCEPT ![r] = "handling"]
    /\ \E executed \in BOOLEAN :
          /\ count' = IF executed /\ pc[r] = "incrementing" THEN Increased ELSE count
          /\ armed' = IF executed /\ pc[r] = "arming" THEN count > 0 ELSE armed
    /\ UNCHANGED <<admitted, current, late, answer, counted>>

\* Mutant: the limit is one request too high.
ExceedsByOne(r) == current[r] > Limit + 1

Exceeds(r) == current[r] > Limit

Admit(r) ==
    /\ ~Exceeds(r)
    /\ Goto(r, "deciding", "handling")
    /\ admitted' = IF late[r] THEN admitted ELSE admitted + 1
    /\ UNCHANGED <<count, armed, current, late, answer, counted>>

\* The exchange ends with what the layers make of the outcome of one of them.
Respond(r, layer, outcome, status) ==
    /\ pc' = [pc EXCEPT ![r] = "idle"]
    /\ answer' = [answer EXCEPT ![r] = StatusOf(layer, outcome, status)]
    /\ counted' = [counted EXCEPT ![r] = CountedStatus(layer, outcome, status)]
    /\ UNCHANGED <<count, armed, admitted, current, late>>

\* RateLimitExceededError, raised by the middleware itself.
Reject(r) ==
    /\ pc[r] = "deciding"
    /\ Exceeds(r)
    /\ Respond(r, "rate_limit", "app_error", RateLimitStatus)

Handle(r) ==
    /\ pc[r] = "handling"
    /\ \E outcome \in Outcomes : Respond(r, "router", outcome, DomainStatus)

\* The open requests have incremented another key than the next ones will.
StartOver ==
    /\ admitted' = 0
    /\ late' = [r \in Requests |-> pc[r] # "idle"]
    /\ UNCHANGED <<pc, current, answer, counted>>

\* The key vanishes at the end of its window.
WindowEnds ==
    /\ armed
    /\ count' = 0
    /\ armed' = FALSE
    /\ StartOver

\* Redis runs with appendonly: a restart may lose the commands of the last second.
RedisRestart ==
    /\ "restart" \in Faults
    /\ count' \in 0 .. count
    /\ armed' \in {FALSE, armed /\ count' > 0}
    /\ StartOver

\* The process that serves the request is killed.
Crash(r) ==
    /\ "crash" \in Faults
    /\ pc[r] # "idle"
    /\ pc' = [pc EXCEPT ![r] = "idle"]
    /\ UNCHANGED <<count, armed, admitted, current, late, answer, counted>>

Proceed(r) ==
    Incr(r) \/ Expire(r) \/ FailOpen(r) \/ Admit(r) \/ Reject(r) \/ Handle(r)

Next ==
    \/ \E r \in Requests : Arrive(r) \/ Proceed(r) \/ Crash(r)
    \/ WindowEnds
    \/ RedisRestart

Spec == Init /\ [][Next]_vars

\* Requests are served on, and Redis deletes keys whose time is over.
FairSpec == Spec /\ WF_vars(WindowEnds) /\ \A r \in Requests : WF_vars(Proceed(r))

(***************************************************************************)
(* Properties.                                                             *)
(***************************************************************************)

\* While Redis answers, no more than Limit requests are admitted from the time the
\* key appears until it vanishes or loses increments in a restart of Redis, however
\* many arrive together.
WithinLimit == admitted <= Limit

\* The counter has no expiry and nobody is about to give it one: every request from
\* now on finds a value above 1 and leaves it so.
Stuck == count > 0 /\ ~armed /\ \A r \in Requests : pc[r] # "arming"

\* Only a fault between INCR and EXPIRE, of Redis or of the process, leaves a client
\* with a counter that stays, however requests and the ends of windows interleave.
StuckByFaults ==
    [][~Stuck /\ Stuck' =>
          RedisRestart \/ \E r \in Requests : FailOpen(r) \/ Crash(r)]_vars

\* Any other counter goes away: a client over the limit is not turned away for ever,
\* also when Redis is slow or fails.
WindowsEnd == count > 0 ~> count = 0 \/ Stuck

\* The metrics count for each request the status its client was answered with.
CountedAsAnswered == \A r \in Requests : counted[r] = answer[r]

\* RateLimitExceededError.status_code: a client over the limit is answered 429.
RejectedWith429 ==
    [][\A r \in Requests : Reject(r) => answer'[r] = RateLimitStatus]_vars

=============================================================================
