-------------------------- MODULE ConnectedConsumer --------------------------
(***************************************************************************)
(* The webhook worker with a history variable: whether the process and its *)
(* connection have held so far.  While they do, handle_retry neither       *)
(* multiplies nor loses a message.                                         *)
(***************************************************************************)
EXTENDS WebhookConsumer

VARIABLE connected

\* A step that may leave both a message and its copy on the next rung, or neither
\* of them acknowledged.
Disconnection ==
    \/ \E w \in Workers : ConnectionLost(w) \/ Crash(w)
    \/ \E h \in Handlers : RetryFails(h)

CInit == Init /\ connected = TRUE
CNext == Next /\ connected' = (connected /\ ~Disconnection)
CSpec == CInit /\ [][CNext]_<<vars, connected>>

\* The copies of e in a queue, and the handlers that have yet to deal with theirs.
InQueue(q, e) == UNION {{r} \X (1 .. q[e][r]) : r \in Levels}

Handling(e) ==
    {h \in Handlers : job[h].live /\ job[h].event = e /\ job[h].at # "acking"}

\* Copies of e that nobody has dealt with yet, and those in the dead-letter queue.
Outstanding(e) ==
    Cardinality(InQueue(ready, e)) + Cardinality(InQueue(parked, e)) + dlq[e]
    + Cardinality(Handling(e))

RetriesConserveCopies ==
    \A e \in Events :
        /\ Outstanding(e) <= sent[e]
        /\ e \notin processed => Outstanding(e) = sent[e]

\* As long as the worker and its connection hold, failing transactions move a message
\* up the retry ladder and into the dead-letter queue: they neither multiply it nor
\* lose it (handle_retry publishes one copy and acknowledges one message), and only
\* the copies of a processed event disappear.
RetriesConserve == connected => RetriesConserveCopies

=============================================================================
