--------------------------- MODULE EventDelivery ---------------------------
(***************************************************************************)
(* What the webhook worker promises the subscribers of an event, whatever  *)
(* number of copies, handlers and processes it takes: a subscription may   *)
(* be told of an event more than once, but only while the event is not     *)
(* settled; an event is settled once, with one delivery row for each       *)
(* subscription; and it is settled for all subscriptions or, when its task *)
(* is gone, for none.  WebhookConsumer implements this specification.      *)
(***************************************************************************)
EXTENDS Naturals

CONSTANTS
    Events,      \* events that may be published
    Hooks,       \* webhook subscriptions
    Tasks,       \* tasks the events are about
    Deletions,   \* events that report the deletion of their task
    Subject,     \* Subject[e]: the task e is about
    Subscribers, \* Subscribers[e]: the subscriptions e is for
    Unreachable  \* subscriptions no request can be made to

VARIABLES
    tasks,      \* tasks that exist
    offered,    \* events the worker was given
    told,       \* told[e][k]: requests made to k for e
    passed,     \* pairs <<e, k>> passed over
    settled,    \* events that count as processed
    recorded    \* recorded[e][k]: delivery rows

dvars == <<tasks, offered, told, passed, settled, recorded>>

DInit ==
    /\ tasks = Tasks
    /\ offered = {} /\ passed = {} /\ settled = {}
    /\ told = [e \in Events |-> [k \in Hooks |-> 0]]
    /\ recorded = told

\* The deletion of a task is reported when it is gone.
Offer(e) ==
    /\ e \in Deletions => Subject[e] \notin tasks
    /\ offered' = offered \cup {e}
    /\ UNCHANGED <<tasks, told, passed, settled, recorded>>

RemoveTask(t) ==
    /\ t \in tasks
    /\ tasks' = tasks \ {t}
    /\ UNCHANGED <<offered, told, passed, settled, recorded>>

\* An event that is being delivered: nobody is ever told of a deletion.
Open(e, k) ==
    /\ e \in (offered \ settled) \ Deletions
    /\ k \in Subscribers[e]

Tell(e, k) ==
    /\ Open(e, k)
    /\ k \notin Unreachable
    /\ told' = [told EXCEPT ![e][k] = @ + 1]
    /\ UNCHANGED <<tasks, offered, passed, settled, recorded>>

Pass(e, k) ==
    /\ Open(e, k)
    /\ passed' = passed \cup {<<e, k>>}
    /\ UNCHANGED <<tasks, offered, told, settled, recorded>>

\* The delivery rows R of e appear together with the row that settles it.
Settle(e, R) ==
    /\ e \in offered \ settled
    /\ \A k \in R : k \in Subscribers[e] /\ told[e][k] > 0
    /\ \/ \A k \in Subscribers[e] : k \in R \/ <<e, k>> \in passed
       \/ R = {} /\ Subject[e] \notin tasks
    /\ settled' = settled \cup {e}
    /\ recorded' = [recorded EXCEPT ![e] = [k \in Hooks |-> IF k \in R THEN 1 ELSE 0]]
    /\ UNCHANGED <<tasks, offered, told, passed>>

DNext ==
    \/ \E e \in Events : Offer(e)
    \/ \E t \in Tasks : RemoveTask(t)
    \/ \E e \in Events, k \in Hooks : Tell(e, k) \/ Pass(e, k)
    \/ \E e \in Events, R \in SUBSET Hooks : Settle(e, R)

DSpec == DInit /\ [][DNext]_dvars

=============================================================================
