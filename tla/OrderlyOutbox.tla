--------------------------- MODULE OrderlyOutbox -----------------------------
(***************************************************************************)
(* OutboxWorker with a history variable: was every step so far orderly?    *)
(* The order in which claim_pending and the loop of process_outbox_once    *)
(* mean to publish is kept under that condition only.                      *)
(***************************************************************************)
EXTENDS OutboxWorker

VARIABLE orderly

\* A step after which rows have been committed in created_at order, at most one
\* worker has a batch, no attempt has failed and no row is stranded.
Orderly ==
    /\ \A e, f \in Events :
          CreatedAt[e] < CreatedAt[f] /\ status'[f] # status[f] => status[e] # "absent"
    /\ \A v, w \in Workers : batch'[v] # {} /\ batch'[w] # {} => v = w
    /\ attempts' = attempts
    /\ \A e \in Events : ~Stranded(e)'

OInit == Init /\ orderly = TRUE
ONext == Next /\ orderly' = (orderly /\ Orderly)
OSpec == OInit /\ [][ONext]_<<vars, orderly>>
FairOSpec == OSpec /\ Fairness

PublishedInOrder ==
    \A e, f \in Events :
        CreatedAt[e] < CreatedAt[f] /\ accepted[f] > 0 => accepted[e] > 0

\* As long as rows are committed in created_at order and one worker at a time has
\* a batch whose attempts all succeed, the broker gets the events in that order
\* (ORDER BY created_at in claim_pending, the loop in process_outbox_once).
OrderKept == orderly => PublishedInOrder

=============================================================================
