--------------------------- MODULE GuessedVersions ---------------------------
(***************************************************************************)
(* TaskService with a history variable: has a client named a version       *)
(* nobody had been told of yet?  What update_task promises only to clients *)
(* that do not is stated here.                                             *)
(***************************************************************************)
EXTENDS TaskService

VARIABLE guessed

Guess(r) == pc[r] = "idle" /\ req'[r].kind = "update" /\ req'[r].sent > version

GInit == Init /\ guessed = FALSE
GNext == Next /\ guessed' = (guessed \/ \E r \in Requests : Guess(r))
GSpec == GInit /\ [][GNext]_<<vars, guessed>>

\* The history of a task is unbroken (see UnbrokenHistory) as long as clients name
\* versions they were told of.  After a guess it need not be: update_task reads
\* old_status before its UPDATE compares the version.
HistoryIsChain == ~guessed => UnbrokenHistory

\* The outbox publishes by created_at, which is now() of the transaction and not
\* the time of its commit.  The two orders agree (see CreatedInOrder) because an
\* update only succeeds if it began after the version it names was committed,
\* which a guess makes false.
CreatedAtFollowsVersions == ~guessed => CreatedInOrder

=============================================================================
