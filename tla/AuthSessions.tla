---------------------------- MODULE AuthSessions ----------------------------
(***************************************************************************)
(* Refresh sessions: login, refresh with rotation, logout, logout          *)
(* everywhere and the revocation of one session, as concurrent requests    *)
(* over the table refresh_sessions (src/src/auth/service.py and            *)
(* src/src/auth/repository.py).                                            *)
(*                                                                         *)
(* Every request is one transaction under PostgreSQL's READ COMMITTED: a   *)
(* statement sees the rows that are committed when it starts, an UPDATE    *)
(* waits for the row locks of others and tests its WHERE clause again on   *)
(* the row as it then is, and nobody sees a row before its commit.         *)
(***************************************************************************)
EXTENDS Naturals, FiniteSets

CONSTANTS
    Users,
    Sessions,   \* refresh tokens (jti) and their rows
    Requests,   \* requests the API serves at the same time
    Altered,    \* may the text of a presented token differ from the stored hash's?
    Nobody,     \* no user
    NoSession,
    Surprises   \* what happens besides requests: "failure", "expiry", "deactivation"

ASSUME SessionsAssumption ==
    /\ IsFiniteSet(Sessions)
    /\ Altered \subseteq BOOLEAN /\ Altered # {}
    /\ NoSession \notin Sessions
    /\ Nobody \notin Users

VARIABLES
    active,     \* User.is_active
    status,     \* of a row: "absent", "live" (revoked_at is NULL) or "revoked"
    user,       \* RefreshSession.user_id
    family,     \* RefreshSession.family_id, named by the token of the login
    successor,  \* RefreshSession.replaced_by_jti
    expired,    \* expires_at, which is also the exp of the token, has passed
    pc, op,     \* where each request is and which one it is
    who,        \* the user a login or logout-all is for
    token,      \* the session a request is about
    kills,      \* rows its transaction has set revoked_at of
    todo,       \* rows its UPDATE has still to visit
    seen        \* rows committed when that UPDATE began (not a program variable)

rowVars == <<status, user, family, successor>>
reqVars == <<pc, op, who, token, kills, todo, seen>>
vars == <<active, rowVars, expired, reqVars>>

Ops == {"none", "login", "refresh", "logout", "logout_all", "revoke_session"}
Locations == {"idle", "locking", "checking", "revoking", "updating",
              "flushing", "committing", "issuing"}

TypeOK ==
    /\ active \in [Users -> BOOLEAN]
    /\ status \in [Sessions -> {"absent", "live", "revoked"}]
    /\ user \in [Sessions -> Users \cup {Nobody}]
    /\ family \in [Sessions -> Sessions \cup {NoSession}]
    /\ successor \in [Sessions -> Sessions \cup {NoSession}]
    /\ expired \in [Sessions -> BOOLEAN]
    /\ pc \in [Requests -> Locations]
    /\ op \in [Requests -> Ops]
    /\ who \in [Requests -> Users \cup {Nobody}]
    /\ token \in [Requests -> Sessions \cup {NoSession}]
    /\ kills \in [Requests -> SUBSET Sessions]
    /\ todo \in [Requests -> SUBSET Sessions]
    /\ seen \in [Requests -> SUBSET Sessions]
    /\ \A r \in Requests : pc[r] = "idle" => kills[r] = {}

Init ==
    /\ active = [u \in Users |-> TRUE]
    /\ status = [s \in Sessions |-> "absent"]
    /\ user = [s \in Sessions |-> Nobody]
    /\ family = [s \in Sessions |-> NoSession]
    /\ successor = [s \in Sessions |-> NoSession]
    /\ expired = [s \in Sessions |-> FALSE]
    /\ pc = [r \in Requests |-> "idle"]
    /\ op = [r \in Requests |-> "none"]
    /\ who = [r \in Requests |-> Nobody]
    /\ token = [r \in Requests |-> NoSession]
    /\ kills = [r \in Requests |-> {}]
    /\ todo = [r \in Requests |-> {}]
    /\ seen = [r \in Requests |-> {}]

Committed == {s \in Sessions : status[s] # "absent"}

\* Mutant: get_by_jti_for_update without FOR UPDATE.
HeldWithoutForUpdate(r) == kills[r]

\* Rows a transaction has locked: those it wrote, and for a refresh the one it
\* selected FOR UPDATE.
Held(r) ==
    kills[r] \cup
        {s \in {token[r]} : op[r] = "refresh" /\ pc[r] \notin {"idle", "locking"}}

Free(r, s) == \A q \in Requests \ {r} : s \notin Held(q)

Goto(r, from, to) == pc[r] = from /\ pc' = [pc EXCEPT ![r] = to]

\* A request begins: its first statements find what the guards of the action say.
Begin(r, name, s, u, to) ==
    /\ Goto(r, "idle", to)
    /\ op' = [op EXCEPT ![r] = name]
    /\ token' = [token EXCEPT ![r] = s]
    /\ who' = [who EXCEPT ![r] = u]
    /\ UNCHANGED <<active, rowVars, expired, kills, todo, seen>>

\* Mutant: the connection of a finished request is not given back.
FinishLeaking(r) ==
    /\ pc' = [pc EXCEPT ![r] = "idle"]
    /\ op' = [op EXCEPT ![r] = "none"]
    /\ who' = [who EXCEPT ![r] = Nobody]
    /\ token' = [token EXCEPT ![r] = NoSession]
    /\ todo' = [todo EXCEPT ![r] = {}]
    /\ seen' = [seen EXCEPT ![r] = {}]
    /\ UNCHANGED kills

\* The transaction ends, its locks are released and the session is closed.
Finish(r) ==
    /\ pc' = [pc EXCEPT ![r] = "idle"]
    /\ op' = [op EXCEPT ![r] = "none"]
    /\ who' = [who EXCEPT ![r] = Nobody]
    /\ token' = [token EXCEPT ![r] = NoSession]
    /\ kills' = [kills EXCEPT ![r] = {}]
    /\ todo' = [todo EXCEPT ![r] = {}]
    /\ seen' = [seen EXCEPT ![r] = {}]

\* BOUND: a request that may issue a token begins only while Sessions lasts.
Spare ==
    Cardinality({q \in Requests : op[q] \in {"login", "refresh"}})
        < Cardinality(Sessions \ Committed)

(***************************************************************************)
(* Requests begin.  A client holds the tokens of committed rows: it gets   *)
(* an answer only after the commit.  decode_token turns expired ones away. *)
(***************************************************************************)

\* A refresh token whose row exists and whose exp has not passed.
Decodes(s) == s \in Committed /\ ~expired[s]

\* The caller has an access token and is active; get_current_user commits what it
\* read, so the service starts a transaction of its own.
CurrentUser(u) == active[u]

\* The password is right and the user active; the new row is added.
Login(r, u) ==
    /\ Spare
    /\ active[u]
    /\ Begin(r, "login", NoSession, u, "issuing")

Refresh(r, s) ==
    /\ Spare
    /\ Decodes(s)
    /\ Begin(r, "refresh", s, Nobody, "locking")

\* The row is read without a lock; one that is revoked already is left alone.
Logout(r, s) ==
    /\ Decodes(s)
    /\ \E altered \in Altered :
          /\ altered \/ status[s] = "live"
          /\ Begin(r, "logout", s, Nobody, IF altered THEN "revoking" ELSE "flushing")

LogoutAll(r, u) ==
    /\ CurrentUser(u)
    /\ Begin(r, "logout_all", NoSession, u, "revoking")

\* DELETE /sessions/{id}: again read without a lock.
RevokeSession(r, s) ==
    /\ status[s] = "live"
    /\ CurrentUser(user[s])
    /\ Begin(r, "revoke_session", s, Nobody, "flushing")

(***************************************************************************)
(* Refresh.                                                                *)
(***************************************************************************)

\* Mutant: a revoked session is not looked for.
LockSessionUnchecked(r) ==
    LET s == token[r] IN
    /\ pc[r] = "locking"
    /\ Free(r, s)
    /\ \/ ~expired[s] /\ FALSE \in Altered /\ Goto(r, "locking", "checking")
       \/ ~expired[s] /\ TRUE \in Altered /\ Goto(r, "locking", "revoking")
       \/ expired[s] /\ Goto(r, "locking", "committing")
    /\ kills' = [kills EXCEPT ![r] = IF expired[s] THEN {s} ELSE {}]
    /\ UNCHANGED <<active, rowVars, expired, op, who, token, todo, seen>>

\* SELECT ... FOR UPDATE, then the checks in the order of the code: a revoked
\* token is a reuse, an expired one is revoked alone, one with another hash
\* revokes the family.
LockSession(r) ==
    LET s == token[r]
        usable == status[s] = "live" /\ ~expired[s]
        late == status[s] = "live" /\ expired[s]
    IN  /\ Free(r, s)
        /\ \E altered \in Altered :
              Goto(r, "locking", IF usable /\ ~altered THEN "checking"
                                 ELSE IF late THEN "committing" ELSE "revoking")
        /\ kills' = [kills EXCEPT ![r] = IF late THEN {s} ELSE {}]
        /\ UNCHANGED <<active, rowVars, expired, op, who, token, todo, seen>>

\* The user is read; an active one gets a new pair and the old row is revoked.
CheckUser(r) ==
    LET ok == active[user[token[r]]] IN
    /\ Goto(r, "checking", IF ok THEN "issuing" ELSE "revoking")
    /\ kills' = [kills EXCEPT ![r] = IF ok THEN {token[r]} ELSE {}]
    /\ UNCHANGED <<active, rowVars, expired, op, who, token, todo, seen>>

(***************************************************************************)
(* Revocation.                                                             *)
(***************************************************************************)

\* Mutant: only the presented session is revoked.
InScopeOne(r, s) ==
    IF op[r] = "logout_all" THEN user[s] = who[r] ELSE s = token[r]

\* The WHERE clauses of revoke_all_for_user and revoke_family.
InScope(r, s) ==
    IF op[r] = "logout_all" THEN user[s] = who[r] ELSE family[s] = family[token[r]]

\* The UPDATE takes its snapshot.
BeginUpdate(r) ==
    /\ Goto(r, "revoking", "updating")
    /\ todo' = [todo EXCEPT ![r] =
                  {s \in Sessions : status[s] = "live" /\ InScope(r, s)}]
    /\ seen' = [seen EXCEPT ![r] = Committed]
    /\ UNCHANGED <<active, rowVars, expired, op, who, token, kills>>

\* It visits the rows one by one, in an order that is the planner's choice, waits
\* for each lock and skips a row that is revoked by then.
UpdateRow(r) ==
    /\ pc[r] = "updating"
    /\ \E s \in todo[r] :
          /\ Free(r, s)
          /\ todo' = [todo EXCEPT ![r] = @ \ {s}]
          /\ kills' = [kills EXCEPT ![r] = @ \cup {t \in {s} : status[t] = "live"}]
    /\ UNCHANGED <<active, rowVars, expired, pc, op, who, token, seen>>

EndUpdate(r) ==
    /\ todo[r] = {}
    /\ Goto(r, "updating", "committing")
    /\ UNCHANGED <<active, rowVars, expired, op, who, token, kills, todo, seen>>

\* The ORM writes the changed row of logout or revoke_session by its key, at the
\* commit: it waits for the lock but tests nothing again.
FlushRow(r) ==
    /\ Free(r, token[r])
    /\ Goto(r, "flushing", "committing")
    /\ kills' = [kills EXCEPT ![r] = {token[r]}]
    /\ UNCHANGED <<active, rowVars, expired, op, who, token, todo, seen>>

(***************************************************************************)
(* The end of a transaction.                                               *)
(***************************************************************************)

Commit(r) ==
    /\ pc[r] = "committing"
    /\ status' = [s \in Sessions |-> IF s \in kills[r] THEN "revoked" ELSE status[s]]
    /\ Finish(r)
    /\ UNCHANGED <<active, user, family, successor, expired>>

\* A login starts a family, an exchanged token passes its own on.
NewRow(r, t) ==
    LET old == token[r] IN
    /\ user' = [user EXCEPT ![t] = IF op[r] = "login" THEN who[r] ELSE user[old]]
    /\ family' = [family EXCEPT ![t] = IF op[r] = "login" THEN t ELSE family[old]]

\* Mutant: the exchanged session is not revoked.
CommitIssueKeepsOld(r) ==
    /\ pc[r] = "issuing"
    /\ \E t \in Sessions \ Committed :
          LET old == token[r] IN
          /\ status' = [status EXCEPT ![t] = "live"]
          /\ NewRow(r, t)
          /\ successor' = [s \in Sessions |-> IF s = old THEN t ELSE successor[s]]
    /\ Finish(r)
    /\ UNCHANGED <<active, expired>>

\* A new pair: the row inserted by _issue_token_pair becomes visible together
\* with what happened to the old one.
CommitIssue(r) ==
    /\ pc[r] = "issuing"
    /\ \E t \in Sessions \ Committed :
          LET old == token[r] IN
          /\ status' = [s \in Sessions |-> IF s = t THEN "live"
                                           ELSE IF s \in kills[r] THEN "revoked"
                                           ELSE status[s]]
          /\ NewRow(r, t)
          /\ successor' = [s \in Sessions |-> IF s = old THEN t ELSE successor[s]]
    /\ Finish(r)
    /\ UNCHANGED <<active, expired>>

\* A statement or the commit fails: everything is rolled back.
Abort(r) ==
    /\ "failure" \in Surprises
    /\ pc[r] # "idle"
    /\ Finish(r)
    /\ UNCHANGED <<active, rowVars, expired>>

\* Rows a request needs next.
Wanted(r) ==
    CASE pc[r] \in {"locking", "flushing"} -> {token[r]}
      [] pc[r] = "updating" -> todo[r]
      [] OTHER -> {}

\* Requests each of which waits for rows that others of them hold.
Deadlocked(R) ==
    \A r \in R :
        /\ Wanted(r) # {}
        /\ \A s \in Wanted(r) : \E q \in R \ {r} : s \in Held(q)

\* PostgreSQL finds the cycle and fails one of its transactions.
DeadlockVictim(r) ==
    /\ \E R \in SUBSET Requests : r \in R /\ Deadlocked(R)
    /\ Finish(r)
    /\ UNCHANGED <<active, rowVars, expired>>

(***************************************************************************)
(* The clock, and the flag is_active, which the code reads but which only  *)
(* an administrator's SQL or the demo seed writes after registration.      *)
(***************************************************************************)

Expire(s) ==
    /\ "expiry" \in Surprises
    /\ s \in Committed
    /\ ~expired[s]
    /\ expired' = [expired EXCEPT ![s] = TRUE]
    /\ UNCHANGED <<active, rowVars, reqVars>>

SetActive(u) ==
    /\ "deactivation" \in Surprises
    /\ active' = [active EXCEPT ![u] = ~@]
    /\ UNCHANGED <<rowVars, expired, reqVars>>

Start(r) ==
    \/ \E u \in Users : Login(r, u) \/ LogoutAll(r, u)
    \/ \E s \in Sessions : Refresh(r, s) \/ Logout(r, s) \/ RevokeSession(r, s)

Acquire(r) == LockSession(r) \/ UpdateRow(r) \/ FlushRow(r)

Proceed(r) ==
    \/ Acquire(r) \/ CheckUser(r) \/ BeginUpdate(r) \/ EndUpdate(r)
    \/ Commit(r) \/ CommitIssue(r) \/ DeadlockVictim(r)

Next ==
    \/ \E r \in Requests : Start(r) \/ Proceed(r) \/ Abort(r)
    \/ \E s \in Sessions : Expire(s)
    \/ \E u \in Users : SetActive(u)

Spec == Init /\ [][Next]_vars

(***************************************************************************)
(* Properties.                                                             *)
(***************************************************************************)

\* Of the tokens that descend from one login at most one can be exchanged: two
\* refreshes of one token never both succeed (get_by_jti_for_update).
SingleLive ==
    \A s, t \in Sessions :
        status[s] = "live" /\ status[t] = "live" /\ family[s] = family[t] => s = t

\* The table records how a family grew: a token that did not come from a login is
\* the successor of one revoked token of its family, and no token was exchanged
\* twice (the second exchange would overwrite replaced_by_jti).
ChainRecorded ==
    \A s \in Committed :
        LET before == {t \in Sessions : successor[t] = s}
        IN  IF family[s] = s THEN before = {}
            ELSE \E t \in Committed :
                    /\ before = {t}
                    /\ status[t] = "revoked"
                    /\ family[t] = family[s]

\* What the revocation of a family or of all sessions does promise: when its
\* transaction commits, every session in its scope that was committed when its
\* UPDATE began is revoked, whoever had it locked meanwhile.
RevocationCoversSnapshot ==
    \A r \in Requests :
        pc[r] = "committing" =>
            \A s \in seen[r] :
                (IF op[r] = "logout_all" THEN user[s] = who[r]
                 ELSE family[s] = family[token[r]])
                    => status[s] = "revoked" \/ s \in kills[r]

\* Rotation as the abstract specification states it: one head per family, every
\* exchange moves the head, a family that lost its head stays closed.
Unopened == "unopened"
Closed == "closed"

Head(f) ==
    LET members == {s \in Committed : family[s] = f}
        usable == {s \in members : status[s] = "live"}
    IN  IF members = {} THEN Unopened
        ELSE IF usable = {} THEN Closed ELSE CHOOSE s \in usable : TRUE

Families == INSTANCE TokenFamilies
                WITH head <- [f \in Sessions |-> Head(f)], issued <- Committed

RotationIsSafe == Families!ASpec

\* What Proceed(r) asks of the state.
MayProceed(r) ==
    \/ pc[r] \in {"locking", "flushing"} /\ Free(r, token[r])
    \/ pc[r] \in {"checking", "revoking", "committing"}
    \/ pc[r] = "updating" /\ (todo[r] = {} \/ \E s \in todo[r] : Free(r, s))
    \/ pc[r] = "issuing" /\ Committed # Sessions
    \/ \E R \in SUBSET Requests : r \in R /\ Deadlocked(R)

NobodyWaitsForAll ==
    (\E r \in Requests : pc[r] # "idle") => \E r \in Requests : MayProceed(r)

\* While a request is open, one of them can go on, so that all are answered: a row
\* is held only until its transaction ends, and the circles of two UPDATEs that visit
\* the same rows in different orders are broken by PostgreSQL.
SomeoneProceeds ==
    /\ NobodyWaitsForAll
    /\ \A r \in Requests : MayProceed(r) <=> ENABLED Proceed(r)

=============================================================================
