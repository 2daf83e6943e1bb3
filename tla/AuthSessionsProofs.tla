------------------------- MODULE AuthSessionsProofs -------------------------
(***************************************************************************)
(* For any number of users, tokens and concurrent requests: a family of    *)
(* refresh tokens never has two that can be exchanged.  The invariant says *)
(* why: no row is locked by two transactions, so the token a refresh has   *)
(* locked stays as the refresh has found it until its commit, and a family *)
(* is named by a token that was issued before.                             *)
(***************************************************************************)
EXTENDS AuthSessions, FiniteSetTheorems, TLAPS

\* A row lock has one holder.
LocksAreExclusive ==
    \A r, q \in Requests : r # q => Held(r) \cap Held(q) = {}

\* What a request that stands at a place has done before.
Refreshes ==
    \A r \in Requests :
        /\ kills[r] \subseteq Committed
        /\ pc[r] = "locking" => op[r] = "refresh" /\ token[r] \in Committed
        /\ pc[r] = "flushing" => op[r] # "refresh" /\ token[r] \in Committed
        /\ pc[r] = "checking" => op[r] = "refresh" /\ token[r] \in Committed
        /\ pc[r] = "issuing" => op[r] \in {"login", "refresh"}
        /\ pc[r] = "issuing" /\ op[r] = "login" => kills[r] = {} /\ token[r] = NoSession
        /\ pc[r] = "issuing" /\ op[r] = "refresh" =>
               kills[r] = {token[r]} /\ token[r] \in Committed

\* The token a refresh goes on to exchange is live.
ExchangedIsLive ==
    \A r \in Requests :
        pc[r] \in {"checking", "issuing"} /\ op[r] = "refresh" =>
            status[token[r]] = "live"

\* A family is named by a token of its own.
FamilyIsIssued == \A s \in Committed : family[s] \in Committed

IInv ==
    TypeOK /\ LocksAreExclusive /\ Refreshes /\ ExchangedIsLive /\ FamilyIsIssued
        /\ SingleLive

-----------------------------------------------------------------------------

LEMMA InitIInv == Init => IInv
<1> SUFFICES ASSUME Init PROVE IInv
  OBVIOUS
<1>1. TypeOK /\ Refreshes /\ ExchangedIsLive /\ FamilyIsIssued /\ SingleLive
  BY DEF Init, TypeOK, Refreshes, ExchangedIsLive, FamilyIsIssued, SingleLive, Committed,
         Locations, Ops
<1>2. \A r \in Requests : Held(r) = {}
  BY DEF Init, Held
<1>3. QED
  BY <1>1, <1>2 DEF IInv, LocksAreExclusive

\* A step of one request keeps the locks exclusive when it locks only what is free.
LEMMA LocksStayExclusive ==
    ASSUME LocksAreExclusive, NEW r \in Requests,
           \A q \in Requests \ {r} : Held(q)' = Held(q),
           \A s \in Held(r)' : s \in Held(r) \/ Free(r, s)
    PROVE  LocksAreExclusive'
BY DEF LocksAreExclusive, Free

\* The rows other requests hold do not depend on what a request does.
LEMMA OthersKeepLocks ==
    ASSUME NEW q \in Requests,
           pc'[q] = pc[q], op'[q] = op[q], token'[q] = token[q], kills'[q] = kills[q]
    PROVE  Held(q)' = Held(q)
BY DEF Held

-----------------------------------------------------------------------------

LEMMA BeginIInv ==
    ASSUME IInv, NEW r \in Requests, Start(r) PROVE IInv'
<1>1. PICK name \in Ops, s \in Sessions \cup {NoSession}, u \in Users \cup {Nobody},
           to \in {"locking", "revoking", "flushing", "issuing"} :
        /\ Begin(r, name, s, u, to)
        /\ to = "locking" => name = "refresh" /\ s \in Committed
        /\ to = "flushing" => name # "refresh" /\ s \in Committed
        /\ to = "issuing" => name = "login" /\ s = NoSession
        /\ to = "revoking" => name # "refresh"
  <2>1. CASE \E u \in Users : Login(r, u) \/ LogoutAll(r, u)
    BY <2>1 DEF Login, LogoutAll, Ops
  <2>2. CASE \E s \in Sessions : Refresh(r, s) \/ Logout(r, s) \/ RevokeSession(r, s)
    BY <2>2 DEF Refresh, Logout, RevokeSession, Ops, Decodes, Committed
  <2>3. QED
    BY <2>1, <2>2 DEF Start
<1>2. /\ pc[r] = "idle" /\ pc' = [pc EXCEPT ![r] = to]
      /\ op' = [op EXCEPT ![r] = name]
      /\ token' = [token EXCEPT ![r] = s]
      /\ who' = [who EXCEPT ![r] = u]
      /\ UNCHANGED <<active, status, user, family, successor, expired, kills, todo, seen>>
  BY <1>1 DEF Begin, Goto, rowVars
<1>3. kills[r] = {}
  BY <1>2 DEF IInv, TypeOK
<1>4. TypeOK'
  BY <1>2, <1>3 DEF IInv, TypeOK, Locations
<1>5. LocksAreExclusive'
  <2>1. Held(r)' = {}
    BY <1>1, <1>2, <1>3 DEF Held, IInv, TypeOK
  <2>2. \A q \in Requests \ {r} : Held(q)' = Held(q)
    BY <1>2, OthersKeepLocks DEF IInv, TypeOK
  <2>3. QED
    BY <2>1, <2>2, LocksStayExclusive DEF IInv
<1>6. Refreshes' /\ ExchangedIsLive'
  BY <1>1, <1>2 DEF IInv, TypeOK, Refreshes, ExchangedIsLive, Committed
<1>7. FamilyIsIssued' /\ SingleLive'
  BY <1>2 DEF IInv, FamilyIsIssued, SingleLive, Committed
<1>8. QED
  BY <1>4, <1>5, <1>6, <1>7 DEF IInv

\* The steps inside a transaction.
LEMMA InsideIInv ==
    ASSUME IInv, NEW r \in Requests,
           Acquire(r) \/ CheckUser(r) \/ BeginUpdate(r) \/ EndUpdate(r)
    PROVE  IInv'
<1>1. /\ \A q \in Requests \ {r} : pc'[q] = pc[q] /\ kills'[q] = kills[q]
      /\ UNCHANGED <<active, status, user, family, successor, expired, op, who, token>>
  BY DEF Acquire, LockSession, UpdateRow, FlushRow, CheckUser, BeginUpdate, EndUpdate,
         Goto, rowVars, IInv, TypeOK
<1>2. /\ pc[r] \notin {"idle", "issuing"}
      /\ pc' \in [Requests -> Locations] /\ pc'[r] \notin {"idle", "locking", "flushing"}
      /\ kills' \in [Requests -> SUBSET Sessions]
      /\ todo' \in [Requests -> SUBSET Sessions]
      /\ seen' \in [Requests -> SUBSET Sessions]
  <2>1. CASE LockSession(r)
    BY <2>1 DEF LockSession, Goto, IInv, TypeOK, Locations, Refreshes, Committed
  <2>2. CASE UpdateRow(r)
    BY <2>2 DEF UpdateRow, Goto, IInv, TypeOK, Locations
  <2>3. CASE FlushRow(r)
    BY <2>3 DEF FlushRow, Goto, IInv, TypeOK, Locations, Refreshes, Committed
  <2>4. CASE CheckUser(r)
    BY <2>4 DEF CheckUser, Goto, IInv, TypeOK, Locations, Refreshes, Committed
  <2>5. CASE BeginUpdate(r) \/ EndUpdate(r)
    BY <2>5 DEF BeginUpdate, EndUpdate, Goto, IInv, TypeOK, Locations, Committed
  <2>6. QED
    BY <2>1, <2>2, <2>3, <2>4, <2>5 DEF Acquire
<1>3. TypeOK'
  BY <1>1, <1>2 DEF IInv, TypeOK
<1>4. LocksAreExclusive'
  <2>1. \A s \in Held(r)' : s \in Held(r) \/ Free(r, s)
    <3>1. CASE LockSession(r)
      BY <3>1 DEF LockSession, Goto, IInv, TypeOK, Held
    <3>2. CASE UpdateRow(r)
      BY <3>2 DEF UpdateRow, IInv, TypeOK, Held
    <3>3. CASE FlushRow(r)
      BY <3>3 DEF FlushRow, Goto, IInv, TypeOK, Held, Refreshes
    <3>4. CASE CheckUser(r)
      BY <3>4 DEF CheckUser, Goto, IInv, TypeOK, Held, Refreshes
    <3>5. CASE BeginUpdate(r) \/ EndUpdate(r)
      BY <3>5 DEF BeginUpdate, EndUpdate, Goto, IInv, TypeOK, Held
    <3>6. QED
      BY <3>1, <3>2, <3>3, <3>4, <3>5 DEF Acquire
  <2>2. \A q \in Requests \ {r} : Held(q)' = Held(q)
    BY <1>1, OthersKeepLocks
  <2>3. QED
    BY <2>1, <2>2, LocksStayExclusive DEF IInv
<1>5. /\ pc'[r] = "checking" =>
             op[r] = "refresh" /\ token[r] \in Committed /\ status[token[r]] = "live"
      /\ pc'[r] = "issuing" => /\ op[r] = "refresh" /\ kills'[r] = {token[r]}
                               /\ token[r] \in Committed /\ status[token[r]] = "live"
  <2>1. CASE LockSession(r)
    BY <2>1 DEF LockSession, Goto, IInv, TypeOK, Refreshes, Committed
  <2>2. CASE CheckUser(r)
    BY <2>2 DEF CheckUser, Goto, IInv, TypeOK, Refreshes, ExchangedIsLive, Committed
  <2>3. CASE UpdateRow(r) \/ FlushRow(r) \/ BeginUpdate(r) \/ EndUpdate(r)
    BY <2>3 DEF UpdateRow, FlushRow, BeginUpdate, EndUpdate, Goto, IInv, TypeOK
  <2>4. QED
    BY <2>1, <2>2, <2>3 DEF Acquire
<1>6. kills'[r] \subseteq Committed
  <2>1. CASE LockSession(r) \/ CheckUser(r)
    BY <2>1 DEF LockSession, CheckUser, Goto, IInv, TypeOK, Refreshes
  <2>2. CASE FlushRow(r)
    BY <2>2 DEF FlushRow, Goto, IInv, TypeOK, Refreshes
  <2>3. CASE UpdateRow(r)
    BY <2>3 DEF UpdateRow, IInv, TypeOK, Refreshes, Committed
  <2>4. CASE BeginUpdate(r) \/ EndUpdate(r)
    BY <2>4 DEF BeginUpdate, EndUpdate, IInv, Refreshes
  <2>5. QED
    BY <2>1, <2>2, <2>3, <2>4 DEF Acquire
<1>7. Committed' = Committed
  BY <1>1 DEF Committed
<1>8. Refreshes'
  BY <1>1, <1>2, <1>5, <1>6, <1>7 DEF IInv, Refreshes
<1>9. ExchangedIsLive'
  BY <1>1, <1>5 DEF IInv, ExchangedIsLive
<1>10. FamilyIsIssued' /\ SingleLive'
  BY <1>1, <1>7 DEF IInv, FamilyIsIssued, SingleLive
<1>11. QED
  BY <1>3, <1>4, <1>8, <1>9, <1>10 DEF IInv

\* The parts of the invariant that the end of a transaction leaves to its locks.
LEMMA FinishIInv ==
    ASSUME IInv, NEW r \in Requests, Finish(r),
           \A s \in Sessions : status[s] # "absent" => status'[s] # "absent",
           \A s \in Sessions :
               status[s] = "live" /\ s \notin kills[r] => status'[s] = "live"
    PROVE  LocksAreExclusive' /\ Refreshes' /\ ExchangedIsLive'
<1>1. \A q \in Requests \ {r} : /\ pc'[q] = pc[q] /\ op'[q] = op[q]
                                /\ token'[q] = token[q] /\ kills'[q] = kills[q]
  BY DEF Finish, IInv, TypeOK
<1>2. pc'[r] = "idle" /\ kills'[r] = {}
  BY DEF Finish, IInv, TypeOK
<1>3. LocksAreExclusive'
  <2>1. Held(r)' = {}
    BY <1>2 DEF Held
  <2>2. \A q \in Requests \ {r} : Held(q)' = Held(q)
    BY <1>1, OthersKeepLocks
  <2>3. QED
    BY <2>1, <2>2, LocksStayExclusive DEF IInv
<1>4. Refreshes'
  BY <1>1, <1>2 DEF IInv, Refreshes, Committed
<1>5. ASSUME NEW q \in Requests, pc'[q] \in {"checking", "issuing"}, op'[q] = "refresh"
      PROVE  status'[token'[q]] = "live"
  <2>1. q # r
    BY <1>2, <1>5
  <2>2. /\ pc[q] \in {"checking", "issuing"} /\ op[q] = "refresh"
        /\ token'[q] = token[q]
    BY <2>1, <1>1, <1>5
  <2>3. token[q] \in Sessions /\ status[token[q]] = "live"
    BY <2>2 DEF IInv, Refreshes, ExchangedIsLive, Committed
  <2>4. token[q] \in Held(q) /\ kills[r] \subseteq Held(r)
    BY <2>2 DEF Held
  <2>5. token[q] \notin kills[r]
    BY <2>1, <2>4 DEF IInv, LocksAreExclusive
  <2>6. QED
    BY <2>2, <2>3, <2>5
<1>6. QED
  BY <1>3, <1>4, <1>5 DEF ExchangedIsLive

LEMMA FinishType ==
    ASSUME TypeOK, NEW r \in Requests, Finish(r)
    PROVE  /\ pc' \in [Requests -> Locations]
           /\ op' \in [Requests -> Ops]
           /\ who' \in [Requests -> Users \cup {Nobody}]
           /\ token' \in [Requests -> Sessions \cup {NoSession}]
           /\ kills' \in [Requests -> SUBSET Sessions]
           /\ todo' \in [Requests -> SUBSET Sessions]
           /\ seen' \in [Requests -> SUBSET Sessions]
           /\ \A q \in Requests : pc'[q] = "idle" => kills'[q] = {}
<1>1. /\ pc' \in [Requests -> Locations] /\ op' \in [Requests -> Ops]
      /\ who' \in [Requests -> Users \cup {Nobody}]
      /\ token' \in [Requests -> Sessions \cup {NoSession}]
  BY DEF Finish, TypeOK, Locations, Ops
<1>2. /\ kills' \in [Requests -> SUBSET Sessions]
      /\ todo' \in [Requests -> SUBSET Sessions]
      /\ seen' \in [Requests -> SUBSET Sessions]
  BY DEF Finish, TypeOK
<1>3. \A q \in Requests : pc'[q] = "idle" => kills'[q] = {}
  BY DEF Finish, TypeOK
<1>4. QED
  BY <1>1, <1>2, <1>3

LEMMA CommitIInv ==
    ASSUME IInv, NEW r \in Requests, Commit(r) PROVE IInv'
<1>1. /\ Finish(r)
      /\ status' = [s \in Sessions |-> IF s \in kills[r] THEN "revoked" ELSE status[s]]
      /\ UNCHANGED <<active, user, family, successor, expired>>
  BY DEF Commit
<1>2. TypeOK'
  <2>1. status' \in [Sessions -> {"absent", "live", "revoked"}]
    BY <1>1 DEF IInv, TypeOK
  <2>2. QED
    BY <1>1, <2>1, FinishType DEF IInv, TypeOK
<1>3. LocksAreExclusive' /\ Refreshes' /\ ExchangedIsLive'
  BY <1>1, FinishIInv
<1>4. SingleLive'
  BY <1>1 DEF IInv, SingleLive
<1>5. FamilyIsIssued'
  <2>1. Committed' = Committed
    BY <1>1 DEF Committed, IInv, Refreshes
  <2>2. QED
    BY <1>1, <2>1 DEF IInv, FamilyIsIssued
<1>6. QED
  BY <1>2, <1>3, <1>4, <1>5 DEF IInv

LEMMA CommitIssueIInv ==
    ASSUME IInv, NEW r \in Requests, CommitIssue(r) PROVE IInv'
<1>1. PICK t \in Sessions \ Committed :
        /\ status' = [s \in Sessions |-> IF s = t THEN "live"
                                         ELSE IF s \in kills[r] THEN "revoked"
                                         ELSE status[s]]
        /\ NewRow(r, t)
        /\ successor' = [s \in Sessions |-> IF s = token[r] THEN t ELSE successor[s]]
  BY DEF CommitIssue
<1>2. /\ Finish(r) /\ pc[r] = "issuing" /\ op[r] \in {"login", "refresh"}
      /\ UNCHANGED <<active, expired>>
  BY DEF CommitIssue, IInv, Refreshes
<1>3. op[r] = "refresh" => /\ kills[r] = {token[r]} /\ token[r] \in Committed
                           /\ status[token[r]] = "live"
  BY <1>2 DEF IInv, Refreshes, ExchangedIsLive
<1>4. /\ status' \in [Sessions -> {"absent", "live", "revoked"}]
      /\ successor' \in [Sessions -> Sessions \cup {NoSession}]
  BY <1>1 DEF IInv, TypeOK
<1>5. /\ user' \in [Sessions -> Users \cup {Nobody}]
      /\ family' \in [Sessions -> Sessions \cup {NoSession}]
  BY <1>1, <1>2, <1>3 DEF NewRow, IInv, TypeOK, Committed
<1>6. TypeOK'
  BY <1>2, <1>4, <1>5, FinishType DEF IInv, TypeOK
<1>7. LocksAreExclusive' /\ Refreshes' /\ ExchangedIsLive'
  BY <1>1, <1>2, FinishIInv DEF Committed
<1>8. Committed' = Committed \cup {t}
  BY <1>1 DEF Committed, IInv, Refreshes
<1>9. /\ \A s \in Sessions \ {t} : family'[s] = family[s]
      /\ family'[t] = IF op[r] = "login" THEN t ELSE family[token[r]]
  BY <1>1 DEF NewRow, IInv, TypeOK
<1>10. FamilyIsIssued'
  BY <1>2, <1>3, <1>8, <1>9 DEF IInv, FamilyIsIssued, Committed
<1>11. ASSUME NEW s \in Sessions, s # t, status'[s] = "live"
       PROVE  family'[s] # family'[t]
  <2>1. status[s] = "live" /\ s \notin kills[r] /\ family'[s] = family[s]
    BY <1>1, <1>9, <1>11
  <2>2. family[s] \in Committed
    BY <2>1 DEF IInv, FamilyIsIssued, Committed
  <2>3. CASE op[r] = "login"
    BY <1>9, <2>1, <2>2, <2>3
  <2>4. CASE op[r] = "refresh"
    <3>1. s # token[r] /\ token[r] \in Sessions
      BY <1>3, <2>1, <2>4 DEF Committed
    <3>2. QED
      BY <1>3, <1>9, <2>1, <2>4, <3>1 DEF IInv, SingleLive
  <2>5. QED
    BY <1>2, <2>3, <2>4
<1>12. SingleLive'
  <2>1. \A s \in Sessions \ {t} : status'[s] = "live" => status[s] = "live"
    BY <1>1
  <2>2. QED
    BY <1>9, <1>11, <2>1 DEF IInv, SingleLive
<1>13. QED
  BY <1>6, <1>7, <1>10, <1>12 DEF IInv

LEMMA RollbackIInv ==
    ASSUME IInv, NEW r \in Requests, Abort(r) \/ DeadlockVictim(r) PROVE IInv'
<1>1. Finish(r) /\ UNCHANGED <<active, status, user, family, successor, expired>>
  BY DEF Abort, DeadlockVictim, rowVars
<1>2. TypeOK'
  BY <1>1, FinishType DEF IInv, TypeOK
<1>3. LocksAreExclusive' /\ Refreshes' /\ ExchangedIsLive'
  BY <1>1, FinishIInv
<1>4. FamilyIsIssued' /\ SingleLive'
  BY <1>1 DEF IInv, FamilyIsIssued, SingleLive, Committed
<1>5. QED
  BY <1>2, <1>3, <1>4 DEF IInv

\* Only the clock, the flag is_active, or nothing.
LEMMA OutsideIInv ==
    ASSUME IInv, UNCHANGED <<rowVars, reqVars>>,
           active' \in [Users -> BOOLEAN], expired' \in [Sessions -> BOOLEAN]
    PROVE  IInv'
<1>1. /\ status' = status /\ user' = user /\ family' = family /\ successor' = successor
      /\ pc' = pc /\ op' = op /\ who' = who /\ token' = token
      /\ kills' = kills /\ todo' = todo /\ seen' = seen
  BY DEF rowVars, reqVars
<1>2. TypeOK'
  BY <1>1 DEF IInv, TypeOK
<1>3. LocksAreExclusive'
  BY <1>1 DEF IInv, LocksAreExclusive, Held
<1>4. Refreshes' /\ ExchangedIsLive' /\ FamilyIsIssued' /\ SingleLive'
  BY <1>1 DEF IInv, Refreshes, ExchangedIsLive, FamilyIsIssued, SingleLive, Committed
<1>5. QED
  BY <1>2, <1>3, <1>4 DEF IInv

LEMMA NextIInv == IInv /\ [Next]_vars => IInv'
<1> SUFFICES ASSUME IInv, [Next]_vars PROVE IInv'
  OBVIOUS
<1>1. ASSUME NEW r \in Requests, Start(r) \/ Proceed(r) \/ Abort(r) PROVE IInv'
  BY <1>1, BeginIInv, InsideIInv, CommitIInv, CommitIssueIInv, RollbackIInv DEF Proceed
<1>2. ASSUME NEW s \in Sessions, Expire(s) PROVE IInv'
  BY <1>2, OutsideIInv DEF Expire, IInv, TypeOK
<1>3. ASSUME NEW u \in Users, SetActive(u) PROVE IInv'
  BY <1>3, OutsideIInv DEF SetActive, IInv, TypeOK
<1>4. CASE UNCHANGED vars
  BY <1>4, OutsideIInv DEF vars, IInv, TypeOK
<1>5. QED
  BY <1>1, <1>2, <1>3, <1>4 DEF Next

\* The inductive invariant holds in every reachable state.
THEOREM IInvHolds == Spec => []IInv
<1>1. QED
  BY InitIInv, NextIInv, PTL DEF Spec

\* Every state of the sessions and of the requests is one the code can describe.
THEOREM TypesHold == Spec => []TypeOK
<1>1. IInv => TypeOK
  BY DEF IInv
<1>2. QED
  BY <1>1, IInvHolds, PTL

\* Two refreshes of one token never both succeed, and whatever else happens to a
\* family meanwhile, it never has two tokens that can be exchanged (the row lock of
\* get_by_jti_for_update).
THEOREM FamilyHasOneToken == Spec => []SingleLive
<1>1. IInv => SingleLive
  BY DEF IInv
<1>2. QED
  BY <1>1, IInvHolds, PTL

-----------------------------------------------------------------------------
(***************************************************************************)
(* Revocation.  Rows that are visible stay visible, with their user and    *)
(* family, and a revoked one stays revoked; so what an UPDATE has skipped  *)
(* need not be looked at again.                                            *)
(***************************************************************************)

\* What an UPDATE has not visited yet, has revoked, or found revoked.
Covers ==
    \A r \in Requests :
        /\ pc[r] \in {"revoking", "updating", "committing"} =>
               op[r] = "logout_all" \/ token[r] \in Committed
        /\ pc[r] \in {"updating", "committing"} =>
               \A s \in seen[r] :
                   /\ s \in Committed
                   /\ InScope(r, s) => s \in todo[r] \cup kills[r] \/ status[s] = "revoked"
        /\ pc[r] = "committing" => todo[r] = {}
        /\ pc[r] \notin {"updating", "committing"} => seen[r] = {} /\ todo[r] = {}

\* Only a commit changes rows.
LEMMA StepsOnRows ==
    ASSUME [Next]_vars
    PROVE  (\E r \in Requests : Commit(r) \/ CommitIssue(r)) \/ UNCHANGED rowVars
<1>1. ASSUME NEW r \in Requests,
             \/ Start(r) \/ Acquire(r) \/ CheckUser(r) \/ BeginUpdate(r) \/ EndUpdate(r)
             \/ DeadlockVictim(r) \/ Abort(r)
      PROVE  UNCHANGED rowVars
  BY <1>1 DEF Start, Login, LogoutAll, Refresh, Logout, RevokeSession, Begin, Acquire,
              LockSession, UpdateRow, FlushRow, CheckUser, BeginUpdate, EndUpdate,
              DeadlockVictim, Abort
<1>2. ASSUME \/ \E s \in Sessions : Expire(s)
             \/ \E u \in Users : SetActive(u)
             \/ UNCHANGED vars
      PROVE  UNCHANGED rowVars
  BY <1>2 DEF Expire, SetActive, vars
<1>3. QED
  BY <1>1, <1>2 DEF Next, Proceed

\* Nothing a request knows of a visible row changes, but that it may be revoked.
LEMMA RowsStay ==
    ASSUME IInv, [Next]_vars
    PROVE  \A s \in Committed :
               /\ s \in Committed' /\ user'[s] = user[s] /\ family'[s] = family[s]
               /\ status[s] = "revoked" => status'[s] = "revoked"
<1>1. CASE UNCHANGED rowVars
  BY <1>1 DEF rowVars, Committed
<1>2. ASSUME NEW r \in Requests, Commit(r)
      PROVE  \A s \in Committed :
               /\ s \in Committed' /\ user'[s] = user[s] /\ family'[s] = family[s]
               /\ status[s] = "revoked" => status'[s] = "revoked"
  BY <1>2 DEF Commit, Committed
<1>3. ASSUME NEW r \in Requests, CommitIssue(r)
      PROVE  \A s \in Committed :
               /\ s \in Committed' /\ user'[s] = user[s] /\ family'[s] = family[s]
               /\ status[s] = "revoked" => status'[s] = "revoked"
  BY <1>3 DEF CommitIssue, NewRow, Committed, IInv, TypeOK
<1>4. QED
  BY <1>1, <1>2, <1>3, StepsOnRows

\* A request that takes no step keeps its share of the invariant.
LEMMA OthersCovered ==
    ASSUME IInv, Covers, [Next]_vars, NEW q \in Requests,
           pc'[q] = pc[q], op'[q] = op[q], token'[q] = token[q], who'[q] = who[q],
           kills'[q] = kills[q], todo'[q] = todo[q], seen'[q] = seen[q]
    PROVE  /\ pc'[q] \in {"revoking", "updating", "committing"} =>
                  op'[q] = "logout_all" \/ token'[q] \in Committed'
           /\ pc'[q] \in {"updating", "committing"} =>
                  \A s \in seen'[q] :
                      /\ s \in Committed'
                      /\ InScope(q, s)' =>
                             s \in todo'[q] \cup kills'[q] \/ status'[s] = "revoked"
           /\ pc'[q] = "committing" => todo'[q] = {}
           /\ pc'[q] \notin {"updating", "committing"} => seen'[q] = {} /\ todo'[q] = {}
<1>1. ASSUME pc[q] \in {"updating", "committing"}, NEW s \in seen[q]
      PROVE  InScope(q, s)' <=> InScope(q, s)
  BY <1>1, RowsStay DEF Covers, InScope
<1>2. QED
  BY <1>1, RowsStay DEF Covers

LEMMA NextCovers == IInv /\ Covers /\ [Next]_vars => Covers'
<1> SUFFICES ASSUME IInv, Covers, [Next]_vars, NEW r \in Requests
             PROVE
               /\ pc'[r] \in {"revoking", "updating", "committing"} =>
                      op'[r] = "logout_all" \/ token'[r] \in Committed'
               /\ pc'[r] \in {"updating", "committing"} =>
                      \A s \in seen'[r] :
                          /\ s \in Committed'
                          /\ InScope(r, s)' =>
                                 s \in todo'[r] \cup kills'[r] \/ status'[s] = "revoked"
               /\ pc'[r] = "committing" => todo'[r] = {}
               /\ pc'[r] \notin {"updating", "committing"} => seen'[r] = {} /\ todo'[r] = {}
  BY DEF Covers
<1> DEFINE Same == /\ pc'[r] = pc[r] /\ op'[r] = op[r] /\ token'[r] = token[r]
                   /\ who'[r] = who[r] /\ kills'[r] = kills[r] /\ todo'[r] = todo[r]
                   /\ seen'[r] = seen[r]
<1>1. CASE Same
  BY <1>1, OthersCovered
<1>2. CASE Finish(r)
  BY <1>2 DEF Finish, IInv, TypeOK
<1>3. CASE Start(r)
  <2>1. \/ \E u \in Users : Login(r, u)
        \/ \E s \in Committed : Refresh(r, s) \/ Logout(r, s) \/ RevokeSession(r, s)
        \/ \E u \in Users : LogoutAll(r, u)
    BY <1>3 DEF Start, Refresh, Logout, RevokeSession, Decodes, Committed
  <2>2. pc[r] = "idle" /\ seen'[r] = seen[r] /\ todo'[r] = todo[r] /\ Committed' = Committed
        /\ pc'[r] \in {"locking", "revoking", "flushing", "issuing"}
    BY <1>3 DEF Start, Login, LogoutAll, Refresh, Logout, RevokeSession, Begin, Goto,
                rowVars, Committed, IInv, TypeOK
  <2>3. pc'[r] = "revoking" => op'[r] = "logout_all" \/ token'[r] \in Committed
    BY <2>1 DEF Login, LogoutAll, Refresh, Logout, RevokeSession, Begin, Goto, IInv, TypeOK
  <2>4. QED
    BY <2>2, <2>3 DEF Covers
<1>4. CASE LockSession(r) \/ CheckUser(r) \/ FlushRow(r)
  <2>1. /\ pc[r] \in {"locking", "checking", "flushing"} /\ token[r] \in Committed
        /\ token' = token /\ seen' = seen /\ todo' = todo
    BY <1>4 DEF LockSession, CheckUser, FlushRow, Goto, IInv, Refreshes
  <2>2. QED
    BY <2>1, RowsStay DEF Covers
<1>5. CASE BeginUpdate(r)
  <2>1. /\ pc[r] = "revoking" /\ pc'[r] = "updating" /\ seen'[r] = Committed
        /\ todo'[r] = {s \in Sessions : status[s] = "live" /\ InScope(r, s)}
        /\ UNCHANGED <<status, user, family, op, who, token, kills>>
    BY <1>5 DEF BeginUpdate, Goto, rowVars, IInv, TypeOK
  <2>2. \A s \in Sessions : InScope(r, s)' <=> InScope(r, s)
    BY <2>1 DEF InScope
  <2>3. \A s \in Committed : s \in Sessions /\ status[s] \in {"live", "revoked"}
    BY DEF Committed, IInv, TypeOK
  <2>4. QED
    BY <2>1, <2>2, <2>3, RowsStay DEF Covers
<1>6. CASE UpdateRow(r)
  <2>1. PICK s \in todo[r] :
          /\ todo' = [todo EXCEPT ![r] = @ \ {s}]
          /\ kills' = [kills EXCEPT ![r] = @ \cup {t \in {s} : status[t] = "live"}]
    BY <1>6 DEF UpdateRow
  <2>2. /\ pc[r] = "updating"
        /\ UNCHANGED <<status, user, family, pc, op, who, token, seen>>
    BY <1>6 DEF UpdateRow, rowVars
  <2>3. /\ todo'[r] = todo[r] \ {s}
        /\ kills'[r] = kills[r] \cup {t \in {s} : status[t] = "live"}
    BY <2>1 DEF IInv, TypeOK
  <2>4. Committed' = Committed /\ \A t \in Sessions : InScope(r, t)' <=> InScope(r, t)
    BY <2>2 DEF Committed, InScope
  <2>5. \A t \in Committed : t \in Sessions /\ status[t] \in {"live", "revoked"}
    BY DEF Committed, IInv, TypeOK
  <2>6. QED
    BY <2>2, <2>3, <2>4, <2>5 DEF Covers
<1>7. CASE EndUpdate(r)
  <2>1. /\ pc[r] = "updating" /\ pc'[r] = "committing" /\ todo[r] = {}
        /\ UNCHANGED <<status, user, family, op, who, token, kills, todo, seen>>
    BY <1>7 DEF EndUpdate, Goto, rowVars, IInv, TypeOK
  <2>2. Committed' = Committed /\ \A t \in Sessions : InScope(r, t)' <=> InScope(r, t)
    BY <2>1 DEF Committed, InScope
  <2>3. \A t \in seen[r] : t \in Sessions
    BY <2>1 DEF Covers, Committed
  <2>4. QED
    BY <2>1, <2>2, <2>3 DEF Covers
<1>8. ASSUME NEW q \in Requests \ {r}, Start(q) \/ Proceed(q) \/ Abort(q)
      PROVE  Same
  BY <1>8 DEF Start, Login, LogoutAll, Refresh, Logout, RevokeSession, Begin, Goto,
              Proceed, Acquire, LockSession, UpdateRow, FlushRow, CheckUser, BeginUpdate,
              EndUpdate, Commit, CommitIssue, DeadlockVictim, Abort, Finish, IInv, TypeOK
<1>9. ASSUME \/ \E s \in Sessions : Expire(s)
             \/ \E u \in Users : SetActive(u)
             \/ UNCHANGED vars
      PROVE  Same
  BY <1>9 DEF Expire, SetActive, vars, reqVars
<1>10. CASE Commit(r) \/ CommitIssue(r) \/ DeadlockVictim(r) \/ Abort(r)
  BY <1>2, <1>10 DEF Commit, CommitIssue, DeadlockVictim, Abort
<1>11. QED
  BY <1>1, <1>3, <1>4, <1>5, <1>6, <1>7, <1>8, <1>9, <1>10 DEF Next, Proceed, Acquire

\* When the transaction of a revocation commits, no session that was committed when
\* its UPDATE began stays usable, whoever had it locked meanwhile (revoke_family,
\* revoke_all_for_user).
THEOREM RevocationReaches == Spec => []RevocationCoversSnapshot
<1>1. Init => Covers
  BY DEF Init, Covers
<1>2. Covers => RevocationCoversSnapshot
  BY DEF Covers, RevocationCoversSnapshot, InScope
<1>3. QED
  BY <1>1, <1>2, NextCovers, IInvHolds, PTL DEF Spec

-----------------------------------------------------------------------------
(***************************************************************************)
(* Rotation implements the abstract families: a login opens one, an        *)
(* exchange moves its head, a revocation closes those whose head it kills. *)
(***************************************************************************)

Members(f) == {s \in Committed : family[s] = f}
Usable(f) == {s \in Members(f) : status[s] = "live"}

\* The head of a family, by its tokens; and after a step.
LEMMA HeadIs ==
    ASSUME NEW f \in Sessions
    PROVE  Head(f) = IF Members(f) = {} THEN Unopened
                     ELSE IF Usable(f) = {} THEN Closed ELSE CHOOSE s \in Usable(f) : TRUE
BY DEF Head, Members, Usable

LEMMA NextHeadIs ==
    ASSUME NEW f \in Sessions
    PROVE  Head(f)' = IF Members(f)' = {} THEN Unopened
                      ELSE IF Usable(f)' = {} THEN Closed
                      ELSE CHOOSE s \in Usable(f)' : TRUE
BY DEF Head, Members, Usable

LEMMA HeadStays ==
    ASSUME NEW f \in Sessions, Members(f)' = Members(f), Usable(f)' = Usable(f)
    PROVE  Head(f)' = Head(f)
BY HeadIs, NextHeadIs

LEMMA UsableIsOne ==
    ASSUME IInv, NEW s \in Sessions, status[s] = "live"
    PROVE  Usable(family[s]) = {s}
BY DEF Usable, Members, Committed, IInv, SingleLive

LEMMA IssueRefines ==
    ASSUME IInv, NEW r \in Requests, CommitIssue(r)
    PROVE  \/ \E f \in Sessions : Families!Open(f)
           \/ \E f, t \in Sessions : Families!Rotate(f, t)
<1>1. PICK t \in Sessions \ Committed :
        /\ status' = [s \in Sessions |-> IF s = t THEN "live"
                                         ELSE IF s \in kills[r] THEN "revoked"
                                         ELSE status[s]]
        /\ NewRow(r, t)
  BY DEF CommitIssue
<1>2. /\ op[r] \in {"login", "refresh"}
      /\ op[r] = "refresh" => /\ kills[r] = {token[r]} /\ token[r] \in Committed
                              /\ status[token[r]] = "live"
      /\ op[r] = "login" => kills[r] = {}
  BY DEF CommitIssue, IInv, Refreshes, ExchangedIsLive
<1>3. /\ \A s \in Sessions \ {t} : family'[s] = family[s]
      /\ family'[t] = IF op[r] = "login" THEN t ELSE family[token[r]]
      /\ status'[t] = "live"
      /\ \A s \in Sessions \ (kills[r] \cup {t}) : status'[s] = status[s]
  BY <1>1 DEF NewRow, IInv, TypeOK
<1>4. Committed' = Committed \cup {t}
  BY <1>1 DEF Committed, IInv, Refreshes
<1>5. \A f \in Sessions : f # family'[t] => Members(f)' = Members(f)
  BY <1>3, <1>4 DEF Members, Committed
<1>6. CASE op[r] = "login"
  <2>1. Members(t) = {}
    BY DEF Members, IInv, FamilyIsIssued
  <2>2. Members(t)' = {t} /\ Usable(t)' = {t}
    BY <1>3, <1>4, <1>6, <2>1 DEF Members, Usable, Committed
  <2>3. Head(t) = Unopened /\ Head(t)' = t
    BY <2>1, <2>2, HeadIs, NextHeadIs
  <2>4. \A f \in Sessions : f # t => Usable(f)' = Usable(f)
    BY <1>2, <1>3, <1>5, <1>6 DEF Usable, Members, Committed
  <2>5. \A f \in Sessions : f # t => Head(f)' = Head(f)
    BY <1>3, <1>5, <1>6, <2>4, HeadStays
  <2>6. Families!Open(t)
    BY <1>4, <2>3, <2>5 DEF Families!Open
  <2>7. QED
    BY <2>6
<1>7. CASE op[r] = "refresh"
  <2>1. PICK old \in Committed :
            old = token[r] /\ status[old] = "live" /\ kills[r] = {old} /\ old \in Sessions
    BY <1>2, <1>7 DEF Committed
  <2>2. PICK g \in Sessions : g = family[old] /\ g \in Committed
    BY <2>1 DEF IInv, FamilyIsIssued, Committed
  <2>3. Usable(g) = {old} /\ old \in Members(g)
    BY <2>1, <2>2, UsableIsOne DEF Members
  <2>4. Head(g) = old
    BY <2>2, <2>3, HeadIs
  <2>5. /\ family'[t] = g /\ family'[old] = g /\ old # t
        /\ status'[old] = "revoked"
    BY <1>1, <1>3, <1>7, <2>1, <2>2
  <2>6. Usable(g)' = {t} /\ t \in Members(g)'
    BY <1>3, <1>4, <2>1, <2>3, <2>5 DEF Usable, Members, Committed
  <2>7. Head(g)' = t
    BY <2>2, <2>6, NextHeadIs
  <2>8. \A f \in Sessions : f # g => Usable(f)' = Usable(f)
    BY <1>3, <1>5, <2>1, <2>2, <2>5 DEF Usable, Members, Committed
  <2>9. \A f \in Sessions : f # g => Head(f)' = Head(f)
    BY <1>5, <2>5, <2>8, HeadStays
  <2>10. Families!Rotate(g, t)
    BY <1>4, <2>1, <2>2, <2>4, <2>7, <2>9 DEF Families!Rotate
  <2>11. QED
    BY <2>2, <2>10
<1>8. QED
  BY <1>2, <1>6, <1>7

LEMMA CommitRefines ==
    ASSUME IInv, NEW r \in Requests, Commit(r)
    PROVE  \E F \in SUBSET Sessions : Families!Close(F)
<1> DEFINE F == {f \in Sessions : Usable(f) \cap kills[r] # {}}
<1>1. /\ status' = [s \in Sessions |-> IF s \in kills[r] THEN "revoked" ELSE status[s]]
      /\ family' = family
  BY DEF Commit
<1>2. Committed' = Committed
  BY <1>1 DEF Committed, IInv, Refreshes
<1>3. \A f \in Sessions : /\ Members(f)' = Members(f)
                          /\ Usable(f)' = Usable(f) \ kills[r]
  BY <1>1, <1>2 DEF Members, Usable, Committed
<1>4. ASSUME NEW f \in F PROVE Head(f) \in Sessions /\ Head(f)' = Closed
  <2>1. PICK s \in Usable(f) : s \in kills[r]
    BY <1>4
  <2>2. /\ s \in Sessions /\ status[s] = "live" /\ family[s] = f /\ s \in Members(f)
        /\ f \in Sessions
    BY <1>4 DEF Usable, Members, Committed
  <2>3. Usable(f) = {s}
    BY <2>2, UsableIsOne
  <2>4. Usable(f)' = {} /\ Members(f)' # {}
    BY <1>3, <2>1, <2>2, <2>3
  <2>5. QED
    BY <2>2, <2>3, <2>4, HeadIs, NextHeadIs
<1>5. ASSUME NEW f \in Sessions \ F PROVE Head(f)' = Head(f)
  <2>1. Usable(f)' = Usable(f)
    BY <1>3, <1>5
  <2>2. QED
    BY <1>3, <1>5, <2>1, HeadStays
<1>6. Families!Close(F)
  BY <1>2, <1>4, <1>5 DEF Families!Close
<1>7. QED
  BY <1>6

\* A step that changes no row, nor the abstract state.
LEMMA StutterRefines ==
    ASSUME UNCHANGED rowVars PROVE UNCHANGED Families!avars
<1>1. Committed' = Committed
  BY DEF rowVars, Committed
<1>2. \A f \in Sessions : Members(f)' = Members(f) /\ Usable(f)' = Usable(f)
  BY <1>1 DEF rowVars, Members, Usable
<1>3. \A f \in Sessions : Head(f)' = Head(f)
  BY <1>2, HeadStays
<1>4. QED
  BY <1>1, <1>3 DEF Families!avars

\* Of the tokens of one login one is usable until the family is closed, an exchange
\* replaces it by one never issued before, and a closed family stays closed: whatever
\* the order in which refreshes, logouts and revocations lock and commit.
THEOREM SessionsImplementFamilies == Spec => RotationIsSafe
<1>1. Init => Families!AInit
  <2> SUFFICES ASSUME Init PROVE Families!AInit
    OBVIOUS
  <2>1. Committed = {} /\ \A f \in Sessions : Members(f) = {}
    BY DEF Init, Committed, Members
  <2>2. QED
    BY <2>1, HeadIs DEF Families!AInit
<1>2. IInv /\ [Next]_vars => [Families!ANext]_(Families!avars)
  <2> SUFFICES ASSUME IInv, [Next]_vars
               PROVE  [Families!ANext]_(Families!avars)
    OBVIOUS
  <2>1. ASSUME NEW r \in Requests, Commit(r) \/ CommitIssue(r)
        PROVE  Families!ANext
    BY <2>1, CommitRefines, IssueRefines DEF Families!ANext
  <2>2. (\E r \in Requests : Commit(r) \/ CommitIssue(r)) \/ UNCHANGED rowVars
    BY StepsOnRows
  <2>3. QED
    BY <2>1, <2>2, StutterRefines
<1>3. QED
  BY <1>1, <1>2, IInvHolds, PTL DEF Spec, RotationIsSafe, Families!ASpec

-----------------------------------------------------------------------------
(***************************************************************************)
(* How a family grew.  A token is given a successor when it is exchanged,  *)
(* and it cannot be exchanged again, nor can its successor be an old one.  *)
(***************************************************************************)

\* replaced_by_jti leads from one row of the table to another, and a session that
\* can still be exchanged has none yet.
Chained ==
    /\ \A t \in Sessions : successor[t] # NoSession =>
           successor[t] \in Committed /\ status[t] = "revoked"
    /\ ChainRecorded

LEMMA CommitChained ==
    ASSUME IInv, Chained, NEW r \in Requests, Commit(r) PROVE Chained'
<1>1. /\ status' = [s \in Sessions |-> IF s \in kills[r] THEN "revoked" ELSE status[s]]
      /\ UNCHANGED <<family, successor>>
  BY DEF Commit
<1>2. Committed' = Committed
  BY <1>1 DEF Committed, IInv, Refreshes
<1>3. \A t \in Sessions : status[t] = "revoked" => status'[t] = "revoked"
  BY <1>1
<1>4. \A t \in Sessions : successor[t] # NoSession =>
          successor[t] \in Committed' /\ status'[t] = "revoked"
  BY <1>2, <1>3 DEF Chained
<1>5. ASSUME NEW s \in Committed
      PROVE  LET before == {t \in Sessions : successor[t] = s}
             IN  IF family[s] = s THEN before = {}
                 ELSE \E t \in Committed :
                         /\ before = {t}
                         /\ status'[t] = "revoked"
                         /\ family[t] = family[s]
  BY <1>3, <1>5 DEF Chained, ChainRecorded, Committed
<1>6. QED
  BY <1>1, <1>2, <1>4, <1>5 DEF Chained, ChainRecorded

LEMMA IssueChained ==
    ASSUME IInv, Chained, NEW r \in Requests, CommitIssue(r) PROVE Chained'
<1> DEFINE old == token[r]
           Before(s) == {u \in Sessions : successor[u] = s}
<1>1. PICK t \in Sessions \ Committed :
        /\ status' = [s \in Sessions |-> IF s = t THEN "live"
                                         ELSE IF s \in kills[r] THEN "revoked"
                                         ELSE status[s]]
        /\ NewRow(r, t)
        /\ successor' = [s \in Sessions |-> IF s = old THEN t ELSE successor[s]]
  BY DEF CommitIssue
<1>2. /\ op[r] \in {"login", "refresh"}
      /\ op[r] = "refresh" => /\ kills[r] = {old} /\ old \in Committed
                              /\ status[old] = "live"
      /\ op[r] = "login" => kills[r] = {} /\ old \notin Sessions
  BY SessionsAssumption DEF CommitIssue, IInv, Refreshes, ExchangedIsLive, Committed
<1>3. /\ \A s \in Sessions \ {t} : family'[s] = family[s]
      /\ family'[t] = IF op[r] = "login" THEN t ELSE family[old]
  BY <1>1 DEF NewRow, IInv, TypeOK
<1>4. Committed' = Committed \cup {t}
  BY <1>1 DEF Committed, IInv, Refreshes
<1>5. \A u \in Sessions : status[u] = "revoked" => status'[u] = "revoked"
  BY <1>1 DEF Committed
<1>6. Before(t) = {} /\ t # NoSession
  BY SessionsAssumption DEF Chained
<1>7. \A u \in Sessions : successor'[u] # NoSession =>
          successor'[u] \in Committed' /\ status'[u] = "revoked"
  BY <1>1, <1>2, <1>4, <1>5 DEF Chained, Committed
<1>8. ASSUME NEW s \in Committed PROVE Before(s)' = Before(s)
  <2>1. s # t /\ s # NoSession
    BY SessionsAssumption DEF Committed
  <2>2. old \in Sessions => successor[old] = NoSession
    BY <1>2 DEF Chained
  <2>3. \A u \in Sessions : successor'[u] = s <=> successor[u] = s
    BY <1>1, <2>1, <2>2
  <2>4. QED
    BY <2>3
<1>9. ASSUME NEW s \in Committed
      PROVE  IF family'[s] = s THEN Before(s)' = {}
             ELSE \E u \in Committed' : /\ Before(s)' = {u}
                                        /\ status'[u] = "revoked"
                                        /\ family'[u] = family'[s]
  <2>1. IF family[s] = s THEN Before(s) = {}
        ELSE \E u \in Committed : /\ Before(s) = {u}
                                  /\ status[u] = "revoked"
                                  /\ family[u] = family[s]
    BY <1>9 DEF Chained, ChainRecorded
  <2>2. \A u \in Committed : u \in Sessions \ {t}
    BY DEF Committed
  <2>3. QED
    BY <1>3, <1>4, <1>5, <1>8, <2>1, <2>2
<1>10. IF family'[t] = t THEN Before(t)' = {}
       ELSE \E u \in Committed' : /\ Before(t)' = {u}
                                  /\ status'[u] = "revoked"
                                  /\ family'[u] = family'[t]
  <2>1. CASE op[r] = "login"
    BY <1>1, <1>2, <1>3, <1>6, <2>1 DEF Committed
  <2>2. CASE op[r] = "refresh"
    <3>1. old \in Sessions \ {t} /\ old \in Committed /\ status'[old] = "revoked"
      BY <1>1, <1>2, <2>2 DEF Committed
    <3>2. family'[t] = family[old] /\ family'[old] = family[old] /\ family[old] # t
      BY <1>2, <1>3, <2>2, <3>1 DEF IInv, FamilyIsIssued
    <3>3. Before(t)' = {old}
      BY <1>1, <1>6, <3>1
    <3>4. QED
      BY <1>4, <3>1, <3>2, <3>3
  <2>3. QED
    BY <1>2, <2>1, <2>2
<1>11. ChainRecorded'
  BY <1>4, <1>9, <1>10 DEF ChainRecorded
<1>12. QED
  BY <1>7, <1>11 DEF Chained

\* What replaced_by_jti says of a family is the truth: every token that did not come
\* from a login has exactly one predecessor, of its family and revoked, so no token
\* was exchanged twice (refresh_token_pair under get_by_jti_for_update).
THEOREM ExchangesAreRecorded == Spec => []ChainRecorded
<1>1. Init => Chained
  BY DEF Init, Chained, ChainRecorded, Committed
<1>2. IInv /\ Chained /\ [Next]_vars => Chained'
  <2> SUFFICES ASSUME IInv, Chained, [Next]_vars PROVE Chained'
    OBVIOUS
  <2>1. CASE UNCHANGED rowVars
    BY <2>1 DEF rowVars, Chained, ChainRecorded, Committed
  <2>2. QED
    BY <2>1, StepsOnRows, CommitChained, IssueChained
<1>3. Chained => ChainRecorded
  BY DEF Chained
<1>4. QED
  BY <1>1, <1>2, <1>3, IInvHolds, PTL DEF Spec

-----------------------------------------------------------------------------
(***************************************************************************)
(* No request waits for ever.  If none could go on, all that are open      *)
(* would wait for rows others of them hold, and PostgreSQL would have its  *)
(* victim.  An issuing request finds a token left (Room).                  *)
(***************************************************************************)

Issuers == {r \in Requests : op[r] \in {"login", "refresh"}}

Room ==
    IsFiniteSet(Issuers) /\ Cardinality(Issuers) <= Cardinality(Sessions \ Committed)

LEMMA TokensAreFinite ==
    IsFiniteSet(Sessions \ Committed) /\ Cardinality(Sessions \ Committed) \in Nat
<1>1. Sessions \ Committed \in SUBSET Sessions
  OBVIOUS
<1>2. QED
  BY <1>1, SessionsAssumption, FS_Subset, FS_CardinalityType

LEMMA FewerIssuers ==
    ASSUME Room, Issuers' \subseteq Issuers, Committed' = Committed PROVE Room'
<1>1. /\ IsFiniteSet(Issuers') /\ Cardinality(Issuers') <= Cardinality(Issuers)
      /\ Cardinality(Issuers) \in Nat /\ Cardinality(Issuers') \in Nat
  BY FS_Subset, FS_CardinalityType DEF Room
<1>2. QED
  BY <1>1, TokensAreFinite DEF Room

LEMMA StartRoom == ASSUME IInv, Room, NEW r \in Requests, Start(r) PROVE Room'
<1>1. Committed' = Committed /\ \A q \in Requests \ {r} : op'[q] = op[q]
  BY DEF Start, Login, LogoutAll, Refresh, Logout, RevokeSession, Begin, rowVars, Committed,
         IInv, TypeOK
<1>2. CASE Spare
  <2>1. Issuers' \subseteq Issuers \cup {r}
    BY <1>1 DEF Issuers
  <2>2. /\ IsFiniteSet(Issuers \cup {r}) /\ Cardinality(Issuers) \in Nat
        /\ Cardinality(Issuers \cup {r}) <= Cardinality(Issuers) + 1
    <3>1. IsFiniteSet(Issuers)
      BY DEF Room
    <3>2. Cardinality(Issuers) \in Nat
      BY <3>1, FS_CardinalityType
    <3>3. /\ IsFiniteSet(Issuers \cup {r})
          /\ Cardinality(Issuers \cup {r}) =
                 IF r \in Issuers THEN Cardinality(Issuers) ELSE Cardinality(Issuers) + 1
      BY <3>1, FS_AddElement
    <3>4. QED
      BY <3>2, <3>3
  <2>3. /\ IsFiniteSet(Issuers') /\ Cardinality(Issuers') \in Nat
        /\ Cardinality(Issuers') <= Cardinality(Issuers \cup {r})
        /\ Cardinality(Issuers \cup {r}) \in Nat
    BY <2>1, <2>2, FS_Subset, FS_CardinalityType
  <2>4. Cardinality(Issuers) < Cardinality(Sessions \ Committed)
    BY <1>2 DEF Spare, Issuers
  <2>5. QED
    BY <1>1, <2>2, <2>3, <2>4, TokensAreFinite DEF Room
<1>3. CASE ~Spare
  <2>1. op'[r] \notin {"login", "refresh"}
    BY <1>3 DEF Start, Login, LogoutAll, Refresh, Logout, RevokeSession, Begin, IInv, TypeOK
  <2>2. Issuers' \subseteq Issuers
    BY <1>1, <2>1 DEF Issuers
  <2>3. QED
    BY <1>1, <2>2, FewerIssuers
<1>4. QED
  BY <1>2, <1>3

LEMMA IssueRoom == ASSUME IInv, Room, NEW r \in Requests, CommitIssue(r) PROVE Room'
<1>1. PICK t \in Sessions \ Committed :
          status' = [s \in Sessions |-> IF s = t THEN "live"
                                        ELSE IF s \in kills[r] THEN "revoked"
                                        ELSE status[s]]
  BY DEF CommitIssue
<1>2. Committed' = Committed \cup {t}
  BY <1>1 DEF Committed, IInv, Refreshes
<1>3. Sessions \ Committed' = (Sessions \ Committed) \ {t}
  BY <1>2
<1>4. Cardinality(Sessions \ Committed') = Cardinality(Sessions \ Committed) - 1
  BY <1>1, <1>3, TokensAreFinite, FS_RemoveElement
<1>5. r \in Issuers /\ Issuers' = Issuers \ {r}
  BY DEF CommitIssue, Finish, Issuers, IInv, TypeOK, Refreshes
<1>6. /\ IsFiniteSet(Issuers') /\ Cardinality(Issuers') = Cardinality(Issuers) - 1
      /\ Cardinality(Issuers) \in Nat
  BY <1>5, FS_RemoveElement, FS_CardinalityType DEF Room
<1>7. QED
  BY <1>4, <1>6, TokensAreFinite DEF Room

LEMMA NextRoom == IInv /\ Room /\ [Next]_vars => Room'
<1> SUFFICES ASSUME IInv, Room, [Next]_vars PROVE Room'
  OBVIOUS
<1>1. ASSUME NEW r \in Requests, Acquire(r) \/ CheckUser(r) \/ BeginUpdate(r) \/ EndUpdate(r)
      PROVE  Room'
  <2>1. Committed' = Committed /\ op' = op
    BY <1>1 DEF Acquire, LockSession, UpdateRow, FlushRow, CheckUser, BeginUpdate, EndUpdate,
                rowVars, Committed
  <2>2. QED
    BY <2>1, FewerIssuers DEF Issuers
<1>2. ASSUME NEW r \in Requests, Commit(r) \/ Abort(r) \/ DeadlockVictim(r) PROVE Room'
  <2>1. Issuers' \subseteq Issuers
    BY <1>2 DEF Commit, Abort, DeadlockVictim, Finish, Issuers, IInv, TypeOK
  <2>2. Committed' = Committed
    BY <1>2 DEF Commit, Abort, DeadlockVictim, rowVars, Committed, IInv, Refreshes
  <2>3. QED
    BY <2>1, <2>2, FewerIssuers
<1>3. ASSUME UNCHANGED <<status, op>> PROVE Room'
  BY <1>3 DEF Room, Issuers, Committed
<1>4. QED
  BY <1>1, <1>2, <1>3, StartRoom, IssueRoom
     DEF Next, Proceed, Expire, SetActive, rowVars, reqVars, vars

LEMMA InitRoom == Init => Room
<1> SUFFICES ASSUME Init PROVE Room
  OBVIOUS
<1>1. Issuers = {}
  BY DEF Init, Issuers
<1>2. QED
  BY <1>1, FS_EmptySet, TokensAreFinite DEF Room

LEMMA IssuersFindTokens ==
    ASSUME IInv, Room, NEW r \in Requests, pc[r] = "issuing" PROVE Committed # Sessions
<1>1. r \in Issuers
  BY DEF Issuers, IInv, Refreshes
<1>2. Cardinality(Issuers) \in Nat /\ Cardinality(Issuers) # 0
  BY <1>1, FS_EmptySet, FS_CardinalityType DEF Room
<1>3. Sessions \ Committed # {}
  BY <1>2, FS_EmptySet DEF Room
<1>4. QED
  BY <1>3

\* With every number of requests, one of those that are open can take its next step: if
\* none finds its lock free, they wait in a circle, which the database breaks.
THEOREM NoDeadlock == Spec => []NobodyWaitsForAll
<1>1. IInv /\ Room => NobodyWaitsForAll
  <2> SUFFICES ASSUME IInv, Room, NEW r \in Requests, pc[r] # "idle",
                      \A q \in Requests : ~MayProceed(q)
               PROVE  FALSE
    BY DEF NobodyWaitsForAll
  <2> DEFINE R == {q \in Requests : pc[q] # "idle"}
  <2>1. ASSUME NEW q \in R
        PROVE  Wanted(q) # {} /\ \A s \in Wanted(q) : \E p \in R \ {q} : s \in Held(p)
    <3>1. pc[q] \in {"locking", "flushing"} \/ (pc[q] = "updating" /\ todo[q] # {})
      BY IssuersFindTokens DEF MayProceed, IInv, TypeOK, Locations
    <3>2. Wanted(q) # {} /\ \A s \in Wanted(q) : ~Free(q, s)
      BY <3>1 DEF Wanted, MayProceed
    <3>3. \A p \in Requests : Held(p) # {} => p \in R
      BY DEF Held, IInv, TypeOK
    <3>4. QED
      BY <3>2, <3>3 DEF Free
  <2>2. Deadlocked(R)
    BY <2>1 DEF Deadlocked
  <2>3. R \in SUBSET Requests /\ r \in R
    OBVIOUS
  <2>4. MayProceed(r)
    BY <2>2, <2>3 DEF MayProceed
  <2>5. QED
    BY <2>4
<1>2. QED
  BY <1>1, InitRoom, NextRoom, IInvHolds, PTL DEF Spec

=============================================================================
