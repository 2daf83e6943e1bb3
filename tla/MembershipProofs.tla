-------------------------- MODULE MembershipProofs --------------------------
(***************************************************************************)
(* Theorems about Membership for every set of users and of requests.       *)
(*                                                                         *)
(* FounderStaysOwner is not inductive: a request may have read the role of *)
(* its target long before it writes, and FounderWasSeen states what it     *)
(* read of the founder.                                                    *)
(***************************************************************************)
EXTENDS Membership, TLAPS

\* A request asks for something, and for a role if it sets one.
Asked ==
    \A r \in Requests :
        pc[r] # "idle" => /\ req[r].kind # "none"
                          /\ req[r].kind = "set_role" => req[r].new \in Roles

Writes(r) == pc[r] = "writing" /\ req[r].kind # "webhook"

\* What is about to be written was allowed by the role that was read.
WasAllowed == \A r \in Requests : Writes(r) => MayTouch(r, req[r].read)

FounderWasSeen ==
    \A r \in Requests : Writes(r) /\ req[r].target = Founder => req[r].read = "owner"

IInv ==
    /\ TypeOK
    /\ Asked
    /\ WasAllowed
    /\ FounderWasSeen
    /\ FounderStaysOwner

LEMMA IdleType == Idle \in Inquiries /\ Idle.kind = "none"
BY MembershipAssumption DEF Idle, Ask, Inquiries, Kinds

LEMMA InitIInv == Init => IInv
BY IdleType, MembershipAssumption
   DEF Init, IInv, TypeOK, Asked, WasAllowed, FounderWasSeen, FounderStaysOwner, Roles,
       Writes

LEMMA StartIInv == ASSUME IInv, NEW r \in Requests, Start(r) PROVE IInv'
<1>1. PICK k \in Kinds \ {"none"}, u \in Users, t \in Users, new \in Roles \cup {NoRole} :
        /\ Begin(r, Ask(k, u, t, new))
        /\ k = "set_role" => new \in Roles
  BY MembershipAssumption DEF Start, SetRole, Remove, CreateWebhook, Kinds
<1> DEFINE asked == Ask(k, u, t, new)
<1>2. /\ asked \in Inquiries /\ asked.kind # "none"
      /\ asked.kind = "set_role" => asked.new \in Roles
  BY <1>1 DEF Ask, Inquiries, Kinds
<1>3. Begin(r, asked)
  BY <1>1
<1> HIDE DEF asked
<1>4. /\ pc'[r] = "checking" /\ req'[r] = asked
      /\ \A q \in Requests \ {r} : pc'[q] = pc[q] /\ req'[q] = req[q]
      /\ UNCHANGED <<role, webhooks>>
  BY <1>3 DEF Begin, Goto, IInv, TypeOK
<1>5. TypeOK'
  BY <1>2, <1>3 DEF Begin, Goto, IInv, TypeOK
<1>6. Asked'
  BY <1>2, <1>4 DEF IInv, Asked
<1>7. WasAllowed' /\ FounderWasSeen' /\ FounderStaysOwner'
  BY <1>4 DEF IInv, WasAllowed, FounderWasSeen, FounderStaysOwner, Writes, MayTouch
<1>8. QED
  BY <1>5, <1>6, <1>7 DEF IInv

LEMMA RefuseIInv == ASSUME IInv, NEW r \in Requests, Refuse(r) PROVE IInv'
<1>1. /\ pc'[r] = "idle"
      /\ \A q \in Requests \ {r} : pc'[q] = pc[q] /\ req'[q] = req[q]
      /\ UNCHANGED <<role, webhooks>>
  BY DEF Refuse, Finish, IInv, TypeOK
<1>2. TypeOK'
  BY IdleType DEF Refuse, Finish, IInv, TypeOK
<1>3. Asked' /\ WasAllowed' /\ FounderWasSeen' /\ FounderStaysOwner'
  BY <1>1
     DEF IInv, Asked, WasAllowed, FounderWasSeen, FounderStaysOwner, Writes, MayTouch
<1>4. QED
  BY <1>2, <1>3 DEF IInv

LEMMA CheckIInv == ASSUME IInv, NEW r \in Requests, Check(r) PROVE IInv'
<1>1. /\ pc[r] = "checking"
      /\ pc'[r] = "writing" => req[r].kind = "webhook"
      /\ \A q \in Requests \ {r} : pc'[q] = pc[q]
      /\ UNCHANGED <<role, webhooks, req>>
  BY DEF Check, Goto, IInv, TypeOK
<1>2. TypeOK'
  BY <1>1 DEF Check, Goto, IInv, TypeOK
<1>3. Asked' /\ WasAllowed' /\ FounderWasSeen' /\ FounderStaysOwner'
  BY <1>1
     DEF IInv, Asked, WasAllowed, FounderWasSeen, FounderStaysOwner, Writes, MayTouch
<1>4. QED
  BY <1>2, <1>3 DEF IInv

LEMMA ReadTargetIInv == ASSUME IInv, NEW r \in Requests, ReadTarget(r) PROVE IInv'
<1> DEFINE read == role[req[r].target]
           informed == [req[r] EXCEPT !.read = read]
<1>1. read \in Roles \cup {NoRole} /\ req[r] \in Inquiries
  BY DEF IInv, TypeOK, Inquiries
<1>2. /\ informed \in Inquiries /\ informed.read = read /\ informed.kind = req[r].kind
      /\ informed.new = req[r].new /\ informed.target = req[r].target
  BY <1>1 DEF Inquiries
<1>3. /\ MayTouch(r, read) /\ pc[r] = "reading"
      /\ pc' = [pc EXCEPT ![r] = "writing"] /\ req' = [req EXCEPT ![r] = informed]
      /\ UNCHANGED <<role, webhooks>>
  BY DEF ReadTarget, Goto
<1>4. req[r].target = Founder => read = "owner"
  BY DEF IInv, FounderStaysOwner
<1> HIDE DEF read, informed
<1>5. /\ pc'[r] = "writing" /\ req'[r] = informed
      /\ \A q \in Requests \ {r} : pc'[q] = pc[q] /\ req'[q] = req[q]
  BY <1>3 DEF IInv, TypeOK
<1>6. TypeOK'
  BY <1>2, <1>3, <1>5 DEF IInv, TypeOK, MayTouch
<1>7. Asked'
  BY <1>2, <1>3, <1>5 DEF IInv, Asked
<1>8. WasAllowed'
  BY <1>2, <1>3, <1>5 DEF IInv, WasAllowed, Writes, MayTouch
<1>9. FounderWasSeen' /\ FounderStaysOwner'
  BY <1>2, <1>3, <1>4, <1>5 DEF IInv, FounderWasSeen, FounderStaysOwner, Writes
<1>10. QED
  BY <1>6, <1>7, <1>8, <1>9 DEF IInv

\* What a commit does to the roles.
LEMMA CommitRoles ==
    ASSUME IInv, NEW r \in Requests, Commit(r), NEW u \in Users, role'[u] # role[u]
    PROVE  /\ Writes(r) /\ req[r].target = u /\ req[r].read \in Roles \ {"owner"}
           /\ role[u] = NoRole => role'[u] = NoRole
<1>1. /\ pc[r] = "writing" /\ req[r].kind \in {"set_role", "remove", "webhook"}
      /\ req[r].target \in Users /\ req[r].read \in Roles \cup {NoRole}
  BY DEF Commit, Goto, IInv, TypeOK, Asked, Inquiries, Kinds
<1>2. CASE req[r].kind = "webhook"
  BY <1>2 DEF Commit
<1>3. CASE req[r].kind = "set_role"
  <2>1. MayTouch(r, req[r].read)
    BY <1>1, <1>3 DEF IInv, WasAllowed, Writes
  <2>2. role' = Written(r)
    BY <1>3 DEF Commit
  <2>3. /\ req[r].target = u /\ req[r].new # req[r].read /\ role[u] # NoRole
    BY <1>1, <2>2 DEF Written, IInv, TypeOK
  <2>4. QED
    BY <1>1, <1>3, <2>1, <2>3 DEF MayTouch, Writes
<1>4. CASE req[r].kind = "remove"
  <2>1. MayTouch(r, req[r].read)
    BY <1>1, <1>4 DEF IInv, WasAllowed, Writes
  <2>2. role' = [role EXCEPT ![req[r].target] = NoRole]
    BY <1>4 DEF Commit
  <2>3. req[r].target = u /\ role'[u] = NoRole
    BY <1>1, <2>2 DEF IInv, TypeOK
  <2>4. QED
    BY <1>1, <1>4, <2>1, <2>3 DEF MayTouch, Writes
<1>5. QED
  BY <1>1, <1>2, <1>3, <1>4

LEMMA CommitIInv == ASSUME IInv, NEW r \in Requests, Commit(r) PROVE IInv'
<1>1. /\ pc'[r] = "idle"
      /\ \A q \in Requests \ {r} : pc'[q] = pc[q] /\ req'[q] = req[q]
  BY DEF Commit, Goto, IInv, TypeOK
<1>2. FounderStaysOwner'
  <2>1. role'[Founder] = role[Founder]
    BY CommitRoles, MembershipAssumption DEF IInv, FounderWasSeen
  <2>2. QED
    BY <2>1 DEF IInv, FounderStaysOwner
<1>3. role' \in [Users -> Roles \cup {NoRole}]
  <2>1. /\ req[r].kind \in {"set_role", "remove", "webhook"}
        /\ req[r].new \in Roles \cup {NoRole}
    BY DEF Commit, Goto, IInv, TypeOK, Asked, Inquiries, Kinds
  <2>2. QED
    BY <2>1 DEF Commit, Written, IInv, TypeOK
<1>4. TypeOK'
  <2>1. webhooks' \in Nat
    BY DEF Commit, IInv, TypeOK
  <2>2. /\ pc' \in [Requests -> {"idle", "checking", "reading", "writing"}]
        /\ req' \in [Requests -> Inquiries]
    BY IdleType DEF Commit, Goto, IInv, TypeOK
  <2>3. \A q \in Requests : pc'[q] = "writing" /\ req'[q].kind # "webhook" =>
                               req'[q].read # NoRole
    BY <1>1 DEF IInv, TypeOK
  <2>4. QED
    BY <1>3, <2>1, <2>2, <2>3 DEF TypeOK
<1>5. Asked' /\ WasAllowed' /\ FounderWasSeen'
  BY <1>1 DEF IInv, Asked, WasAllowed, FounderWasSeen, Writes, MayTouch
<1>6. QED
  BY <1>2, <1>4, <1>5 DEF IInv

LEMMA AddMemberIInv ==
    ASSUME IInv, NEW u \in Users, NEW new \in Roles, AddMember(u, new) PROVE IInv'
<1>1. u # Founder
  BY MembershipAssumption DEF AddMember, IInv, FounderStaysOwner, Roles
<1>2. QED
  BY <1>1, MembershipAssumption
     DEF AddMember, IInv, TypeOK, Asked, WasAllowed, FounderWasSeen, FounderStaysOwner,
         Writes, MayTouch

LEMMA NextIInv == IInv /\ [Next]_vars => IInv'
<1> SUFFICES ASSUME IInv, [Next]_vars PROVE IInv'
  OBVIOUS
<1>1. ASSUME NEW r \in Requests, Proceed(r) \/ Abort(r) PROVE IInv'
  BY <1>1, CheckIInv, RefuseIInv, ReadTargetIInv, CommitIInv
     DEF Proceed, Deny, Reject, Abort
<1>2. CASE UNCHANGED vars
  BY <1>2 DEF vars, IInv, TypeOK, Asked, WasAllowed, FounderWasSeen, FounderStaysOwner,
              Writes, MayTouch
<1>3. QED
  BY <1>1, <1>2, StartIInv, AddMemberIInv DEF Next

\* Only a commit or a new membership changes a role.
LEMMA RolesChange ==
    ASSUME IInv, Next, NEW u \in Users, role'[u] # role[u]
    PROVE  \/ \E r \in Requests : Commit(r)
           \/ role[u] = NoRole /\ UNCHANGED <<pc, req>>
<1>1. ASSUME NEW r \in Requests, Start(r) \/ Check(r) \/ Refuse(r) \/ ReadTarget(r)
      PROVE  role' = role
  BY <1>1 DEF Start, SetRole, Remove, CreateWebhook, Begin, Check, Refuse, ReadTarget
<1>2. ASSUME NEW v \in Users, NEW new \in Roles, AddMember(v, new)
      PROVE  role[u] = NoRole /\ UNCHANGED <<pc, req>>
  BY <1>2 DEF AddMember, IInv, TypeOK
<1>3. QED
  BY <1>1, <1>2 DEF Next, Proceed, Deny, Reject, Abort

(***************************************************************************)
(* Theorems.                                                               *)
(***************************************************************************)

\* The inductive invariant holds in every reachable state.
THEOREM IInvHolds == Spec => []IInv
BY InitIInv, NextIInv, PTL DEF Spec

\* Roles, requests and what they have read keep their types.
THEOREM TypesHold == Spec => []TypeOK
<1>1. IInv => TypeOK
  BY DEF IInv
<1>2. QED
  BY <1>1, IInvHolds, PTL

\* The founder of an organization stays its owner (the checks of set_member_role and
\* remove_member, made on a role that may have changed when they write).
THEOREM OwnerRemains == Spec => []FounderStaysOwner
<1>1. IInv => FounderStaysOwner
  BY DEF IInv
<1>2. QED
  BY <1>1, IInvHolds, PTL

\* An owner loses the role only to a request that read his role before he got it.
THEOREM OwnersLoseInFlight == Spec => OwnershipLostOnlyInFlight
<1>1. IInv /\ [Next]_vars =>
        [\A u \in Users :
            role[u] = "owner" /\ role'[u] # "owner" =>
                \E r \in Requests : /\ pc[r] = "writing" /\ pc'[r] = "idle"
                                    /\ req[r].target = u
                                    /\ req[r].read \in Roles \ {"owner"}]_vars
  <2> SUFFICES ASSUME IInv, Next, NEW u \in Users, role[u] = "owner", role'[u] # "owner"
               PROVE  \E r \in Requests : /\ pc[r] = "writing" /\ pc'[r] = "idle"
                                          /\ req[r].target = u
                                          /\ req[r].read \in Roles \ {"owner"}
    OBVIOUS
  <2>1. PICK r \in Requests : Commit(r)
    BY RolesChange, MembershipAssumption
  <2>2. Writes(r) /\ req[r].target = u /\ req[r].read \in Roles \ {"owner"}
    BY <2>1, CommitRoles
  <2>3. pc'[r] = "idle"
    BY <2>1 DEF Commit, Goto, IInv, TypeOK
  <2>4. QED
    BY <2>2, <2>3 DEF Writes
<1>2. QED
  BY <1>1, IInvHolds, PTL DEF Spec, OwnershipLostOnlyInFlight

\* A member who was removed is not brought back by a request that was changing his role.
THEOREM RemovedMembersStayOut == Spec => RemovedStaysOut
<1>1. IInv /\ [Next]_vars =>
        [\A u \in Users :
            role[u] = NoRole /\ role'[u] # NoRole => UNCHANGED <<pc, req>>]_vars
  BY RolesChange, CommitRoles
<1>2. QED
  BY <1>1, IInvHolds, PTL DEF Spec, RemovedStaysOut

=============================================================================
