----------------------------- MODULE Membership -----------------------------
(***************************************************************************)
(* The roles of one organization's members, and the requests that depend   *)
(* on them: changing a role, removing a member                             *)
(* (src/src/organizations/service.py) and subscribing a webhook            *)
(* (src/src/webhooks/service.py).                                          *)
(*                                                                         *)
(* Every request is one READ COMMITTED transaction.  It reads the role of  *)
(* its actor and of its target in two statements without a lock; the ORM   *)
(* writes what it changed by key at the commit and looks at nothing again. *)
(***************************************************************************)
EXTENDS Naturals, FiniteSets

CONSTANTS
    Users,
    Founder,      \* the user whose request created the organization
    Requests,     \* requests the API serves at the same time
    NoRole,       \* not a member
    MaxWebhooks   \* BOUND: webhooks subscribed

ASSUME MembershipAssumption ==
    /\ Founder \in Users
    /\ NoRole \notin {"owner", "admin", "member", "viewer"}
    /\ MaxWebhooks \in Nat

VARIABLES
    role,      \* role[u]: the committed row of organization_members, or NoRole
    webhooks,  \* webhook subscriptions of the organization
    pc, req    \* where each request is; what it asks for and what it has read

vars == <<role, webhooks, pc, req>>

Roles == {"owner", "admin", "member", "viewer"}
Kinds == {"none", "set_role", "remove", "webhook"}

\* What a request asks for, and the role it has read.
Ask(kind, actor, target, new) ==
    [kind |-> kind, actor |-> actor, target |-> target, new |-> new, read |-> NoRole]

Inquiries == [kind : Kinds, actor : Users, target : Users, new : Roles \cup {NoRole},
              read : Roles \cup {NoRole}]

Idle == Ask("none", Founder, Founder, NoRole)

TypeOK ==
    /\ role \in [Users -> Roles \cup {NoRole}]
    /\ webhooks \in Nat
    /\ pc \in [Requests -> {"idle", "checking", "reading", "writing"}]
    /\ req \in [Requests -> Inquiries]
    /\ \A r \in Requests : pc[r] = "writing" /\ req[r].kind # "webhook" =>
                              req[r].read # NoRole

\* create_organization adds its owner in the same transaction.
Init ==
    /\ role = [u \in Users |-> IF u = Founder THEN "owner" ELSE NoRole]
    /\ webhooks = 0
    /\ pc = [r \in Requests |-> "idle"]
    /\ req = [r \in Requests |-> Idle]

Admins == {u \in Users : role[u] \in {"owner", "admin"}}

Goto(r, from, to) == pc[r] = from /\ pc' = [pc EXCEPT ![r] = to]

Finish(r) ==
    /\ pc' = [pc EXCEPT ![r] = "idle"]
    /\ req' = [req EXCEPT ![r] = Idle]

\* 403, 404 or a failed statement.
Refuse(r) == Finish(r) /\ UNCHANGED <<role, webhooks>>

Begin(r, request) ==
    /\ Goto(r, "idle", "checking")
    /\ req' = [req EXCEPT ![r] = request]
    /\ UNCHANGED <<role, webhooks>>

SetRole(r, u, t, new) ==
    Begin(r, Ask("set_role", u, t, new))

Remove(r, u, t) ==
    Begin(r, Ask("remove", u, t, NoRole))

CreateWebhook(r, u) ==
    /\ webhooks + Cardinality({q \in Requests : req[q].kind = "webhook"}) < MaxWebhooks
    /\ Begin(r, Ask("webhook", u, Founder, NoRole))

\* _require_admin.
MayAct(r) == req[r].actor \in Admins

Check(r) ==
    /\ MayAct(r)
    /\ Goto(r, "checking", IF req[r].kind = "webhook" THEN "writing" ELSE "reading")
    /\ UNCHANGED <<role, webhooks, req>>

Deny(r) ==
    /\ pc[r] = "checking"
    /\ ~MayAct(r)
    /\ Refuse(r)

\* Mutant: only a removal looks at the role of its target.
MayTouchUnlessRole(r, read) ==
    /\ read # NoRole
    /\ read = "owner" => req[r].kind = "set_role"

\* A member may be changed as he was read: an owner only into an owner.
MayTouch(r, read) ==
    /\ read # NoRole
    /\ read = "owner" => req[r].kind = "set_role" /\ req[r].new = "owner"

ReadTarget(r) ==
    LET read == role[req[r].target] IN
    /\ MayTouch(r, read)
    /\ Goto(r, "reading", "writing")
    /\ req' = [req EXCEPT ![r].read = read]
    /\ UNCHANGED <<role, webhooks>>

Reject(r) ==
    /\ pc[r] = "reading"
    /\ ~MayTouch(r, role[req[r].target])
    /\ Refuse(r)

\* Mutant: the row is written whether it is there or not, as by an upsert.
WrittenOrInserted(r) == [role EXCEPT ![req[r].target] = req[r].new]

\* The role after the commit of set_role.  No UPDATE is sent for a role that is the
\* one read, and one that finds no row fails the request.
Written(r) ==
    LET t == req[r].target IN
    IF req[r].new = req[r].read \/ role[t] = NoRole THEN role
    ELSE [role EXCEPT ![t] = req[r].new]

\* The same for whatever the request is; a DELETE that finds no row is only a warning.
Commit(r) ==
    /\ Goto(r, "writing", "idle")
    /\ role' = CASE req[r].kind = "set_role" -> Written(r)
                 [] req[r].kind = "remove" -> [role EXCEPT ![req[r].target] = NoRole]
                 [] req[r].kind = "webhook" -> role
    /\ webhooks' = IF req[r].kind = "webhook" THEN webhooks + 1 ELSE webhooks
    /\ req' = [req EXCEPT ![r] = Idle]

Abort(r) ==
    /\ pc[r] # "idle"
    /\ Refuse(r)

\* No endpoint adds a member.  The demo seed adds every active user.
AddMember(u, new) ==
    /\ role[u] = NoRole
    /\ new \in {"admin", "member"}
    /\ role' = [role EXCEPT ![u] = new]
    /\ UNCHANGED <<webhooks, pc, req>>

Start(r) ==
    \E u \in Users :
        \/ \E t \in Users, new \in Roles : SetRole(r, u, t, new)
        \/ \E t \in Users : Remove(r, u, t)
        \/ CreateWebhook(r, u)

Proceed(r) == Check(r) \/ Deny(r) \/ ReadTarget(r) \/ Reject(r) \/ Commit(r)

Next ==
    \/ \E r \in Requests : Start(r) \/ Proceed(r) \/ Abort(r)
    \/ \E u \in Users, new \in Roles : AddMember(u, new)

Spec == Init /\ [][Next]_vars

(***************************************************************************)
(* Properties.                                                             *)
(***************************************************************************)

\* The organization is never left without an owner: its founder stays one, however
\* removals, downgrades and his own requests interleave.
FounderStaysOwner == role[Founder] = "owner"

\* An owner loses the role only to a request that had read his role before he got
\* it: whoever reads it afterwards is refused.
OwnershipLostOnlyInFlight ==
    [][\A u \in Users :
          role[u] = "owner" /\ role'[u] # "owner" =>
              \E r \in Requests : /\ pc[r] = "writing" /\ pc'[r] = "idle"
                                  /\ req[r].target = u
                                  /\ req[r].read \in Roles \ {"owner"}]_vars

\* A removed member is brought back by no request that was changing his role when
\* he was removed.
RemovedStaysOut ==
    [][\A u \in Users :
          role[u] = NoRole /\ role'[u] # NoRole => UNCHANGED <<pc, req>>]_vars

=============================================================================
