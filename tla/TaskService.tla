---------------------------- MODULE TaskService -----------------------------
(***************************************************************************)
(* One task and the requests that create, update, delete and comment on it *)
(* (src/src/tasks/service.py and repository.py), with the membership of    *)
(* its organization changing at any time.                                  *)
(*                                                                         *)
(* A request is one READ COMMITTED transaction: what it wrote is seen by   *)
(* others at its commit, and the row lock it took until then makes other   *)
(* writers of the row wait.                                                *)
(***************************************************************************)
EXTENDS Naturals, Sequences, FiniteSets

CONSTANTS
    Users,
    Requests,    \* requests the API serves at the same time
    Statuses,
    Todo,        \* TaskStatus.TODO, the status of a new task
    Nobody,      \* no assignee, or an update that leaves the assignee alone
    NoStatus,    \* no old status, or an update that leaves the status alone
    NoRequest,
    Guessing,    \* may a client name a version it has not been told of?
    Failures,    \* may a transaction fail at any point?
    MaxStarts    \* BOUND: transactions begun

ASSUME TaskAssumption ==
    /\ Todo \in Statuses
    /\ NoStatus \notin Statuses
    /\ Nobody \notin Users
    /\ NoRequest \notin Requests
    /\ Guessing \in BOOLEAN
    /\ Failures \in BOOLEAN
    /\ MaxStarts \in Nat

VARIABLES
    exists,     \* the row: "never", "present" or "deleted"
    version, status, assignee,
    history,    \* rows of task_status_history, pairs <<old, new>>
    comments,   \* number of rows of task_comments
    events,     \* outbox events in commit order, with their created_at
    granted,    \* versions named by the accepted updates (not a program variable)
    members,    \* users in organization_members of the task's organization
    clock,      \* now(), advanced by the start of a transaction
    holder,     \* the request that has the row locked FOR UPDATE
    pc, req     \* where each request is; what it asks for and what it has read

rowVars == <<exists, version, status, assignee, history, comments, events, granted>>
vars == <<rowVars, members, clock, holder, pc, req>>

Kinds == {"none", "create", "update", "delete", "comment"}
Locations == {"idle", "reading", "validating", "writing", "committing"}

\* TaskUpdate or TaskCreate, its user, and what the handler remembers: the status
\* and version of the task it read and now() of its transaction.
Ask(kind, user, sent, new, a) ==
    [kind |-> kind, user |-> user, sent |-> sent, newStatus |-> new, newAssignee |-> a,
     oldStatus |-> NoStatus, oldVersion |-> 0, began |-> 0]

Inquiries ==
    [kind : Kinds, user : Users \cup {Nobody}, sent : Nat,
     newStatus : Statuses \cup {NoStatus}, newAssignee : Users \cup {Nobody},
     oldStatus : Statuses \cup {NoStatus}, oldVersion : Nat, began : Nat]

Idle == Ask("none", Nobody, 0, NoStatus, Nobody)

Event(type, r) == [type |-> type, created |-> req[r].began]

TypeOK ==
    /\ exists \in {"never", "present", "deleted"}
    /\ version \in Nat
    /\ status \in Statuses \cup {NoStatus}
    /\ assignee \in Users \cup {Nobody}
    /\ history \in Seq((Statuses \cup {NoStatus}) \X Statuses)
    /\ comments \in Nat
    /\ events \in Seq([type : {"created", "updated", "status_changed", "deleted"},
                       created : Nat])
    /\ granted \in Seq(Nat)
    /\ members \subseteq Users
    /\ clock \in Nat
    /\ holder \in Requests \cup {NoRequest}
    /\ pc \in [Requests -> Locations]
    /\ req \in [Requests -> Inquiries]
    /\ \A r \in Requests : holder = r => pc[r] = "committing"

Init ==
    /\ exists = "never"
    /\ version = 0
    /\ status = NoStatus
    /\ assignee = Nobody
    /\ history = <<>>
    /\ comments = 0
    /\ events = <<>>
    /\ granted = <<>>
    /\ members = Users
    /\ clock = 0
    /\ holder = NoRequest
    /\ pc = [r \in Requests |-> "idle"]
    /\ req = [r \in Requests |-> Idle]

Goto(r, from, to) == pc[r] = from /\ pc' = [pc EXCEPT ![r] = to]

\* Mutant: the session of a finished request is not closed.
FinishLeaking(r) ==
    /\ pc' = [pc EXCEPT ![r] = "idle"]
    /\ req' = [req EXCEPT ![r] = Idle]
    /\ UNCHANGED holder

\* The transaction ends: its row lock is released.
Finish(r) ==
    /\ pc' = [pc EXCEPT ![r] = "idle"]
    /\ req' = [req EXCEPT ![r] = Idle]
    /\ holder' = IF holder = r THEN NoRequest ELSE holder

\* An answer without a change: 404, 409, 422, or a statement that failed.
Refuse(r) ==
    /\ Finish(r)
    /\ UNCHANGED <<rowVars, members, clock>>

(***************************************************************************)
(* Requests arrive.                                                        *)
(***************************************************************************)

Begin(r, request) ==
    /\ clock < MaxStarts
    /\ Goto(r, "idle", "reading")
    /\ req' = [req EXCEPT ![r] = request]
    /\ UNCHANGED <<rowVars, members, clock, holder>>

\* The model follows the task that the first successful creation makes.
Create(r, u, a) ==
    /\ exists = "never"
    /\ \A q \in Requests : req[q].kind # "create"
    /\ Begin(r, Ask("create", u, 0, NoStatus, a))

\* A client learns of a version by an answer, after its commit.  TaskUpdate wants
\* one field at least; what is not named here is the title and the like.
Update(r, u, v, new, a) ==
    /\ exists # "never"
    /\ v \in 1 .. (IF Guessing THEN version + 1 ELSE version)
    /\ Begin(r, Ask("update", u, v, new, a))

Delete(r, u) ==
    /\ exists # "never"
    /\ Begin(r, Ask("delete", u, 0, NoStatus, Nobody))

Comment(r, u) ==
    /\ exists # "never"
    /\ Begin(r, Ask("comment", u, 0, NoStatus, Nobody))

(***************************************************************************)
(* Reads.                                                                  *)
(***************************************************************************)

\* get_accessible_task, for a creation get_accessible_project: the first statement
\* of the transaction, whose now() it fixes.
Accessible(r) ==
    req[r].user \in members /\ (req[r].kind = "create" \/ exists = "present")

Remember(r) ==
    [req[r] EXCEPT !.oldStatus = status, !.oldVersion = version, !.began = clock + 1]

Read(r) ==
    /\ Accessible(r)
    /\ Goto(r, "reading", IF req[r].kind \in {"create", "update"} THEN "validating"
                          ELSE "writing")
    /\ clock' = clock + 1
    /\ req' = [req EXCEPT ![r] = Remember(r)]
    /\ UNCHANGED <<rowVars, members, holder>>

NotFound(r) ==
    /\ pc[r] = "reading"
    /\ ~Accessible(r)
    /\ Refuse(r)

\* get_accessible_project again, then _validate_assignee.
Valid(r) ==
    /\ req[r].user \in members
    /\ req[r].newAssignee \in members \cup {Nobody}

Validate(r) ==
    /\ Valid(r)
    /\ Goto(r, "validating", IF req[r].kind = "create" THEN "committing" ELSE "writing")
    /\ UNCHANGED <<rowVars, members, clock, holder, req>>

Invalid(r) ==
    /\ pc[r] = "validating"
    /\ ~Valid(r)
    /\ Refuse(r)

(***************************************************************************)
(* Writes.                                                                 *)
(***************************************************************************)

Unlocked == holder = NoRequest

\* Comments whose INSERT holds a key share lock on the task's row.
Sharers == {r \in Requests : pc[r] = "committing" /\ req[r].kind = "comment"}

\* Mutant: the version is compared in the handler, not in the UPDATE.
MatchesAsRead(r) == exists = "present" /\ req[r].oldVersion = req[r].sent

\* UPDATE tasks ... WHERE id = :id AND version = :expected, tested on the row as it
\* is once its lock is free.
Matches(r) == exists = "present" /\ version = req[r].sent

UpdateRow(r) ==
    /\ req[r].kind = "update"
    /\ Unlocked
    /\ Matches(r)
    /\ Goto(r, "writing", "committing")
    /\ holder' = r
    /\ UNCHANGED <<rowVars, members, clock, req>>

\* rowcount is 0: 409 task_version_conflict.
Conflict(r) ==
    /\ pc[r] = "writing"
    /\ req[r].kind = "update"
    /\ Unlocked
    /\ ~Matches(r)
    /\ Refuse(r)

\* DELETE by key also waits for comments being inserted.  One that finds no row
\* is only a warning of the ORM and the handler goes on.
DeleteRow(r) ==
    /\ req[r].kind = "delete"
    /\ Unlocked
    /\ Sharers = {}
    /\ Goto(r, "writing", "committing")
    /\ holder' = IF exists = "present" THEN r ELSE holder
    /\ UNCHANGED <<rowVars, members, clock, req>>

\* The foreign key of the comment waits for a DELETE, not for an UPDATE.
ReferenceFree == \A q \in Requests : holder = q => req[q].kind # "delete"

InsertComment(r) ==
    /\ req[r].kind = "comment"
    /\ ReferenceFree
    /\ exists = "present"
    /\ Goto(r, "writing", "committing")
    /\ UNCHANGED <<rowVars, members, clock, holder, req>>

\* IntegrityError.
NoReference(r) ==
    /\ pc[r] = "writing"
    /\ req[r].kind = "comment"
    /\ ReferenceFree
    /\ exists # "present"
    /\ Refuse(r)

(***************************************************************************)
(* Commits.                                                                *)
(***************************************************************************)

CommitCreate(r) ==
    /\ pc[r] = "committing"
    /\ req[r].kind = "create"
    /\ exists' = "present"
    /\ version' = 1
    /\ status' = Todo
    /\ assignee' = req[r].newAssignee
    /\ history' = <<<<NoStatus, Todo>>>>
    /\ events' = Append(events, Event("created", r))
    /\ Finish(r)
    /\ UNCHANGED <<comments, granted, members, clock>>

\* Mutant: the history takes every status the client sends.
StatusChangedAlways(r) == req[r].newStatus # NoStatus

\* data.status is not None and data.status != old_status.
StatusChanged(r) == req[r].newStatus \notin {NoStatus, req[r].oldStatus}

\* Mutant: the event of a changed status takes the place of task.updated.
UpdateEventsEither(r) ==
    IF StatusChanged(r) THEN <<Event("status_changed", r)>> ELSE <<Event("updated", r)>>

\* task.updated is written for every update, after task.status_changed.
UpdateEvents(r) ==
    (IF StatusChanged(r) THEN <<Event("status_changed", r)>> ELSE <<>>)
        \o <<Event("updated", r)>>

CommitUpdate(r) ==
    /\ pc[r] = "committing"
    /\ req[r].kind = "update"
    /\ version' = version + 1
    /\ status' = IF req[r].newStatus = NoStatus THEN status ELSE req[r].newStatus
    /\ assignee' = IF req[r].newAssignee = Nobody THEN assignee ELSE req[r].newAssignee
    /\ history' = IF StatusChanged(r)
                  THEN Append(history, <<req[r].oldStatus, req[r].newStatus>>)
                  ELSE history
    /\ events' = events \o UpdateEvents(r)
    /\ granted' = Append(granted, req[r].sent)
    /\ Finish(r)
    /\ UNCHANGED <<exists, comments, members, clock>>

\* Comments and history go with the row (ON DELETE CASCADE).
CommitDelete(r) ==
    /\ pc[r] = "committing"
    /\ req[r].kind = "delete"
    /\ exists' = "deleted"
    /\ history' = <<>>
    /\ comments' = 0
    /\ events' = Append(events, Event("deleted", r))
    /\ Finish(r)
    /\ UNCHANGED <<version, status, assignee, granted, members, clock>>

CommitComment(r) ==
    /\ pc[r] = "committing"
    /\ req[r].kind = "comment"
    /\ comments' = comments + 1
    /\ Finish(r)
    /\ UNCHANGED <<exists, version, status, assignee, history, events, granted,
                   members, clock>>

Abort(r) ==
    /\ Failures
    /\ pc[r] # "idle"
    /\ Refuse(r)

(***************************************************************************)
(* The organization's membership, which nothing here locks.                *)
(***************************************************************************)

AddMember(u) ==
    /\ members' = members \cup {u}
    /\ UNCHANGED <<rowVars, clock, holder, pc, req>>

RemoveMember(u) ==
    /\ members' = members \ {u}
    /\ UNCHANGED <<rowVars, clock, holder, pc, req>>

Start(r) ==
    \E u \in Users :
        \/ \E a \in Users \cup {Nobody} : Create(r, u, a)
        \/ \E v \in 1 .. MaxStarts, new \in Statuses \cup {NoStatus},
              a \in Users \cup {Nobody} : Update(r, u, v, new, a)
        \/ Delete(r, u)
        \/ Comment(r, u)

Write(r) ==
    \/ UpdateRow(r) \/ Conflict(r) \/ DeleteRow(r)
    \/ InsertComment(r) \/ NoReference(r)

Proceed(r) ==
    \/ Read(r) \/ NotFound(r) \/ Validate(r) \/ Invalid(r) \/ Write(r)
    \/ CommitCreate(r) \/ CommitUpdate(r) \/ CommitDelete(r) \/ CommitComment(r)

Next ==
    \/ \E r \in Requests : Start(r) \/ Proceed(r) \/ Abort(r)
    \/ \E u \in Users : AddMember(u) \/ RemoveMember(u)

Spec == Init /\ [][Next]_vars

(***************************************************************************)
(* Properties.                                                             *)
(***************************************************************************)

\* README.md:193: no update is lost.  The accepted updates named the versions
\* 1, 2, 3, ... one after the other, each the version it replaced.
NoLostUpdate ==
    exists # "never" =>
        Len(granted) = version - 1 /\ \A i \in 1 .. Len(granted) : granted[i] = i

\* The history of a task is unbroken: it starts with the creation, every entry
\* starts from the status the one before it ended with, and the last one is the
\* status of the task (update_task, add_status_history).
UnbrokenHistory ==
    exists = "present" =>
        /\ Len(history) > 0
        /\ history[1] = <<NoStatus, Todo>>
        /\ history[Len(history)][2] = status
        /\ \A i \in 1 .. Len(history) - 1 :
              history[i][2] = history[i + 1][1] /\ history[i][2] # history[i + 1][2]

Count(type) == Cardinality({i \in 1 .. Len(events) : events[i].type = type})

\* The outbox tells what happened and nothing else, whatever was rolled back or
\* refused: one task.created, a task.updated per version, a task.status_changed
\* per row of the history, a task.deleted once the task is gone.
EventsTellChanges ==
    /\ Count("created") = IF exists = "never" THEN 0 ELSE 1
    /\ exists # "never" => Count("updated") = version - 1
    /\ exists = "present" => Count("status_changed") = Len(history) - 1
    /\ exists = "deleted" <=> Count("deleted") > 0

\* Events other than task.deleted bear times in the order of their commits.
CreatedInOrder ==
    \A i, j \in 1 .. Len(events) :
        /\ i < j
        /\ events[i].type # "deleted" /\ events[j].type # "deleted"
        => events[i].created <= events[j].created

\* The task as an atomic object.  A deletion leaves version and status behind.
Atomic == INSTANCE VersionedTask WITH present <- exists = "present"

IsVersionedTask == Atomic!ASpec

\* What Proceed(r) asks of the state.
MayProceed(r) ==
    \/ pc[r] \in {"reading", "validating"}
    \/ /\ pc[r] = "writing"
       /\ \/ req[r].kind = "update" /\ Unlocked
          \/ req[r].kind = "delete" /\ Unlocked /\ Sharers = {}
          \/ req[r].kind = "comment" /\ ReferenceFree
    \/ pc[r] = "committing" /\ req[r].kind # "none"

NobodyWaitsForAll ==
    (\E r \in Requests : pc[r] # "idle") => \E r \in Requests : MayProceed(r)

\* Requests never wait for each other in a circle: while one is open, one of them
\* can go on, so that all are answered (the row lock of the UPDATE or DELETE, and the
\* share lock of a comment's foreign key).
SomeoneProceeds ==
    /\ NobodyWaitsForAll
    /\ \A r \in Requests : MayProceed(r) <=> ENABLED Proceed(r)

=============================================================================
