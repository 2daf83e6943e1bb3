------------------------- MODULE TaskServiceProofs --------------------------
(***************************************************************************)
(* Theorems about TaskService for every set of requests, users and         *)
(* statuses: no update is lost, and the task is the atomic object of       *)
(* VersionedTask.                                                          *)
(*                                                                         *)
(* NoLostUpdate is not inductive: that the version an update was compared  *)
(* with is still the task's when the update commits follows from the row   *)
(* lock, which UpdatesHold and DeletesHold state.                          *)
(***************************************************************************)
EXTENDS GuessedVersions, FiniteSetTheorems, TLAPS

\* Before the creation there is nothing, and nothing but a creation goes on.
NothingBefore ==
    exists = "never" =>
        /\ version = 0 /\ status = NoStatus /\ granted = <<>>
        /\ \A r \in Requests : req[r].kind \in {"none", "create"}

\* A creation is the only one and comes first.
OneCreation ==
    \A r \in Requests :
        req[r].kind = "create" =>
            exists = "never" /\ \A q \in Requests : req[q].kind = "create" => q = r

\* A task that was created has a status.
HasStatus == exists # "never" => version > 0 /\ status \in Statuses

\* An update whose UPDATE found its row has it locked as it found it.
UpdatesHold ==
    \A r \in Requests :
        pc[r] = "committing" /\ req[r].kind = "update" =>
            holder = r /\ exists = "present" /\ version = req[r].sent

\* A deletion has the row locked, unless there was none.
DeletesHold ==
    \A r \in Requests :
        pc[r] = "committing" /\ req[r].kind = "delete" =>
            holder = r \/ exists = "deleted"

IInv ==
    /\ TypeOK
    /\ NothingBefore
    /\ OneCreation
    /\ HasStatus
    /\ UpdatesHold
    /\ DeletesHold
    /\ NoLostUpdate

(***************************************************************************)
(* Types.                                                                  *)
(***************************************************************************)

LEMMA AskType ==
    ASSUME NEW k \in Kinds, NEW u \in Users \cup {Nobody}, NEW v \in Nat,
           NEW new \in Statuses \cup {NoStatus}, NEW a \in Users \cup {Nobody}
    PROVE  Ask(k, u, v, new, a) \in Inquiries /\ Ask(k, u, v, new, a).kind = k
BY DEF Ask, Inquiries

LEMMA IdleType == Idle \in Inquiries /\ Idle.kind = "none"
<1>1. "none" \in Kinds
  BY DEF Kinds
<1>2. QED
  BY <1>1, AskType DEF Idle

LEMMA RememberType ==
    ASSUME TypeOK, NEW r \in Requests
    PROVE  Remember(r) \in Inquiries /\ Remember(r).kind = req[r].kind
<1>1. /\ req[r] \in Inquiries /\ status \in Statuses \cup {NoStatus}
      /\ version \in Nat /\ clock + 1 \in Nat
  BY DEF TypeOK
<1>2. QED
  BY <1>1 DEF Remember, Inquiries

LEMMA BeginTypeOK ==
    ASSUME TypeOK, NEW r \in Requests, NEW k \in Kinds, NEW u \in Users \cup {Nobody},
           NEW v \in Nat, NEW new \in Statuses \cup {NoStatus}, NEW a \in Users \cup {Nobody},
           Begin(r, Ask(k, u, v, new, a))
    PROVE  TypeOK'
BY TaskAssumption, AskType DEF TypeOK, Begin, Goto, Locations, rowVars

LEMMA FinishTypes ==
    ASSUME TypeOK, NEW r \in Requests, Finish(r)
    PROVE  /\ pc' \in [Requests -> Locations]
           /\ req' \in [Requests -> Inquiries]
           /\ holder' \in Requests \cup {NoRequest}
           /\ \A q \in Requests : holder' = q => pc'[q] = "committing"
BY TaskAssumption, IdleType DEF TypeOK, Finish, Locations

LEMMA EventType ==
    ASSUME TypeOK, NEW r \in Requests,
           NEW t \in {"created", "updated", "status_changed", "deleted"}
    PROVE  Event(t, r) \in [type : {"created", "updated", "status_changed", "deleted"},
                            created : Nat]
BY DEF TypeOK, Inquiries, Event

LEMMA InitIInv == Init => IInv
BY TaskAssumption, IdleType
   DEF Init, IInv, TypeOK, NothingBefore, OneCreation, HasStatus, UpdatesHold, DeletesHold,
       NoLostUpdate, Locations

(***************************************************************************)
(* One lemma per action.                                                   *)
(***************************************************************************)

LEMMA BeginIInv ==
    ASSUME IInv, NEW r \in Requests, Start(r) PROVE IInv'
<1>1. PICK k \in Kinds, u \in Users \cup {Nobody}, v \in Nat,
           new \in Statuses \cup {NoStatus}, a \in Users \cup {Nobody} :
        /\ Begin(r, Ask(k, u, v, new, a))
        /\ k = "create" => exists = "never" /\ \A q \in Requests : req[q].kind # "create"
        /\ k # "create" => exists # "never"
        /\ k # "none"
  BY TaskAssumption DEF Start, Create, Update, Delete, Comment, Kinds
<1>2. TypeOK'
  BY <1>1, BeginTypeOK DEF IInv
<1> DEFINE asked == Ask(k, u, v, new, a)
<1>3. asked.kind = k
  BY AskType
<1>4. Begin(r, asked)
  BY <1>1
<1> HIDE DEF asked
<1>5. /\ pc[r] = "idle"
      /\ pc' = [pc EXCEPT ![r] = "reading"]
      /\ req' = [req EXCEPT ![r] = req'[r]] /\ req'[r].kind = k
      /\ UNCHANGED <<rowVars, members, clock, holder>>
  BY <1>3, <1>4 DEF Begin, Goto, IInv, TypeOK
<1>6. \A q \in Requests \ {r} : req'[q] = req[q] /\ pc'[q] = pc[q]
  BY <1>5 DEF IInv, TypeOK
<1>7. NothingBefore'
  BY <1>1, <1>5, <1>6 DEF IInv, NothingBefore, rowVars
<1>8. OneCreation'
  BY <1>1, <1>5, <1>6 DEF IInv, OneCreation, rowVars
<1>9. HasStatus' /\ NoLostUpdate'
  BY <1>5 DEF IInv, HasStatus, NoLostUpdate, rowVars
<1>10. UpdatesHold' /\ DeletesHold'
  BY <1>5, <1>6 DEF IInv, UpdatesHold, DeletesHold, rowVars, TypeOK
<1>11. QED
  BY <1>2, <1>7, <1>8, <1>9, <1>10 DEF IInv

\* A request ends without a change of the task.
LEMMA RefuseIInv ==
    ASSUME IInv, NEW r \in Requests, Refuse(r) PROVE IInv'
<1>1. TypeOK'
  BY FinishTypes DEF Refuse, IInv, TypeOK, rowVars
<1>2. /\ pc' = [pc EXCEPT ![r] = "idle"] /\ req' = [req EXCEPT ![r] = Idle]
      /\ holder' = IF holder = r THEN NoRequest ELSE holder
      /\ UNCHANGED <<rowVars, members, clock>>
  BY DEF Refuse, Finish
<1>3. /\ pc'[r] = "idle" /\ req'[r].kind = "none"
      /\ \A q \in Requests \ {r} : req'[q] = req[q] /\ pc'[q] = pc[q]
  BY <1>2, IdleType DEF IInv, TypeOK
<1>4. NothingBefore' /\ OneCreation' /\ HasStatus' /\ NoLostUpdate'
  BY <1>2, <1>3 DEF IInv, NothingBefore, OneCreation, HasStatus, NoLostUpdate, rowVars
<1>5. UpdatesHold' /\ DeletesHold'
  BY <1>2, <1>3 DEF IInv, UpdatesHold, DeletesHold, rowVars
<1>6. QED
  BY <1>1, <1>4, <1>5 DEF IInv

\* A request goes on to a place other than its commit.
LEMMA ReadIInv ==
    ASSUME IInv, NEW r \in Requests, Read(r) PROVE IInv'
<1>1. /\ pc[r] = "reading"
      /\ pc' = [pc EXCEPT ![r] = pc'[r]]
      /\ pc'[r] \in {"validating", "writing"}
      /\ clock' = clock + 1
      /\ req' = [req EXCEPT ![r] = Remember(r)]
      /\ UNCHANGED <<rowVars, members, holder>>
  BY DEF Read, Goto, IInv, TypeOK
<1>2. Remember(r) \in Inquiries /\ Remember(r).kind = req[r].kind
  BY RememberType DEF IInv
<1>3. TypeOK'
  BY <1>1, <1>2 DEF IInv, TypeOK, rowVars, Locations
<1>4. \A q \in Requests : /\ req'[q].kind = req[q].kind
                          /\ q # r => req'[q] = req[q] /\ pc'[q] = pc[q]
  BY <1>1, <1>2 DEF IInv, TypeOK
<1>5. NothingBefore' /\ OneCreation' /\ HasStatus' /\ NoLostUpdate'
  BY <1>1, <1>4 DEF IInv, NothingBefore, OneCreation, HasStatus, NoLostUpdate, rowVars
<1>6. UpdatesHold' /\ DeletesHold'
  BY <1>1, <1>4 DEF IInv, UpdatesHold, DeletesHold, rowVars
<1>7. QED
  BY <1>3, <1>5, <1>6 DEF IInv

LEMMA ValidateIInv ==
    ASSUME IInv, NEW r \in Requests, Validate(r) PROVE IInv'
<1>1. TypeOK'
  BY TaskAssumption DEF Validate, Goto, IInv, TypeOK, rowVars, Locations
<1>2. NothingBefore' /\ OneCreation' /\ HasStatus' /\ NoLostUpdate'
  BY DEF Validate, IInv, NothingBefore, OneCreation, HasStatus, NoLostUpdate, rowVars
<1>3. UpdatesHold' /\ DeletesHold'
  BY DEF Validate, Goto, IInv, TypeOK, UpdatesHold, DeletesHold, rowVars
<1>4. QED
  BY <1>1, <1>2, <1>3 DEF IInv

\* A row of the task is locked, or a comment goes on to its commit.
LEMMA WriteIInv ==
    ASSUME IInv, NEW r \in Requests, UpdateRow(r) \/ DeleteRow(r) \/ InsertComment(r)
    PROVE  IInv'
<1>1. /\ pc[r] = "writing" /\ pc' = [pc EXCEPT ![r] = "committing"]
      /\ req[r].kind \in {"update", "delete", "comment"}
      /\ req[r].kind = "update" =>
             holder' = r /\ exists = "present" /\ version = req[r].sent
      /\ req[r].kind = "delete" => holder' = r \/ exists # "present"
      /\ holder' # holder => holder = NoRequest /\ holder' = r
      /\ UNCHANGED <<rowVars, members, clock, req>>
  BY DEF UpdateRow, DeleteRow, InsertComment, Goto, Unlocked, Matches
<1>2. TypeOK'
  BY <1>1, TaskAssumption DEF IInv, TypeOK, rowVars, Locations
<1>3. NothingBefore' /\ OneCreation' /\ HasStatus' /\ NoLostUpdate'
  BY <1>1 DEF IInv, NothingBefore, OneCreation, HasStatus, NoLostUpdate, rowVars
<1>4. UpdatesHold' /\ DeletesHold'
  BY <1>1, TaskAssumption
     DEF IInv, TypeOK, UpdatesHold, DeletesHold, NothingBefore, rowVars
<1>5. QED
  BY <1>2, <1>3, <1>4 DEF IInv

LEMMA CommitCreateIInv ==
    ASSUME IInv, NEW r \in Requests, CommitCreate(r) PROVE IInv'
<1>1. /\ exists = "never" /\ exists' = "present" /\ version' = 1 /\ status' = Todo
      /\ granted = <<>> /\ granted' = granted
      /\ \A q \in Requests \ {r} : req[q].kind = "none"
  BY DEF CommitCreate, IInv, OneCreation, NothingBefore
<1>2. /\ pc'[r] = "idle" /\ req'[r].kind = "none"
      /\ \A q \in Requests \ {r} : req'[q] = req[q] /\ pc'[q] = pc[q]
  BY IdleType DEF CommitCreate, Finish, IInv, TypeOK
<1>3. TypeOK'
  <2>1. history' \in Seq((Statuses \cup {NoStatus}) \X Statuses)
    BY TaskAssumption DEF CommitCreate
  <2>2. events' \in Seq([type : {"created", "updated", "status_changed", "deleted"},
                        created : Nat])
    BY EventType DEF CommitCreate, IInv, TypeOK
  <2>3. assignee' \in Users \cup {Nobody}
    BY DEF CommitCreate, IInv, TypeOK, Inquiries
  <2>4. QED
    BY <1>1, <2>1, <2>2, <2>3, FinishTypes, TaskAssumption DEF CommitCreate, IInv, TypeOK
<1>4. NothingBefore' /\ OneCreation' /\ HasStatus' /\ UpdatesHold' /\ DeletesHold'
  BY <1>1, <1>2, TaskAssumption
     DEF NothingBefore, OneCreation, HasStatus, UpdatesHold, DeletesHold
<1>5. NoLostUpdate'
  BY <1>1 DEF NoLostUpdate
<1>6. QED
  BY <1>3, <1>4, <1>5 DEF IInv

LEMMA CommitUpdateIInv ==
    ASSUME IInv, NEW r \in Requests, CommitUpdate(r) PROVE IInv'
<1>1. /\ holder = r /\ exists = "present" /\ version = req[r].sent
      /\ exists' = exists /\ version' = version + 1 /\ version \in Nat
      /\ granted' = Append(granted, version)
  BY DEF CommitUpdate, IInv, TypeOK, UpdatesHold
<1>2. status' \in Statuses
  BY <1>1 DEF CommitUpdate, IInv, TypeOK, Inquiries, HasStatus
<1>3. /\ pc'[r] = "idle" /\ req'[r].kind = "none"
      /\ \A q \in Requests \ {r} : req'[q] = req[q] /\ pc'[q] = pc[q]
  BY IdleType DEF CommitUpdate, Finish, IInv, TypeOK
<1>4. TypeOK'
  <2>1. history' \in Seq((Statuses \cup {NoStatus}) \X Statuses)
    BY DEF CommitUpdate, StatusChanged, IInv, TypeOK, Inquiries
  <2>2. events' \in Seq([type : {"created", "updated", "status_changed", "deleted"},
                        created : Nat])
    <3> DEFINE Told == [type : {"created", "updated", "status_changed", "deleted"},
                        created : Nat]
    <3>1. Event("updated", r) \in Told /\ Event("status_changed", r) \in Told
      BY EventType DEF IInv
    <3>2. events \in Seq(Told)
      BY DEF IInv, TypeOK
    <3> HIDE DEF Told
    <3>3. UpdateEvents(r) \in Seq(Told)
      BY <3>1 DEF UpdateEvents
    <3>4. events' \in Seq(Told)
      BY <3>2, <3>3 DEF CommitUpdate
    <3>5. QED
      BY <3>4 DEF Told
  <2>3. assignee' \in Users \cup {Nobody}
    BY DEF CommitUpdate, IInv, TypeOK, Inquiries
  <2>4. granted' \in Seq(Nat)
    BY <1>1 DEF IInv, TypeOK
  <2>5. QED
    BY <1>1, <1>2, <2>1, <2>2, <2>3, <2>4, FinishTypes DEF CommitUpdate, IInv, TypeOK
<1>5. NothingBefore' /\ OneCreation' /\ HasStatus'
  BY <1>1, <1>2, <1>3 DEF IInv, NothingBefore, OneCreation, HasStatus
<1>6. UpdatesHold' /\ DeletesHold'
  BY <1>1, <1>3, TaskAssumption DEF IInv, TypeOK, UpdatesHold, DeletesHold
<1>7. NoLostUpdate'
  BY <1>1 DEF IInv, TypeOK, HasStatus, NoLostUpdate
<1>8. QED
  BY <1>4, <1>5, <1>6, <1>7 DEF IInv

LEMMA CommitDeleteIInv ==
    ASSUME IInv, NEW r \in Requests, CommitDelete(r) PROVE IInv'
<1>1. /\ exists # "never" /\ exists' = "deleted"
      /\ holder = r \/ exists = "deleted"
      /\ UNCHANGED <<version, status, assignee, granted, members, clock>>
  BY DEF CommitDelete, IInv, NothingBefore, DeletesHold
<1>2. /\ pc'[r] = "idle" /\ req'[r].kind = "none"
      /\ \A q \in Requests \ {r} : req'[q] = req[q] /\ pc'[q] = pc[q]
  BY IdleType DEF CommitDelete, Finish, IInv, TypeOK
<1>3. TypeOK'
  <2>1. events' \in Seq([type : {"created", "updated", "status_changed", "deleted"},
                        created : Nat])
    BY EventType DEF CommitDelete, IInv, TypeOK
  <2>2. QED
    BY <1>1, <2>1, FinishTypes DEF CommitDelete, IInv, TypeOK
<1>4. NothingBefore' /\ OneCreation' /\ HasStatus' /\ DeletesHold' /\ NoLostUpdate'
  BY <1>1, <1>2
     DEF IInv, TypeOK, NothingBefore, OneCreation, HasStatus, DeletesHold, NoLostUpdate
<1>5. UpdatesHold'
  BY <1>1, <1>2 DEF IInv, UpdatesHold
<1>6. QED
  BY <1>3, <1>4, <1>5 DEF IInv

LEMMA CommitCommentIInv ==
    ASSUME IInv, NEW r \in Requests, CommitComment(r) PROVE IInv'
<1>1. /\ pc'[r] = "idle" /\ req'[r].kind = "none" /\ req[r].kind = "comment"
      /\ \A q \in Requests \ {r} : req'[q] = req[q] /\ pc'[q] = pc[q]
      /\ UNCHANGED <<exists, version, status, assignee, history, events, granted,
                     members, clock>>
      /\ holder' = IF holder = r THEN NoRequest ELSE holder
  BY IdleType DEF CommitComment, Finish, IInv, TypeOK
<1>2. TypeOK'
  BY <1>1, FinishTypes DEF CommitComment, IInv, TypeOK
<1>3. NothingBefore' /\ OneCreation' /\ HasStatus' /\ NoLostUpdate'
  BY <1>1 DEF IInv, NothingBefore, OneCreation, HasStatus, NoLostUpdate
<1>4. UpdatesHold' /\ DeletesHold'
  BY <1>1 DEF IInv, UpdatesHold, DeletesHold
<1>5. QED
  BY <1>2, <1>3, <1>4 DEF IInv

LEMMA MembersIInv ==
    ASSUME IInv, NEW u \in Users, AddMember(u) \/ RemoveMember(u) PROVE IInv'
BY DEF AddMember, RemoveMember, IInv, TypeOK, NothingBefore, OneCreation, HasStatus,
       UpdatesHold, DeletesHold, NoLostUpdate, rowVars

LEMMA StutterIInv == ASSUME IInv, UNCHANGED vars PROVE IInv'
BY DEF vars, IInv, TypeOK, NothingBefore, OneCreation, HasStatus,
       UpdatesHold, DeletesHold, NoLostUpdate, rowVars

LEMMA NextIInv == IInv /\ [Next]_vars => IInv'
<1> SUFFICES ASSUME IInv, [Next]_vars PROVE IInv'
  OBVIOUS
<1>1. ASSUME NEW r \in Requests, Start(r) PROVE IInv'
  BY <1>1, BeginIInv
<1>2. ASSUME NEW r \in Requests, Refuse(r) PROVE IInv'
  BY <1>2, RefuseIInv
<1>3. ASSUME NEW r \in Requests, Proceed(r) PROVE IInv'
  BY <1>2, <1>3, ReadIInv, ValidateIInv, WriteIInv, CommitCreateIInv, CommitUpdateIInv,
     CommitDeleteIInv, CommitCommentIInv
     DEF Proceed, Write, NotFound, Invalid, Conflict, NoReference
<1>4. ASSUME NEW r \in Requests, Abort(r) PROVE IInv'
  BY <1>2, <1>4 DEF Abort
<1>5. ASSUME NEW u \in Users, AddMember(u) \/ RemoveMember(u) PROVE IInv'
  BY <1>5, MembersIInv
<1>6. CASE UNCHANGED vars
  BY <1>6, StutterIInv
<1>7. QED
  BY <1>1, <1>3, <1>4, <1>5, <1>6 DEF Next

(***************************************************************************)
(* Theorems.                                                               *)
(***************************************************************************)

\* The inductive invariant holds in every reachable state.
THEOREM IInvHolds == Spec => []IInv
<1>1. QED
  BY InitIInv, NextIInv, PTL DEF Spec

\* Every variable of the task, of its requests and of the outbox keeps its type.
THEOREM TypesHold == Spec => []TypeOK
<1>1. IInv => TypeOK
  BY DEF IInv
<1>2. QED
  BY <1>1, IInvHolds, PTL

\* No update of a task is lost: the accepted updates named the versions 1, 2, 3, ...
\* one after the other (the WHERE clause of update_versioned and the row lock).
THEOREM UpdatesAreNotLost == Spec => []NoLostUpdate
<1>1. IInv => NoLostUpdate
  BY DEF IInv
<1>2. QED
  BY <1>1, IInvHolds, PTL

\* A step of the service is a step of the atomic task or leaves it alone.
LEMMA StepIsAtomic == IInv /\ [Next]_vars => [Atomic!ANext]_(Atomic!avars)
<1> SUFFICES ASSUME IInv, Next PROVE Atomic!ANext \/ UNCHANGED Atomic!avars
  BY DEF vars, rowVars, Atomic!avars
<1>1. ASSUME NEW r \in Requests, Start(r) \/ Refuse(r) \/ Read(r) \/ Validate(r)
                                  \/ UpdateRow(r) \/ DeleteRow(r) \/ InsertComment(r)
      PROVE  UNCHANGED Atomic!avars
  BY <1>1 DEF Start, Create, Update, Delete, Comment, Begin, Refuse, Read, Validate, UpdateRow,
              DeleteRow, InsertComment, rowVars, Atomic!avars
<1>2. ASSUME NEW r \in Requests, CommitCreate(r) PROVE Atomic!Create
  BY <1>2 DEF CommitCreate, IInv, OneCreation, NothingBefore, Atomic!Create
<1>3. ASSUME NEW r \in Requests, CommitUpdate(r) PROVE Atomic!ANext
  <2>1. exists = "present" /\ version = req[r].sent /\ status \in Statuses
    BY <1>3 DEF CommitUpdate, IInv, UpdatesHold, HasStatus
  <2>2. status' \in Statuses
    BY <1>3, <2>1 DEF CommitUpdate, IInv, TypeOK, Inquiries
  <2>3. Atomic!Change(status')
    BY <1>3, <2>1 DEF CommitUpdate, Atomic!Change
  <2>4. QED
    BY <2>2, <2>3 DEF Atomic!ANext
<1>4. ASSUME NEW r \in Requests, CommitDelete(r)
      PROVE  Atomic!Remove \/ UNCHANGED Atomic!avars
  BY <1>4 DEF CommitDelete, IInv, TypeOK, Atomic!Remove, Atomic!avars
<1>5. ASSUME NEW r \in Requests, CommitComment(r) PROVE UNCHANGED Atomic!avars
  BY <1>5 DEF CommitComment, Atomic!avars
<1>6. ASSUME NEW u \in Users, AddMember(u) \/ RemoveMember(u)
      PROVE  UNCHANGED Atomic!avars
  BY <1>6 DEF AddMember, RemoveMember, rowVars, Atomic!avars
<1>7. QED
  BY <1>1, <1>2, <1>3, <1>4, <1>5, <1>6
     DEF Next, Proceed, Write, NotFound, Invalid, Conflict, NoReference, Abort, Atomic!ANext

\* However requests interleave, fail and wait, the task behaves like one whose creation,
\* updates and deletion happen in an instant, each update replacing the version its
\* client named.
THEOREM TaskIsAtomic == Spec => IsVersionedTask
<1>1. Init => Atomic!AInit
  BY DEF Init, Atomic!AInit
<1>2. QED
  BY <1>1, StepIsAtomic, IInvHolds, PTL DEF Spec, IsVersionedTask, Atomic!ASpec

(***************************************************************************)
(* Events of a type, and what an event more makes of their number.         *)
(***************************************************************************)

CountIn(s, type) == Cardinality({i \in 1 .. Len(s) : s[i].type = type})

LEMMA CountAppend ==
    ASSUME NEW T, NEW s \in Seq(T), NEW e \in T, NEW type
    PROVE  /\ CountIn(s, type) \in Nat
           /\ CountIn(Append(s, e), type) =
                  CountIn(s, type) + (IF e.type = type THEN 1 ELSE 0)
<1> DEFINE In == {i \in 1 .. Len(s) : s[i].type = type}
           last == Len(s) + 1
           InNow == {i \in 1 .. Len(Append(s, e)) : Append(s, e)[i].type = type}
<1>1. Len(s) \in Nat /\ last \notin In
  OBVIOUS
<1>2. IsFiniteSet(In)
  <2>1. IsFiniteSet(1 .. Len(s)) /\ In \subseteq 1 .. Len(s)
    BY <1>1, FS_Interval
  <2>2. QED
    BY <2>1, FS_Subset
<1>3. Cardinality(In) \in Nat
  BY <1>2, FS_CardinalityType
<1>4. /\ Len(Append(s, e)) = last /\ Append(s, e)[last] = e
      /\ \A i \in 1 .. Len(s) : Append(s, e)[i] = s[i]
  OBVIOUS
<1>5. InNow = IF e.type = type THEN In \cup {last} ELSE In
  BY <1>1, <1>4
<1>6. Cardinality(In \cup {last}) = Cardinality(In) + 1
  BY <1>1, <1>2, FS_AddElement
<1>7. CountIn(s, type) = Cardinality(In) /\ CountIn(Append(s, e), type) = Cardinality(InNow)
  BY DEF CountIn
<1> HIDE DEF In, InNow, last
<1>8. QED
  BY <1>3, <1>5, <1>6, <1>7

\* Nothing is told of a task that was never created, and everything of one that was.
Told == EventsTellChanges /\ (exists = "never" => events = <<>>)

Reports == [type : {"created", "updated", "status_changed", "deleted"}, created : Nat]

LEMMA EventIs ==
    ASSUME NEW r \in Requests, NEW type
    PROVE  Event(type, r).type = type /\ Event(type, r).created = req[r].began
BY DEF Event

LEMMA CountsAre == \A type : Count(type) = CountIn(events, type)
BY DEF Count, CountIn

LEMMA NextCountsAre == \A type : Count(type)' = CountIn(events', type)
BY DEF Count, CountIn

\* The counts after a commit that writes one event.
LEMMA CountsAfter ==
    ASSUME events \in Seq(Reports), NEW e \in Reports, events' = Append(events, e)
    PROVE  \A type : /\ Count(type) \in Nat
                     /\ Count(type)' = Count(type) + (IF e.type = type THEN 1 ELSE 0)
BY CountAppend, CountsAre, NextCountsAre

LEMMA UnchangedTold ==
    ASSUME Told, UNCHANGED <<exists, version, history, events>> PROVE Told'
BY DEF Told, EventsTellChanges, Count

LEMMA CommitCreateTold ==
    ASSUME IInv, Told, NEW r \in Requests, CommitCreate(r) PROVE Told'
<1>1. /\ exists = "never" /\ exists' = "present" /\ version' = 1
      /\ history' = <<<<NoStatus, Todo>>>>
      /\ events' = Append(events, Event("created", r)) /\ events = <<>>
  BY DEF CommitCreate, IInv, OneCreation, Told
<1>2. Event("created", r) \in Reports /\ Event("created", r).type = "created"
  BY EventType, EventIs DEF IInv, Reports
<1>3. events \in Seq(Reports)
  BY DEF IInv, TypeOK, Reports
<1>4. \A type : Count(type) = 0
  <2>1. \A type : {i \in 1 .. Len(events) : events[i].type = type} = {}
    BY <1>1
  <2>2. QED
    BY <2>1, FS_EmptySet DEF Count
<1>5. \A type : Count(type)' = IF type = "created" THEN 1 ELSE 0
  BY <1>1, <1>2, <1>3, <1>4, CountsAfter
<1>6. QED
  BY <1>1, <1>5 DEF Told, EventsTellChanges

LEMMA CommitUpdateTold ==
    ASSUME IInv, Told, NEW r \in Requests, CommitUpdate(r) PROVE Told'
<1> DEFINE changed == Event("status_changed", r)
           updated == Event("updated", r)
<1>1. /\ exists = "present" /\ exists' = "present" /\ version' = version + 1
      /\ version \in Nat
      /\ history' = IF StatusChanged(r)
                    THEN Append(history, <<req[r].oldStatus, req[r].newStatus>>)
                    ELSE history
      /\ events' = events \o UpdateEvents(r)
  BY DEF CommitUpdate, IInv, TypeOK, UpdatesHold
<1>2. /\ changed \in Reports /\ changed.type = "status_changed"
      /\ updated \in Reports /\ updated.type = "updated"
  BY EventType, EventIs DEF IInv, Reports
<1>3. events \in Seq(Reports)
  BY DEF IInv, TypeOK, Reports
<1> HIDE DEF changed, updated
<1>4. Len(history) \in Nat /\ \A h : Len(Append(history, h)) = Len(history) + 1
  BY DEF IInv, TypeOK
<1>5. CASE ~StatusChanged(r)
  <2>1. events' = Append(events, updated)
    BY <1>1, <1>2, <1>3, <1>5 DEF UpdateEvents, updated
  <2>2. \A type : /\ Count(type) \in Nat
                  /\ Count(type)' = Count(type) + (IF type = "updated" THEN 1 ELSE 0)
    BY <1>2, <1>3, <2>1, CountsAfter
  <2>3. QED
    BY <1>1, <1>5, <2>2 DEF Told, EventsTellChanges
<1>6. CASE StatusChanged(r)
  <2>1. events' = Append(Append(events, changed), updated)
    BY <1>1, <1>2, <1>3, <1>6 DEF UpdateEvents, updated, changed
  <2>2. \A type :
          /\ CountIn(events, type) \in Nat
          /\ CountIn(Append(events, changed), type) =
                 CountIn(events, type) + (IF type = "status_changed" THEN 1 ELSE 0)
    BY <1>2, <1>3, CountAppend
  <2> DEFINE once == Append(events, changed)
  <2>3. once \in Seq(Reports) /\ events' = Append(once, updated)
    BY <1>2, <1>3, <2>1
  <2> HIDE DEF once
  <2>4. \A type : CountIn(events', type) =
                      CountIn(once, type) + (IF type = "updated" THEN 1 ELSE 0)
    BY <1>2, <2>3, CountAppend
  <2>5. \A type :
          /\ Count(type) \in Nat
          /\ Count(type)' = Count(type)
                  + (IF type \in {"status_changed", "updated"} THEN 1 ELSE 0)
    BY <2>2, <2>4, CountsAre, NextCountsAre DEF once
  <2>6. Len(history') = Len(history) + 1
    BY <1>1, <1>4, <1>6
  <2>7. /\ Count("created")' = Count("created") /\ Count("deleted")' = Count("deleted")
        /\ Count("updated")' = Count("updated") + 1
        /\ Count("status_changed")' = Count("status_changed") + 1
    BY <2>5
  <2>8. QED
    BY <1>1, <1>4, <2>5, <2>6, <2>7 DEF Told, EventsTellChanges
<1>7. QED
  BY <1>5, <1>6

LEMMA CommitDeleteTold ==
    ASSUME IInv, Told, NEW r \in Requests, CommitDelete(r) PROVE Told'
<1>1. /\ exists # "never" /\ exists' = "deleted" /\ version' = version
      /\ events' = Append(events, Event("deleted", r))
  BY DEF CommitDelete, IInv, NothingBefore
<1>2. Event("deleted", r) \in Reports /\ Event("deleted", r).type = "deleted"
  BY EventType, EventIs DEF IInv, Reports
<1>3. events \in Seq(Reports)
  BY DEF IInv, TypeOK, Reports
<1>4. \A type : /\ Count(type) \in Nat
                /\ Count(type)' = Count(type) + (IF type = "deleted" THEN 1 ELSE 0)
  BY <1>1, <1>2, <1>3, CountsAfter
<1>5. QED
  BY <1>1, <1>4 DEF Told, EventsTellChanges

LEMMA InitTold == Init => Told
<1> SUFFICES ASSUME Init PROVE Told
  OBVIOUS
<1>1. events = <<>> /\ exists = "never"
  BY DEF Init
<1>2. \A type : {i \in 1 .. Len(events) : events[i].type = type} = {}
  BY <1>1
<1>3. \A type : Count(type) = 0
  BY <1>2, FS_EmptySet DEF Count
<1>4. QED
  BY <1>1, <1>3 DEF Told, EventsTellChanges

LEMMA NextTold == IInv /\ Told /\ [Next]_vars => Told'
<1> SUFFICES ASSUME IInv, Told, [Next]_vars PROVE Told'
  OBVIOUS
<1>1. ASSUME NEW r \in Requests, Start(r) \/ Refuse(r) \/ Read(r) \/ Validate(r)
                                  \/ UpdateRow(r) \/ DeleteRow(r) \/ InsertComment(r)
                                  \/ CommitComment(r)
      PROVE  UNCHANGED <<exists, version, history, events>>
  BY <1>1 DEF Start, Create, Update, Delete, Comment, Begin, Refuse, Read, Validate, UpdateRow,
              DeleteRow, InsertComment, CommitComment, rowVars
<1>2. ASSUME NEW u \in Users, AddMember(u) \/ RemoveMember(u)
      PROVE  UNCHANGED <<exists, version, history, events>>
  BY <1>2 DEF AddMember, RemoveMember, rowVars
<1>3. CASE UNCHANGED vars
  BY <1>3, UnchangedTold DEF vars, rowVars
<1>4. QED
  BY <1>1, <1>2, <1>3, UnchangedTold, CommitCreateTold, CommitUpdateTold, CommitDeleteTold
     DEF Next, Proceed, Write, NotFound, Invalid, Conflict, NoReference, Abort

\* The outbox tells exactly what was committed: one task.created, one task.updated per
\* version, one task.status_changed per row of the history, task.deleted only of a task
\* that is gone (create_task, update_task and delete_task write the event in the
\* transaction of the change).
THEOREM EventsAreTold == Spec => []EventsTellChanges
<1>1. Told => EventsTellChanges
  BY DEF Told
<1>2. QED
  BY <1>1, InitTold, NextTold, IInvHolds, PTL DEF Spec

(***************************************************************************)
(* What holds as long as clients name versions they were told of.  An      *)
(* update that will be accepted has then read the task as it still is, and *)
(* began after everything that made it so: Informed says it, of every      *)
(* update in progress.                                                     *)
(***************************************************************************)

\* Nothing is from the future.
Past ==
    /\ \A r \in Requests : req[r].began <= clock
    /\ \A i \in 1 .. Len(events) : events[i].created <= clock

Begun(r) == pc[r] \notin {"idle", "reading"}

Informed ==
    \A r \in Requests :
        req[r].kind = "update" =>
            /\ req[r].sent <= version
            /\ Begun(r) => req[r].sent <= req[r].oldVersion /\ req[r].oldVersion <= version
            /\ Begun(r) /\ req[r].oldVersion = version /\ exists = "present" =>
                   /\ req[r].oldStatus = status
                   /\ \A i \in 1 .. Len(events) :
                          events[i].type # "deleted" => events[i].created <= req[r].began

Sound == Informed /\ UnbrokenHistory /\ CreatedInOrder

\* A step that leaves the task and its events alone and every update where it is,
\* unless it ends it.
LEMMA IdleSound ==
    ASSUME Past, Sound, UNCHANGED <<exists, version, status, history, events>>,
           \A q \in Requests :
               /\ req'[q].kind = "update" => req'[q] = req[q] /\ (Begun(q)' => Begun(q))
               /\ req'[q].began <= clock',
           clock' = clock
    PROVE  Past' /\ Sound'
<1>1. Past'
  BY DEF Past
<1>2. Informed'
  BY DEF Sound, Informed
<1>3. UnbrokenHistory' /\ CreatedInOrder'
  BY DEF Sound, UnbrokenHistory, CreatedInOrder
<1>4. QED
  BY <1>1, <1>2, <1>3 DEF Sound

LEMMA BeginSound ==
    ASSUME IInv, Past, Sound, NEW r \in Requests, Start(r), ~Guess(r)
    PROVE  Past' /\ Sound'
<1>1. /\ pc[r] = "idle" /\ pc' = [pc EXCEPT ![r] = "reading"]
      /\ UNCHANGED <<rowVars, members, clock, holder>>
      /\ \A q \in Requests \ {r} : req'[q] = req[q]
      /\ req'[r].began = 0
  BY DEF Start, Create, Update, Delete, Comment, Begin, Goto, Ask, IInv, TypeOK
<1>2. req'[r].kind = "update" => ~(req'[r].sent > version)
  BY <1>1 DEF Guess
<1>3. req'[r].kind = "update" => req'[r].sent \in Nat
  BY TaskAssumption DEF Start, Create, Update, Delete, Comment, Begin, Goto, Ask, IInv, TypeOK
<1>4. Past'
  <2>1. events' = events /\ clock' = clock /\ clock \in Nat
    BY <1>1 DEF rowVars, IInv, TypeOK
  <2>2. QED
    BY <1>1, <2>1 DEF Past
<1>5. Informed'
  BY <1>1, <1>2, <1>3 DEF Sound, Informed, Begun, rowVars, IInv, TypeOK
<1>6. UnbrokenHistory' /\ CreatedInOrder'
  BY <1>1 DEF Sound, UnbrokenHistory, CreatedInOrder, rowVars
<1>7. QED
  BY <1>4, <1>5, <1>6 DEF Sound

\* The first statement: what it reads is what is there, and its now() is the latest.
LEMMA ReadSound ==
    ASSUME IInv, Past, Sound, NEW r \in Requests, Read(r)
    PROVE  Past' /\ Sound'
<1>1. /\ clock' = clock + 1 /\ clock \in Nat /\ version \in Nat
      /\ UNCHANGED <<exists, version, status, history, events>>
      /\ \A q \in Requests \ {r} : req'[q] = req[q] /\ pc'[q] = pc[q]
      /\ req'[r] = Remember(r) /\ req[r] \in Inquiries
  BY DEF Read, Goto, IInv, TypeOK, rowVars
<1>2. /\ Remember(r).began = clock + 1 /\ Remember(r).oldVersion = version
      /\ Remember(r).oldStatus = status
      /\ Remember(r).kind = req[r].kind /\ Remember(r).sent = req[r].sent
  BY <1>1 DEF Remember, Inquiries
<1>3. /\ \A q \in Requests : req[q].began \in Nat
      /\ \A i \in 1 .. Len(events) : events[i].created \in Nat
  <2>1. \A q \in Requests : req[q] \in Inquiries
    BY DEF IInv, TypeOK
  <2>2. events \in Seq(Reports)
    BY DEF IInv, TypeOK, Reports
  <2>3. \A i \in 1 .. Len(events) : events[i] \in Reports
    BY <2>2
  <2>4. QED
    BY <2>1, <2>3 DEF Inquiries, Reports
<1>4. Past'
  BY <1>1, <1>2, <1>3 DEF Past
<1>5. \A i \in 1 .. Len(events) : events[i].created <= clock + 1
  BY <1>1, <1>3 DEF Past
<1>6. Informed'
  <2>1. ASSUME NEW q \in Requests \ {r}, req'[q].kind = "update"
        PROVE  /\ req'[q].sent <= version'
               /\ Begun(q)' => req'[q].sent <= req'[q].oldVersion
                                /\ req'[q].oldVersion <= version'
               /\ Begun(q)' /\ req'[q].oldVersion = version' /\ exists' = "present" =>
                   /\ req'[q].oldStatus = status'
                   /\ \A i \in 1 .. Len(events') :
                          events'[i].type # "deleted" => events'[i].created <= req'[q].began
    BY <1>1, <2>1 DEF Sound, Informed, Begun
  <2>2. ASSUME req'[r].kind = "update"
        PROVE  /\ req'[r].sent <= version' /\ req'[r].oldVersion = version'
               /\ req'[r].oldStatus = status' /\ req'[r].began = clock + 1
    BY <1>1, <1>2, <2>2 DEF Sound, Informed
  <2>3. QED
    BY <1>1, <1>5, <2>1, <2>2 DEF Informed
<1>7. UnbrokenHistory' /\ CreatedInOrder'
  BY <1>1 DEF Sound, UnbrokenHistory, CreatedInOrder
<1>8. QED
  BY <1>4, <1>6, <1>7 DEF Sound

\* The requests that are left after a commit.
LEMMA AfterFinish ==
    ASSUME IInv, NEW r \in Requests, Finish(r)
    PROVE  /\ req'[r].kind = "none" /\ req'[r].began = 0 /\ pc'[r] = "idle"
           /\ \A q \in Requests \ {r} : req'[q] = req[q] /\ pc'[q] = pc[q]
BY DEF Finish, Idle, Ask, IInv, TypeOK

LEMMA CommitCreateSound ==
    ASSUME IInv, Past, Sound, Told, NEW r \in Requests, CommitCreate(r)
    PROVE  Past' /\ Sound'
<1>1. /\ history' = <<<<NoStatus, Todo>>>> /\ status' = Todo /\ clock' = clock
      /\ events' = Append(events, Event("created", r)) /\ events = <<>>
      /\ \A q \in Requests \ {r} : req[q].kind = "none"
      /\ clock \in Nat
  BY DEF CommitCreate, IInv, TypeOK, OneCreation, NothingBefore, Told
<1>2. /\ req'[r].kind = "none" /\ req'[r].began = 0 /\ pc'[r] = "idle"
      /\ \A q \in Requests \ {r} : req'[q] = req[q] /\ pc'[q] = pc[q]
  BY AfterFinish DEF CommitCreate
<1>3. events' = <<Event("created", r)>> /\ Event("created", r).created <= clock
  BY <1>1, EventIs DEF Past
<1>4. Past'
  BY <1>1, <1>2, <1>3 DEF Past
<1>5. Informed'
  BY <1>1, <1>2 DEF Informed
<1>6. UnbrokenHistory' /\ CreatedInOrder'
  BY <1>1, <1>3 DEF UnbrokenHistory, CreatedInOrder
<1>7. QED
  BY <1>4, <1>5, <1>6 DEF Sound

\* Times and order after a commit that writes one event.
LEMMA InOrderAfter ==
    ASSUME events \in Seq(Reports), NEW e \in Reports, events' = Append(events, e),
           \A i \in 1 .. Len(events) : events[i].created <= clock,
           e.created <= clock, CreatedInOrder,
           e.type # "deleted" =>
               \A i \in 1 .. Len(events) :
                   events[i].type # "deleted" => events[i].created <= e.created
    PROVE  /\ \A i \in 1 .. Len(events') : events'[i].created <= clock
           /\ CreatedInOrder'
<1>1. /\ Len(events') = Len(events) + 1 /\ events'[Len(events) + 1] = e
      /\ \A i \in 1 .. Len(events) : events'[i] = events[i]
      /\ Len(events) \in Nat
  OBVIOUS
<1>2. QED
  BY <1>1 DEF CreatedInOrder

LEMMA CommitDeleteSound ==
    ASSUME IInv, Past, Sound, NEW r \in Requests, CommitDelete(r)
    PROVE  Past' /\ Sound'
<1>1. /\ exists' = "deleted" /\ version' = version /\ clock' = clock /\ clock \in Nat
      /\ events' = Append(events, Event("deleted", r))
  BY DEF CommitDelete, IInv, TypeOK
<1>2. /\ req'[r].kind = "none" /\ req'[r].began = 0 /\ pc'[r] = "idle"
      /\ \A q \in Requests \ {r} : req'[q] = req[q] /\ pc'[q] = pc[q]
  BY AfterFinish DEF CommitDelete
<1>3. /\ events \in Seq(Reports) /\ Event("deleted", r) \in Reports
      /\ Event("deleted", r).type = "deleted" /\ Event("deleted", r).created <= clock
  <2>1. events \in Seq(Reports)
    BY DEF IInv, TypeOK, Reports
  <2>2. Event("deleted", r) \in Reports
    BY EventType DEF IInv, Reports
  <2>3. QED
    BY <2>1, <2>2, EventIs DEF Past
<1>4. /\ \A i \in 1 .. Len(events') : events'[i].created <= clock
      /\ CreatedInOrder'
  <2>1. CreatedInOrder /\ \A i \in 1 .. Len(events) : events[i].created <= clock
    BY DEF Past, Sound
  <2>2. QED
    BY <1>1, <1>3, <2>1, InOrderAfter
<1>5. Past'
  <2>1. \A q \in Requests : req'[q].began <= clock'
    BY <1>1, <1>2 DEF Past
  <2>2. QED
    BY <1>1, <1>4, <2>1 DEF Past
<1>6. Informed'
  BY <1>1, <1>2 DEF Sound, Informed, Begun
<1>7. UnbrokenHistory'
  BY <1>1 DEF UnbrokenHistory
<1>8. QED
  BY <1>4, <1>5, <1>6, <1>7 DEF Sound

\* An accepted update read the version it replaces.
LEMMA AcceptedIsInformed ==
    ASSUME IInv, Sound, NEW r \in Requests, CommitUpdate(r)
    PROVE  /\ req[r].oldStatus = status /\ exists = "present"
           /\ \A i \in 1 .. Len(events) :
                  events[i].type # "deleted" => events[i].created <= req[r].began
<1>1. /\ req[r].kind = "update" /\ Begun(r) /\ version = req[r].sent
      /\ exists = "present" /\ version \in Nat /\ req[r].oldVersion \in Nat
  BY DEF CommitUpdate, IInv, UpdatesHold, Begun, TypeOK, Inquiries
<1>2. req[r].oldVersion = version
  BY <1>1 DEF Sound, Informed
<1>3. QED
  BY <1>1, <1>2 DEF Sound, Informed

LEMMA CommitUpdateSound ==
    ASSUME IInv, Past, Sound, NEW r \in Requests, CommitUpdate(r)
    PROVE  Past' /\ Sound'
<1> DEFINE changed == Event("status_changed", r)
           updated == Event("updated", r)
           new == req[r].newStatus
<1>1. /\ version' = version + 1 /\ version \in Nat
      /\ clock' = clock /\ clock \in Nat
      /\ exists' = "present"
      /\ events' = events \o UpdateEvents(r)
      /\ status' = IF new = NoStatus THEN status ELSE new
      /\ history' = IF new \notin {NoStatus, status} THEN Append(history, <<status, new>>)
                    ELSE history
      /\ history \in Seq((Statuses \cup {NoStatus}) \X Statuses)
      /\ new \in Statuses \cup {NoStatus}
      /\ status \in Statuses
  BY AcceptedIsInformed
     DEF CommitUpdate, IInv, TypeOK, StatusChanged, Inquiries, HasStatus
<1>2. /\ req'[r].kind = "none" /\ req'[r].began = 0 /\ pc'[r] = "idle"
      /\ \A q \in Requests \ {r} : req'[q] = req[q] /\ pc'[q] = pc[q]
  BY AfterFinish DEF CommitUpdate
<1>3. /\ changed \in Reports /\ changed.created = req[r].began /\ req[r].began <= clock
      /\ updated \in Reports /\ updated.created = req[r].began
      /\ events \in Seq(Reports)
      /\ req[r].began \in Nat
  BY EventType, EventIs DEF IInv, TypeOK, Inquiries, Reports, Past
<1>4. \A i \in 1 .. Len(events) :
          /\ events[i].created <= clock
          /\ events[i].type # "deleted" => events[i].created <= req[r].began
  BY AcceptedIsInformed DEF Past
<1> HIDE DEF changed, updated
<1>5. /\ \A i \in 1 .. Len(events') : events'[i].created <= clock
      /\ CreatedInOrder'
  <2>1. CASE ~StatusChanged(r)
    <3>1. events' = Append(events, updated)
      BY <1>1, <1>3, <2>1 DEF UpdateEvents, updated
    <3>2. QED
      BY <1>3, <1>4, <3>1, InOrderAfter DEF Sound
  <2>2. CASE StatusChanged(r)
    <3>1. events' = events \o <<changed, updated>>
      BY <1>1, <1>3, <2>2 DEF UpdateEvents, updated, changed
    <3>2. /\ Len(events') = Len(events) + 2 /\ Len(events) \in Nat
          /\ events'[Len(events) + 1] = changed /\ events'[Len(events) + 2] = updated
          /\ \A i \in 1 .. Len(events) : events'[i] = events[i]
      BY <1>3, <3>1
    <3>3. ASSUME NEW i \in 1 .. Len(events')
          PROVE  /\ events'[i].created <= clock
                 /\ i \notin 1 .. Len(events) => events'[i].created = req[r].began
      BY <1>3, <1>4, <3>2, <3>3
    <3>4. ASSUME NEW i \in 1 .. Len(events'), NEW j \in 1 .. Len(events'), i < j,
                 events'[i].type # "deleted", events'[j].type # "deleted"
          PROVE  events'[i].created <= events'[j].created
      <4>1. CASE j \in 1 .. Len(events)
        BY <3>2, <3>4, <4>1 DEF Sound, CreatedInOrder
      <4>2. CASE j \notin 1 .. Len(events)
        BY <1>3, <1>4, <3>2, <3>3, <3>4, <4>2
      <4>3. QED
        BY <4>1, <4>2
    <3>5. QED
      BY <3>3, <3>4 DEF CreatedInOrder
  <2>3. QED
    BY <2>1, <2>2
<1>6. Past'
  <2>1. \A q \in Requests : req'[q].began <= clock'
    BY <1>1, <1>2 DEF Past
  <2>2. QED
    BY <1>1, <1>5, <2>1 DEF Past
<1>7. Informed'
  <2>1. ASSUME NEW q \in Requests \ {r}, req[q].kind = "update"
        PROVE  /\ req[q].sent <= version + 1
               /\ Begun(q) => req[q].sent <= req[q].oldVersion
                                /\ req[q].oldVersion <= version + 1
                                /\ req[q].oldVersion # version + 1
    <3>1. req[q].sent \in Nat /\ req[q].oldVersion \in Nat
      BY DEF IInv, TypeOK, Inquiries
    <3>2. QED
      BY <1>1, <2>1, <3>1 DEF Sound, Informed
  <2>2. QED
    BY <1>1, <1>2, <2>1 DEF Informed, Begun
<1>8. UnbrokenHistory'
  <2>1. /\ Len(history) > 0 /\ history[1] = <<NoStatus, Todo>> /\ Len(history) \in Nat
        /\ history[Len(history)][2] = status
        /\ \A i \in 1 .. Len(history) - 1 :
              history[i][2] = history[i + 1][1] /\ history[i][2] # history[i + 1][2]
    BY <1>1, AcceptedIsInformed DEF Sound, UnbrokenHistory
  <2>2. CASE new \in {NoStatus, status}
    BY <1>1, <2>1, <2>2 DEF UnbrokenHistory
  <2>3. CASE new \notin {NoStatus, status}
    <3>1. history' = Append(history, <<status, new>>) /\ status' = new
      BY <1>1, <2>3
    <3>2. /\ Len(history') = Len(history) + 1
          /\ history'[Len(history) + 1] = <<status, new>>
          /\ \A i \in 1 .. Len(history) : history'[i] = history[i]
      BY <1>1, <3>1
    <3>3. ASSUME NEW i \in 1 .. Len(history') - 1
          PROVE  /\ history'[i][2] = history'[i + 1][1]
                 /\ history'[i][2] # history'[i + 1][2]
      <4>1. CASE i = Len(history)
        BY <2>1, <2>3, <3>2, <4>1
      <4>2. CASE i # Len(history)
        <5>1. i \in 1 .. Len(history) - 1 /\ i + 1 \in 1 .. Len(history)
          BY <2>1, <3>2, <4>2
        <5>2. QED
          BY <2>1, <3>2, <5>1
      <4>3. QED
        BY <4>1, <4>2
    <3>4. /\ Len(history') > 0 /\ history'[1] = <<NoStatus, Todo>>
          /\ history'[Len(history')][2] = status'
      BY <2>1, <3>1, <3>2
    <3>5. QED
      BY <3>3, <3>4 DEF UnbrokenHistory
  <2>4. QED
    BY <2>2, <2>3
<1>9. QED
  BY <1>5, <1>6, <1>7, <1>8 DEF Sound

LEMMA QuietSound ==
    ASSUME IInv, Past, Sound, NEW r \in Requests,
           Refuse(r) \/ Validate(r) \/ UpdateRow(r) \/ DeleteRow(r) \/ InsertComment(r)
               \/ CommitComment(r)
    PROVE  Past' /\ Sound'
<1>1. clock' = clock /\ clock \in Nat /\ UNCHANGED <<exists, version, status, history, events>>
  BY DEF Refuse, Validate, UpdateRow, DeleteRow, InsertComment, CommitComment, rowVars,
         IInv, TypeOK
<1>2. CASE Refuse(r) \/ CommitComment(r)
  <2>1. /\ req'[r].kind = "none" /\ req'[r].began = 0
        /\ \A q \in Requests \ {r} : req'[q] = req[q] /\ pc'[q] = pc[q]
    BY <1>2, AfterFinish DEF Refuse, CommitComment
  <2>2. QED
    BY <1>1, <2>1, IdleSound DEF Past, Begun
<1>3. CASE Validate(r) \/ UpdateRow(r) \/ DeleteRow(r) \/ InsertComment(r)
  <2>1. req' = req /\ \A q \in Requests : Begun(q)' => Begun(q)
    BY <1>3 DEF Validate, UpdateRow, DeleteRow, InsertComment, Goto, Begun, IInv, TypeOK
  <2>2. QED
    BY <1>1, <2>1, IdleSound DEF Past
<1>4. QED
  BY <1>2, <1>3

LEMMA NextSound ==
    ASSUME IInv, Told, Past, Sound, [Next]_vars, \A r \in Requests : ~Guess(r)
    PROVE  Past' /\ Sound'
<1>1. ASSUME NEW u \in Users, AddMember(u) \/ RemoveMember(u) PROVE Past' /\ Sound'
  <2>1. UNCHANGED <<exists, version, status, history, events, clock, pc, req>>
    BY <1>1 DEF AddMember, RemoveMember, rowVars
  <2>2. QED
    BY <2>1, IdleSound DEF Past, Begun
<1>2. CASE UNCHANGED vars
  <2>1. UNCHANGED <<exists, version, status, history, events, clock, pc, req>>
    BY <1>2 DEF vars, rowVars
  <2>2. QED
    BY <2>1, IdleSound DEF Past, Begun
<1>3. QED
  BY <1>1, <1>2, BeginSound, ReadSound, QuietSound, CommitCreateSound, CommitUpdateSound,
     CommitDeleteSound
     DEF Next, Proceed, Write, NotFound, Invalid, Conflict, NoReference, Abort

GInv == IInv /\ Told /\ (~guessed => Past /\ Sound)

LEMMA GInvHolds == GSpec => []GInv
<1>1. GInit => GInv
  <2> SUFFICES ASSUME GInit PROVE GInv
    OBVIOUS
  <2>1. Init
    BY DEF GInit
  <2>2. IInv /\ Told
    BY <2>1, InitIInv, InitTold
  <2>3. Past /\ Sound
    BY <2>1 DEF Init, Past, Sound, Informed, UnbrokenHistory, CreatedInOrder, Idle, Ask
  <2>4. QED
    BY <2>2, <2>3 DEF GInv
<1>2. GInv /\ [GNext]_<<vars, guessed>> => GInv'
  <2> SUFFICES ASSUME GInv, [GNext]_<<vars, guessed>> PROVE GInv'
    OBVIOUS
  <2>1. [Next]_vars
    BY DEF GNext
  <2>2. IInv' /\ Told'
    BY <2>1, NextIInv, NextTold DEF GInv
  <2>3. ASSUME ~guessed' PROVE Past' /\ Sound'
    <3>1. CASE GNext
      <4>1. ~guessed /\ \A r \in Requests : ~Guess(r)
        BY <2>3, <3>1 DEF GNext
      <4>2. QED
        BY <2>1, <4>1, NextSound DEF GInv
    <3>2. CASE UNCHANGED <<vars, guessed>>
      BY <2>3, <3>2
         DEF vars, rowVars, GInv, Past, Sound, Informed, Begun, UnbrokenHistory,
             CreatedInOrder
    <3>3. QED
      BY <3>1, <3>2
  <2>4. QED
    BY <2>2, <2>3 DEF GInv
<1>3. QED
  BY <1>1, <1>2, PTL DEF GSpec

\* The history of a task is an unbroken chain from its creation to its present status,
\* whatever requests interleave, as long as clients name versions they were told of
\* (update_task, which reads old_status before its conditional UPDATE).
THEOREM HistoryIsUnbroken == GSpec => []HistoryIsChain
<1>1. GInv => HistoryIsChain
  BY DEF GInv, Sound, HistoryIsChain
<1>2. QED
  BY <1>1, GInvHolds, PTL

\* Under the same condition the created_at of the events other than task.deleted, by
\* which the outbox worker publishes, is in the order of the commits.
THEOREM TimesFollowCommits == GSpec => []CreatedAtFollowsVersions
<1>1. GInv => CreatedAtFollowsVersions
  BY DEF GInv, Sound, CreatedAtFollowsVersions
<1>2. QED
  BY <1>1, GInvHolds, PTL

(***************************************************************************)
(* No request waits for ever: whoever has a row locked is about to commit. *)
(***************************************************************************)

\* A request that is open is for something, and a creation writes no row that exists.
Purposeful ==
    \A r \in Requests :
        /\ pc[r] # "idle" => req[r].kind # "none"
        /\ pc[r] = "writing" => req[r].kind \in {"update", "delete", "comment"}

LEMMA StartPurposeful ==
    ASSUME IInv, Purposeful, NEW r \in Requests, Start(r) PROVE Purposeful'
<1>1. PICK request : Begin(r, request) /\ request.kind # "none"
  <2>1. PICK k \in Kinds \ {"none"}, u \in Users \cup {Nobody}, v \in Nat,
             new \in Statuses \cup {NoStatus}, a \in Users \cup {Nobody} :
                 Begin(r, Ask(k, u, v, new, a))
    BY TaskAssumption DEF Start, Create, Update, Delete, Comment, Kinds
  <2>2. Ask(k, u, v, new, a).kind = k
    BY AskType
  <2>3. QED
    BY <2>1, <2>2
<1>2. /\ pc'[r] = "reading" /\ req'[r].kind # "none"
      /\ \A q \in Requests \ {r} : pc'[q] = pc[q] /\ req'[q] = req[q]
  BY <1>1 DEF Begin, Goto, IInv, TypeOK
<1>3. QED
  BY <1>2 DEF Purposeful

\* A step of r that leaves its kind alone, or ends it.
LEMMA MovePurposeful ==
    ASSUME IInv, Purposeful, NEW r \in Requests,
           \A q \in Requests \ {r} : pc'[q] = pc[q] /\ req'[q] = req[q],
           \/ pc'[r] = "idle"
           \/ /\ pc[r] # "idle" /\ req'[r].kind = req[r].kind
              /\ pc'[r] = "writing" => req[r].kind \in {"update", "delete", "comment"}
    PROVE  Purposeful'
BY DEF Purposeful

LEMMA ProceedPurposeful ==
    ASSUME IInv, Purposeful, NEW r \in Requests, Proceed(r) \/ Abort(r) PROVE Purposeful'
<1>1. CASE Read(r)
  <2>1. /\ pc[r] = "reading"
        /\ pc' = [pc EXCEPT ![r] = IF req[r].kind \in {"create", "update"} THEN "validating"
                                   ELSE "writing"]
        /\ req' = [req EXCEPT ![r] = Remember(r)]
    BY <1>1 DEF Read, Goto
  <2>2. req[r].kind \in Kinds \ {"none"}
    BY <2>1 DEF Purposeful, IInv, TypeOK, Inquiries
  <2>3. /\ pc'[r] = "writing" => req[r].kind \in {"update", "delete", "comment"}
        /\ \A q \in Requests \ {r} : pc'[q] = pc[q] /\ req'[q] = req[q]
    BY <2>1, <2>2 DEF Kinds, IInv, TypeOK
  <2>4. req'[r].kind = req[r].kind
    BY <2>1, RememberType DEF IInv, TypeOK
  <2>5. QED
    BY <2>1, <2>3, <2>4, MovePurposeful
<1>2. CASE Validate(r)
  <2>1. /\ pc[r] = "validating" /\ req' = req
        /\ pc' = [pc EXCEPT ![r] = IF req[r].kind = "create" THEN "committing" ELSE "writing"]
    BY <1>2 DEF Validate, Goto
  <2>2. req[r].kind \in Kinds \ {"none"}
    BY <2>1 DEF Purposeful, IInv, TypeOK, Inquiries
  <2>3. /\ pc'[r] = "writing" => req[r].kind \in {"update", "delete", "comment"}
        /\ \A q \in Requests \ {r} : pc'[q] = pc[q]
    BY <2>1, <2>2 DEF Kinds, IInv, TypeOK
  <2>4. QED
    BY <2>1, <2>3, MovePurposeful
<1>3. CASE UpdateRow(r) \/ DeleteRow(r) \/ InsertComment(r)
  <2>1. /\ pc[r] = "writing" /\ pc'[r] = "committing" /\ req' = req
        /\ \A q \in Requests \ {r} : pc'[q] = pc[q]
    BY <1>3 DEF UpdateRow, DeleteRow, InsertComment, Goto, IInv, TypeOK
  <2>2. QED
    BY <2>1, MovePurposeful
<1>4. CASE Finish(r)
  <2>1. pc'[r] = "idle" /\ \A q \in Requests \ {r} : pc'[q] = pc[q] /\ req'[q] = req[q]
    BY <1>4 DEF Finish, IInv, TypeOK
  <2>2. QED
    BY <2>1, MovePurposeful
<1>5. QED
  BY <1>1, <1>2, <1>3, <1>4
     DEF Proceed, Write, Abort, NotFound, Invalid, Conflict, NoReference, Refuse,
         CommitCreate, CommitUpdate, CommitDelete, CommitComment

LEMMA NextPurposeful == IInv /\ Purposeful /\ [Next]_vars => Purposeful'
<1> SUFFICES ASSUME IInv, Purposeful, [Next]_vars PROVE Purposeful'
  OBVIOUS
<1>1. ASSUME NEW r \in Requests, Start(r) \/ Proceed(r) \/ Abort(r) PROVE Purposeful'
  BY <1>1, StartPurposeful, ProceedPurposeful
<1>2. ASSUME UNCHANGED <<pc, req>> PROVE Purposeful'
  BY <1>2 DEF Purposeful
<1>3. QED
  BY <1>1, <1>2 DEF Next, AddMember, RemoveMember, vars

\* With every number of requests, one of those that are open can take its next step:
\* the row lock and the share lock are held by requests that only have to commit.
THEOREM NoDeadlock == Spec => []NobodyWaitsForAll
<1>1. Init => Purposeful
  BY DEF Init, Purposeful
<1>2. IInv /\ Purposeful => NobodyWaitsForAll
  <2> SUFFICES ASSUME IInv, Purposeful, NEW r \in Requests, pc[r] # "idle"
               PROVE  \E q \in Requests : MayProceed(q)
    BY DEF NobodyWaitsForAll
  <2>1. CASE \E q \in Requests : pc[q] = "committing"
    BY <2>1 DEF MayProceed, Purposeful
  <2>2. CASE \A q \in Requests : pc[q] # "committing"
    <3>1. Unlocked /\ Sharers = {} /\ ReferenceFree
      BY <2>2 DEF Unlocked, Sharers, ReferenceFree, IInv, TypeOK
    <3>2. pc[r] \in {"reading", "validating", "writing"}
      BY <2>2 DEF IInv, TypeOK, Locations
    <3>3. MayProceed(r)
      BY <3>1, <3>2 DEF MayProceed, Purposeful
    <3>4. QED
      BY <3>3
  <2>3. QED
    BY <2>1, <2>2
<1>3. QED
  BY <1>1, <1>2, NextPurposeful, IInvHolds, PTL DEF Spec

=============================================================================
