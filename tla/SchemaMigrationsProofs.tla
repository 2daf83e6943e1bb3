----------------------- MODULE SchemaMigrationsProofs -----------------------
(***************************************************************************)
(* Proofs about SchemaMigrations, for any set of commands and of events.   *)
(***************************************************************************)
EXTENDS SchemaMigrations, TLAPS

(***************************************************************************)
(* Tables.                                                                 *)
(***************************************************************************)

Fields == {"key", "required", "defaulted", "optional", "unique", "refs", "indexes"}
IsTable(t) == t = [field \in Fields |-> t[field]]
SameFields(t, u) ==
    /\ t.key = u.key /\ t.required = u.required /\ t.defaulted = u.defaulted
    /\ t.optional = u.optional /\ t.unique = u.unique /\ t.refs = u.refs
    /\ t.indexes = u.indexes

\* Tables with the same columns and constraints are equal.
LEMMA FieldsMakeTable ==
    ASSUME NEW t, NEW u, IsTable(t), IsTable(u), SameFields(t, u)
    PROVE  t = u
  BY DEF IsTable, SameFields, Fields

\* The mixins of the models and the constructor of the scripts make tables.
LEMMA MixinsMakeTables ==
    /\ IsTable(Bare)
    /\ \A t : IsTable(t) => IsTable(WithId(t)) /\ IsTable(WithStamps(t)) /\ IsTable(Mapped(t))
    /\ \A a, b, c, d, e, f : IsTable(Table(a, b, c, d, e, f))
<1>1. IsTable(Bare)
  BY DEF IsTable, Fields, Bare
<1>2. ASSUME NEW t, IsTable(t)  PROVE IsTable(WithId(t)) /\ IsTable(WithStamps(t))
  BY <1>2 DEF IsTable, Fields, WithId, WithStamps
<1>3. \A a, b, c, d, e, f : IsTable(Table(a, b, c, d, e, f))
  BY DEF IsTable, Fields, Table
<1> QED
  BY <1>1, <1>2, <1>3 DEF Mapped

\* What the scripts create or alter are the tables of the models, column by column.
LEMMA ScriptsMakeModels ==
    /\ InitialAuthTables[2].as = User
    /\ InitialAuthTables[3].as = RefreshSession
    /\ CreateOrganizations.as = Organization
    /\ CreateOrganizationMembers.as = OrganizationMember
    /\ CreateProjects.as = Project
    /\ CreateTasks.as = Task
    /\ CreateTaskComments.as = TaskComment
    /\ CreateTaskStatusHistory.as = TaskStatusHistory
    /\ CreateWebhookSubscriptions.as = WebhookSubscription
    /\ CreateWebhookDeliveries.as = WebhookDelivery
    /\ CreateAuditLogs.as = AuditLog
    /\ CreateIdempotencyKeys.as = IdempotencyKey
    /\ KeyedByConsumer = ProcessedMessage
    /\ EventMetadata = OutboxEvent
<1>1. InitialAuthTables[2].as = User
  <2>1. SameFields(InitialAuthTables[2].as, User)
    BY DEF SameFields, InitialAuthTables, Create, CreateType, Table, User, Mapped,
           WithId, WithStamps, Bare, Stamps
  <2>2. IsTable(User)
    BY MixinsMakeTables DEF IsTable, User
  <2>3. IsTable(InitialAuthTables[2].as)
    BY MixinsMakeTables DEF InitialAuthTables, Create, CreateType
  <2> QED
    BY <2>1, <2>2, <2>3, FieldsMakeTable
<1>2. InitialAuthTables[3].as = RefreshSession
  <2>1. SameFields(InitialAuthTables[3].as, RefreshSession)
    BY DEF SameFields, InitialAuthTables, Create, CreateType, Table, RefreshSession,
           WithId, Bare, Stamps
  <2>2. IsTable(RefreshSession)
    BY MixinsMakeTables DEF IsTable, RefreshSession
  <2>3. IsTable(InitialAuthTables[3].as)
    BY MixinsMakeTables DEF InitialAuthTables, Create, CreateType
  <2> QED
    BY <2>1, <2>2, <2>3, FieldsMakeTable
<1>3. CreateOrganizations.as = Organization
  <2>1. SameFields(CreateOrganizations.as, Organization)
    BY DEF SameFields, CreateOrganizations, Create, Table, Organization, Mapped, WithId,
           WithStamps, Bare, Stamps
  <2>2. IsTable(Organization)
    BY MixinsMakeTables DEF IsTable, Organization
  <2>3. IsTable(CreateOrganizations.as)
    BY MixinsMakeTables DEF CreateOrganizations, Create
  <2> QED
    BY <2>1, <2>2, <2>3, FieldsMakeTable
<1>4. CreateOrganizationMembers.as = OrganizationMember
  <2>1. SameFields(CreateOrganizationMembers.as, OrganizationMember)
    BY DEF SameFields, CreateOrganizationMembers, Create, Table, OrganizationMember,
           Mapped, WithId, WithStamps, Bare, Stamps
  <2>2. IsTable(OrganizationMember)
    BY MixinsMakeTables DEF IsTable, OrganizationMember
  <2>3. IsTable(CreateOrganizationMembers.as)
    BY MixinsMakeTables DEF CreateOrganizationMembers, Create
  <2> QED
    BY <2>1, <2>2, <2>3, FieldsMakeTable
<1>5. CreateProjects.as = Project
  <2>1. SameFields(CreateProjects.as, Project)
    BY DEF SameFields, CreateProjects, Create, Table, Project, Mapped, WithId,
           WithStamps, Bare, Stamps
  <2>2. IsTable(Project)
    BY MixinsMakeTables DEF IsTable, Project
  <2>3. IsTable(CreateProjects.as)
    BY MixinsMakeTables DEF CreateProjects, Create
  <2> QED
    BY <2>1, <2>2, <2>3, FieldsMakeTable
<1>6. CreateTasks.as = Task
  <2>1. SameFields(CreateTasks.as, Task)
    BY DEF SameFields, CreateTasks, Create, Table, Task, Mapped, WithId, WithStamps,
           Bare, Stamps
  <2>2. IsTable(Task)
    BY MixinsMakeTables DEF IsTable, Task
  <2>3. IsTable(CreateTasks.as)
    BY MixinsMakeTables DEF CreateTasks, Create
  <2> QED
    BY <2>1, <2>2, <2>3, FieldsMakeTable
<1>7. CreateTaskComments.as = TaskComment
  <2>1. SameFields(CreateTaskComments.as, TaskComment)
    BY DEF SameFields, CreateTaskComments, Create, Table, TaskComment, Mapped, WithId,
           WithStamps, Bare, Stamps
  <2>2. IsTable(TaskComment)
    BY MixinsMakeTables DEF IsTable, TaskComment
  <2>3. IsTable(CreateTaskComments.as)
    BY MixinsMakeTables DEF CreateTaskComments, Create
  <2> QED
    BY <2>1, <2>2, <2>3, FieldsMakeTable
<1>8. CreateTaskStatusHistory.as = TaskStatusHistory
  <2>1. SameFields(CreateTaskStatusHistory.as, TaskStatusHistory)
    BY DEF SameFields, CreateTaskStatusHistory, Create, Table, TaskStatusHistory, WithId,
           Bare, Stamps
  <2>2. IsTable(TaskStatusHistory)
    BY MixinsMakeTables DEF IsTable, TaskStatusHistory
  <2>3. IsTable(CreateTaskStatusHistory.as)
    BY MixinsMakeTables DEF CreateTaskStatusHistory, Create
  <2> QED
    BY <2>1, <2>2, <2>3, FieldsMakeTable
<1>9. CreateWebhookSubscriptions.as = WebhookSubscription
  <2>1. SameFields(CreateWebhookSubscriptions.as, WebhookSubscription)
    BY DEF SameFields, CreateWebhookSubscriptions, Create, Table, WebhookSubscription,
           Mapped, WithId, WithStamps, Bare, Stamps
  <2>2. IsTable(WebhookSubscription)
    BY MixinsMakeTables DEF IsTable, WebhookSubscription
  <2>3. IsTable(CreateWebhookSubscriptions.as)
    BY MixinsMakeTables DEF CreateWebhookSubscriptions, Create
  <2> QED
    BY <2>1, <2>2, <2>3, FieldsMakeTable
<1>10. CreateWebhookDeliveries.as = WebhookDelivery
  <2>1. SameFields(CreateWebhookDeliveries.as, WebhookDelivery)
    BY DEF SameFields, CreateWebhookDeliveries, Create, Table, WebhookDelivery, WithId,
           Bare, Stamps
  <2>2. IsTable(WebhookDelivery)
    BY MixinsMakeTables DEF IsTable, WebhookDelivery
  <2>3. IsTable(CreateWebhookDeliveries.as)
    BY MixinsMakeTables DEF CreateWebhookDeliveries, Create
  <2> QED
    BY <2>1, <2>2, <2>3, FieldsMakeTable
<1>11. CreateAuditLogs.as = AuditLog
  <2>1. SameFields(CreateAuditLogs.as, AuditLog)
    BY DEF SameFields, CreateAuditLogs, Create, Table, AuditLog, WithId, Bare, Stamps
  <2>2. IsTable(AuditLog)
    BY MixinsMakeTables DEF IsTable, AuditLog
  <2>3. IsTable(CreateAuditLogs.as)
    BY MixinsMakeTables DEF CreateAuditLogs, Create
  <2> QED
    BY <2>1, <2>2, <2>3, FieldsMakeTable
<1>12. CreateIdempotencyKeys.as = IdempotencyKey
  <2>1. SameFields(CreateIdempotencyKeys.as, IdempotencyKey)
    BY DEF SameFields, CreateIdempotencyKeys, Create, Table, IdempotencyKey, WithId,
           Bare, Stamps
  <2>2. IsTable(IdempotencyKey)
    BY MixinsMakeTables DEF IsTable, IdempotencyKey
  <2>3. IsTable(CreateIdempotencyKeys.as)
    BY MixinsMakeTables DEF CreateIdempotencyKeys, Create
  <2> QED
    BY <2>1, <2>2, <2>3, FieldsMakeTable
<1>13. KeyedByConsumer = ProcessedMessage
  <2>1. SameFields(KeyedByConsumer, ProcessedMessage)
    BY DEF SameFields, KeyedByConsumer, FirstProcessedMessages, ProcessedMessage, Bare
  <2>2. IsTable(KeyedByConsumer) /\ IsTable(ProcessedMessage)
    BY MixinsMakeTables DEF IsTable, KeyedByConsumer, FirstProcessedMessages,
                            ProcessedMessage
  <2> QED
    BY <2>1, <2>2, FieldsMakeTable
<1>14. EventMetadata = OutboxEvent
  <2>1. SameFields(EventMetadata, OutboxEvent)
    BY DEF SameFields, EventMetadata, FirstOutboxEvents, Table, OutboxEvent, Mapped, WithId,
           WithStamps, Bare, Stamps
  <2>2. IsTable(FirstOutboxEvents)
    BY MixinsMakeTables DEF FirstOutboxEvents
  <2>3. IsTable(EventMetadata)
    BY <2>2 DEF IsTable, EventMetadata
  <2>4. IsTable(OutboxEvent)
    BY MixinsMakeTables DEF IsTable, OutboxEvent
  <2> QED
    BY <2>1, <2>3, <2>4, FieldsMakeTable
<1> QED
  BY <1>1, <1>2, <1>3, <1>4, <1>5, <1>6, <1>7, <1>8, <1>9, <1>10, <1>11, <1>12, <1>13, <1>14

(***************************************************************************)
(* The inductive invariant.                                                *)
(***************************************************************************)

DbFields == {"revision", "tables", "types", "made", "events"}
IsDatabase(db) == db = [field \in DbFields |-> db[field]]
EventStates == {"absent", "bare", "own", "id"}

\* The names of the tables that the first k statements of a script create, drop or
\* alter.
NamesOf(script, k, do) == {script[i].name : i \in {j \in 1 .. k : script[j].do = do}}

\* The tables there are when a command has come so far, and the revision they look
\* like: the one a script leads to, once a statement of it was executed.
Standing(c) ==
    (Present(at[c]) \cup NamesOf(Script(c), step[c], "create"))
        \ NamesOf(Script(c), step[c], "drop")

Resembled(c) == IF step[c] = 0 THEN at[c] ELSE Following(c)

\* The tables that its script has changed.
Touched(c) ==
    NamesOf(Script(c), step[c], "create") \cup NamesOf(Script(c), step[c], "drop")
        \cup NamesOf(Script(c), step[c], "alter")

TableNames == {
    "users", "refresh_sessions", "organizations", "organization_members", "projects",
    "tasks", "task_comments", "task_status_history", "webhook_subscriptions",
    "webhook_deliveries", "outbox_events", "processed_messages", "audit_logs",
    "idempotency_keys"}

\* What a command may lock in the scripts between two revisions, and what it locks
\* first of it.
Number(c) == IF Upwards(c) THEN at[c] + 1 ELSE at[c]

EnumTypes == {"organization_role", "task_status", "task_priority", "outbox_status"}

AuthThings == {"user_role", "users", "refresh_sessions"}
CoreThings == {"users"} \cup {name \in TableNames : MadeBy(name) = 3} \cup EnumTypes

Region(n) ==
    CASE n = 1 -> AuthThings
      [] n = 3 -> CoreThings
      [] n \in {4, 5} -> {"processed_messages"}
      [] n = 6 -> {"outbox_events"}
      [] OTHER -> {}

Reaches(c) ==
    /\ held[c] \subseteq Region(Number(c))
    /\ Number(c) = 1 /\ Upwards(c) =>
          /\ step[c] = 0 => held[c] \subseteq {"user_role"}
          /\ step[c] = 1 => "refresh_sessions" \notin held[c]
    /\ held[c] # {} =>
          /\ Number(c) = 1 /\ ~Upwards(c) => "refresh_sessions" \in held[c]
          /\ Number(c) = 3 /\ Upwards(c) => "organizations" \in held[c]
          /\ Number(c) = 3 /\ ~Upwards(c) => "task_status_history" \in held[c]

\* Types, and where a command may be.  No two commands hold a lock; one that has moved
\* the version holds it until it ends, and what it has changed is locked.
Placed(c) ==
    /\ pc[c] = "idle" => at[c] = goal[c] /\ held[c] = {}
    /\ goal[c] # Latest => goal[c] <= at[c]
    /\ step[c] # 0 => at[c] # goal[c] /\ step[c] <= Len(Script(c))
    /\ pc[c] = "running" /\ at[c] = goal[c] => Version \in held[c]
    /\ Version \in held[c] => work[c].revision = at[c]
    /\ work[c].made \subseteq held[c]
    /\ Touched(c) \subseteq held[c]
    /\ MayRun(c) /\ Version \notin held[c] => Reaches(c)

Places ==
    /\ revision \in 0 .. Latest
    /\ events \in [Events -> EventStates]
    /\ held = [c \in Commands |-> held[c]]
    /\ work = [c \in Commands |-> work[c]]
    /\ pc \in [Commands -> {"idle", "running"}]
    /\ at \in [Commands -> 0 .. Latest]
    /\ goal \in [Commands -> 0 .. Latest]
    /\ step \in [Commands -> Nat]
    /\ \A c, d \in Commands : c # d => held[c] \cap held[d] = {}
    /\ \A c \in Commands : Placed(c)

\* What a command sees of the tables: once it has moved the version, exactly half of a
\* migration; before, what is committed, but for what it has changed.
Mixed(c) ==
    [name \in (DOMAIN tables \ Touched(c)) \cup (Standing(c) \cap Touched(c)) |->
        IF name \in Touched(c) THEN Shape(name, Following(c)) ELSE tables[name]]

Sees(c, db) ==
    db.tables = IF Version \in held[c]
                THEN [name \in Standing(c) |-> Shape(name, Resembled(c))]
                ELSE Mixed(c)

\* Types the transaction sees were there before, or it made them.
TypesAccounted(db) == db.types \subseteq types \cup db.made

\* An event is lost only in a downgrade that drops the table, and the last upgrade
\* gives every event a correlation.
EventsKept(c, db) ==
    /\ db.events \in [Events -> EventStates]
    /\ \A e \in Events :
          events[e] # "absent" /\ db.events[e] = "absent" =>
              goal[c] # Latest /\ "outbox_events" \notin DOMAIN db.tables
    /\ goal[c] = Latest /\ (at[c] = Latest \/ (at[c] = 5 /\ step[c] >= 2)) =>
          Correlated(db.events)

\* A command is mistaken about the revision only if another one has committed; else the
\* first upgrade finds the type it has made.
Abreast(c, db) ==
    c \notin overtaken =>
        /\ db.revision = at[c]
        /\ at[c] = 0 /\ goal[c] # 0 /\ step[c] # 0 => "user_role" \in db.types

\* Before it has moved the version, a command holds tables that are there and those it
\* creates, which are not.
HoldsRightly(c) ==
    Version \notin held[c] =>
        \A name \in held[c] \cap TableNames :
            name \in DOMAIN tables <=> ~(Upwards(c) /\ MadeBy(name) = at[c] + 1)

Sound(c, db) ==
    /\ Sees(c, db)
    /\ TypesAccounted(db)
    /\ EventsKept(c, db)
    /\ Abreast(c, db)
    /\ HoldsRightly(c)

IInv ==
    /\ Places
    /\ tables = Promised(revision)
    /\ revision = Latest => Correlated(events)
    /\ \A c \in Commands : pc[c] = "running" => Sound(c, Current(c))

(***************************************************************************)
(* Scripts.                                                                *)
(***************************************************************************)

LEMMA NamesOfModels == DOMAIN Models = TableNames
  BY DEF Models, TableNames

\* The tables that a table refers to, in every revision.
RefersTo(name) ==
    CASE name \in {"refresh_sessions", "idempotency_keys"} -> {"users"}
      [] name \in {"projects", "webhook_subscriptions", "audit_logs"} -> {"organizations"}
      [] name = "organization_members" -> {"organizations", "users"}
      [] name = "tasks" -> {"projects", "users"}
      [] name \in {"task_comments", "task_status_history"} -> {"tasks", "users"}
      [] name = "webhook_deliveries" -> {"webhook_subscriptions"}
      [] OTHER -> {}

LEMMA References ==
    ASSUME NEW name \in DOMAIN Models, NEW n \in 0 .. 6
    PROVE  Targets(Shape(name, n)) = RefersTo(name)
<1>1. /\ Targets(FirstOutboxEvents) = {} /\ Targets(OutboxEvent) = {}
      /\ Targets(FirstProcessedMessages) = {} /\ Targets(ProcessedMessage) = {}
  BY DEF Targets, FirstOutboxEvents, Table, OutboxEvent, FirstProcessedMessages,
         ProcessedMessage, Mapped, WithId, WithStamps, Bare
<1>2. Targets(User) = {} /\ Targets(RefreshSession) = {"users"}
  BY DEF Targets, User, RefreshSession, Mapped, WithId, WithStamps, Bare
<1>3. Targets(Organization) = {} /\ Targets(OrganizationMember) = {"organizations", "users"}
  BY DEF Targets, Organization, OrganizationMember, Mapped, WithId, WithStamps, Bare
<1>4. Targets(Project) = {"organizations"} /\ Targets(Task) = {"projects", "users"}
  BY DEF Targets, Project, Task, Mapped, WithId, WithStamps, Bare
<1>5. Targets(TaskComment) = {"tasks", "users"} /\ Targets(TaskStatusHistory) = {"tasks", "users"}
  BY DEF Targets, TaskComment, TaskStatusHistory, Mapped, WithId, WithStamps, Bare
<1>6. /\ Targets(WebhookSubscription) = {"organizations"}
      /\ Targets(WebhookDelivery) = {"webhook_subscriptions"}
  BY DEF Targets, WebhookSubscription, WebhookDelivery, Mapped, WithId, WithStamps, Bare
<1>7. Targets(AuditLog) = {"organizations"} /\ Targets(IdempotencyKey) = {"users"}
  BY DEF Targets, AuditLog, IdempotencyKey, WithId, Bare
<1>8. CASE name \in {"outbox_events", "processed_messages"}
  BY <1>1, <1>8 DEF Shape, Models, RefersTo
<1>9. CASE name \notin {"outbox_events", "processed_messages"}
  <2>1. Shape(name, n) = Models[name]
    BY <1>9 DEF Shape
  <2> QED
    BY <2>1, <1>2, <1>3, <1>4, <1>5, <1>6, <1>7, <1>9 DEF Models, RefersTo
<1> QED
  BY <1>8, <1>9

\* The names in the order in which 458a51aab222 creates and drops the tables.
CoreNames == <<
    "organizations", "outbox_events", "audit_logs", "idempotency_keys",
    "organization_members", "projects", "webhook_subscriptions", "tasks",
    "webhook_deliveries", "task_comments", "task_status_history">>

DroppedNames == <<
    "task_status_history", "task_comments", "webhook_deliveries", "tasks",
    "webhook_subscriptions", "projects", "organization_members", "idempotency_keys",
    "audit_logs", "outbox_events", "organizations">>

\* It creates each table once, as the revision has it, after those it refers to, with
\* types of its own.
LEMMA CoreCreates ==
    ASSUME NEW k \in 1 .. 11
    PROVE  /\ CoreTables[k].do = "create"
           /\ CoreTables[k].name = CoreNames[k]
           /\ CoreTables[k].as = Shape(CoreNames[k], 3)
           /\ CoreTables[k].types \subseteq EnumTypes
<1> DEFINE Good(i) == /\ CoreTables[i].do = "create"
                      /\ CoreTables[i].name = CoreNames[i]
                      /\ CoreTables[i].as = Shape(CoreNames[i], 3)
                      /\ CoreTables[i].types \subseteq EnumTypes
<1>1. Good(1)
  BY ScriptsMakeModels DEF CoreTables, CoreNames, CreateOrganizations, Create, Shape, Models,
         EnumTypes
<1>2. Good(2)
  BY ScriptsMakeModels DEF CoreTables, CoreNames, Create, Shape, Models,
         EnumTypes
<1>3. Good(3)
  BY ScriptsMakeModels DEF CoreTables, CoreNames, CreateAuditLogs, Create, Shape, Models,
         EnumTypes
<1>4. Good(4)
  BY ScriptsMakeModels DEF CoreTables, CoreNames, CreateIdempotencyKeys, Create, Shape, Models,
         EnumTypes
<1>5. Good(5)
  BY ScriptsMakeModels DEF CoreTables, CoreNames, CreateOrganizationMembers, Create, Shape, Models,
         EnumTypes
<1>6. Good(6)
  BY ScriptsMakeModels DEF CoreTables, CoreNames, CreateProjects, Create, Shape, Models,
         EnumTypes
<1>7. Good(7)
  BY ScriptsMakeModels DEF CoreTables, CoreNames, CreateWebhookSubscriptions, Create, Shape, Models,
         EnumTypes
<1>8. Good(8)
  BY ScriptsMakeModels DEF CoreTables, CoreNames, CreateTasks, Create, Shape, Models,
         EnumTypes
<1>9. Good(9)
  BY ScriptsMakeModels DEF CoreTables, CoreNames, CreateWebhookDeliveries, Create, Shape, Models,
         EnumTypes
<1>10. Good(10)
  BY ScriptsMakeModels DEF CoreTables, CoreNames, CreateTaskComments, Create, Shape, Models,
         EnumTypes
<1>11. Good(11)
  BY ScriptsMakeModels DEF CoreTables, CoreNames, CreateTaskStatusHistory, Create, Shape, Models,
         EnumTypes
<1> QED
  BY <1>1, <1>2, <1>3, <1>4, <1>5, <1>6, <1>7, <1>8, <1>9, <1>10, <1>11

LEMMA CoreOrder ==
    ASSUME NEW k \in 1 .. 11
    PROVE  /\ CoreNames[k] \in TableNames /\ MadeBy(CoreNames[k]) = 3
           /\ \A j \in 1 .. 11 : CoreNames[j] = CoreNames[k] => j = k
           /\ \A name \in RefersTo(CoreNames[k]) :
                 name = "users" \/ \E j \in 1 .. (k - 1) : CoreNames[j] = name
  BY DEF CoreNames, TableNames, MadeBy, RefersTo

LEMMA DropOrder ==
    ASSUME NEW k \in 1 .. 11
    PROVE  /\ DropCoreTables[k] = Drop(DroppedNames[k])
           /\ DroppedNames[k] \in TableNames /\ MadeBy(DroppedNames[k]) = 3
           /\ \A j \in 1 .. 11 : DroppedNames[j] = DroppedNames[k] => j = k
           /\ \A name \in TableNames :
                 DroppedNames[k] \in RefersTo(name) =>
                     \E j \in 1 .. (k - 1) : DroppedNames[j] = name
  BY DEF DropCoreTables, Drops, DroppedNames, TableNames, MadeBy, RefersTo

\* The chain of revisions.
LEMMA Chain ==
    /\ Latest = 6
    /\ Upgrades[1] = InitialAuthTables /\ Upgrades[2] = <<>> /\ Upgrades[3] = CoreTables
    /\ Downgrades[1] = DropAuthTables /\ Downgrades[2] = <<>>
    /\ Downgrades[3] = DropCoreTables
    /\ Len(InitialAuthTables) = 3 /\ Len(CoreTables) = 11 /\ Len(Upgrades[4]) = 1
    /\ Len(Upgrades[5]) = 1 /\ Len(Upgrades[6]) = 3
    /\ Len(DropAuthTables) = 3 /\ Len(DropCoreTables) = 11 /\ Len(Downgrades[4]) = 1
    /\ Len(Downgrades[5]) = 1 /\ Len(Downgrades[6]) = 2
<1>1. Latest = 6
  BY DEF Latest, Upgrades
<1>2. /\ Upgrades[1] = InitialAuthTables /\ Upgrades[2] = <<>> /\ Upgrades[3] = CoreTables
      /\ Downgrades[1] = DropAuthTables /\ Downgrades[2] = <<>>
      /\ Downgrades[3] = DropCoreTables
  BY DEF Upgrades, Downgrades
<1>3. Len(InitialAuthTables) = 3 /\ Len(CoreTables) = 11
  BY DEF InitialAuthTables, CoreTables
<1>4. Len(Upgrades[4]) = 1 /\ Len(Upgrades[5]) = 1 /\ Len(Upgrades[6]) = 3
  BY DEF Upgrades
<1>5. Len(DropAuthTables) = 3 /\ Len(DropCoreTables) = 11
  BY DEF DropAuthTables, DropCoreTables, Drops
<1>6. Len(Downgrades[4]) = 1 /\ Len(Downgrades[5]) = 1 /\ Len(Downgrades[6]) = 2
  BY DEF Downgrades
<1> QED
  BY <1>1, <1>2, <1>3, <1>4, <1>5, <1>6

LEMMA NamesGrow ==
    ASSUME NEW script, NEW do, NEW k \in Nat
    PROVE  /\ NamesOf(script, 0, do) = {}
           /\ NamesOf(script, k + 1, do) =
                 NamesOf(script, k, do)
                     \cup (IF script[k + 1].do = do THEN {script[k + 1].name} ELSE {})
<1>1. 1 .. 0 = {} /\ 1 .. (k + 1) = (1 .. k) \cup {k + 1}
  OBVIOUS
<1> QED
  BY <1>1 DEF NamesOf

\* What a statement of an upgrade from revision n does.
UpgradeStatement(n, k) ==
    LET script == Upgrades[n + 1]
        op == script[k]
    IN  /\ op.do \in {"create", "create_type", "alter", "backfill", "require"}
        /\ op.do = "create" =>
              /\ n \in {0, 2, 3}
              /\ op.name \in TableNames /\ MadeBy(op.name) = n + 1
              /\ op.name \notin NamesOf(script, k - 1, "create")
              /\ op.as = Shape(op.name, n + 1)
              /\ RefersTo(op.name) \subseteq Present(n) \cup NamesOf(script, k - 1, "create")
              /\ op.types \subseteq EnumTypes
              /\ n # 2 => op.types = {}
        /\ op.do = "alter" =>
              /\ n \in {4, 5} /\ k = 1
              /\ op.name \in Present(n)
              /\ op.from = Shape(op.name, n) /\ op.to = Shape(op.name, n + 1)
              /\ \A name : name # op.name => Shape(name, n + 1) = Shape(name, n)
        /\ k = 1 /\ n \in {4, 5} => op.do = "alter"
        /\ n = 5 => k \in 1 .. 3
        /\ n = 5 /\ k = 2 => op.do = "backfill"
        /\ op.do = "require" => n = 5 /\ k = 3

LEMMA AuthUpgrade ==
    ASSUME NEW k \in 1 .. 3
    PROVE  UpgradeStatement(0, k)
<1>1. /\ InitialAuthTables[1] = CreateType("user_role")
      /\ InitialAuthTables[2].do = "create" /\ InitialAuthTables[2].name = "users"
      /\ InitialAuthTables[2].types = {}
      /\ InitialAuthTables[3].do = "create" /\ InitialAuthTables[3].name = "refresh_sessions"
      /\ InitialAuthTables[3].types = {}
  BY DEF InitialAuthTables, Create
<1>2. Shape("users", 1) = User /\ Shape("refresh_sessions", 1) = RefreshSession
  BY DEF Shape, Models
<1>3. RefersTo("users") = {} /\ RefersTo("refresh_sessions") = {"users"}
  BY DEF RefersTo
<1>4. /\ NamesOf(InitialAuthTables, 0, "create") = {}
      /\ NamesOf(InitialAuthTables, 1, "create") = {}
      /\ NamesOf(InitialAuthTables, 2, "create") = {"users"}
  <2>1. CreateType("user_role").do # "create"
    BY DEF CreateType
  <2> QED
    BY <1>1, <2>1, NamesGrow, 0 + 1 = 1, 1 + 1 = 2
<1>5. CASE k = 1
  BY <1>5, <1>1, Chain DEF UpgradeStatement, CreateType
<1>6. CASE k = 2
  BY <1>6, <1>1, <1>2, <1>3, <1>4, ScriptsMakeModels, Chain
     DEF UpgradeStatement, TableNames, MadeBy
<1>7. CASE k = 3
  BY <1>7, <1>1, <1>2, <1>3, <1>4, ScriptsMakeModels, Chain
     DEF UpgradeStatement, TableNames, MadeBy
<1> QED
  BY <1>5, <1>6, <1>7

LEMMA CoreUpgrade ==
    ASSUME NEW k \in 1 .. 11
    PROVE  UpgradeStatement(2, k)
<1>1. NamesOf(CoreTables, k - 1, "create") = {CoreNames[j] : j \in 1 .. (k - 1)}
  BY CoreCreates DEF NamesOf
<1>2. "users" \in Present(2)
  BY NamesOfModels DEF Present, MadeBy, TableNames
<1>3. CoreNames[k] \notin NamesOf(CoreTables, k - 1, "create")
  BY <1>1, CoreOrder
<1>4. RefersTo(CoreNames[k]) \subseteq Present(2) \cup NamesOf(CoreTables, k - 1, "create")
  BY <1>1, <1>2, CoreOrder
<1> QED
  BY <1>3, <1>4, CoreCreates, CoreOrder, Chain, 2 + 1 = 3 DEF UpgradeStatement

LEMMA LaterUpgrades ==
    ASSUME NEW n \in 3 .. 5, NEW k \in 1 .. Len(Upgrades[n + 1])
    PROVE  UpgradeStatement(n, k)
<1>1. CASE n = 3
  <2>1. k = 1
    <3>1. n + 1 = 4
      BY <1>1
    <3>2. k \in 1 .. Len(Upgrades[4])
      BY <3>1
    <3> QED
      BY <3>2, Chain
  <2>2. Upgrades[4][1] = Create("processed_messages", {}, FirstProcessedMessages)
    BY DEF Upgrades
  <2>3. Shape("processed_messages", 4) = FirstProcessedMessages
    BY DEF Shape
  <2>4. NamesOf(Upgrades[4], 0, "create") = {}
    BY NamesGrow
  <2> QED
    BY <1>1, <2>1, <2>2, <2>3, <2>4, 3 + 1 = 4, 1 - 1 = 0
       DEF UpgradeStatement, Create, TableNames, MadeBy, RefersTo
<1>2. CASE n = 4
  <2>1. k = 1
    <3>1. n + 1 = 5
      BY <1>2
    <3>2. k \in 1 .. Len(Upgrades[5])
      BY <3>1
    <3> QED
      BY <3>2, Chain
  <2>2. Upgrades[5][1] = Alter("processed_messages", FirstProcessedMessages, KeyedByConsumer)
    BY DEF Upgrades
  <2>3. /\ Shape("processed_messages", 4) = FirstProcessedMessages
        /\ Shape("processed_messages", 5) = KeyedByConsumer
        /\ \A name : name # "processed_messages" => Shape(name, 5) = Shape(name, 4)
    BY ScriptsMakeModels DEF Shape, Models
  <2>4. "processed_messages" \in Present(4)
    BY NamesOfModels DEF Present, MadeBy, TableNames
  <2> QED
    BY <1>2, <2>1, <2>2, <2>3, <2>4, 4 + 1 = 5 DEF UpgradeStatement, Alter
<1>3. CASE n = 5
  <2>1. k \in {1, 2, 3}
    <3>1. n + 1 = 6
      BY <1>3
    <3>2. k \in 1 .. Len(Upgrades[6])
      BY <3>1
    <3> QED
      BY <3>2, Chain
  <2>2. /\ Upgrades[6][1] = Alter("outbox_events", FirstOutboxEvents, EventMetadata)
        /\ Upgrades[6][2] = Backfill /\ Upgrades[6][3] = RequireCorrelation
    BY DEF Upgrades
  <2>3. /\ Shape("outbox_events", 5) = FirstOutboxEvents
        /\ Shape("outbox_events", 6) = EventMetadata
        /\ \A name : name # "outbox_events" => Shape(name, 6) = Shape(name, 5)
    BY ScriptsMakeModels DEF Shape, Models
  <2>4. "outbox_events" \in Present(5)
    BY NamesOfModels DEF Present, MadeBy, TableNames
  <2> QED
    BY <1>3, <2>1, <2>2, <2>3, <2>4, 5 + 1 = 6
       DEF UpgradeStatement, Alter, Backfill, RequireCorrelation
<1> QED
  BY <1>1, <1>2, <1>3

LEMMA UpgradeStatements ==
    ASSUME NEW n \in 0 .. 5, NEW k \in 1 .. Len(Upgrades[n + 1])
    PROVE  UpgradeStatement(n, k)
<1>1. CASE n = 0
  BY <1>1, AuthUpgrade, Chain, 0 + 1 = 1
<1>2. CASE n = 1
  BY <1>2, Chain, 1 + 1 = 2
<1>3. CASE n = 2
  BY <1>3, CoreUpgrade, Chain, 2 + 1 = 3
<1>4. CASE n \in 3 .. 5
  BY <1>4, LaterUpgrades
<1> QED
  BY <1>1, <1>2, <1>3, <1>4

\* What a statement of a downgrade from revision n does.
DowngradeStatement(n, k) ==
    LET script == Downgrades[n]
        op == script[k]
    IN  /\ op.do \in {"drop", "drop_type", "alter", "forget"}
        /\ op.do = "drop" =>
              /\ n \in {1, 3, 4}
              /\ op.name \in TableNames /\ MadeBy(op.name) = n
              /\ op.name \notin NamesOf(script, k - 1, "drop")
              /\ \A name \in TableNames :
                    MadeBy(name) <= n /\ op.name \in RefersTo(name) =>
                        name \in NamesOf(script, k - 1, "drop")
        /\ op.do = "alter" =>
              /\ n \in {5, 6} /\ k = 1
              /\ op.name \in Present(n)
              /\ op.from = Shape(op.name, n) /\ op.to = Shape(op.name, n - 1)
              /\ \A name : name # op.name => Shape(name, n - 1) = Shape(name, n)
        /\ k = 1 /\ n \in {5, 6} => op.do = "alter"

LEMMA AuthDowngrade ==
    ASSUME NEW k \in 1 .. 3
    PROVE  DowngradeStatement(1, k)
<1>1. /\ DropAuthTables[1] = Drop("refresh_sessions") /\ DropAuthTables[2] = Drop("users")
      /\ DropAuthTables[3] = DropType("user_role")
  BY DEF DropAuthTables
<1>2. /\ NamesOf(DropAuthTables, 0, "drop") = {}
      /\ NamesOf(DropAuthTables, 1, "drop") = {"refresh_sessions"}
  BY <1>1, NamesGrow, 0 + 1 = 1 DEF Drop
<1>3. \A name \in TableNames :
         /\ "refresh_sessions" \notin RefersTo(name)
         /\ MadeBy(name) <= 1 /\ "users" \in RefersTo(name) => name = "refresh_sessions"
  BY DEF TableNames, MadeBy, RefersTo
<1>4. CASE k = 1
  BY <1>4, <1>1, <1>2, <1>3, Chain DEF DowngradeStatement, Drop, TableNames, MadeBy
<1>5. CASE k = 2
  BY <1>5, <1>1, <1>2, <1>3, Chain DEF DowngradeStatement, Drop, TableNames, MadeBy
<1>6. CASE k = 3
  BY <1>6, <1>1, Chain DEF DowngradeStatement, DropType
<1> QED
  BY <1>4, <1>5, <1>6

LEMMA CoreDowngrade ==
    ASSUME NEW k \in 1 .. 11
    PROVE  DowngradeStatement(3, k)
<1>1. \A i \in 1 .. 11 : /\ DropCoreTables[i].do = "drop"
                         /\ DropCoreTables[i].name = DroppedNames[i]
  BY DropOrder DEF Drop
<1>2. NamesOf(DropCoreTables, k - 1, "drop") = {DroppedNames[j] : j \in 1 .. (k - 1)}
  BY <1>1 DEF NamesOf
<1>3. DroppedNames[k] \notin NamesOf(DropCoreTables, k - 1, "drop")
  BY <1>2, DropOrder
<1>4. ASSUME NEW name \in TableNames, DroppedNames[k] \in RefersTo(name)
      PROVE  name \in NamesOf(DropCoreTables, k - 1, "drop")
  BY <1>2, <1>4, DropOrder
<1> QED
  BY <1>1, <1>3, <1>4, DropOrder, Chain DEF DowngradeStatement

LEMMA LaterDowngrades ==
    ASSUME NEW n \in 4 .. 6, NEW k \in 1 .. Len(Downgrades[n])
    PROVE  DowngradeStatement(n, k)
<1>1. CASE n = 4
  <2>1. k = 1
    BY <1>1, Chain
  <2>2. Downgrades[4][1] = Drop("processed_messages")
    BY DEF Downgrades
  <2>3. NamesOf(Downgrades[4], 0, "drop") = {}
    BY NamesGrow
  <2>4. \A name \in TableNames : "processed_messages" \notin RefersTo(name)
    BY DEF TableNames, RefersTo
  <2> QED
    BY <1>1, <2>1, <2>2, <2>3, <2>4, 1 - 1 = 0 DEF DowngradeStatement, Drop, TableNames, MadeBy
<1>2. CASE n = 5
  <2>1. k = 1
    BY <1>2, Chain
  <2>2. Downgrades[5][1] = Alter("processed_messages", KeyedByConsumer, FirstProcessedMessages)
    BY DEF Downgrades
  <2>3. /\ Shape("processed_messages", 4) = FirstProcessedMessages
        /\ Shape("processed_messages", 5) = KeyedByConsumer
        /\ \A name : name # "processed_messages" => Shape(name, 4) = Shape(name, 5)
    BY ScriptsMakeModels DEF Shape, Models
  <2>4. "processed_messages" \in Present(5)
    BY NamesOfModels DEF Present, MadeBy, TableNames
  <2> QED
    BY <1>2, <2>1, <2>2, <2>3, <2>4, 5 - 1 = 4 DEF DowngradeStatement, Alter
<1>3. CASE n = 6
  <2>1. k \in {1, 2}
    BY <1>3, Chain
  <2>2. /\ Downgrades[6][1] = Alter("outbox_events", EventMetadata, FirstOutboxEvents)
        /\ Downgrades[6][2] = Forget
    BY DEF Downgrades
  <2>3. /\ Shape("outbox_events", 5) = FirstOutboxEvents
        /\ Shape("outbox_events", 6) = EventMetadata
        /\ \A name : name # "outbox_events" => Shape(name, 5) = Shape(name, 6)
    BY ScriptsMakeModels DEF Shape, Models
  <2>4. "outbox_events" \in Present(6)
    BY NamesOfModels DEF Present, MadeBy, TableNames
  <2> QED
    BY <1>3, <2>1, <2>2, <2>3, <2>4, 6 - 1 = 5 DEF DowngradeStatement, Alter, Forget
<1> QED
  BY <1>1, <1>2, <1>3

LEMMA DowngradeStatements ==
    ASSUME NEW n \in 1 .. 6, NEW k \in 1 .. Len(Downgrades[n])
    PROVE  DowngradeStatement(n, k)
<1>1. CASE n = 1
  BY <1>1, AuthDowngrade, Chain
<1>2. CASE n = 2
  BY <1>2, Chain
<1>3. CASE n = 3
  BY <1>3, CoreDowngrade, Chain
<1>4. CASE n \in 4 .. 6
  BY <1>4, LaterDowngrades
<1> QED
  BY <1>1, <1>2, <1>3, <1>4

\* A finished upgrade has made the tables of the next revision, and no other.
LEMMA UpgradeDone ==
    ASSUME NEW n \in 0 .. 5
    PROVE  Present(n) \cup NamesOf(Upgrades[n + 1], Len(Upgrades[n + 1]), "create") = Present(n + 1)
<1>1. CASE n = 0
  <2>1. NamesOf(InitialAuthTables, 3, "create") = {"users", "refresh_sessions"}
    <3>1. /\ InitialAuthTables[1].do # "create"
          /\ InitialAuthTables[2].do = "create" /\ InitialAuthTables[2].name = "users"
          /\ InitialAuthTables[3].do = "create"
          /\ InitialAuthTables[3].name = "refresh_sessions"
      BY DEF InitialAuthTables, Create, CreateType
    <3>2. 1 .. 3 = {1, 2, 3}
      OBVIOUS
    <3> QED
      BY <3>1, <3>2 DEF NamesOf
  <2>2. Present(0) = {} /\ Present(1) = {"users", "refresh_sessions"}
    BY NamesOfModels DEF Present, MadeBy, TableNames
  <2> QED
    BY <1>1, <2>1, <2>2, Chain, 0 + 1 = 1
<1>2. CASE n = 1
  <2>1. NamesOf(Upgrades[2], 0, "create") = {} /\ Len(Upgrades[2]) = 0
    BY NamesGrow, Chain
  <2>2. Present(1) = Present(2)
    BY NamesOfModels DEF Present, MadeBy, TableNames
  <2> QED
    BY <1>2, <2>1, <2>2, 1 + 1 = 2
<1>3. CASE n = 2
  <2>1. NamesOf(CoreTables, 11, "create") = {CoreNames[j] : j \in 1 .. 11}
    BY CoreCreates DEF NamesOf
  <2>2. ASSUME NEW name \in TableNames, MadeBy(name) = 3
        PROVE  name \in {CoreNames[j] : j \in 1 .. 11}
    BY <2>2 DEF TableNames, MadeBy, CoreNames
  <2>3. \A name \in TableNames : MadeBy(name) \in {1, 3, 4}
    BY DEF MadeBy
  <2>4. Present(3) = Present(2) \cup {CoreNames[j] : j \in 1 .. 11}
    BY <2>2, <2>3, CoreOrder, NamesOfModels DEF Present
  <2> QED
    BY <1>3, <2>1, <2>4, Chain, 2 + 1 = 3
<1>4. CASE n = 3
  <2>1. /\ Upgrades[4][1].do = "create" /\ Upgrades[4][1].name = "processed_messages"
        /\ Len(Upgrades[4]) = 1
    BY Chain DEF Upgrades, Create
  <2>2. NamesOf(Upgrades[4], 1, "create") = {"processed_messages"}
    BY <2>1, NamesGrow, 0 + 1 = 1
  <2>3. Present(4) = Present(3) \cup {"processed_messages"}
    BY NamesOfModels DEF Present, MadeBy, TableNames
  <2> QED
    BY <1>4, <2>1, <2>2, <2>3, 3 + 1 = 4
<1>5. CASE n \in {4, 5}
  <2>1. Present(n + 1) = Present(n)
    <3>1. \A name : MadeBy(name) <= n + 1 <=> MadeBy(name) <= n
      BY <1>5 DEF MadeBy
    <3> QED
      BY <3>1 DEF Present
  <2>2. NamesOf(Upgrades[n + 1], Len(Upgrades[n + 1]), "create") \subseteq {}
    <3>1. \A k \in 1 .. Len(Upgrades[n + 1]) : Upgrades[n + 1][k].do # "create"
      BY <1>5, UpgradeStatements DEF UpgradeStatement
    <3> QED
      BY <3>1 DEF NamesOf
  <2> QED
    BY <2>1, <2>2
<1> QED
  BY <1>1, <1>2, <1>3, <1>4, <1>5

\* A finished downgrade has dropped them.
LEMMA DowngradeDone ==
    ASSUME NEW n \in 1 .. 6
    PROVE  Present(n) \ NamesOf(Downgrades[n], Len(Downgrades[n]), "drop") = Present(n - 1)
<1>1. CASE n = 1
  <2>1. NamesOf(DropAuthTables, 3, "drop") = {"users", "refresh_sessions"}
    <3>1. /\ DropAuthTables[1].do = "drop" /\ DropAuthTables[1].name = "refresh_sessions"
          /\ DropAuthTables[2].do = "drop" /\ DropAuthTables[2].name = "users"
          /\ DropAuthTables[3].do # "drop"
      BY DEF DropAuthTables, Drop, DropType
    <3>2. 1 .. 3 = {1, 2, 3}
      OBVIOUS
    <3> QED
      BY <3>1, <3>2 DEF NamesOf
  <2>2. Present(0) = {} /\ Present(1) = {"users", "refresh_sessions"}
    BY NamesOfModels DEF Present, MadeBy, TableNames
  <2> QED
    BY <1>1, <2>1, <2>2, Chain, 1 - 1 = 0
<1>2. CASE n = 2
  <2>1. NamesOf(Downgrades[2], 0, "drop") = {} /\ Len(Downgrades[2]) = 0
    BY NamesGrow, Chain
  <2>2. Present(1) = Present(2)
    BY NamesOfModels DEF Present, MadeBy, TableNames
  <2> QED
    BY <1>2, <2>1, <2>2, 2 - 1 = 1
<1>3. CASE n = 3
  <2>1. NamesOf(DropCoreTables, 11, "drop") = {DroppedNames[j] : j \in 1 .. 11}
    BY DropOrder DEF NamesOf, Drop
  <2>2. ASSUME NEW name \in TableNames, MadeBy(name) = 3
        PROVE  name \in {DroppedNames[j] : j \in 1 .. 11}
    BY <2>2 DEF TableNames, MadeBy, DroppedNames
  <2>3. \A name \in TableNames : MadeBy(name) \in {1, 3, 4}
    BY DEF MadeBy
  <2> QED
    BY <1>3, <2>1, <2>2, <2>3, DropOrder, NamesOfModels, Chain, 3 - 1 = 2 DEF Present
<1>4. CASE n = 4
  <2>1. /\ Downgrades[4][1].do = "drop" /\ Downgrades[4][1].name = "processed_messages"
        /\ Len(Downgrades[4]) = 1
    BY Chain DEF Downgrades, Drop
  <2>2. NamesOf(Downgrades[4], 1, "drop") = {"processed_messages"}
    BY <2>1, NamesGrow, 0 + 1 = 1
  <2>3. Present(3) = Present(4) \ {"processed_messages"}
    BY NamesOfModels DEF Present, MadeBy, TableNames
  <2> QED
    BY <1>4, <2>1, <2>2, <2>3, 4 - 1 = 3
<1>5. CASE n \in {5, 6}
  <2>1. Present(n - 1) = Present(n)
    BY <1>5 DEF Present, MadeBy
  <2>2. NamesOf(Downgrades[n], Len(Downgrades[n]), "drop") \subseteq {}
    <3>1. \A k \in 1 .. Len(Downgrades[n]) : Downgrades[n][k].do # "drop"
      BY <1>5, DowngradeStatements DEF DowngradeStatement
    <3> QED
      BY <3>1 DEF NamesOf
  <2> QED
    BY <2>1, <2>2
<1> QED
  BY <1>1, <1>2, <1>3, <1>4, <1>5

\* Only two revisions change the shape of a table.
LEMMA ShapesStay ==
    ASSUME NEW n \in 0 .. 3, NEW name
    PROVE  Shape(name, n + 1) = Shape(name, n)
  BY DEF Shape

\* What the statements of an upgrade lock.
LEMMA UpgradeThings ==
    ASSUME NEW n \in 0 .. 5, NEW k \in 1 .. Len(Upgrades[n + 1]), NEW op,
           op = Upgrades[n + 1][k]
    PROVE  /\ op.do = "create" => {op.name} \cup op.types \cup RefersTo(op.name) \subseteq Region(n + 1)
           /\ op.do = "create_type" => n = 0 /\ k = 1
           /\ op.do = "alter" => op.name \in Region(n + 1)
           /\ n = 0 /\ k = 1 => op = CreateType("user_role")
           /\ n = 0 /\ k = 2 => op.do = "create" /\ op.name = "users"
           /\ n = 0 /\ k = 3 => op.do = "create" /\ op.name = "refresh_sessions"
           /\ op.do = "create" /\ op.name = "users" => n = 0 /\ k = 2
           /\ n = 2 /\ k = 1 => /\ op.do = "create" /\ op.name = "organizations"
                                /\ op.types = {}
           /\ n = 2 => op.do = "create"
<1>1. CASE n = 0
  <2>1. n + 1 = 1 /\ k \in {1, 2, 3} /\ op = InitialAuthTables[k]
    <3>1. n + 1 = 1
      BY <1>1
    <3> QED
      BY <3>1, Chain
  <2>2. /\ InitialAuthTables[1] = CreateType("user_role")
        /\ InitialAuthTables[2].do = "create" /\ InitialAuthTables[2].name = "users"
        /\ InitialAuthTables[2].types = {}
        /\ InitialAuthTables[3].do = "create" /\ InitialAuthTables[3].name = "refresh_sessions"
        /\ InitialAuthTables[3].types = {}
    BY DEF InitialAuthTables, Create
  <2>3. RefersTo("users") = {} /\ RefersTo("refresh_sessions") = {"users"}
    BY DEF RefersTo
  <2>4. Region(1) = AuthThings /\ CreateType("user_role").do = "create_type"
    BY DEF Region, CreateType
  <2> QED
    BY <1>1, <2>1, <2>2, <2>3, <2>4 DEF AuthThings
<1>2. CASE n = 1
  BY <1>2, Chain, 1 + 1 = 2
<1>3. CASE n = 2
  <2>1. n + 1 = 3 /\ k \in 1 .. 11 /\ op = CoreTables[k]
    <3>1. n + 1 = 3
      BY <1>3
    <3> QED
      BY <3>1, Chain
  <2>2. /\ op.do = "create" /\ op.name = CoreNames[k] /\ op.types \subseteq EnumTypes
        /\ op.name \in TableNames /\ MadeBy(op.name) = 3
        /\ \A name \in RefersTo(op.name) :
              name = "users" \/ \E j \in 1 .. (k - 1) : CoreNames[j] = name
    BY <2>1, CoreCreates, CoreOrder
  <2>3. RefersTo(op.name) \subseteq CoreThings
    <3>1. ASSUME NEW j \in 1 .. (k - 1)
          PROVE  CoreNames[j] \in TableNames /\ MadeBy(CoreNames[j]) = 3
      BY <2>1, <3>1, CoreOrder
    <3> QED
      BY <2>2, <3>1 DEF CoreThings
  <2>4. Region(3) = CoreThings
    BY DEF Region
  <2>5. op.name # "users"
    BY <2>2 DEF MadeBy
  <2>6. k = 1 => op.name = "organizations" /\ op.types = {}
    BY <2>1 DEF CoreTables, CreateOrganizations, Create
  <2> QED
    BY <1>3, <2>1, <2>2, <2>3, <2>4, <2>5, <2>6 DEF CoreThings
<1>4. CASE n = 3
  <2>1. n + 1 = 4 /\ op = Create("processed_messages", {}, FirstProcessedMessages)
    <3>1. n + 1 = 4
      BY <1>4
    <3>2. k = 1
      BY <3>1, Chain
    <3> QED
      BY <3>1, <3>2 DEF Upgrades
  <2> QED
    BY <1>4, <2>1 DEF Create, RefersTo, Region
<1>5. CASE n = 4
  <2>1. n + 1 = 5 /\ op = Alter("processed_messages", FirstProcessedMessages, KeyedByConsumer)
    <3>1. n + 1 = 5
      BY <1>5
    <3>2. k = 1
      BY <3>1, Chain
    <3> QED
      BY <3>1, <3>2 DEF Upgrades
  <2> QED
    BY <1>5, <2>1 DEF Alter, Region
<1>6. CASE n = 5
  <2>1. n + 1 = 6 /\ k \in {1, 2, 3}
    <3>1. n + 1 = 6
      BY <1>6
    <3> QED
      BY <3>1, Chain
  <2>2. /\ Upgrades[6][1] = Alter("outbox_events", FirstOutboxEvents, EventMetadata)
        /\ Upgrades[6][2] = Backfill /\ Upgrades[6][3] = RequireCorrelation
    BY DEF Upgrades
  <2> QED
    BY <1>6, <2>1, <2>2 DEF Alter, Backfill, RequireCorrelation, Region
<1> QED
  BY <1>1, <1>2, <1>3, <1>4, <1>5, <1>6

\* And those of a downgrade.
LEMMA DowngradeThings ==
    ASSUME NEW n \in 1 .. 6, NEW k \in 1 .. Len(Downgrades[n]), NEW op,
           op = Downgrades[n][k]
    PROVE  /\ op.do = "drop" => {op.name} \cup RefersTo(op.name) \subseteq Region(n)
           /\ op.do = "drop_type" => n = 1 /\ k = 3 /\ op.type = "user_role" /\ op.type \in Region(n)
           /\ op.do = "alter" => op.name \in Region(n)
           /\ n = 1 /\ k = 1 => op = Drop("refresh_sessions")
           /\ n = 3 /\ k = 1 => op = Drop("task_status_history")
<1>1. CASE n = 1
  <2>1. k \in {1, 2, 3} /\ op = DropAuthTables[k]
    BY <1>1, Chain
  <2>2. /\ DropAuthTables[1] = Drop("refresh_sessions") /\ DropAuthTables[2] = Drop("users")
        /\ DropAuthTables[3] = DropType("user_role")
    BY DEF DropAuthTables
  <2>3. RefersTo("users") = {} /\ RefersTo("refresh_sessions") = {"users"}
    BY DEF RefersTo
  <2>4. Region(1) = AuthThings
    BY DEF Region
  <2> QED
    BY <1>1, <2>1, <2>2, <2>3, <2>4 DEF AuthThings, Drop, DropType
<1>2. CASE n = 2
  BY <1>2, Chain
<1>3. CASE n = 3
  <2>1. k \in 1 .. 11 /\ op = Drop(DroppedNames[k])
    BY <1>3, Chain, DropOrder
  <2>2. DroppedNames[k] \in TableNames /\ MadeBy(DroppedNames[k]) = 3
    BY <2>1, DropOrder
  <2>3. \A name \in TableNames : RefersTo(name) \subseteq TableNames
    BY DEF TableNames, RefersTo
  <2>4. \A name \in TableNames : MadeBy(name) = 3 =>
          \A other \in RefersTo(name) : other = "users" \/ MadeBy(other) = 3
    BY DEF TableNames, RefersTo, MadeBy
  <2>5. Region(3) = CoreThings
    BY DEF Region
  <2>6. k = 1 => op = Drop("task_status_history")
    BY <2>1 DEF DroppedNames
  <2> QED
    BY <1>3, <2>1, <2>2, <2>3, <2>4, <2>5, <2>6 DEF CoreThings, Drop
<1>4. CASE n = 4
  <2>1. k = 1 /\ op = Drop("processed_messages")
    BY <1>4, Chain DEF Downgrades
  <2> QED
    BY <1>4, <2>1 DEF Drop, RefersTo, Region
<1>5. CASE n = 5
  <2>1. k = 1 /\ op = Alter("processed_messages", KeyedByConsumer, FirstProcessedMessages)
    BY <1>5, Chain DEF Downgrades
  <2> QED
    BY <1>5, <2>1 DEF Alter, Region
<1>6. CASE n = 6
  <2>1. k \in {1, 2}
    BY <1>6, Chain
  <2>2. /\ Downgrades[6][1] = Alter("outbox_events", EventMetadata, FirstOutboxEvents)
        /\ Downgrades[6][2] = Forget
    BY DEF Downgrades
  <2> QED
    BY <1>6, <2>1, <2>2 DEF Alter, Forget, Region
<1> QED
  BY <1>1, <1>2, <1>3, <1>4, <1>5, <1>6

(***************************************************************************)
(* Transactions.                                                           *)
(***************************************************************************)

\* A database is what is committed, but for what is locked.
Agrees(locks, db) ==
    /\ IsDatabase(db)
    /\ db.tables = [name \in DOMAIN db.tables |-> db.tables[name]]
    /\ Version \notin locks => db.revision = revision
    /\ \A name \in DOMAIN tables \cup DOMAIN db.tables : name \notin locks =>
          name \in DOMAIN tables /\ name \in DOMAIN db.tables /\ db.tables[name] = tables[name]
    /\ \A type \in types \cup db.types : type \notin locks => type \in types /\ type \in db.types
    /\ "outbox_events" \notin locks => db.events = events

\* Then nothing of it is lost when only what is locked is kept.
LEMMA KeptIsSeen ==
    ASSUME NEW locks, NEW db, Agrees(locks, db)
    PROVE  Seen(locks, Kept(locks, db)) = db
<1> DEFINE kept == Kept(locks, db)
           seen == Seen(locks, kept)
<1>1. /\ kept.revision = (IF Version \in locks THEN db.revision ELSE 0)
      /\ kept.tables = [name \in DOMAIN db.tables \cap locks |-> db.tables[name]]
      /\ kept.types = db.types \cap locks
      /\ kept.made = db.made
      /\ kept.events = (IF "outbox_events" \in locks THEN db.events ELSE <<>>)
  BY DEF Kept
<1>2. seen = [revision |-> seen.revision, tables |-> seen.tables, types |-> seen.types,
              made |-> seen.made, events |-> seen.events]
  BY DEF Seen
<1>3. db = [revision |-> db.revision, tables |-> db.tables, types |-> db.types,
            made |-> db.made, events |-> db.events]
  BY DEF Agrees, IsDatabase, DbFields
<1>4. seen.revision = db.revision
  BY <1>1 DEF Seen, Agrees
<1>5. seen.tables = db.tables
  <2>1. seen.tables = [name \in (DOMAIN tables \ locks) \cup (DOMAIN kept.tables \cap locks) |->
                          IF name \in locks THEN kept.tables[name] ELSE tables[name]]
    BY DEF Seen
  <2>2. DOMAIN kept.tables = DOMAIN db.tables \cap locks
    BY <1>1
  <2>3. (DOMAIN tables \ locks) \cup (DOMAIN kept.tables \cap locks) = DOMAIN db.tables
    BY <2>2 DEF Agrees
  <2>4. \A name \in DOMAIN db.tables :
           (IF name \in locks THEN kept.tables[name] ELSE tables[name]) = db.tables[name]
    BY <1>1 DEF Agrees
  <2>5. db.tables = [name \in DOMAIN db.tables |-> db.tables[name]]
    BY DEF Agrees
  <2> HIDE DEF kept, seen
  <2> QED
    BY <2>1, <2>3, <2>4, <2>5
<1>6. seen.types = db.types
  <2>1. seen.types = (types \ locks) \cup (kept.types \cap locks)
    BY DEF Seen
  <2> QED
    BY <2>1, <1>1 DEF Agrees
<1>7. seen.made = db.made
  BY <1>1 DEF Seen
<1>8. seen.events = db.events
  BY <1>1 DEF Seen, Agrees
<1> HIDE DEF seen
<1>9. seen = db
  BY <1>2, <1>3, <1>4, <1>5, <1>6, <1>7, <1>8
<1> QED
  BY <1>9 DEF seen

\* What a command sees is of that kind, and stays it when it locks more.
LEMMA CurrentAgrees ==
    ASSUME NEW c, NEW locks, held[c] \subseteq locks
    PROVE  Agrees(locks, Current(c)) /\ Current(c).made = work[c].made
<1> DEFINE db == Current(c)
<1>1. /\ db.revision = (IF Version \in held[c] THEN work[c].revision ELSE revision)
      /\ db.tables = [name \in (DOMAIN tables \ held[c]) \cup (DOMAIN work[c].tables \cap held[c]) |->
                        IF name \in held[c] THEN work[c].tables[name] ELSE tables[name]]
      /\ db.types = (types \ held[c]) \cup (work[c].types \cap held[c])
      /\ db.made = work[c].made
      /\ db.events = (IF "outbox_events" \in held[c] THEN work[c].events ELSE events)
  BY DEF Current, Seen
<1>2. IsDatabase(db)
  BY DEF Current, Seen, IsDatabase, DbFields
<1> HIDE DEF db
<1>3. db.tables = [name \in DOMAIN db.tables |-> db.tables[name]]
  BY <1>1
<1>4. \A name \in DOMAIN tables \cup DOMAIN db.tables : name \notin locks =>
         name \in DOMAIN tables /\ name \in DOMAIN db.tables /\ db.tables[name] = tables[name]
  <2>1. DOMAIN db.tables = (DOMAIN tables \ held[c]) \cup (DOMAIN work[c].tables \cap held[c])
    BY <1>1
  <2>2. \A name \in DOMAIN db.tables : name \notin held[c] => db.tables[name] = tables[name]
    BY <1>1
  <2> QED
    BY <2>1, <2>2
<1> QED
  BY <1>1, <1>2, <1>3, <1>4 DEF Agrees, db

(***************************************************************************)
(* Statements.                                                             *)
(***************************************************************************)

Kinds == {"create", "create_type", "drop", "drop_type", "alter", "backfill", "forget", "require"}

\* What a statement makes of the tables and of the events.
TablesAfter(old, op) ==
    CASE op.do = "create" ->
           [n \in DOMAIN old \cup {op.name} |-> IF n = op.name THEN op.as ELSE old[n]]
      [] op.do = "drop" -> [n \in DOMAIN old \ {op.name} |-> old[n]]
      [] op.do = "alter" -> [old EXCEPT ![op.name] = op.to]
      [] OTHER -> old

EventsAfter(old, op) ==
    CASE op.do = "drop" /\ op.name = "outbox_events" -> [e \in DOMAIN old |-> "absent"]
      [] op.do = "backfill" -> Backfilled(old)
      [] op.do = "forget" -> Forgotten(old)
      [] OTHER -> old

LEMMA AfterStatement ==
    ASSUME NEW db, IsDatabase(db), NEW op, op.do \in Kinds
    PROVE  /\ IsDatabase(After(db, op))
           /\ After(db, op).revision = db.revision
           /\ After(db, op).tables = TablesAfter(db.tables, op)
           /\ After(db, op).types \subseteq db.types \cup After(db, op).made
           /\ db.made \subseteq After(db, op).made
           /\ After(db, op).events = EventsAfter(db.events, op)
<1>1. CASE op.do = "create"
  BY <1>1 DEF After, Created, IsDatabase, DbFields, TablesAfter, EventsAfter
<1>2. CASE op.do = "create_type"
  BY <1>2 DEF After, IsDatabase, DbFields, TablesAfter, EventsAfter
<1>3. CASE op.do = "drop"
  BY <1>3 DEF After, Dropped, IsDatabase, DbFields, TablesAfter, EventsAfter
<1>4. CASE op.do = "drop_type"
  BY <1>4 DEF After, IsDatabase, DbFields, TablesAfter, EventsAfter
<1>5. CASE op.do = "alter"
  BY <1>5 DEF After, Altered, IsDatabase, DbFields, TablesAfter, EventsAfter
<1>6. CASE op.do = "backfill"
  BY <1>6 DEF After, IsDatabase, DbFields, TablesAfter, EventsAfter
<1>7. CASE op.do = "forget"
  BY <1>7 DEF After, IsDatabase, DbFields, TablesAfter, EventsAfter
<1>8. CASE op.do = "require"
  BY <1>8 DEF After, TablesAfter, EventsAfter
<1> QED
  BY <1>1, <1>2, <1>3, <1>4, <1>5, <1>6, <1>7, <1>8 DEF Kinds

\* A statement changes nothing but what it names, which is locked.
LEMMA AfterAgrees ==
    ASSUME NEW locks, NEW db, Agrees(locks, db), db.made \subseteq locks,
           NEW op, op.do \in Kinds, Named(db, op) \subseteq locks,
           op.do \in {"backfill", "forget"} => "outbox_events" \in locks,
           op.do = "alter" => op.name \in DOMAIN db.tables
    PROVE  Agrees(locks, After(db, op)) /\ After(db, op).made \subseteq locks
<1> DEFINE new == After(db, op)
<1>1. /\ IsDatabase(new) /\ new.revision = db.revision
      /\ new.tables = TablesAfter(db.tables, op)
      /\ new.events = EventsAfter(db.events, op)
  BY AfterStatement DEF Agrees
<1>2. /\ \A type \in new.types \cup db.types : type \notin locks => type \in new.types /\ type \in db.types
      /\ new.made \subseteq locks
  <2>1. CASE op.do = "create"
    <3>1. op.types \subseteq locks
      BY <2>1 DEF Named
    <3>2. new.types = db.types \cup op.types /\ new.made = db.made \cup op.types
      BY <2>1 DEF After, Created, Agrees, IsDatabase, DbFields
    <3> QED
      BY <3>1, <3>2
  <2>2. CASE op.do = "create_type"
    <3>1. {op.type} \ db.types \subseteq locks
      BY <2>2 DEF Named
    <3>2. /\ new.types = db.types \cup {op.type}
          /\ new.made = db.made \cup ({op.type} \ db.types)
      BY <2>2 DEF After, Agrees, IsDatabase, DbFields
    <3> QED
      BY <3>1, <3>2
  <2>3. CASE op.do = "drop_type"
    <3>1. {op.type} \cap db.types \subseteq locks
      BY <2>3 DEF Named
    <3>2. new.types = db.types \ {op.type} /\ new.made = db.made
      BY <2>3 DEF After, Agrees, IsDatabase, DbFields
    <3> QED
      BY <3>1, <3>2
  <2>4. CASE op.do \notin {"create", "create_type", "drop_type"}
    <3>1. new.types = db.types /\ new.made = db.made
      BY <2>4 DEF After, Dropped, Altered, Agrees, IsDatabase, DbFields, Kinds
    <3> QED
      BY <3>1
  <2> QED
    BY <2>1, <2>2, <2>3, <2>4
<1> HIDE DEF new
<1>3. /\ new.tables = [name \in DOMAIN new.tables |-> new.tables[name]]
      /\ \A name \in DOMAIN new.tables \cup DOMAIN db.tables : name \notin locks =>
            name \in DOMAIN new.tables /\ name \in DOMAIN db.tables
            /\ new.tables[name] = db.tables[name]
  <2>0. db.tables = [name \in DOMAIN db.tables |-> db.tables[name]]
    BY DEF Agrees
  <2>1. CASE op.do = "create"
    <3>1. op.name \in locks
      BY <2>1 DEF Named
    <3> QED
      BY <1>1, <2>0, <2>1, <3>1 DEF TablesAfter
  <2>2. CASE op.do = "drop"
    <3>1. op.name \in locks
      BY <2>2 DEF Named
    <3> QED
      BY <1>1, <2>0, <2>2, <3>1 DEF TablesAfter
  <2>3. CASE op.do = "alter"
    <3>1. op.name \in locks
      BY <2>3 DEF Named
    <3> QED
      BY <1>1, <2>0, <2>3, <3>1 DEF TablesAfter
  <2>4. CASE op.do \notin {"create", "drop", "alter"}
    BY <1>1, <2>0, <2>4 DEF TablesAfter
  <2> QED
    BY <2>1, <2>2, <2>3, <2>4
<1>4. "outbox_events" \notin locks => new.events = db.events
  <2>1. "outbox_events" \notin locks => ~(op.do = "drop" /\ op.name = "outbox_events")
    BY DEF Named
  <2> QED
    BY <1>1, <2>1 DEF EventsAfter
<1>5. Agrees(locks, new)
  <2>1. \A name \in DOMAIN tables \cup DOMAIN new.tables : name \notin locks =>
          name \in DOMAIN tables /\ name \in DOMAIN new.tables /\ new.tables[name] = tables[name]
    BY <1>3 DEF Agrees
  <2>2. \A type \in types \cup new.types : type \notin locks => type \in types /\ type \in new.types
    BY <1>2 DEF Agrees
  <2> QED
    BY <1>1, <1>3, <1>4, <2>1, <2>2 DEF Agrees
<1> QED
  BY <1>2, <1>5 DEF new

\* Where a command that may run is going.
LEMMA Directions ==
    ASSUME Places, NEW c \in Commands, at[c] # goal[c]
    PROVE  /\ Upwards(c) => /\ goal[c] = Latest /\ at[c] \in 0 .. 5
                            /\ Script(c) = Upgrades[at[c] + 1]
                            /\ Following(c) = at[c] + 1
           /\ ~Upwards(c) => /\ goal[c] # Latest /\ at[c] \in 1 .. 6 /\ goal[c] < at[c]
                             /\ Script(c) = Downgrades[at[c]]
                             /\ Following(c) = at[c] - 1
           /\ Following(c) \in 0 .. Latest
<1>1. Latest = 6 /\ at[c] \in 0 .. 6 /\ goal[c] \in 0 .. 6
  BY Chain DEF Places
<1>2. goal[c] # 6 => goal[c] <= at[c]
  BY <1>1 DEF Places, Placed
<1> QED
  BY <1>1, <1>2 DEF Upwards, Script, Following

\* Before the first script nothing has been done.
LEMMA StartStands ==
    ASSUME NEW c \in Commands, step[c] = 0
    PROVE  Standing(c) = Present(at[c])
  BY NamesGrow DEF Standing

\* The statement at which a command is.
LEMMA AtScript ==
    ASSUME IInv, NEW c \in Commands, AtStatement(c)
    PROVE  /\ step[c] \in Nat /\ step[c] + 1 \in 1 .. Len(Script(c))
           /\ Statement(c).do \in Kinds
           /\ Upwards(c) => UpgradeStatement(at[c], step[c] + 1)
           /\ ~Upwards(c) => DowngradeStatement(at[c], step[c] + 1)
<1>1. at[c] # goal[c] /\ step[c] \in Nat /\ Places
  BY DEF AtStatement, MayRun, IInv, Places
<1>2. Len(Script(c)) \in Nat
  <2>1. CASE Upwards(c)
    <3>1. at[c] + 1 \in {1, 2, 3, 4, 5, 6}
      BY <2>1, <1>1, Directions
    <3>2. Len(Upgrades[at[c] + 1]) \in Nat
      BY <3>1, Chain
    <3> QED
      BY <2>1, <3>2, <1>1, Directions
  <2>2. CASE ~Upwards(c)
    <3>1. at[c] \in {1, 2, 3, 4, 5, 6}
      BY <2>2, <1>1, Directions
    <3>2. Len(Downgrades[at[c]]) \in Nat
      BY <3>1, Chain
    <3> QED
      BY <2>2, <3>2, <1>1, Directions
  <2> QED
    BY <2>1, <2>2
<1>3. step[c] + 1 \in 1 .. Len(Script(c))
  BY <1>1, <1>2 DEF AtStatement
<1>4. CASE Upwards(c)
  <2>1. UpgradeStatement(at[c], step[c] + 1)
    BY <1>1, <1>3, <1>4, Directions, UpgradeStatements
  <2>2. Statement(c).do \in Kinds
    BY <2>1, <1>1, <1>4, Directions DEF UpgradeStatement, Statement, Kinds
  <2> QED
    BY <1>1, <1>3, <1>4, <2>1, <2>2
<1>5. CASE ~Upwards(c)
  <2>1. DowngradeStatement(at[c], step[c] + 1)
    BY <1>1, <1>3, <1>5, Directions, DowngradeStatements
  <2>2. Statement(c).do \in Kinds
    BY <2>1, <1>1, <1>5, Directions DEF DowngradeStatement, Statement, Kinds
  <2> QED
    BY <1>1, <1>3, <1>5, <2>1, <2>2
<1> QED
  BY <1>4, <1>5

LEMMA StandingIs ==
    ASSUME IInv, NEW c \in Commands, at[c] # goal[c], step[c] \in 0 .. Len(Script(c))
    PROVE  /\ Upwards(c) => /\ NamesOf(Script(c), step[c], "drop") = {}
                            /\ Standing(c) = Present(at[c]) \cup NamesOf(Script(c), step[c], "create")
           /\ ~Upwards(c) => /\ NamesOf(Script(c), step[c], "create") = {}
                             /\ Standing(c) = Present(at[c]) \ NamesOf(Script(c), step[c], "drop")
<1>1. CASE Upwards(c)
  <2>1. ASSUME NEW i \in 1 .. step[c]  PROVE Script(c)[i].do # "drop"
    <3>1. at[c] \in 0 .. 5 /\ Script(c) = Upgrades[at[c] + 1] /\ i \in 1 .. Len(Script(c))
      BY <1>1, Directions DEF IInv
    <3>2. UpgradeStatement(at[c], i)
      BY <3>1, UpgradeStatements
    <3> QED
      BY <3>1, <3>2 DEF UpgradeStatement
  <2> QED
    BY <1>1, <2>1 DEF NamesOf, Standing
<1>2. CASE ~Upwards(c)
  <2>1. ASSUME NEW i \in 1 .. step[c]  PROVE Script(c)[i].do # "create"
    <3>1. at[c] \in 1 .. 6 /\ Script(c) = Downgrades[at[c]] /\ i \in 1 .. Len(Script(c))
      BY <1>2, Directions DEF IInv
    <3>2. DowngradeStatement(at[c], i)
      BY <3>1, DowngradeStatements
    <3> QED
      BY <3>1, <3>2 DEF DowngradeStatement
  <2> QED
    BY <1>2, <2>1 DEF NamesOf, Standing
<1> QED
  BY <1>1, <1>2

\* A statement that creates finds no such table and those it refers to; one that drops
\* finds the table and nothing that refers to it.
LEMMA StatementFits ==
    ASSUME IInv, NEW c \in Commands, AtStatement(c)
    PROVE  /\ Statement(c).do = "create" =>
                 /\ Upwards(c)
                 /\ Statement(c).name \notin Standing(c)
                 /\ Statement(c).name \in TableNames
                 /\ Statement(c).as = Shape(Statement(c).name, Following(c))
                 /\ RefersTo(Statement(c).name) \subseteq Standing(c)
           /\ Statement(c).do = "drop" =>
                 /\ ~Upwards(c)
                 /\ Statement(c).name \in Standing(c)
                 /\ \A name \in Standing(c) :
                       Statement(c).name \notin RefersTo(name)
           /\ Statement(c).do = "alter" =>
                 /\ step[c] = 0
                 /\ Statement(c).name \in Standing(c)
                 /\ Statement(c).from = Shape(Statement(c).name, at[c])
                 /\ Statement(c).to = Shape(Statement(c).name, Following(c))
                 /\ \A name : name # Statement(c).name =>
                       Shape(name, Following(c)) = Shape(name, at[c])
           /\ Statement(c).do # "alter" =>
                 \A name : Shape(name, Following(c)) = Shape(name, Resembled(c))
<1>1. /\ at[c] # goal[c] /\ step[c] \in Nat /\ step[c] + 1 \in 1 .. Len(Script(c))
      /\ step[c] \in 0 .. Len(Script(c)) /\ Places /\ step[c] + 1 - 1 = step[c]
      /\ Statement(c) = Script(c)[step[c] + 1]
  BY AtScript DEF AtStatement, MayRun, IInv, Statement
<1>2. CASE Upwards(c)
  <2>1. UpgradeStatement(at[c], step[c] + 1)
    BY <1>2, AtScript
  <2>2. at[c] \in 0 .. 5 /\ Script(c) = Upgrades[at[c] + 1] /\ Following(c) = at[c] + 1
    BY <1>1, <1>2, Directions
  <2>3. Standing(c) = Present(at[c]) \cup NamesOf(Script(c), step[c], "create")
    BY <1>1, <1>2, StandingIs
  <2>4. Statement(c).do \notin {"drop", "drop_type", "forget"}
    BY <1>1, <2>1, <2>2 DEF UpgradeStatement
  <2>5. ASSUME Statement(c).do = "create"
        PROVE  /\ Statement(c).name \notin Standing(c)
               /\ Statement(c).name \in TableNames
               /\ Statement(c).as = Shape(Statement(c).name, Following(c))
               /\ RefersTo(Statement(c).name) \subseteq Standing(c)
    <3>1. /\ Statement(c).name \in TableNames
          /\ MadeBy(Statement(c).name) = at[c] + 1
          /\ Statement(c).name \notin NamesOf(Script(c), step[c], "create")
          /\ Statement(c).as = Shape(Statement(c).name, at[c] + 1)
          /\ RefersTo(Statement(c).name) \subseteq
                Present(at[c]) \cup NamesOf(Script(c), step[c], "create")
      BY <1>1, <2>1, <2>2, <2>5, SMTT(30) DEF UpgradeStatement
    <3>2. Statement(c).name \notin Present(at[c])
      BY <2>2, <3>1 DEF Present
    <3> QED
      BY <2>2, <2>3, <3>1, <3>2
  <2>6. ASSUME Statement(c).do = "alter"
        PROVE  /\ step[c] = 0
               /\ Statement(c).name \in Standing(c)
               /\ Statement(c).from = Shape(Statement(c).name, at[c])
               /\ Statement(c).to = Shape(Statement(c).name, Following(c))
               /\ \A name : name # Statement(c).name =>
                     Shape(name, Following(c)) = Shape(name, at[c])
    <3>1. Statement(c) = Upgrades[at[c] + 1][step[c] + 1] /\ (step[c] + 1 = 1 <=> step[c] = 0)
      BY <1>1, <2>2
    <3> QED
      BY <1>1, <2>1, <2>2, <2>3, <2>6, <3>1 DEF UpgradeStatement
  <2>7. ASSUME Statement(c).do # "alter", NEW name
        PROVE  Shape(name, Following(c)) = Shape(name, Resembled(c))
    <3>1. CASE step[c] = 0
      <4>1. at[c] \in 0 .. 3
        BY <3>1, <1>1, <2>1, <2>2, <2>7 DEF UpgradeStatement
      <4> QED
        BY <3>1, <4>1, <2>2, ShapesStay DEF Resembled
    <3>2. CASE step[c] # 0
      BY <3>2 DEF Resembled
    <3> QED
      BY <3>1, <3>2
  <2> QED
    BY <1>2, <2>4, <2>5, <2>6, <2>7
<1>3. CASE ~Upwards(c)
  <2>1. DowngradeStatement(at[c], step[c] + 1)
    BY <1>3, AtScript
  <2>2. at[c] \in 1 .. 6 /\ Script(c) = Downgrades[at[c]] /\ Following(c) = at[c] - 1
    BY <1>1, <1>3, Directions
  <2>3. Standing(c) = Present(at[c]) \ NamesOf(Script(c), step[c], "drop")
    BY <1>1, <1>3, StandingIs
  <2>4. Statement(c).do \notin {"create", "create_type", "backfill", "require"}
    BY <1>1, <2>1, <2>2 DEF DowngradeStatement
  <2>5. ASSUME Statement(c).do = "drop"
        PROVE  /\ Statement(c).name \in Standing(c)
               /\ \A name \in Standing(c) : Statement(c).name \notin RefersTo(name)
    <3>1. /\ Statement(c).name \in TableNames
          /\ MadeBy(Statement(c).name) = at[c]
          /\ Statement(c).name \notin NamesOf(Script(c), step[c], "drop")
          /\ \A name \in TableNames :
                MadeBy(name) <= at[c] /\ Statement(c).name \in RefersTo(name) =>
                    name \in NamesOf(Script(c), step[c], "drop")
      BY <1>1, <2>1, <2>2, <2>5 DEF DowngradeStatement
    <3> QED
      BY <2>2, <2>3, <3>1, NamesOfModels DEF Present
  <2>6. ASSUME Statement(c).do = "alter"
        PROVE  /\ step[c] = 0
               /\ Statement(c).name \in Standing(c)
               /\ Statement(c).from = Shape(Statement(c).name, at[c])
               /\ Statement(c).to = Shape(Statement(c).name, Following(c))
               /\ \A name : name # Statement(c).name =>
                     Shape(name, Following(c)) = Shape(name, at[c])
    <3>1. step[c] = 0
      BY <1>1, <2>1, <2>2, <2>6 DEF DowngradeStatement
    <3>2. Standing(c) = Present(at[c])
      BY <3>1, StartStands
    <3> QED
      BY <1>1, <2>1, <2>2, <3>1, <3>2, <2>6 DEF DowngradeStatement
  <2>7. ASSUME Statement(c).do # "alter", NEW name
        PROVE  Shape(name, Following(c)) = Shape(name, Resembled(c))
    <3>1. CASE step[c] = 0
      <4>1. at[c] \in 1 .. 4
        BY <3>1, <1>1, <2>1, <2>2, <2>7 DEF DowngradeStatement
      <4>2. at[c] - 1 \in 0 .. 3 /\ at[c] - 1 + 1 = at[c]
        BY <4>1
      <4> QED
        BY <3>1, <4>2, <2>2, ShapesStay DEF Resembled
    <3>2. CASE step[c] # 0
      BY <3>2 DEF Resembled
    <3> QED
      BY <3>1, <3>2
  <2> QED
    BY <1>3, <2>4, <2>5, <2>6, <2>7
<1> QED
  BY <1>2, <1>3

\* A command is in the middle of a script or behind it.
LEMMA ScriptLength ==
    ASSUME Places, NEW c \in Commands, at[c] # goal[c]
    PROVE  Len(Script(c)) \in Nat
<1>1. CASE Upwards(c)
  <2>1. at[c] + 1 \in {1, 2, 3, 4, 5, 6} /\ Script(c) = Upgrades[at[c] + 1]
    BY <1>1, Directions
  <2> QED
    BY <2>1, Chain
<1>2. CASE ~Upwards(c)
  <2>1. at[c] \in {1, 2, 3, 4, 5, 6} /\ Script(c) = Downgrades[at[c]]
    BY <1>2, Directions
  <2> QED
    BY <2>1, Chain
<1> QED
  BY <1>1, <1>2

LEMMA AtOnePlace ==
    ASSUME Places, NEW c \in Commands, AtStatement(c)
    PROVE  ~AtVersion(c)
<1>1. Len(Script(c)) \in Nat /\ step[c] \in Nat
  BY ScriptLength DEF AtStatement, MayRun, Places
<1> QED
  BY <1>1 DEF AtStatement, AtVersion

\* Only the last scripts rewrite events.
LEMMA OnlyLast ==
    /\ \A n \in 0 .. 5 : \A k \in 1 .. Len(Upgrades[n + 1]) :
          Upgrades[n + 1][k].do \in {"backfill", "forget"} => n = 5
    /\ \A n \in 1 .. 6 : \A k \in 1 .. Len(Downgrades[n]) :
          Downgrades[n][k].do \in {"backfill", "forget"} => n = 6
<1>1. ASSUME NEW n \in 0 .. 5, NEW k \in 1 .. Len(Upgrades[n + 1]),
             Upgrades[n + 1][k].do \in {"backfill", "forget"}
      PROVE  n = 5
  <2>1. UpgradeStatement(n, k)
    BY UpgradeStatements
  <2>2. Upgrades[n + 1][k].do = "backfill"
    BY <1>1, <2>1 DEF UpgradeStatement
  <2>3. n = 2 => Upgrades[n + 1][k].do = "create"
    BY UpgradeThings
  <2>4. n = 0 => Upgrades[n + 1][k].do \in {"create", "create_type"}
    <3>1. ASSUME n = 0
          PROVE  k \in {1, 2, 3}
      <4>1. n + 1 = 1
        BY <3>1
      <4>2. k \in 1 .. Len(Upgrades[1])
        BY <4>1
      <4> QED
        BY <4>2, Chain
    <3> QED
      BY <3>1, UpgradeThings DEF CreateType
  <2>5. n # 1
    BY Chain, 1 + 1 = 2
  <2>6. n # 3
    <3> SUFFICES ASSUME n = 3
                 PROVE  FALSE
      OBVIOUS
    <3>1. n + 1 = 4
      OBVIOUS
    <3>2. k \in 1 .. Len(Upgrades[4])
      BY <3>1
    <3>3. k = 1
      BY <3>2, Chain
    <3> QED
      BY <2>2, <3>1, <3>3 DEF Upgrades, Create
  <2>7. n # 4
    <3>1. ASSUME n = 4
          PROVE  k = 1
      <4>1. n + 1 = 5
        BY <3>1
      <4>2. k \in 1 .. Len(Upgrades[5])
        BY <4>1
      <4> QED
        BY <4>2, Chain
    <3> QED
      BY <2>1, <2>2, <3>1 DEF UpgradeStatement
  <2> QED
    BY <2>2, <2>3, <2>4, <2>5, <2>6, <2>7
<1>2. ASSUME NEW n \in 1 .. 6, NEW k \in 1 .. Len(Downgrades[n]),
             Downgrades[n][k].do \in {"backfill", "forget"}
      PROVE  n = 6
  <2>1. n # 1
    <3> SUFFICES ASSUME n = 1
                 PROVE  FALSE
      OBVIOUS
    <3>1. k \in {1, 2, 3} /\ Downgrades[n][k] = DropAuthTables[k]
      BY Chain
    <3> QED
      BY <1>2, <3>1 DEF DropAuthTables, Drop, DropType
  <2>2. n # 2
    BY <1>2, Chain
  <2>3. n # 3
    <3> SUFFICES ASSUME n = 3
                 PROVE  FALSE
      OBVIOUS
    <3>1. k \in 1 .. 11 /\ Downgrades[n][k] = DropCoreTables[k]
      BY Chain
    <3>2. Downgrades[n][k] = Drop(DroppedNames[k])
      BY <3>1, DropOrder
    <3> QED
      BY <1>2, <3>2 DEF Drop
  <2>4. n # 4
    BY <1>2, Chain DEF Downgrades, Drop
  <2>5. n # 5
    BY <1>2, Chain DEF Downgrades, Alter
  <2> QED
    BY <2>1, <2>2, <2>3, <2>4, <2>5
<1> QED
  BY <1>1, <1>2

\* Once a script has begun, the tables it has not changed look the same to both
\* revisions.
LEMMA Untouched ==
    ASSUME Places, NEW c \in Commands, at[c] # goal[c], step[c] \in 1 .. Len(Script(c)),
           NEW name, name \notin Touched(c)
    PROVE  Shape(name, Following(c)) = Shape(name, at[c])
<1>1. ASSUME Script(c)[1].do = "alter"
      PROVE  Script(c)[1].name # name
  BY <1>1, 1 \in 1 .. step[c] DEF Touched, NamesOf
<1>2. CASE Upwards(c)
  <2>1. /\ at[c] \in 0 .. 5 /\ Script(c) = Upgrades[at[c] + 1] /\ Following(c) = at[c] + 1
        /\ 1 \in 1 .. Len(Upgrades[at[c] + 1])
    BY <1>2, Directions
  <2>2. CASE at[c] \in 0 .. 3
    BY <2>1, <2>2, ShapesStay
  <2>3. CASE at[c] \in {4, 5}
    <3>1. UpgradeStatement(at[c], 1)
      BY <2>1, UpgradeStatements
    <3> QED
      BY <1>1, <2>1, <2>3, <3>1 DEF UpgradeStatement
  <2> QED
    BY <2>1, <2>2, <2>3
<1>3. CASE ~Upwards(c)
  <2>1. /\ at[c] \in 1 .. 6 /\ Script(c) = Downgrades[at[c]] /\ Following(c) = at[c] - 1
        /\ 1 \in 1 .. Len(Downgrades[at[c]])
    BY <1>3, Directions
  <2>2. CASE at[c] \in 1 .. 4
    <3>1. at[c] - 1 \in 0 .. 3 /\ at[c] - 1 + 1 = at[c]
      BY <2>2
    <3> QED
      BY <2>1, <3>1, ShapesStay
  <2>3. CASE at[c] \in {5, 6}
    <3>1. DowngradeStatement(at[c], 1)
      BY <2>1, DowngradeStatements
    <3> QED
      BY <1>1, <2>1, <2>3, <3>1 DEF DowngradeStatement
  <2> QED
    BY <2>1, <2>2, <2>3
<1> QED
  BY <1>2, <1>3

\* A command that finds its revision sees exactly half of a migration.
LEMMA HalfServes ==
    ASSUME IInv, NEW c \in Commands, pc[c] = "running", Current(c).revision = at[c]
    PROVE  Current(c).tables = [name \in Standing(c) |-> Shape(name, Resembled(c))]
<1>1. Sees(c, Current(c)) /\ Placed(c) /\ Places /\ step[c] \in Nat
  BY DEF IInv, Sound, Places
<1>2. CASE Version \in held[c]
  BY <1>1, <1>2 DEF Sees
<1>3. CASE Version \notin held[c]
  <2>1. Current(c).tables = Mixed(c) /\ at[c] # goal[c]
    BY <1>1, <1>3 DEF Sees, Placed
  <2>2. tables = [name \in Present(at[c]) |-> Shape(name, at[c])]
    <3>1. Current(c).revision = revision
      BY <1>3, CurrentAgrees DEF Agrees
    <3> QED
      BY <3>1 DEF IInv, Promised
  <2>3. /\ \A name : name \notin Touched(c) => (name \in Standing(c) <=> name \in Present(at[c]))
        /\ \A name \in Touched(c) : step[c] # 0
    BY <1>1, NamesGrow DEF Standing, Touched
  <2>4. ASSUME NEW name, name \notin Touched(c)
        PROVE  Shape(name, at[c]) = Shape(name, Resembled(c))
    <3>1. CASE step[c] = 0
      BY <3>1 DEF Resembled
    <3>2. CASE step[c] # 0
      <4>1. step[c] \in 1 .. Len(Script(c))
        <5>1. step[c] <= Len(Script(c)) /\ at[c] \in 0 .. Latest
          BY <1>1, <3>2 DEF Placed, Places
        <5>2. Len(Script(c)) \in Nat
          BY <1>1, <2>1, ScriptLength
        <5> QED
          BY <1>1, <3>2, <5>1, <5>2
      <4> QED
        BY <1>1, <2>1, <2>4, <3>2, <4>1, Untouched DEF Resembled
    <3> QED
      BY <3>1, <3>2
  <2>5. \A name \in Touched(c) : Shape(name, Following(c)) = Shape(name, Resembled(c))
    BY <2>3 DEF Resembled
  <2> DEFINE there == (DOMAIN tables \ Touched(c)) \cup (Standing(c) \cap Touched(c))
  <2>6. there = Standing(c)
    BY <2>2, <2>3
  <2>7. \A name \in there :
           (IF name \in Touched(c) THEN Shape(name, Following(c)) ELSE tables[name])
               = Shape(name, Resembled(c))
    BY <2>2, <2>3, <2>4, <2>5
  <2>8. Mixed(c) = [name \in there |->
                      IF name \in Touched(c) THEN Shape(name, Following(c)) ELSE tables[name]]
    BY DEF Mixed
  <2> HIDE DEF there
  <2> QED
    BY <2>1, <2>6, <2>7, <2>8
<1> QED
  BY <1>2, <1>3

(***************************************************************************)
(* Statements that run.                                                    *)
(***************************************************************************)

\* What a command makes of a database it holds the locks for is what it sees next.
LEMMA WorkIsSeen ==
    ASSUME NEW c \in Commands, UNCHANGED dbVars, NEW db, Agrees(held'[c], db),
           work'[c] = Kept(held'[c], db)
    PROVE  Current(c)' = db
<1>1. Current(c)' = Seen(held'[c], work'[c])
  BY DEF Current, Seen, dbVars
<1> QED
  BY <1>1, KeptIsSeen

LEMMA StatementRuns ==
    ASSUME IInv, NEW c \in Commands, RunStatement(c)
    PROVE  /\ Named(Current(c), Statement(c)) \subseteq held[c]
           /\ Current(c)' = After(Current(c), Statement(c))
           /\ work'[c].made \subseteq held[c]
           /\ held' = held /\ at' = at /\ goal' = goal /\ pc' = pc
           /\ step' = [step EXCEPT ![c] = step[c] + 1]
           /\ UNCHANGED dbVars /\ overtaken' = overtaken
<1> DEFINE db == Current(c)
           op == Statement(c)
<1>1. /\ AtStatement(c) /\ MayRun(c) /\ Places /\ Placed(c) /\ Wanted(c) = {}
      /\ Succeeds(db, op)
      /\ work' = [work EXCEPT ![c] = Kept(held[c], After(db, op))]
      /\ held' = held /\ at' = at /\ goal' = goal /\ pc' = pc
      /\ step' = [step EXCEPT ![c] = step[c] + 1]
      /\ UNCHANGED dbVars /\ overtaken' = overtaken
  BY DEF RunStatement, AtStatement, IInv, Places
<1>2. op.do \in Kinds
  BY <1>1, AtScript
<1>3. Finds(db, op)
  BY <1>1 DEF Succeeds, Finds, MayCreate, MayDrop, MayAlter
<1>4. Wanted(c) = Locks(db, held[c], op) \ held[c]
  BY <1>1, <1>3, AtOnePlace DEF Wanted
<1>5. Named(db, op) \subseteq held[c]
  BY <1>1, <1>4 DEF Locks
<1>6. Agrees(held[c], db) /\ db.made \subseteq held[c]
  BY <1>1, CurrentAgrees DEF Placed
<1>7. op.do \in {"backfill", "forget"} => "outbox_events" \in held[c]
  <2> SUFFICES ASSUME op.do \in {"backfill", "forget"}
               PROVE  "outbox_events" \in Touched(c)
    BY <1>1 DEF Placed
  <2>1. /\ at[c] # goal[c] /\ Places /\ step[c] \in Nat /\ step[c] + 1 \in 1 .. Len(Script(c))
        /\ op = Script(c)[step[c] + 1]
    BY <1>1, AtScript DEF MayRun, IInv, Statement
  <2>2. Script(c)[1] \in {Alter("outbox_events", FirstOutboxEvents, EventMetadata),
                          Alter("outbox_events", EventMetadata, FirstOutboxEvents)}
    <3>1. CASE Upwards(c)
      <4>1. Script(c) = Upgrades[at[c] + 1] /\ at[c] \in 0 .. 5
        BY <2>1, <3>1, Directions
      <4>2. at[c] = 5
        BY <2>1, <4>1, OnlyLast
      <4> QED
        BY <4>1, <4>2, 5 + 1 = 6 DEF Upgrades
    <3>2. CASE ~Upwards(c)
      <4>1. Script(c) = Downgrades[at[c]] /\ at[c] \in 1 .. 6
        BY <2>1, <3>2, Directions
      <4>2. at[c] = 6
        BY <2>1, <4>1, OnlyLast
      <4> QED
        BY <4>1, <4>2 DEF Downgrades
    <3> QED
      BY <3>1, <3>2
  <2>3. Script(c)[1].do = "alter" /\ Script(c)[1].name = "outbox_events"
    BY <2>2 DEF Alter
  <2>4. step[c] # 0
    BY <2>1, <2>3, 0 + 1 = 1
  <2>5. 1 \in 1 .. step[c]
    BY <2>1, <2>4
  <2> QED
    BY <2>3, <2>5 DEF Touched, NamesOf
<1>8. op.do = "alter" => op.name \in DOMAIN db.tables
  BY <1>3 DEF Finds
<1>9. Agrees(held[c], After(db, op)) /\ After(db, op).made \subseteq held[c]
  BY <1>2, <1>5, <1>6, <1>7, <1>8, AfterAgrees
<1>10. work'[c] = Kept(held[c], After(db, op))
  BY <1>1 DEF IInv, Places
<1>11. Current(c)' = After(db, op)
  BY <1>1, <1>9, <1>10, WorkIsSeen
<1>12. work'[c].made = After(db, op).made
  BY <1>10 DEF Kept
<1> QED
  BY <1>1, <1>5, <1>9, <1>11, <1>12

\* How a statement moves a command on.
LEMMA StatementStands ==
    ASSUME IInv, NEW c \in Commands, RunStatement(c)
    PROVE  /\ Standing(c)' = CASE Statement(c).do = "create" -> Standing(c) \cup {Statement(c).name}
                               [] Statement(c).do = "drop" -> Standing(c) \ {Statement(c).name}
                               [] OTHER -> Standing(c)
           /\ Resembled(c)' = Following(c) /\ Following(c)' = Following(c)
           /\ Touched(c)' = Touched(c) \cup (IF Statement(c).do \in {"create", "drop", "alter"}
                                             THEN {Statement(c).name} ELSE {})
<1>1. /\ AtStatement(c) /\ at[c] # goal[c] /\ step[c] \in 0 .. Len(Script(c))
      /\ Statement(c) = Script(c)[step[c] + 1]
  BY AtScript DEF RunStatement, AtStatement, MayRun, Statement
<1>2. /\ Script(c)' = Script(c) /\ Following(c)' = Following(c)
      /\ at' = at /\ step'[c] = step[c] + 1 /\ step'[c] # 0
  BY <1>1, StatementRuns DEF Script, Following, Upwards, IInv, Places
<1>3. \A do : NamesOf(Script(c), step[c] + 1, do) =
                NamesOf(Script(c), step[c], do)
                    \cup (IF Statement(c).do = do THEN {Statement(c).name} ELSE {})
  <2>1. /\ step[c] \in Nat
        /\ Statement(c).do = Script(c)[step[c] + 1].do
        /\ Statement(c).name = Script(c)[step[c] + 1].name
    BY <1>1
  <2>2. ASSUME NEW do
        PROVE  NamesOf(Script(c), step[c] + 1, do) =
                 NamesOf(Script(c), step[c], do)
                     \cup (IF Script(c)[step[c] + 1].do = do
                           THEN {Script(c)[step[c] + 1].name} ELSE {})
    BY <2>1, NamesGrow
  <2> QED
    BY <2>1, <2>2
<1>4. Standing(c)' = (Present(at[c]) \cup NamesOf(Script(c), step[c] + 1, "create"))
                         \ NamesOf(Script(c), step[c] + 1, "drop")
  BY <1>2 DEF Standing
<1>5. Resembled(c)' = Following(c)
  BY <1>2 DEF Resembled
<1>6. Standing(c)' = CASE Statement(c).do = "create" -> Standing(c) \cup {Statement(c).name}
                       [] Statement(c).do = "drop" -> Standing(c) \ {Statement(c).name}
                       [] OTHER -> Standing(c)
  <2>1. CASE Upwards(c)
    <3>1. Statement(c).do # "drop"
      BY <1>1, <2>1, StatementFits
    <3> QED
      BY <1>1, <1>3, <1>4, <1>5, <2>1, <3>1, StandingIs
  <2>2. CASE ~Upwards(c)
    <3>1. Statement(c).do # "create"
      BY <1>1, <2>2, StatementFits
    <3> QED
      BY <1>1, <1>3, <1>4, <1>5, <2>2, <3>1, StandingIs
  <2> QED
    BY <2>1, <2>2
<1>7. Touched(c)' = Touched(c) \cup (IF Statement(c).do \in {"create", "drop", "alter"}
                                     THEN {Statement(c).name} ELSE {})
  BY <1>2, <1>3 DEF Touched
<1> QED
  BY <1>2, <1>5, <1>6, <1>7

LEMMA StatementSees ==
    ASSUME IInv, NEW c \in Commands, RunStatement(c)
    PROVE  Sees(c, Current(c))'
<1> DEFINE db == Current(c)
           op == Statement(c)
           new == Current(c)'
<1>1. /\ AtStatement(c) /\ MayRun(c) /\ new = After(db, op) /\ held' = held
      /\ tables' = tables /\ Sees(c, db) /\ op.do \in Kinds /\ Succeeds(db, op)
      /\ Agrees(held[c], db)
  BY StatementRuns, AtScript, CurrentAgrees
     DEF RunStatement, AtStatement, MayRun, IInv, Sound, dbVars
<1>2. new.tables = TablesAfter(db.tables, op)
  BY <1>1, AfterStatement DEF Agrees
<1>3. Resembled(c)' = Following(c) /\ Following(c)' = Following(c)
  BY StatementStands
<1> HIDE DEF db, op, new
<1>4. CASE Version \in held[c]
  <2>1. db.tables = [name \in Standing(c) |-> Shape(name, Resembled(c))]
    BY <1>1, <1>4 DEF Sees
  <2> SUFFICES new.tables = [name \in Standing(c)' |-> Shape(name, Following(c))]
    BY <1>1, <1>3, <1>4 DEF Sees, new
  <2>2. CASE op.do = "create"
    <3>1. Standing(c)' = Standing(c) \cup {op.name}
      BY <2>2, StatementStands DEF op
    <3>2. /\ op.name \notin Standing(c) /\ op.as = Shape(op.name, Following(c))
          /\ \A name : Shape(name, Following(c)) = Shape(name, Resembled(c))
      BY <1>1, <2>2, StatementFits DEF op
    <3> QED
      BY <1>2, <2>1, <2>2, <3>1, <3>2 DEF TablesAfter
  <2>3. CASE op.do = "drop"
    <3>1. Standing(c)' = Standing(c) \ {op.name}
      BY <2>3, StatementStands DEF op
    <3>2. \A name : Shape(name, Following(c)) = Shape(name, Resembled(c))
      BY <1>1, <2>3, StatementFits DEF op
    <3> QED
      BY <1>2, <2>1, <2>3, <3>1, <3>2 DEF TablesAfter
  <2>4. CASE op.do = "alter"
    <3>1. Standing(c)' = Standing(c)
      BY <2>4, StatementStands DEF op
    <3>2. /\ Resembled(c) = at[c] /\ op.name \in Standing(c)
          /\ op.to = Shape(op.name, Following(c))
          /\ \A name : name # op.name => Shape(name, Following(c)) = Shape(name, at[c])
      BY <1>1, <2>4, StatementFits DEF op, Resembled
    <3> QED
      BY <1>2, <2>1, <2>4, <3>1, <3>2 DEF TablesAfter
  <2>5. CASE op.do \notin {"create", "drop", "alter"}
    <3>1. Standing(c)' = Standing(c)
      BY <2>5, StatementStands DEF op
    <3>2. \A name : Shape(name, Following(c)) = Shape(name, Resembled(c))
      BY <1>1, <2>5, StatementFits DEF op
    <3> QED
      BY <1>2, <2>1, <2>5, <3>1, <3>2 DEF TablesAfter
  <2> QED
    BY <2>2, <2>3, <2>4, <2>5
<1>5. CASE Version \notin held[c]
  <2> DEFINE MixedWith(touched, standing) ==
                [name \in (DOMAIN tables \ touched) \cup (standing \cap touched) |->
                    IF name \in touched THEN Shape(name, Following(c)) ELSE tables[name]]
  <2>1. db.tables = MixedWith(Touched(c), Standing(c))
    BY <1>1, <1>5 DEF Sees, Mixed
  <2> SUFFICES new.tables = MixedWith(Touched(c)', Standing(c)')
    BY <1>1, <1>3, <1>5 DEF Sees, Mixed, new
  <2>2. CASE op.do = "create"
    <3>1. Standing(c)' = Standing(c) \cup {op.name} /\ Touched(c)' = Touched(c) \cup {op.name}
      BY <2>2, StatementStands DEF op
    <3>2. op.as = Shape(op.name, Following(c))
      BY <1>1, <2>2, StatementFits DEF op
    <3> QED
      BY <1>2, <2>1, <2>2, <3>1, <3>2 DEF TablesAfter
  <2>3. CASE op.do = "drop"
    <3>1. Standing(c)' = Standing(c) \ {op.name} /\ Touched(c)' = Touched(c) \cup {op.name}
      BY <2>3, StatementStands DEF op
    <3> QED
      BY <1>2, <2>1, <2>3, <3>1 DEF TablesAfter
  <2>4. CASE op.do = "alter"
    <3>1. Standing(c)' = Standing(c) /\ Touched(c)' = Touched(c) \cup {op.name}
      BY <2>4, StatementStands DEF op
    <3>2. op.name \in Standing(c) /\ op.to = Shape(op.name, Following(c))
      BY <1>1, <2>4, StatementFits DEF op
    <3>3. op.name \in DOMAIN db.tables
      BY <1>1, <2>4 DEF Succeeds, MayAlter
    <3> QED
      BY <1>2, <2>1, <2>4, <3>1, <3>2, <3>3 DEF TablesAfter
  <2>5. CASE op.do \notin {"create", "drop", "alter"}
    <3>1. Standing(c)' = Standing(c) /\ Touched(c)' = Touched(c)
      BY <2>5, StatementStands DEF op
    <3> QED
      BY <1>2, <2>1, <2>5, <3>1 DEF TablesAfter
  <2> QED
    BY <2>2, <2>3, <2>4, <2>5
<1> QED
  BY <1>4, <1>5

LEMMA StatementKeepsEvents ==
    ASSUME IInv, NEW c \in Commands, RunStatement(c)
    PROVE  EventsKept(c, Current(c))'
<1> DEFINE db == Current(c)
           op == Statement(c)
           new == Current(c)'
<1>1. /\ AtStatement(c) /\ MayRun(c) /\ new = After(db, op)
      /\ at' = at /\ goal' = goal /\ events' = events
      /\ at[c] # goal[c] /\ step[c] \in Nat /\ step'[c] = step[c] + 1
  BY StatementRuns DEF RunStatement, AtStatement, MayRun, dbVars, IInv, Places
<1>2. EventsKept(c, db) /\ IsDatabase(db) /\ op.do \in Kinds
  BY <1>1, CurrentAgrees, AtScript DEF IInv, Sound, Agrees, MayRun
<1> HIDE DEF db, op, new
<1>3. new.events = EventsAfter(db.events, op)
  BY <1>1, <1>2, AfterStatement
<1>4. new.tables = TablesAfter(db.tables, op)
  BY <1>1, <1>2, AfterStatement
<1>5. db.events \in [Events -> EventStates]
  BY <1>2 DEF EventsKept
<1>6. new.events \in [Events -> EventStates]
  BY <1>3, <1>5 DEF EventsAfter, Backfilled, Forgotten, EventStates
<1>7. CASE Upwards(c)
  <2>1. UpgradeStatement(at[c], step[c] + 1) /\ goal[c] = Latest
    BY <1>1, <1>7, AtScript, Directions DEF IInv
  <2>2. op.do \notin {"drop", "forget"}
    <3>1. Script(c) = Upgrades[at[c] + 1]
      BY <1>1, <1>7, Directions DEF IInv
    <3> QED
      BY <2>1, <3>1 DEF UpgradeStatement, Statement, op
  <2>3. \A e \in Events : db.events[e] = "absent" => events[e] = "absent"
    BY <1>2, <2>1 DEF EventsKept
  <2>4. \A e \in Events : new.events[e] = "absent" => db.events[e] = "absent"
    BY <1>3, <1>5, <2>2 DEF EventsAfter, Backfilled
  <2>5. ASSUME at[c] = 5, step[c] + 1 >= 2
        PROVE  Correlated(new.events)
    <3>1. Correlated(db.events) \/ op.do = "backfill"
      <4>1. CASE step[c] >= 2
        BY <4>1, <1>2, <2>1, <2>5 DEF EventsKept
      <4>2. CASE step[c] < 2
        <5>1. step[c] + 1 = 2 /\ Script(c) = Upgrades[at[c] + 1]
          BY <4>2, <2>5, <1>1, <1>7, Directions DEF IInv
        <5> QED
          BY <5>1, <2>1, <2>5 DEF UpgradeStatement, Statement, op
      <4> QED
        BY <1>1, <4>1, <4>2
    <3> QED
      BY <3>1, <1>3, <1>5, <2>2 DEF EventsAfter, Correlated, Backfilled
  <2> QED
    BY <1>1, <1>6, <2>1, <2>3, <2>4, <2>5 DEF EventsKept, new
<1>8. CASE ~Upwards(c)
  <2>1. goal[c] # Latest
    BY <1>1, <1>8, Directions DEF IInv
  <2>2. op.do \notin {"create", "backfill"}
    <3>1. DowngradeStatement(at[c], step[c] + 1) /\ Script(c) = Downgrades[at[c]]
      BY <1>1, <1>8, AtScript, Directions DEF IInv
    <3> QED
      BY <3>1 DEF DowngradeStatement, Statement, op
  <2>3. "outbox_events" \notin DOMAIN db.tables => "outbox_events" \notin DOMAIN new.tables
    BY <1>4, <2>2 DEF TablesAfter
  <2>4. ASSUME NEW e \in Events, events[e] # "absent", new.events[e] = "absent"
        PROVE  "outbox_events" \notin DOMAIN new.tables
    <3>1. CASE op.do = "drop" /\ op.name = "outbox_events"
      BY <3>1, <1>4 DEF TablesAfter
    <3>2. CASE ~(op.do = "drop" /\ op.name = "outbox_events")
      <4>1. db.events[e] = "absent"
        BY <3>2, <1>3, <1>5, <2>2, <2>4 DEF EventsAfter, Forgotten
      <4> QED
        BY <4>1, <1>2, <2>3, <2>4 DEF EventsKept
    <3> QED
      BY <3>1, <3>2
  <2> QED
    BY <1>1, <1>6, <2>1, <2>4 DEF EventsKept, new
<1> QED
  BY <1>7, <1>8

(***************************************************************************)
(* Steps of one command.                                                   *)
(***************************************************************************)

\* What is known of a command stays while it does nothing and nothing is committed.
LEMMA Stays ==
    ASSUME IInv, NEW d \in Commands, UNCHANGED dbVars, held'[d] = held[d], work'[d] = work[d],
           pc'[d] = pc[d], at'[d] = at[d], goal'[d] = goal[d], step'[d] = step[d],
           d \in overtaken => d \in overtaken'
    PROVE  Placed(d)' /\ (pc'[d] = "running" => Sound(d, Current(d))')
<1>1. /\ Upwards(d)' = Upwards(d) /\ Script(d)' = Script(d) /\ Following(d)' = Following(d)
      /\ Number(d)' = Number(d) /\ MayRun(d)' = MayRun(d)
  BY DEF Upwards, Script, Following, Number, MayRun
<1>2. /\ Standing(d)' = Standing(d) /\ Resembled(d)' = Resembled(d)
      /\ Touched(d)' = Touched(d)
  BY <1>1 DEF Standing, Resembled, Touched
<1>3. Current(d)' = Current(d)
  BY DEF Current, Seen, dbVars
<1>4. Placed(d)'
  <2>1. Placed(d)
    BY DEF IInv, Places
  <2>2. Reaches(d) => Reaches(d)'
    BY <1>1 DEF Reaches
  <2> QED
    BY <1>1, <1>2, <2>1, <2>2 DEF Placed
<1>5. ASSUME pc[d] = "running"
      PROVE  Sound(d, Current(d))'
  <2>1. Sound(d, Current(d))
    BY <1>5 DEF IInv
  <2>2. Sees(d, Current(d))'
    BY <1>1, <1>2, <1>3, <2>1 DEF Sound, Sees, Mixed, dbVars
  <2>3. TypesAccounted(Current(d))'
    BY <1>3, <2>1 DEF Sound, TypesAccounted, dbVars
  <2>4. EventsKept(d, Current(d))'
    BY <1>3, <2>1 DEF Sound, EventsKept, dbVars
  <2>5. Abreast(d, Current(d))'
    BY <1>3, <2>1 DEF Sound, Abreast
  <2>6. HoldsRightly(d)'
    BY <1>1, <2>1 DEF Sound, HoldsRightly, dbVars
  <2> QED
    BY <2>2, <2>3, <2>4, <2>5, <2>6 DEF Sound
<1> QED
  BY <1>4, <1>5

\* A step of one command that commits nothing.
Moves(c) ==
    /\ UNCHANGED dbVars
    /\ held' = [held EXCEPT ![c] = held'[c]]
    /\ work' = [work EXCEPT ![c] = work'[c]]
    /\ pc' = [pc EXCEPT ![c] = pc'[c]]
    /\ at' = [at EXCEPT ![c] = at'[c]]
    /\ goal' = [goal EXCEPT ![c] = goal'[c]]
    /\ step' = [step EXCEPT ![c] = step'[c]]
    /\ overtaken' \in {overtaken, overtaken \ {c}}

LEMMA MoveIInv ==
    ASSUME IInv, NEW c \in Commands, Moves(c),
           pc'[c] \in {"idle", "running"}, at'[c] \in 0 .. Latest, goal'[c] \in 0 .. Latest,
           step'[c] \in Nat, \A d \in Commands \ {c} : held'[c] \cap held[d] = {},
           Placed(c)', pc'[c] = "running" => Sound(c, Current(c))'
    PROVE  IInv'
<1>1. ASSUME NEW d \in Commands, d # c
      PROVE  /\ held'[d] = held[d] /\ work'[d] = work[d] /\ pc'[d] = pc[d] /\ at'[d] = at[d]
             /\ goal'[d] = goal[d] /\ step'[d] = step[d] /\ (d \in overtaken => d \in overtaken')
  BY <1>1 DEF Moves, IInv, Places
<1>2. ASSUME NEW d \in Commands
      PROVE  Placed(d)' /\ (pc'[d] = "running" => Sound(d, Current(d))')
  <2>1. CASE d = c
    BY <2>1
  <2>2. CASE d # c
    BY <1>1, <2>2, Stays DEF Moves
  <2> QED
    BY <2>1, <2>2
<1>3. ASSUME NEW p \in Commands, NEW q \in Commands, p # q
      PROVE  held'[p] \cap held'[q] = {}
  BY <1>1, <1>3 DEF IInv, Places
<1>4. Places'
  <2>1. /\ revision' \in 0 .. Latest /\ events' \in [Events -> EventStates]
    BY DEF Moves, dbVars, IInv, Places
  <2>2. /\ held' = [d \in Commands |-> held'[d]] /\ work' = [d \in Commands |-> work'[d]]
    BY DEF Moves, IInv, Places
  <2>3. /\ pc' \in [Commands -> {"idle", "running"}] /\ at' \in [Commands -> 0 .. Latest]
        /\ goal' \in [Commands -> 0 .. Latest] /\ step' \in [Commands -> Nat]
    BY DEF Moves, IInv, Places
  <2> QED
    BY <1>2, <1>3, <2>1, <2>2, <2>3 DEF Places
<1>5. /\ tables' = Promised(revision')
      /\ revision' = Latest => Correlated(events')
  BY DEF Moves, dbVars, IInv
<1>6. Promised(revision)' = Promised(revision') /\ Correlated(events)' = Correlated(events')
  BY DEF Promised, Present, Shape, Correlated
<1> QED
  BY <1>2, <1>4, <1>5, <1>6 DEF IInv

LEMMA BeginIInv ==
    ASSUME IInv, NEW c \in Commands, NEW target \in 0 .. Latest, Begin(c, target)
    PROVE  IInv'
<1>1. /\ Placed(c) /\ Places /\ pc[c] = "idle" /\ at[c] = goal[c] /\ held[c] = {} /\ step[c] = 0
      /\ work[c].made = {}
  BY DEF Begin, IInv, Places, Placed
<1>2. /\ at'[c] = revision /\ goal'[c] = target /\ pc'[c] = "running" /\ step' = step
      /\ held' = held /\ work' = work /\ overtaken' = overtaken /\ UNCHANGED dbVars
      /\ revision # target /\ (target # Latest => target <= revision)
      /\ revision \in 0 .. Latest
  BY Chain DEF Begin, IInv, Places
<1>3. Moves(c)
  BY <1>1, <1>2 DEF Moves, Begin, Places
<1>4. Standing(c)' = Present(revision) /\ Resembled(c)' = revision /\ Touched(c)' = {}
  BY <1>1, <1>2, NamesGrow DEF Standing, Resembled, Touched
<1>5. Placed(c)'
  <2>1. Reaches(c)'
    BY <1>1, <1>2 DEF Reaches
  <2> QED
    BY <1>1, <1>2, <1>4, <2>1 DEF Placed
<1>6. /\ Current(c)'.revision = revision /\ Current(c)'.tables = tables
      /\ Current(c)'.types = types /\ Current(c)'.events = events
  <2>1. /\ Current(c)'.tables = [name \in DOMAIN tables |-> tables[name]]
        /\ Current(c)'.revision = revision /\ Current(c)'.types = types
        /\ Current(c)'.events = events
    BY <1>1, <1>2 DEF Current, Seen, dbVars
  <2>2. tables = [name \in DOMAIN tables |-> tables[name]]
    BY DEF IInv, Promised
  <2> QED
    BY <2>1, <2>2
<1>7. Sound(c, Current(c))'
  <2>1. Sees(c, Current(c))'
    <3>1. Mixed(c)' = [name \in DOMAIN tables |-> tables[name]]
      BY <1>2, <1>4 DEF Mixed, dbVars
    <3>2. tables = [name \in DOMAIN tables |-> tables[name]]
      BY DEF IInv, Promised
    <3> QED
      BY <1>1, <1>2, <1>6, <3>1, <3>2 DEF Sees
  <2>2. TypesAccounted(Current(c))'
    BY <1>2, <1>6 DEF TypesAccounted, dbVars
  <2>3. EventsKept(c, Current(c))'
    BY <1>1, <1>2, <1>6 DEF EventsKept, dbVars, Places
  <2>4. Abreast(c, Current(c))'
    BY <1>1, <1>2, <1>6 DEF Abreast
  <2>5. HoldsRightly(c)'
    BY <1>1, <1>2 DEF HoldsRightly
  <2> QED
    BY <2>1, <2>2, <2>3, <2>4, <2>5 DEF Sound
<1> QED
  BY <1>1, <1>2, <1>3, <1>5, <1>7, MoveIInv DEF Places

\* A script that is over has led to the next revision, which the command takes with it.
LEMMA VersionMoves ==
    ASSUME IInv, NEW c \in Commands, UpdateVersion(c)
    PROVE  /\ Sound(c, Current(c))' /\ Touched(c)' = {}
           /\ Version \in held'[c] /\ held' = [held EXCEPT ![c] = @ \cup {Version}]
           /\ Free(c, Version)
           /\ work'[c].revision = at'[c] /\ work'[c].made \subseteq held[c]
           /\ step'[c] = 0 /\ at'[c] = Following(c) /\ Following(c) \in 0 .. Latest
           /\ goal[c] # Latest => goal[c] <= Following(c)
<1> DEFINE db == Current(c)
           new == [db EXCEPT !.revision = Following(c)]
<1>1. /\ at[c] # goal[c] /\ step[c] \in Nat /\ step[c] = Len(Script(c)) /\ MayRun(c)
      /\ Places /\ Placed(c) /\ db.revision = at[c] /\ at'[c] = Following(c) /\ step'[c] = 0
      /\ goal' = goal /\ events' = events /\ types' = types /\ UNCHANGED dbVars
      /\ held' = [held EXCEPT ![c] = @ \cup {Version}] /\ held'[c] = held[c] \cup {Version}
      /\ work'[c] = Kept(held'[c], new) /\ Free(c, Version)
  BY DEF UpdateVersion, AtVersion, MayRun, IInv, Places, dbVars
<1>2. Sound(c, db) /\ Following(c) \in 0 .. Latest /\ Agrees(held'[c], db)
      /\ db.made = work[c].made
  BY <1>1, CurrentAgrees, Directions DEF IInv, MayRun
<1>3. /\ IsDatabase(new) /\ new.revision = Following(c)
      /\ new.tables = db.tables /\ new.types = db.types /\ new.made = db.made
      /\ new.events = db.events
  BY <1>2 DEF Agrees, IsDatabase, DbFields
<1> HIDE DEF new
<1>4. Standing(c)' = Present(Following(c)) /\ Resembled(c)' = Following(c) /\ Touched(c)' = {}
  BY <1>1, NamesGrow DEF Standing, Resembled, Touched
<1>5. /\ Standing(c) = Present(Following(c))
      /\ \A name : Shape(name, Resembled(c)) = Shape(name, Following(c))
  <2>1. step[c] \in 0 .. Len(Script(c))
    BY <1>1
  <2>2. CASE Upwards(c)
    <3>1. at[c] \in 0 .. 5 /\ Script(c) = Upgrades[at[c] + 1] /\ Following(c) = at[c] + 1
      BY <1>1, <2>2, Directions
    <3>2. Standing(c) = Present(Following(c))
      <4>1. Standing(c) = Present(at[c]) \cup NamesOf(Script(c), step[c], "create")
        BY <1>1, <2>1, <2>2, StandingIs
      <4> QED
        BY <1>1, <3>1, <4>1, UpgradeDone
    <3>3. step[c] = 0 => at[c] \in 0 .. 3
      <4>1. at[c] = 4 => Len(Script(c)) = 1
        BY <3>1, Chain, 4 + 1 = 5
      <4>2. at[c] = 5 => Len(Script(c)) = 3
        BY <3>1, Chain, 5 + 1 = 6
      <4>3. step[c] = Len(Script(c)) /\ at[c] \in 0 .. 5
        BY <1>1, <3>1
      <4> QED
        BY <4>1, <4>2, <4>3
    <3> QED
      BY <3>1, <3>2, <3>3, ShapesStay DEF Resembled
  <2>3. CASE ~Upwards(c)
    <3>1. at[c] \in 1 .. 6 /\ Script(c) = Downgrades[at[c]] /\ Following(c) = at[c] - 1
      BY <1>1, <2>3, Directions
    <3>2. Standing(c) = Present(Following(c))
      BY <1>1, <2>1, <2>3, <3>1, StandingIs, DowngradeDone
    <3>3. step[c] = 0 => at[c] - 1 \in 0 .. 3 /\ at[c] - 1 + 1 = at[c]
      <4>1. at[c] \in {5, 6} => Len(Script(c)) \in {1, 2}
        BY <3>1, Chain
      <4>2. step[c] = Len(Script(c)) /\ at[c] \in 1 .. 6
        BY <1>1, <3>1
      <4> QED
        BY <4>1, <4>2
    <3> QED
      BY <3>1, <3>2, <3>3, ShapesStay DEF Resembled
  <2> QED
    BY <2>2, <2>3
<1>6. Current(c)' = new
  <2>1. Agrees(held'[c], new)
    BY <1>1, <1>2, <1>3 DEF Agrees
  <2> QED
    BY <1>1, <2>1, WorkIsSeen
<1>7. Sees(c, Current(c))'
  <2>1. db.tables = [name \in Standing(c) |-> Shape(name, Resembled(c))]
    BY <1>1, HalfServes DEF MayRun
  <2>2. new.tables = [name \in Present(Following(c)) |-> Shape(name, Following(c))]
    BY <1>3, <1>5, <2>1
  <2> QED
    BY <1>1, <1>4, <1>6, <2>2 DEF Sees
<1>8. TypesAccounted(Current(c))'
  BY <1>1, <1>2, <1>3, <1>6 DEF Sound, TypesAccounted
<1>9. EventsKept(c, Current(c))'
  <2>1. ASSUME goal[c] = Latest, Following(c) = Latest \/ (Following(c) = 5 /\ 0 >= 2)
        PROVE  Correlated(db.events)
    <3>1. Upwards(c)
      BY <1>1, <2>1, Directions
    <3>2. at[c] = 5 /\ Script(c) = Upgrades[6]
      <4>1. at[c] \in 0 .. 5 /\ Script(c) = Upgrades[at[c] + 1] /\ Following(c) = at[c] + 1
        BY <1>1, <3>1, Directions
      <4>2. Following(c) = 6
        BY <2>1, Chain
      <4>3. at[c] = 5
        BY <4>1, <4>2
      <4> QED
        BY <4>1, <4>3, 5 + 1 = 6
    <3>3. step[c] = 3
      BY <1>1, <3>2, Chain
    <3> QED
      BY <1>2, <2>1, <3>2, <3>3 DEF Sound, EventsKept
  <2> QED
    BY <1>1, <1>2, <1>3, <1>6, <2>1 DEF Sound, EventsKept
<1>10. Abreast(c, Current(c))' /\ HoldsRightly(c)'
  BY <1>1, <1>3, <1>6 DEF Abreast, HoldsRightly
<1>11. goal[c] # Latest => goal[c] <= Following(c)
  <2>1. goal[c] # Latest => ~Upwards(c)
    BY <1>1, Directions
  <2> QED
    BY <1>1, <2>1, Directions DEF Places
<1>12. work'[c].revision = at'[c] /\ work'[c].made \subseteq held[c]
  <2>1. work'[c].revision = Following(c) /\ work'[c].made = db.made
    BY <1>1, <1>3 DEF Kept
  <2> QED
    BY <1>1, <1>2, <2>1 DEF Placed
<1> QED
  BY <1>1, <1>2, <1>4, <1>7, <1>8, <1>9, <1>10, <1>11, <1>12 DEF Sound

LEMMA UpdateVersionIInv ==
    ASSUME IInv, NEW c \in Commands, UpdateVersion(c)
    PROVE  IInv'
<1>1. /\ pc[c] = "running" /\ pc' = pc /\ goal' = goal /\ Placed(c) /\ Places
      /\ overtaken' = overtaken
  BY DEF UpdateVersion, AtVersion, MayRun, IInv, Places
<1>2. /\ Sound(c, Current(c))' /\ Touched(c)' = {}
      /\ Version \in held'[c] /\ held' = [held EXCEPT ![c] = @ \cup {Version}]
      /\ Free(c, Version) /\ work'[c].revision = at'[c] /\ work'[c].made \subseteq held[c]
      /\ step'[c] = 0 /\ at'[c] = Following(c) /\ Following(c) \in 0 .. Latest
      /\ goal[c] # Latest => goal[c] <= Following(c)
  BY VersionMoves
<1>3. Moves(c)
  BY <1>1 DEF Moves, UpdateVersion, Places
<1>4. held'[c] = held[c] \cup {Version}
  BY <1>1, <1>2 DEF Places
<1>5. Placed(c)'
  BY <1>1, <1>2, <1>4 DEF Placed, MayRun
<1>6. \A d \in Commands \ {c} : held'[c] \cap held[d] = {}
  BY <1>1, <1>2, <1>4 DEF Free, FreeOfCommands, Places
<1> QED
  BY <1>1, <1>2, <1>3, <1>5, <1>6, MoveIInv DEF Places

LEMMA RunStatementIInv ==
    ASSUME IInv, NEW c \in Commands, RunStatement(c)
    PROVE  IInv'
<1> DEFINE db == Current(c)
           op == Statement(c)
           new == Current(c)'
<1>1. /\ AtStatement(c) /\ MayRun(c) /\ Places /\ Placed(c) /\ Sound(c, db)
      /\ pc[c] = "running" /\ at[c] # goal[c] /\ op.do \in Kinds
      /\ step[c] \in Nat /\ step[c] + 1 \in 1 .. Len(Script(c))
  BY AtScript DEF RunStatement, AtStatement, MayRun, IInv, Places
<1>2. /\ Named(db, op) \subseteq held[c] /\ new = After(db, op) /\ work'[c].made \subseteq held[c]
      /\ held' = held /\ at' = at /\ goal' = goal /\ pc' = pc /\ step'[c] = step[c] + 1
      /\ UNCHANGED dbVars /\ overtaken' = overtaken
  BY StatementRuns DEF IInv, Places
<1>3. Moves(c)
  BY <1>1, <1>2 DEF Moves, RunStatement, Places
<1>4. /\ Script(c)' = Script(c) /\ Upwards(c)' = Upwards(c) /\ Number(c)' = Number(c)
      /\ Touched(c)' \subseteq held[c]
  <2>1. op.do \in {"create", "drop", "alter"} => op.name \in held[c]
    BY <1>2 DEF Named
  <2> QED
    BY <1>1, <1>2, <2>1, StatementStands DEF Script, Upwards, Number, Placed
<1>5. /\ Agrees(held[c], db) /\ IsDatabase(new) /\ new.revision = db.revision
      /\ new.types \subseteq db.types \cup new.made /\ db.made \subseteq new.made
  <2>1. Agrees(held[c], db) /\ IsDatabase(db)
    BY CurrentAgrees DEF Agrees
  <2> HIDE DEF db, op, new
  <2> QED
    BY <1>1, <1>2, <2>1, AfterStatement
<1>6. work'[c].revision = work[c].revision \/ Version \notin held[c]
  <2>1. Version \in held[c] => work'[c].revision = new.revision
    <3>1. work'[c] = Kept(held[c], After(db, op))
      BY <1>1 DEF RunStatement, Places
    <3> QED
      BY <1>2, <3>1 DEF Kept
  <2>2. Version \in held[c] => db.revision = work[c].revision
    BY DEF Current, Seen
  <2> QED
    BY <1>5, <2>1, <2>2
<1>7. Placed(c)'
  <2>1. ASSUME MayRun(c), Version \notin held[c]
        PROVE  Reaches(c)'
    <3>1. Reaches(c)
      BY <1>1, <2>1 DEF Placed
    <3>2. step'[c] = 1 => step[c] = 0
      BY <1>1, <1>2
    <3>3. "refresh_sessions" # "user_role" /\ step'[c] # 0
      BY <1>1, <1>2
    <3> QED
      BY <1>2, <1>4, <3>1, <3>2, <3>3 DEF Reaches
  <2>2. step'[c] <= Len(Script(c)) /\ MayRun(c)' = MayRun(c)
    BY <1>1, <1>2 DEF MayRun
  <2> QED
    BY <1>1, <1>2, <1>4, <1>6, <2>1, <2>2 DEF Placed
<1>8. Sound(c, Current(c))'
  <2>1. TypesAccounted(Current(c))'
    BY <1>1, <1>2, <1>5 DEF Sound, TypesAccounted, dbVars
  <2>2. Abreast(c, Current(c))'
    <3>1. ASSUME c \notin overtaken, at[c] = 0, goal[c] # 0
          PROVE  "user_role" \in new.types
      <4>1. Upwards(c)
        BY <1>1, <3>1, Directions
      <4>2. /\ op = Upgrades[0 + 1][step[c] + 1]
            /\ step[c] + 1 \in 1 .. Len(Upgrades[0 + 1])
        BY <1>1, <3>1, <4>1, Directions DEF Statement
      <4>3. CASE step[c] = 0
        <5>1. op = CreateType("user_role")
          BY <4>2, <4>3, UpgradeThings, 0 + 1 = 1
        <5>2. op.do = "create_type" /\ op.type = "user_role"
          BY <5>1 DEF CreateType
        <5>3. IsDatabase(db)
          BY <1>5 DEF Agrees
        <5> HIDE DEF db, op, new
        <5>4. After(db, op).types = db.types \cup {op.type}
          BY <5>2, <5>3 DEF After, IsDatabase, DbFields
        <5> QED
          BY <1>2, <5>2, <5>4
      <4>4. CASE step[c] # 0
        <5>1. "user_role" \in db.types
          BY <1>1, <3>1, <4>4 DEF Sound, Abreast
        <5>2. op.do # "drop_type"
          <6>1. UpgradeStatement(0, step[c] + 1)
            BY <4>2, UpgradeStatements
          <6> QED
            BY <4>2, <6>1 DEF UpgradeStatement
        <5>3. db.types \subseteq After(db, op).types
          BY <1>1, <1>5, <5>2 DEF After, Created, Dropped, Altered, Agrees, IsDatabase, DbFields,
                                  Kinds
        <5> QED
          BY <1>2, <5>1, <5>3
      <4> QED
        BY <4>3, <4>4
    <3> QED
      BY <1>1, <1>2, <1>5, <3>1 DEF Sound, Abreast
  <2>3. HoldsRightly(c)'
    BY <1>1, <1>2, <1>4 DEF Sound, HoldsRightly, dbVars
  <2> QED
    BY <2>1, <2>2, <2>3, StatementSees, StatementKeepsEvents DEF Sound
<1>9. \A d \in Commands \ {c} : held'[c] \cap held[d] = {}
  BY <1>1, <1>2 DEF Places
<1>10. step'[c] \in Nat
  BY <1>1, <1>2
<1> QED
  BY <1>1, <1>2, <1>3, <1>7, <1>8, <1>9, <1>10, MoveIInv DEF Places

\* A command that ends without a commit changes nothing.
LEMMA RollBackIInv ==
    ASSUME IInv, NEW c \in Commands, RollBack(c)
    PROVE  IInv'
<1>1. /\ pc'[c] = "idle" /\ at'[c] = 0 /\ goal'[c] = 0 /\ step'[c] = 0 /\ held'[c] = {}
      /\ work'[c] = NoWork
  BY DEF RollBack, End, IInv, Places
<1>2. Moves(c)
  BY DEF RollBack, End, Moves, IInv, Places
<1>3. Touched(c)' = {}
  BY <1>1, NamesGrow DEF Touched
<1>4. Placed(c)'
  BY <1>1, <1>3 DEF Placed, NoWork, MayRun
<1> QED
  BY <1>1, <1>2, <1>4, MoveIInv, Chain

(***************************************************************************)
(* Locks.                                                                  *)
(***************************************************************************)

\* A revision has the tables that its tables refer to.
LEMMA Closed ==
    ASSUME NEW n \in 0 .. 6, NEW name \in Present(n)
    PROVE  RefersTo(name) \subseteq Present(n)
<1>1. name \in TableNames /\ MadeBy(name) <= n
  BY NamesOfModels DEF Present
<1>2. RefersTo(name) \subseteq TableNames
  BY <1>1 DEF TableNames, RefersTo
<1>3. \A other \in RefersTo(name) : MadeBy(other) <= MadeBy(name)
  BY <1>1 DEF TableNames, RefersTo, MadeBy
<1>4. \A other : MadeBy(other) \in 1 .. 4
  BY DEF MadeBy
<1> QED
  BY <1>1, <1>2, <1>3, <1>4, NamesOfModels DEF Present

\* A table that is to be dropped has not been touched before.
LEMMA DropsUntouched ==
    ASSUME IInv, NEW c \in Commands, AtStatement(c), Statement(c).do = "drop"
    PROVE  Statement(c).name \notin Touched(c)
<1>1. /\ at[c] # goal[c] /\ step[c] \in 0 .. Len(Script(c)) /\ Places /\ ~Upwards(c)
      /\ Statement(c).name \in Standing(c) /\ step[c] + 1 \in 1 .. Len(Script(c))
      /\ Statement(c) = Script(c)[step[c] + 1]
  BY AtScript, StatementFits DEF AtStatement, MayRun, IInv, Statement
<1>2. /\ NamesOf(Script(c), step[c], "create") = {}
      /\ Statement(c).name \notin NamesOf(Script(c), step[c], "drop")
  BY <1>1, StandingIs DEF Standing
<1>3. NamesOf(Script(c), step[c], "alter") = {}
  <2>1. at[c] \in 1 .. 6 /\ Script(c) = Downgrades[at[c]]
    BY <1>1, Directions
  <2>2. at[c] \in {1, 3, 4}
    BY <1>1, <2>1, DowngradeStatements DEF DowngradeStatement
  <2>3. ASSUME NEW i \in 1 .. step[c]
        PROVE  Script(c)[i].do # "alter"
    <3>1. i \in 1 .. Len(Downgrades[at[c]])
      BY <1>1, <2>1
    <3>2. DowngradeStatement(at[c], i)
      BY <2>1, <3>1, DowngradeStatements
    <3> QED
      BY <2>1, <2>2, <3>2 DEF DowngradeStatement
  <2> QED
    BY <2>3 DEF NamesOf
<1> QED
  BY <1>2, <1>3 DEF Touched

\* What a statement of an upgrade refers to, and what one of a downgrade does.
LEMMA UpgradeRefers ==
    ASSUME IInv, NEW c \in Commands, AtStatement(c), Upwards(c), Statement(c).do = "create"
    PROVE  Referred(Current(c), Statement(c)) = RefersTo(Statement(c).name) \cap DOMAIN Current(c).tables
<1>1. /\ Statement(c).name \in TableNames /\ Following(c) \in 0 .. 6
      /\ Statement(c).as = Shape(Statement(c).name, Following(c))
  BY StatementFits, Directions, Chain DEF AtStatement, MayRun, IInv
<1>2. Targets(Statement(c).as) = RefersTo(Statement(c).name)
  BY <1>1, References, NamesOfModels
<1> QED
  BY <1>2 DEF Referred

LEMMA DowngradeRefers ==
    ASSUME IInv, NEW c \in Commands, AtStatement(c), ~Upwards(c), Statement(c).do = "drop",
           Statement(c).name \in DOMAIN Current(c).tables, Version \notin held[c]
    PROVE  /\ Referred(Current(c), Statement(c)) = RefersTo(Statement(c).name)
           /\ RefersTo(Statement(c).name) \subseteq DOMAIN tables
<1> DEFINE name == Statement(c).name
<1>1. Current(c).tables = Mixed(c) /\ name \notin Touched(c)
  BY DropsUntouched DEF AtStatement, MayRun, IInv, Sound, Sees
<1>2. name \in DOMAIN tables /\ Current(c).tables[name] = tables[name]
  BY <1>1 DEF Mixed
<1>3. /\ revision \in 0 .. 6 /\ name \in Present(revision)
      /\ tables = [n \in Present(revision) |-> Shape(n, revision)]
  BY <1>2, Chain DEF IInv, Places, Promised
<1>4. Targets(Current(c).tables[name]) = RefersTo(name)
  BY <1>2, <1>3, References DEF Present
<1>5. RefersTo(name) \subseteq DOMAIN tables
  BY <1>3, Closed
<1> QED
  BY <1>4, <1>5 DEF Referred

\* What a command that has not moved the version waits for.
Fitting(c, x) ==
    /\ x \in Region(Number(c))
    /\ x \in TableNames =>
          (x \in DOMAIN tables <=> ~(Upwards(c) /\ MadeBy(x) = at[c] + 1))
    /\ Number(c) = 1 /\ Upwards(c) =>
          /\ step[c] = 0 => x = "user_role"
          /\ step[c] = 1 => x = "users"
          /\ step[c] >= 2 => x = "refresh_sessions"
    /\ held[c] = {} =>
          /\ Number(c) = 1 /\ ~Upwards(c) => x = "refresh_sessions"
          /\ Number(c) = 3 /\ Upwards(c) => x = "organizations"
          /\ Number(c) = 3 /\ ~Upwards(c) => x = "task_status_history"

LEMMA WantedIs ==
    ASSUME Places, NEW c \in Commands, AtStatement(c), NEW x \in Wanted(c)
    PROVE  /\ Finds(Current(c), Statement(c)) /\ x \notin held[c]
           /\ x \in Locks(Current(c), held[c], Statement(c))
<1>1. ~AtVersion(c)
  BY AtOnePlace
<1>2. Finds(Current(c), Statement(c))
  BY <1>1 DEF Wanted
<1> QED
  BY <1>1, <1>2 DEF Wanted

LEMMA UpgradeWants ==
    ASSUME IInv, NEW c \in Commands, AtStatement(c), Version \notin held[c], Upwards(c),
           NEW x \in Wanted(c)
    PROVE  Fitting(c, x)
<1> DEFINE db == Current(c)
           op == Statement(c)
           n == at[c]
           k == step[c] + 1
<1>1. /\ Finds(db, op) /\ x \notin held[c] /\ x \in Named(db, op) \cup Referred(db, op)
  BY WantedIs DEF IInv, Locks
<1>2. /\ Places /\ Placed(c) /\ at[c] # goal[c] /\ step[c] \in Nat
      /\ k \in 1 .. Len(Script(c)) /\ op = Script(c)[k] /\ 1 .. step[c] \subseteq 1 .. k
  BY AtScript DEF AtStatement, MayRun, IInv, Places, Statement
<1>3. x \notin Touched(c) /\ (x \in DOMAIN db.tables <=> x \in DOMAIN tables)
  BY <1>1, <1>2, CurrentAgrees DEF Placed, Agrees
<1>4. EnumTypes \cap TableNames = {} /\ "user_role" \notin TableNames
  BY DEF EnumTypes, TableNames
<1>5. /\ n \in 0 .. 5 /\ Script(c) = Upgrades[n + 1] /\ Number(c) = n + 1
      /\ k \in 1 .. Len(Upgrades[n + 1]) /\ op = Upgrades[n + 1][k] /\ UpgradeStatement(n, k)
  BY <1>2, Directions, AtScript DEF Number
<1>6. k - 1 = step[c] /\ (k = 1 <=> step[c] = 0) /\ (k = 2 <=> step[c] = 1)
      /\ (k = 3 <=> step[c] = 2)
  BY <1>2
<1>7. step[c] # 0 /\ Script(c)[1].do = "create" => Script(c)[1].name \in Touched(c)
  <2>1. step[c] # 0 => 1 \in 1 .. step[c]
    BY <1>2
  <2> QED
    BY <2>1 DEF Touched, NamesOf
<1>8. /\ op.do \in {"create", "create_type", "alter", "backfill", "require"}
      /\ op.do = "create" =>
            /\ op.name \in TableNames /\ MadeBy(op.name) = n + 1
            /\ RefersTo(op.name) \subseteq Present(n) \cup NamesOf(Script(c), step[c], "create")
            /\ op.types \subseteq EnumTypes
            /\ n # 2 => op.types = {}
      /\ op.do = "alter" => n \in {4, 5} /\ op.name \in Present(n)
  BY <1>5, <1>6 DEF UpgradeStatement
<1> HIDE DEF db, op, n, k
<1>0. /\ op.do = "create" => {op.name} \cup op.types \cup RefersTo(op.name) \subseteq Region(n + 1)
      /\ op.do = "create_type" => n = 0 /\ k = 1
      /\ op.do = "alter" => op.name \in Region(n + 1)
      /\ n = 0 /\ k = 1 => op = CreateType("user_role")
      /\ n = 0 /\ k = 2 => op.do = "create" /\ op.name = "users"
      /\ n = 0 /\ k = 3 => op.do = "create" /\ op.name = "refresh_sessions"
  <2>1. n \in 0 .. 5 /\ k \in 1 .. Len(Upgrades[n + 1]) /\ op = Upgrades[n + 1][k]
    BY <1>5
  <2> QED
    BY <2>1, UpgradeThings
<1>9. CASE op.do = "create"
  <2>1. x \in {op.name} \cup op.types \cup (RefersTo(op.name) \cap DOMAIN db.tables)
    <3>1. Referred(db, op) = RefersTo(op.name) \cap DOMAIN db.tables
      BY <1>9, UpgradeRefers DEF db, op
    <3> QED
      BY <1>1, <1>9, <3>1 DEF Named
  <2>2. x \in Region(Number(c))
    BY <1>0, <1>5, <1>9, <2>1
  <2>3. ASSUME x \in TableNames
        PROVE  x \in DOMAIN tables <=> MadeBy(x) # n + 1
    <3>1. CASE x = op.name
      BY <1>1, <1>3, <1>8, <1>9, <3>1 DEF Finds
    <3>2. CASE x \in RefersTo(op.name) \cap DOMAIN db.tables
      <4>1. x \in Present(n)
        BY <1>3, <1>8, <1>9, <3>2 DEF Touched
      <4>2. MadeBy(x) <= n /\ MadeBy(x) \in Nat
        BY <4>1 DEF Present, MadeBy
      <4> QED
        BY <1>3, <1>5, <3>2, <4>2
    <3> QED
      BY <1>4, <1>8, <1>9, <2>1, <2>3, <3>1, <3>2
  <2>4. ASSUME n = 0
        PROVE  \/ step[c] = 1 /\ x = "users"
               \/ step[c] = 2 /\ x = "refresh_sessions"
    <3>1. k \in 1 .. 3
      <4>1. k \in 1 .. Len(Upgrades[1])
        BY <1>5, <2>4, 0 + 1 = 1
      <4> QED
        BY <4>1, Chain
    <3>2. CASE k = 1
      BY <1>0, <1>9, <2>4, <3>2 DEF CreateType
    <3>3. CASE k = 2
      BY <1>0, <1>5, <1>6, <1>8, <1>9, <2>1, <2>4, <3>3 DEF RefersTo
    <3>4. CASE k = 3
      <4>1. /\ Script(c)[2].do = "create" /\ Script(c)[2].name = "users"
        BY <1>5, <2>4, Chain, UpgradeThings, 0 + 1 = 1, 2 \in 1 .. 3
      <4>2. "users" \in Touched(c)
        BY <1>6, <3>4, <4>1, 2 \in 1 .. 2 DEF Touched, NamesOf
      <4>3. op.name = "refresh_sessions"
        BY <1>0, <2>4, <3>4
      <4> QED
        BY <1>3, <1>6, <1>8, <1>9, <2>1, <2>4, <3>4, <4>2, <4>3 DEF RefersTo
    <3> QED
      BY <3>1, <3>2, <3>3, <3>4
  <2>5. ASSUME n = 2, held[c] = {}
        PROVE  x = "organizations"
    <3>1. /\ Script(c)[1].do = "create" /\ Script(c)[1].name = "organizations"
          /\ Script(c)[1].types = {}
      BY <1>5, <2>5, Chain, UpgradeThings, 2 + 1 = 3, 1 \in 1 .. 11
    <3>2. op = Script(c)[1]
      BY <1>2, <1>6, <1>7, <2>5, <3>1 DEF Placed
    <3> QED
      BY <2>1, <3>1, <3>2 DEF RefersTo
  <2>6. (Number(c) = 1 <=> n = 0) /\ (Number(c) = 3 <=> n = 2)
    BY <1>5
  <2> QED
    BY <2>2, <2>3, <2>4, <2>5, <2>6 DEF Fitting, n
<1>10. CASE op.do = "create_type"
  <2>1. n = 0 /\ k = 1 /\ op = CreateType("user_role")
    BY <1>0, <1>10
  <2>2. x = "user_role"
    BY <1>1, <1>10, <2>1 DEF Named, Referred, CreateType
  <2>3. Number(c) = 1 /\ step[c] = 0 /\ "user_role" \in Region(1)
    BY <1>5, <1>6, <2>1 DEF Region, AuthThings
  <2> QED
    BY <1>4, <2>2, <2>3 DEF Fitting
<1>11. CASE op.do = "alter"
  <2>1. x = op.name
    BY <1>1, <1>11 DEF Named, Referred
  <2>2. x \in Region(n + 1) /\ x \in DOMAIN tables
    <3>1. x \in Region(n + 1)
      BY <1>0, <1>11, <2>1
    <3>2. x \in DOMAIN db.tables
      BY <1>1, <1>11, <2>1 DEF Finds
    <3> QED
      BY <1>3, <3>1, <3>2
  <2>3. MadeBy(x) <= n /\ MadeBy(x) \in Nat
    BY <1>8, <1>11, <2>1 DEF Present, MadeBy
  <2>4. Number(c) = n + 1 /\ n + 1 \notin {1, 3} /\ MadeBy(x) # n + 1
    BY <1>5, <1>8, <1>11, <2>3
  <2> QED
    BY <2>2, <2>4 DEF Fitting, n
<1>12. CASE op.do \in {"backfill", "require"}
  BY <1>1, <1>12 DEF Named, Referred
<1> QED
  BY <1>8, <1>9, <1>10, <1>11, <1>12

LEMMA DowngradeWants ==
    ASSUME IInv, NEW c \in Commands, AtStatement(c), Version \notin held[c], ~Upwards(c),
           NEW x \in Wanted(c)
    PROVE  Fitting(c, x)
<1> DEFINE db == Current(c)
           op == Statement(c)
           n == at[c]
           k == step[c] + 1
<1>1. /\ Finds(db, op) /\ x \notin held[c] /\ x \in Named(db, op) \cup Referred(db, op)
      /\ held[c] = {} /\ Named(db, op) # {} => x \in Named(db, op)
  BY WantedIs DEF IInv, Locks
<1>2. /\ Places /\ Placed(c) /\ at[c] # goal[c] /\ step[c] \in Nat
      /\ k \in 1 .. Len(Script(c)) /\ op = Script(c)[k]
  BY AtScript DEF AtStatement, MayRun, IInv, Places, Statement
<1>3. x \notin Touched(c) /\ (x \in DOMAIN db.tables <=> x \in DOMAIN tables)
  BY <1>1, <1>2, CurrentAgrees DEF Placed, Agrees
<1>4. /\ n \in 1 .. 6 /\ Script(c) = Downgrades[n] /\ Number(c) = n
      /\ k \in 1 .. Len(Downgrades[n]) /\ op = Downgrades[n][k] /\ DowngradeStatement(n, k)
  BY <1>2, Directions, AtScript DEF Number
<1>5. /\ op.do \in {"drop", "drop_type", "alter", "forget"}
      /\ op.do = "alter" => n \in {5, 6}
  BY <1>4 DEF DowngradeStatement
<1>6. ASSUME held[c] = {}, n \in {1, 3}
      PROVE  step[c] = 0 /\ op = Script(c)[1]
  <2>1. Script(c)[1].do = "drop"
    <3>1. 1 \in 1 .. Len(Downgrades[n])
      BY <1>2, <1>4
    <3> QED
      BY <1>4, <1>6, <3>1, DowngradeThings DEF Drop
  <2>2. step[c] # 0 => 1 \in 1 .. step[c]
    BY <1>2
  <2>3. step[c] # 0 => Script(c)[1].name \in Touched(c)
    BY <2>1, <2>2 DEF Touched, NamesOf
  <2> QED
    BY <1>2, <1>6, <2>3 DEF Placed
<1> HIDE DEF db, op, n, k
<1>7. CASE op.do = "drop"
  <2>1. op.name \in DOMAIN db.tables
    BY <1>1, <1>7 DEF Finds
  <2>2. Referred(db, op) = RefersTo(op.name) /\ RefersTo(op.name) \subseteq DOMAIN tables
    BY <1>7, <2>1, DowngradeRefers DEF db, op
  <2>3. Named(db, op) = {op.name}
    BY <1>7 DEF Named
  <2>4. x \in Region(n)
    BY <1>1, <1>4, <1>7, <2>2, <2>3, DowngradeThings
  <2>5. x \in DOMAIN tables
    BY <1>1, <1>3, <2>1, <2>2, <2>3
  <2>6. held[c] = {} => x = op.name
    BY <1>1, <2>3
  <2>7. /\ n = 1 /\ held[c] = {} => op = Drop("refresh_sessions")
        /\ n = 3 /\ held[c] = {} => op = Drop("task_status_history")
    <3>1. n \in {1, 3} /\ held[c] = {} => op = Downgrades[n][1] /\ 1 \in 1 .. Len(Downgrades[n])
      BY <1>2, <1>4, <1>6
    <3> QED
      BY <3>1, <1>4, DowngradeThings
  <2> QED
    BY <1>4, <2>4, <2>5, <2>6, <2>7 DEF Fitting, Drop
<1>8. CASE op.do = "drop_type"
  <2>1. n = 1 /\ k = 3 /\ op.type = "user_role" /\ op.type \in Region(n)
    BY <1>4, <1>8, DowngradeThings
  <2>2. x = op.type
    BY <1>1, <1>8 DEF Named, Referred
  <2>3. held[c] # {}
    BY <1>2, <1>6, <2>1 DEF k
  <2>4. "user_role" \notin TableNames
    BY DEF TableNames
  <2> QED
    BY <1>4, <2>1, <2>2, <2>3, <2>4 DEF Fitting
<1>9. CASE op.do = "alter"
  <2>1. x = op.name /\ x \in DOMAIN tables
    BY <1>1, <1>3, <1>9 DEF Named, Referred, Finds
  <2>2. x \in Region(n)
    BY <1>4, <1>9, <2>1, DowngradeThings
  <2> QED
    BY <1>4, <1>5, <1>9, <2>1, <2>2 DEF Fitting
<1>10. CASE op.do = "forget"
  BY <1>1, <1>10 DEF Named, Referred
<1> QED
  BY <1>5, <1>7, <1>8, <1>9, <1>10


LEMMA WantsFitting ==
    ASSUME IInv, NEW c \in Commands, AtStatement(c), NEW x \in Wanted(c)
    PROVE  x # Version /\ (Version \notin held[c] => Fitting(c, x))
<1>1. ASSUME Version \notin held[c]
      PROVE  Fitting(c, x)
  BY <1>1, UpgradeWants, DowngradeWants
<1>2. Version \notin Region(Number(c))
  BY DEF Region, Version, AuthThings, CoreThings, EnumTypes, TableNames
<1>3. x \notin held[c]
  BY WantedIs DEF IInv
<1> QED
  BY <1>1, <1>2, <1>3 DEF Fitting

LEMMA LockIInv ==
    ASSUME IInv, NEW c \in Commands, Lock(c)
    PROVE  IInv'
<1>1. PICK x \in Wanted(c) : Free(c, x) /\ held' = [held EXCEPT ![c] = @ \cup {x}]
  BY DEF Lock
<1>2. /\ AtStatement(c) /\ MayRun(c) /\ Places /\ Placed(c) /\ Sound(c, Current(c))
      /\ held'[c] = held[c] \cup {x} /\ work'[c] = Kept(held'[c], Current(c))
      /\ UNCHANGED <<dbVars, pc, at, goal, step, overtaken>>
  BY <1>1 DEF Lock, AtStatement, MayRun, IInv, Places, cmdVars
<1>3. Moves(c)
  BY <1>1, <1>2 DEF Moves, Lock, Places
<1>4. x # Version /\ (Version \notin held[c] => Fitting(c, x))
  BY <1>2, WantsFitting
<1>5. /\ Script(c)' = Script(c) /\ Upwards(c)' = Upwards(c) /\ Following(c)' = Following(c)
      /\ Number(c)' = Number(c) /\ MayRun(c)' = MayRun(c)
  BY <1>2 DEF Script, Upwards, Following, Number, MayRun
<1>6. Standing(c)' = Standing(c) /\ Resembled(c)' = Resembled(c) /\ Touched(c)' = Touched(c)
  BY <1>2, <1>5 DEF Standing, Resembled, Touched
<1>7. Agrees(held'[c], Current(c)) /\ Current(c).made = work[c].made
  BY <1>2, CurrentAgrees
<1>8. Current(c)' = Current(c)
  BY <1>2, <1>7, WorkIsSeen
<1>9. Placed(c)'
  <2>1. ASSUME Version \notin held[c]
        PROVE  Reaches(c)'
    <3>1. Reaches(c) /\ Fitting(c, x)
      BY <1>2, <1>4, <2>1 DEF Placed
    <3> QED
      BY <1>2, <1>5, <3>1 DEF Reaches, Fitting
  <2>2. Version \in held[c] => work'[c].revision = at[c]
    <3>1. Version \in held[c] => Current(c).revision = work[c].revision
      BY DEF Current, Seen
    <3> QED
      BY <1>2, <3>1 DEF Kept, Placed
  <2>3. work'[c].made = work[c].made
    BY <1>2, <1>7 DEF Kept
  <2>4. pc[c] = "running" /\ at[c] # goal[c]
    BY <1>2 DEF MayRun
  <2> QED
    BY <1>2, <1>4, <1>5, <1>6, <2>1, <2>2, <2>3, <2>4 DEF Placed
<1>10. Sound(c, Current(c))'
  <2>1. Sees(c, Current(c))'
    BY <1>2, <1>4, <1>5, <1>6, <1>8 DEF Sound, Sees, Mixed, dbVars
  <2>2. TypesAccounted(Current(c))'
    BY <1>2, <1>8 DEF Sound, TypesAccounted, dbVars
  <2>3. EventsKept(c, Current(c))'
    BY <1>2, <1>8 DEF Sound, EventsKept, dbVars
  <2>4. Abreast(c, Current(c))'
    BY <1>2, <1>8 DEF Sound, Abreast
  <2>5. HoldsRightly(c)'
    BY <1>2, <1>4, <1>5 DEF Sound, HoldsRightly, dbVars, Fitting
  <2> QED
    BY <2>1, <2>2, <2>3, <2>4, <2>5 DEF Sound
<1>11. \A d \in Commands \ {c} : held'[c] \cap held[d] = {}
  BY <1>1, <1>2 DEF Free, FreeOfCommands, Places
<1> QED
  BY <1>2, <1>3, <1>9, <1>10, <1>11, MoveIInv DEF Places

(***************************************************************************)
(* Commits.                                                                *)
(***************************************************************************)

\* What a command commits is what the revision promises.
LEMMA CommitServes ==
    ASSUME IInv, NEW c \in Commands, Commit(c)
    PROVE  /\ Version \in held[c] /\ revision' = at[c]
           /\ tables' = Promised(at[c])
           /\ events' \in [Events -> EventStates]
           /\ at[c] = Latest => Correlated(events')
<1>1. /\ Places /\ Placed(c) /\ Sound(c, Current(c)) /\ pc[c] = "running" /\ at[c] = goal[c]
      /\ step[c] = 0 /\ Version \in held[c] /\ work[c].revision = at[c]
  BY DEF Commit, IInv, Places, Placed
<1>2. Current(c).revision = at[c]
  BY <1>1 DEF Current, Seen
<1>3. Current(c).tables = Promised(at[c])
  BY <1>1, <1>2, HalfServes, StartStands DEF Resembled, Promised
<1> QED
  BY <1>1, <1>2, <1>3 DEF Commit, Sound, EventsKept

\* What another command has locked is not changed by it.
LEMMA CommitSpares ==
    ASSUME IInv, NEW c \in Commands, Commit(c), NEW d \in Commands \ {c}
    PROVE  /\ Version \notin held[d]
           /\ \A name \in held[d] :
                 /\ name \in DOMAIN tables' <=> name \in DOMAIN tables
                 /\ name \in DOMAIN tables => tables'[name] = tables[name]
                 /\ name \in types' <=> name \in types
           /\ "outbox_events" \in held[d] => events' = events
<1>1. held[c] \cap held[d] = {}
  BY DEF IInv, Places
<1>2. Agrees(held[c], Current(c))
  BY CurrentAgrees
<1>3. tables' = Current(c).tables /\ types' = Current(c).types /\ events' = Current(c).events
  BY DEF Commit
<1> QED
  BY <1>1, <1>2, <1>3, CommitServes DEF Agrees

LEMMA OthersSound ==
    ASSUME IInv, NEW c \in Commands, Commit(c), NEW d \in Commands \ {c}
    PROVE  Placed(d)' /\ (pc'[d] = "running" => Sound(d, Current(d))')
<1>1. /\ held'[d] = held[d] /\ work'[d] = work[d] /\ pc'[d] = pc[d] /\ at'[d] = at[d]
      /\ goal'[d] = goal[d] /\ step'[d] = step[d]
      /\ (pc[d] = "running" => d \in overtaken')
  BY DEF Commit, End, IInv, Places
<1>2. /\ Upwards(d)' = Upwards(d) /\ Script(d)' = Script(d) /\ Following(d)' = Following(d)
      /\ Number(d)' = Number(d) /\ MayRun(d)' = MayRun(d)
  BY <1>1 DEF Upwards, Script, Following, Number, MayRun
<1>3. /\ Standing(d)' = Standing(d) /\ Resembled(d)' = Resembled(d)
      /\ Touched(d)' = Touched(d)
  BY <1>1, <1>2 DEF Standing, Resembled, Touched
<1>4. Placed(d) /\ Places
  BY DEF IInv, Places
<1>5. Placed(d)'
  <2>1. Reaches(d) => Reaches(d)'
    BY <1>1, <1>2 DEF Reaches
  <2> QED
    BY <1>1, <1>2, <1>3, <1>4, <2>1 DEF Placed
<1>6. ASSUME pc[d] = "running"
      PROVE  Sound(d, Current(d))'
  <2> DEFINE db == Current(d)
             new == Current(d)'
  <2>1. /\ Sound(d, db) /\ Version \notin held[d] /\ at[d] # goal[d] /\ Touched(d) \subseteq held[d]
        /\ step[d] \in Nat
    BY <1>4, <1>6, CommitSpares DEF IInv, Placed, Places
  <2>2. /\ db.tables = [name \in (DOMAIN tables \ held[d]) \cup (DOMAIN work[d].tables \cap held[d]) |->
                          IF name \in held[d] THEN work[d].tables[name] ELSE tables[name]]
        /\ db.types = (types \ held[d]) \cup (work[d].types \cap held[d])
        /\ db.made = work[d].made
        /\ db.events = (IF "outbox_events" \in held[d] THEN work[d].events ELSE events)
    BY DEF Current, Seen
  <2>3. /\ new.tables = [name \in (DOMAIN tables' \ held[d]) \cup (DOMAIN work[d].tables \cap held[d]) |->
                          IF name \in held[d] THEN work[d].tables[name] ELSE tables'[name]]
        /\ new.types = (types' \ held[d]) \cup (work[d].types \cap held[d])
        /\ new.made = work[d].made
        /\ new.events = (IF "outbox_events" \in held[d] THEN work[d].events ELSE events')
    BY <1>1 DEF Current, Seen
  <2>4. \A name \in held[d] :
           /\ name \in DOMAIN tables' <=> name \in DOMAIN tables
           /\ name \in DOMAIN tables => tables'[name] = tables[name]
           /\ name \in types' <=> name \in types
    BY CommitSpares
  <2> HIDE DEF db, new
  <2>5. Sees(d, Current(d))'
    <3> DEFINE there == (DOMAIN tables \ Touched(d)) \cup (Standing(d) \cap Touched(d))
               later == (DOMAIN tables' \ Touched(d)) \cup (Standing(d) \cap Touched(d))
    <3>1. db.tables = [name \in there |->
                          IF name \in Touched(d) THEN Shape(name, Following(d)) ELSE tables[name]]
      BY <2>1 DEF Sound, Sees, Mixed
    <3>2. Mixed(d)' = [name \in later |->
                          IF name \in Touched(d) THEN Shape(name, Following(d)) ELSE tables'[name]]
      BY <1>2, <1>3 DEF Mixed
    <3>3. DOMAIN new.tables = later
      <4>1. DOMAIN db.tables = there /\ DOMAIN db.tables = (DOMAIN tables \ held[d]) \cup (DOMAIN work[d].tables \cap held[d])
        BY <2>2, <3>1
      <4>2. DOMAIN new.tables = (DOMAIN tables' \ held[d]) \cup (DOMAIN work[d].tables \cap held[d])
        BY <2>3
      <4> QED
        BY <2>1, <2>4, <4>1, <4>2
    <3>4. ASSUME NEW name \in later
          PROVE  new.tables[name] = IF name \in Touched(d) THEN Shape(name, Following(d)) ELSE tables'[name]
      <4>1. CASE name \in held[d]
        <5>1. name \in there
          BY <2>4, <3>4, <4>1
        <5>2. db.tables[name] = IF name \in Touched(d) THEN Shape(name, Following(d)) ELSE tables[name]
          BY <3>1, <5>1
        <5>3. name \in DOMAIN db.tables /\ name \in DOMAIN new.tables
          BY <3>1, <3>3, <5>1
        <5>4. db.tables[name] = work[d].tables[name] /\ new.tables[name] = work[d].tables[name]
          BY <2>2, <2>3, <4>1, <5>3
        <5>5. name \notin Touched(d) => tables'[name] = tables[name]
          BY <2>4, <4>1, <5>1
        <5> QED
          BY <5>2, <5>4, <5>5
      <4>2. CASE name \notin held[d]
        <5>1. name \notin Touched(d) /\ name \in DOMAIN new.tables
          BY <2>1, <3>3, <4>2
        <5> QED
          BY <2>3, <4>2, <5>1
      <4> QED
        BY <4>1, <4>2
    <3>5. new.tables = [name \in DOMAIN new.tables |-> new.tables[name]]
      BY <2>3
    <3> HIDE DEF later
    <3>6. new.tables = Mixed(d)'
      BY <3>2, <3>3, <3>4, <3>5
    <3> QED
      BY <1>1, <2>1, <3>6 DEF Sees, new
  <2>6. TypesAccounted(Current(d))'
    <3>1. new.types \subseteq types' \cup new.made
      BY <2>1, <2>2, <2>3, <2>4 DEF Sound, TypesAccounted
    <3> QED
      BY <3>1 DEF TypesAccounted, new
  <2>7. EventsKept(d, Current(d))'
    <3>1. CASE "outbox_events" \in held[d]
      <4>1. events' = events /\ new.events = db.events
        BY <2>2, <2>3, <3>1, CommitSpares
      <4>2. "outbox_events" \in DOMAIN new.tables <=> "outbox_events" \in DOMAIN db.tables
        BY <2>2, <2>3, <3>1
      <4> QED
        BY <1>1, <2>1, <4>1, <4>2 DEF Sound, EventsKept, new
    <3>2. CASE "outbox_events" \notin held[d]
      <4>1. new.events = events' /\ events' \in [Events -> EventStates]
        BY <2>3, <3>2, CommitServes
      <4>2. ~(goal[d] = Latest /\ at[d] = 5 /\ step[d] >= 2)
        <5> SUFFICES ASSUME goal[d] = Latest, at[d] = 5, step[d] >= 2
                     PROVE  FALSE
          OBVIOUS
        <5>1. Upwards(d)
          BY <1>4, <2>1, Directions
        <5>2. Script(d) = Upgrades[6]
          BY <1>4, <2>1, <5>1, Directions, 5 + 1 = 6
        <5>3. Script(d)[1].do = "alter" /\ Script(d)[1].name = "outbox_events"
          BY <5>2 DEF Upgrades, Alter
        <5>4. 1 \in 1 .. step[d]
          BY <2>1
        <5>5. "outbox_events" \in Touched(d)
          BY <5>3, <5>4 DEF Touched, NamesOf
        <5> QED
          BY <2>1, <3>2, <5>5
      <4> QED
        BY <1>1, <2>1, <4>1, <4>2 DEF EventsKept, new
    <3> QED
      BY <3>1, <3>2
  <2>8. Abreast(d, Current(d))'
    BY <1>1, <1>6 DEF Abreast
  <2>9. HoldsRightly(d)'
    BY <1>1, <1>2, <2>1, <2>4 DEF Sound, HoldsRightly
  <2> QED
    BY <2>5, <2>6, <2>7, <2>8, <2>9 DEF Sound
<1> QED
  BY <1>1, <1>5, <1>6

LEMMA CommitIInv ==
    ASSUME IInv, NEW c \in Commands, Commit(c)
    PROVE  IInv'
<1>1. /\ pc'[c] = "idle" /\ at'[c] = 0 /\ goal'[c] = 0 /\ step'[c] = 0 /\ held'[c] = {}
      /\ work'[c] = NoWork
  BY DEF Commit, End, IInv, Places
<1>2. Placed(c)'
  <2>1. Touched(c)' = {}
    BY <1>1, NamesGrow DEF Touched
  <2> QED
    BY <1>1, <2>1 DEF Placed, NoWork, MayRun
<1>3. ASSUME NEW d \in Commands
      PROVE  Placed(d)' /\ (pc'[d] = "running" => Sound(d, Current(d))')
  <2>1. CASE d = c
    BY <1>1, <1>2, <2>1
  <2>2. CASE d # c
    BY <2>2, OthersSound
  <2> QED
    BY <2>1, <2>2
<1>4. Places'
  <2>1. revision' \in 0 .. Latest /\ events' \in [Events -> EventStates]
    BY CommitServes DEF IInv, Places
  <2>2. /\ held' = [d \in Commands |-> held'[d]] /\ work' = [d \in Commands |-> work'[d]]
        /\ pc' \in [Commands -> {"idle", "running"}] /\ at' \in [Commands -> 0 .. Latest]
        /\ goal' \in [Commands -> 0 .. Latest] /\ step' \in [Commands -> Nat]
    <3>1. 0 \in 0 .. Latest /\ 0 \in Nat
      BY Chain
    <3>2. End(c) /\ Places
      BY DEF Commit, IInv
    <3>3. held' = [d \in Commands |-> held'[d]] /\ work' = [d \in Commands |-> work'[d]]
      BY <3>2 DEF End, Places
    <3>4. /\ pc' \in [Commands -> {"idle", "running"}] /\ at' \in [Commands -> 0 .. Latest]
          /\ goal' \in [Commands -> 0 .. Latest] /\ step' \in [Commands -> Nat]
      BY <3>1, <3>2 DEF End, Places
    <3> QED
      BY <3>3, <3>4
  <2>3. ASSUME NEW p \in Commands, NEW q \in Commands, p # q
        PROVE  held'[p] \cap held'[q] = {}
    BY <2>3 DEF Commit, End, IInv, Places
  <2> QED
    BY <1>3, <2>1, <2>2, <2>3 DEF Places
<1>5. /\ Promised(revision)' = Promised(revision')
      /\ Correlated(events)' = Correlated(events')
  BY DEF Promised, Present, Shape, Correlated
<1> QED
  BY <1>3, <1>4, <1>5, CommitServes DEF IInv

(***************************************************************************)
(* Requests, and all steps.                                                *)
(***************************************************************************)

\* A request that writes an event finds the outbox locked by no command.
LEMMA WriteEventIInv ==
    ASSUME IInv, NEW e \in Events, WriteEvent(e)
    PROVE  IInv'
<1>1. /\ events' = [events EXCEPT ![e] = "own"] /\ Places
      /\ UNCHANGED <<revision, tables, types, held, work, pc, at, goal, step, overtaken>>
  BY DEF WriteEvent, cmdVars, IInv
<1>2. events' \in [Events -> EventStates]
  BY <1>1 DEF Places, EventStates
<1>3. ASSUME NEW d \in Commands
      PROVE  /\ Upwards(d)' = Upwards(d) /\ Script(d)' = Script(d) /\ Following(d)' = Following(d)
             /\ Number(d)' = Number(d) /\ MayRun(d)' = MayRun(d)
  BY <1>1 DEF Upwards, Script, Following, Number, MayRun
<1>4. ASSUME NEW d \in Commands
      PROVE  /\ Standing(d)' = Standing(d) /\ Resembled(d)' = Resembled(d)
             /\ Touched(d)' = Touched(d)
  BY <1>1, <1>3 DEF Standing, Resembled, Touched
<1>5. ASSUME NEW d \in Commands
      PROVE  Placed(d)'
  <2>1. Placed(d)
    BY <1>1 DEF Places
  <2>2. Reaches(d) => Reaches(d)'
    BY <1>1, <1>3 DEF Reaches
  <2> QED
    BY <1>1, <1>3, <1>4, <2>1, <2>2 DEF Placed
<1>6. ASSUME NEW d \in Commands, pc'[d] = "running"
      PROVE  Sound(d, Current(d))'
  <2> DEFINE db == Current(d)
             new == Current(d)'
  <2>1. Sound(d, db) /\ Placed(d) /\ "outbox_events" \notin held[d] /\ step[d] \in Nat
    BY <1>1, <1>6 DEF IInv, Places, WriteEvent, FreeOfCommands
  <2>2. /\ new.revision = db.revision /\ new.tables = db.tables /\ new.types = db.types
        /\ new.made = db.made /\ new.events = events'
    BY <1>1, <2>1 DEF Current, Seen
  <2> HIDE DEF db, new
  <2>3. Sees(d, Current(d))'
    BY <1>1, <1>3, <1>4, <2>1, <2>2 DEF Sound, Sees, Mixed, new
  <2>4. TypesAccounted(Current(d))'
    BY <1>1, <2>1, <2>2 DEF Sound, TypesAccounted, new
  <2>5. EventsKept(d, Current(d))'
    <3>1. db.events = events
      BY <2>1 DEF Current, Seen, db
    <3>2. Correlated(events) => Correlated(new.events)
      BY <1>1, <2>2 DEF Correlated, Places
    <3>3. \A f \in Events : events'[f] # "absent" /\ new.events[f] = "absent" => FALSE
      BY <2>2
    <3>4. /\ goal[d] = Latest /\ (at[d] = Latest \/ (at[d] = 5 /\ step[d] >= 2)) =>
                Correlated(new.events)
      BY <2>1, <3>1, <3>2 DEF Sound, EventsKept
    <3> QED
      BY <1>1, <1>2, <2>2, <3>3, <3>4 DEF EventsKept, Correlated, new
  <2>6. Abreast(d, Current(d))'
    BY <1>1, <2>1, <2>2 DEF Sound, Abreast, new
  <2>7. HoldsRightly(d)'
    BY <1>1, <1>3, <2>1 DEF Sound, HoldsRightly
  <2> QED
    BY <2>3, <2>4, <2>5, <2>6, <2>7 DEF Sound
<1>7. Places'
  BY <1>1, <1>2, <1>5 DEF Places
<1>8. tables' = Promised(revision') /\ (revision' = Latest => Correlated(events'))
  BY <1>1 DEF IInv, Correlated, Places
<1>9. Promised(revision)' = Promised(revision') /\ Correlated(events)' = Correlated(events')
  BY DEF Promised, Present, Shape, Correlated
<1> QED
  BY <1>6, <1>7, <1>8, <1>9 DEF IInv

\* Nothing else that requests do changes what the invariant speaks of.
LEMMA QuietIInv ==
    ASSUME IInv, UNCHANGED <<dbVars, held, work, cmdVars, overtaken>>
    PROVE  IInv'
<1>1. ASSUME NEW d \in Commands
      PROVE  Placed(d)' /\ (pc'[d] = "running" => Sound(d, Current(d))')
  BY Stays DEF cmdVars
<1>2. Places'
  BY <1>1 DEF IInv, Places, dbVars, cmdVars
<1>3. tables' = Promised(revision') /\ (revision' = Latest => Correlated(events'))
  BY DEF IInv, dbVars
<1>4. Promised(revision)' = Promised(revision') /\ Correlated(events)' = Correlated(events')
  BY DEF Promised, Present, Shape, Correlated
<1> QED
  BY <1>1, <1>2, <1>3, <1>4 DEF IInv

LEMMA InitIInv ==
    ASSUME Init
    PROVE  IInv
<1>1. ASSUME NEW c \in Commands
      PROVE  Placed(c) /\ pc[c] = "idle"
  <2>1. Touched(c) = {}
    BY NamesGrow DEF Touched, Init
  <2> QED
    BY <2>1 DEF Placed, Init, NoWork, MayRun
<1>2. tables = Promised(revision)
  <2>1. Present(0) = {}
    BY DEF Present, MadeBy
  <2> QED
    BY <2>1 DEF Init, Promised
<1>3. Latest = 6
  BY Chain
<1>4. Places
  BY <1>1, <1>3 DEF Places, Init, EventStates
<1> QED
  BY <1>1, <1>2, <1>3, <1>4 DEF IInv, Init

LEMMA NextIInv ==
    ASSUME IInv, [Next]_vars
    PROVE  IInv'
<1>1. ASSUME NEW c \in Commands, NEW target \in 0 .. Latest, Begin(c, target)
      PROVE  IInv'
  BY <1>1, BeginIInv
<1>2. ASSUME NEW c \in Commands, Fail(c) \/ DeadlockVictim(c) \/ Kill(c)
      PROVE  IInv'
  BY <1>2, RollBackIInv DEF Fail, DeadlockVictim, Kill
<1>3. ASSUME NEW e \in Events, ReadTable(e) \/ EndRequest(e)
      PROVE  IInv'
  BY <1>3, QuietIInv DEF ReadTable, EndRequest
<1>4. CASE UNCHANGED vars
  BY <1>4, QuietIInv DEF vars, dbVars, cmdVars
<1> QED
  BY <1>1, <1>2, <1>3, <1>4, LockIInv, RunStatementIInv, UpdateVersionIInv, CommitIInv,
     WriteEventIInv DEF Next

\* However commands overlap, the schema stays what the invariant says of it.
LEMMA InductiveInvariant == Spec => []IInv
  BY InitIInv, NextIInv, PTL DEF Spec

\* The tables are always those the revision stands for, at the head those of the
\* models: no order of commands, failures and kills leaves half of a migration.
THEOREM SchemaAlwaysServes == Spec => []SchemaServesRevision
<1>1. IInv => SchemaServesRevision
  <2>1. Present(Latest) = DOMAIN Models
    <3>1. \A name : MadeBy(name) <= 6
      BY DEF MadeBy
    <3> QED
      BY <3>1, Chain DEF Present
  <2>2. \A name \in DOMAIN Models : Shape(name, Latest) = Models[name]
    <3>1. \A name : Shape(name, 6) = Models[name]
      BY DEF Shape
    <3> QED
      BY <3>1, Chain
  <2>3. Models = [name \in DOMAIN Models |-> Models[name]]
    BY DEF Models
  <2>4. Promised(Latest) = Models
    BY <2>1, <2>2, <2>3 DEF Promised
  <2> QED
    BY <2>4 DEF IInv, SchemaServesRevision
<1> QED
  BY <1>1, InductiveInvariant, PTL

\* The statement of a command that no other one has overtaken succeeds, unless it
\* creates enum types that a downgrade has left.
LEMMA StatementSucceeds ==
    ASSUME IInv, NEW c \in Commands, AtStatement(c), c \notin overtaken,
           ~(at[c] = 2 /\ goal[c] = Latest /\ types \ {"user_role"} # {})
    PROVE  Succeeds(Current(c), Statement(c))
<1> DEFINE db == Current(c)
           op == Statement(c)
<1>1. /\ MayRun(c) /\ pc[c] = "running" /\ at[c] # goal[c] /\ Places /\ Sound(c, db)
      /\ db.tables = [name \in Standing(c) |-> Shape(name, Resembled(c))]
  <2>1. /\ MayRun(c) /\ pc[c] = "running" /\ at[c] # goal[c] /\ Places /\ Sound(c, db)
    BY DEF AtStatement, MayRun, IInv
  <2>2. db.revision = at[c]
    BY <2>1 DEF Sound, Abreast
  <2> QED
    BY <2>1, <2>2, HalfServes
<1>2. \A name \in Standing(c) :
         name \in TableNames /\ Targets(db.tables[name]) = RefersTo(name)
  <2>1. Standing(c) \subseteq TableNames
    <3>1. Present(at[c]) \subseteq TableNames
      BY NamesOfModels DEF Present
    <3>2. CASE Upwards(c)
      <4>1. step[c] \in 0 .. Len(Script(c))
        BY AtScript
      <4>2. Standing(c) = Present(at[c]) \cup NamesOf(Script(c), step[c], "create")
        BY <1>1, <3>2, <4>1, StandingIs
      <4>3. ASSUME NEW i \in 1 .. step[c], Script(c)[i].do = "create"
            PROVE  Script(c)[i].name \in TableNames
        <5>1. /\ at[c] \in 0 .. 5 /\ Script(c) = Upgrades[at[c] + 1]
              /\ i \in 1 .. Len(Script(c))
          BY <1>1, <3>2, <4>1, Directions
        <5>2. UpgradeStatement(at[c], i)
          BY <5>1, UpgradeStatements
        <5> QED
          BY <5>1, <5>2, <4>3 DEF UpgradeStatement
      <4> QED
        BY <3>1, <4>2, <4>3 DEF NamesOf
    <3>3. CASE ~Upwards(c)
      <4>1. step[c] \in 0 .. Len(Script(c))
        BY AtScript
      <4> QED
        BY <1>1, <3>1, <3>3, <4>1, StandingIs
    <3> QED
      BY <3>2, <3>3
  <2>2. Resembled(c) \in 0 .. 6
    BY <1>1, Directions, Chain DEF Resembled, Places
  <2> QED
    BY <1>1, <2>1, <2>2, References, NamesOfModels
<1>3. ASSUME op.do = "create"  PROVE MayCreate(db, op)
  <2>1. /\ Upwards(c) /\ op.name \notin Standing(c) /\ op.name \in TableNames
        /\ op.as = Shape(op.name, Following(c)) /\ RefersTo(op.name) \subseteq Standing(c)
    BY <1>3, StatementFits
  <2>2. Targets(op.as) = RefersTo(op.name)
    BY <1>1, <2>1, Directions, References, NamesOfModels, Chain
  <2>3. (op.types \ db.made) \cap db.types = {}
    <3>1. UpgradeStatement(at[c], step[c] + 1) /\ Script(c) = Upgrades[at[c] + 1]
          /\ goal[c] = Latest
      BY <1>1, <2>1, AtScript, Directions
    <3>2. "user_role" \notin op.types /\ (at[c] # 2 => op.types = {})
      BY <1>3, <3>1 DEF UpgradeStatement, Statement, EnumTypes
    <3>3. db.types \subseteq types \cup db.made
      BY <1>1 DEF Sound, TypesAccounted
    <3>4. at[c] = 2 => types \ {"user_role"} = {}
      BY <3>1
    <3> QED
      BY <3>2, <3>3, <3>4
  <2>4. op.name = "users" => "user_role" \in db.types
    <3> SUFFICES ASSUME op.name = "users"
                 PROVE  "user_role" \in db.types
      OBVIOUS
    <3>1. /\ at[c] \in 0 .. 5 /\ Script(c) = Upgrades[at[c] + 1] /\ goal[c] = Latest
          /\ step[c] + 1 \in 1 .. Len(Upgrades[at[c] + 1]) /\ step[c] \in Nat
          /\ op = Upgrades[at[c] + 1][step[c] + 1]
      BY <1>1, <2>1, AtScript, Directions DEF Statement
    <3>2. at[c] = 0 /\ step[c] + 1 = 2
      <4> DEFINE n == at[c]
                 k == step[c] + 1
      <4>1. /\ n \in 0 .. 5 /\ k \in 1 .. Len(Upgrades[n + 1]) /\ op = Upgrades[n + 1][k]
            /\ op.do = "create" /\ op.name = "users"
        BY <1>3, <3>1
      <4> HIDE DEF db, op, n, k
      <4>2. n = 0 /\ k = 2
        BY <4>1, UpgradeThings
      <4> QED
        BY <4>2 DEF n, k
    <3>3. goal[c] # 0 /\ step[c] # 0
      BY <3>1, <3>2, Chain
    <3> QED
      BY <1>1, <3>2, <3>3 DEF Sound, Abreast
  <2> QED
    BY <1>1, <2>1, <2>2, <2>3, <2>4 DEF MayCreate
<1>4. ASSUME op.do = "drop"  PROVE MayDrop(db, op)
  <2>1. op.name \in Standing(c) /\ \A name \in Standing(c) : op.name \notin RefersTo(name)
    BY <1>4, StatementFits
  <2> QED
    BY <1>1, <1>2, <2>1 DEF MayDrop
<1>5. ASSUME op.do = "alter"  PROVE MayAlter(db, op)
  <2>1. /\ step[c] = 0 /\ op.name \in Standing(c) /\ op.from = Shape(op.name, at[c])
        /\ Resembled(c) = at[c]
    BY <1>5, StatementFits DEF Resembled
  <2> QED
    BY <1>1, <2>1 DEF MayAlter
<1>6. ASSUME op.do = "require"  PROVE Correlated(db.events)
  <2>1. CASE Upwards(c)
    <3>1. UpgradeStatement(at[c], step[c] + 1) /\ Script(c) = Upgrades[at[c] + 1]
          /\ goal[c] = Latest /\ step[c] \in Nat
      BY <1>1, <2>1, AtScript, Directions
    <3>2. at[c] = 5 /\ step[c] + 1 = 3
      BY <1>6, <3>1 DEF UpgradeStatement, Statement
    <3>3. step[c] >= 2
      BY <3>1, <3>2
    <3> QED
      BY <1>1, <3>1, <3>2, <3>3 DEF Sound, EventsKept
  <2>2. CASE ~Upwards(c)
    <3>1. DowngradeStatement(at[c], step[c] + 1) /\ Script(c) = Downgrades[at[c]]
      BY <1>1, <2>2, AtScript, Directions
    <3> QED
      BY <1>6, <3>1 DEF DowngradeStatement, Statement
  <2> QED
    BY <2>1, <2>2
<1> QED
  BY <1>3, <1>4, <1>5, <1>6 DEF Succeeds

\* Migrations keep the events of the outbox as long as they keep its table, and at the
\* head each has a correlation_id.
THEOREM EventsAreKept == Spec => EventsSurvive
<1>1. IInv /\ IInv' /\ [Next]_vars =>
        [\A e \in Events :
            /\ events[e] # "absent" /\ "outbox_events" \in DOMAIN tables'
                   => events'[e] # "absent"
            /\ revision' = Latest => events'[e] # "bare"]_vars
  <2> SUFFICES ASSUME IInv, IInv', Next, NEW e \in Events
               PROVE  /\ events[e] # "absent" /\ "outbox_events" \in DOMAIN tables'
                             => events'[e] # "absent"
                      /\ revision' = Latest => events'[e] # "bare"
    BY DEF vars
  <2>1. revision' = Latest => events'[e] # "bare"
    BY DEF IInv, Places, Correlated
  <2>2. ASSUME NEW c \in Commands, Commit(c), events[e] # "absent",
               "outbox_events" \in DOMAIN tables'
        PROVE  events'[e] # "absent"
    BY <2>2 DEF Commit, IInv, Sound, EventsKept
  <2>3. ASSUME NEW c \in Commands, ~Commit(c),
               \/ \E target \in 0 .. Latest : Begin(c, target)
               \/ Lock(c) \/ RunStatement(c) \/ UpdateVersion(c)
               \/ Fail(c) \/ DeadlockVictim(c) \/ Kill(c)
        PROVE  events' = events
    BY <2>3 DEF Begin, Lock, RunStatement, UpdateVersion, Fail, DeadlockVictim, Kill,
                RollBack, dbVars
  <2>4. ASSUME NEW d \in Events, WriteEvent(d), events[e] # "absent"
        PROVE  events'[e] # "absent"
    BY <2>4 DEF WriteEvent, IInv, Places
  <2>5. ASSUME NEW d \in Events, ReadTable(d) \/ EndRequest(d)
        PROVE  events' = events
    BY <2>5 DEF ReadTable, EndRequest, dbVars
  <2> QED
    BY <2>1, <2>2, <2>3, <2>4, <2>5 DEF Next
<1> QED
  BY <1>1, InductiveInvariant, PTL DEF Spec, EventsSurvive

(***************************************************************************)
(* Circles of locks.                                                       *)
(***************************************************************************)

\* A command that waits at a statement, holds locks and has not moved the version.
Waiting(c) ==
    /\ AtStatement(c) /\ Version \notin held[c] /\ held[c] # {}
    /\ Reaches(c) /\ HoldsRightly(c) /\ Touched(c) \subseteq held[c]

\* In a circle of such commands each waits for a lock that another one holds.
LEMMA CircleOfCommands ==
    ASSUME IInv, NEW ring \in SUBSET Commands, Circle(ring),
           \A d \in ring : Version \notin held[d], NEW p \in ring
    PROVE  /\ Waiting(p)
           /\ \E q \in ring \ {p} : \E x \in held[q] : x \notin held[p] /\ Fitting(p, x)
<1>1. \A d \in ring : d \in Commands /\ d \notin Events
  BY ProcessesApart
<1>2. \A d \in ring : \E q \in ring \ {d} : Wanted(d) \cap held[q] # {}
  BY <1>1 DEF Circle, Stuck, WaitsFor
<1>3. \E d \in ring : Wanted(d) \cap held[p] # {}
  <2> SUFFICES ASSUME \A d \in ring : Wanted(d) \cap held[p] = {}
               PROVE  FALSE
    OBVIOUS
  <2> DEFINE part == ring \ {p}
  <2>1. part # {}
    BY <1>2
  <2>2. \A d \in part : \E q \in part \ {d} : WaitsFor(d, q)
    BY <1>1, <1>2 DEF WaitsFor
  <2>3. Stuck(part)
    BY <2>1, <2>2 DEF Stuck
  <2> QED
    BY <2>3 DEF Circle
<1>4. PICK q \in ring \ {p} : \E x \in held[q] : x \in Wanted(p)
  BY <1>2
<1>5. PICK x \in held[q] : x \in Wanted(p)
  BY <1>4
<1>6. AtStatement(p)
  BY <1>5 DEF Wanted
<1>7. /\ x \notin held[p] /\ Fitting(p, x) /\ held[p] # {} /\ p \in Commands
  BY <1>3, <1>5, <1>6, WantedIs, WantsFitting DEF IInv
<1>8. Reaches(p) /\ HoldsRightly(p) /\ Touched(p) \subseteq held[p]
  BY <1>6, <1>7 DEF AtStatement, MayRun, IInv, Places, Placed, Sound
<1> QED
  BY <1>4, <1>5, <1>6, <1>7, <1>8 DEF Waiting

\* Only the scripts that create or drop several tables take part.
LEMMA BigScripts ==
    ASSUME IInv, NEW p \in Commands, Waiting(p), NEW x, x \notin held[p], Fitting(p, x)
    PROVE  Number(p) \in {1, 3}
<1>1. /\ Number(p) \in 1 .. 6 /\ held[p] \subseteq Region(Number(p)) /\ held[p] # {}
      /\ x \in Region(Number(p))
  BY Directions DEF Waiting, Reaches, Fitting, Number, AtStatement, MayRun, IInv
<1>2. Number(p) # 2
  BY <1>1 DEF Region
<1>3. Number(p) \notin {4, 5, 6}
  BY <1>1 DEF Region
<1> QED
  BY <1>1, <1>2, <1>3

\* The first upgrade waits only for another first upgrade.
LEMMA FirstUpgradeWaits ==
    ASSUME IInv, NEW p \in Commands, Waiting(p), Number(p) = 1, Upwards(p),
           NEW q \in Commands \ {p}, Waiting(q), NEW x \in held[q], x \notin held[p],
           Fitting(p, x)
    PROVE  step[p] = 1 /\ x = "users" /\ Number(q) = 1 /\ Upwards(q)
<1>1. /\ step[p] \in Nat /\ step[q] \in Nat /\ at[p] = 0 /\ held[p] \cap held[q] = {}
      /\ at[p] # goal[p] /\ at[q] # goal[q] /\ at[q] \in 0 .. 6
  <2>1. at[p] \in 0 .. 6 /\ at[q] \in 0 .. 6 /\ step[p] \in Nat /\ step[q] \in Nat
    BY Chain DEF IInv, Places
  <2>2. held[p] \cap held[q] = {}
    BY DEF IInv, Places
  <2>3. at[p] = 0
    BY <2>1 DEF Number
  <2>4. at[p] # goal[p] /\ at[q] # goal[q]
    BY DEF Waiting, AtStatement, MayRun
  <2> QED
    BY <2>1, <2>2, <2>3, <2>4
<1>2. step[p] # 0
  BY DEF Waiting, Reaches, Fitting
<1>3. x \in {"users", "refresh_sessions"}
  BY <1>1, <1>2 DEF Fitting
<1>4. x \in TableNames /\ MadeBy(x) = 1
  BY <1>3 DEF TableNames, MadeBy
<1>5. x \notin DOMAIN tables
  BY <1>1, <1>4 DEF Fitting
<1>6. Upwards(q) /\ at[q] = 0
  BY <1>1, <1>4, <1>5 DEF Waiting, HoldsRightly
<1>7. Number(q) = 1
  BY <1>6 DEF Number
<1>8. ASSUME NEW d \in {p, q}, step[d] >= 2
      PROVE  "users" \in held[d]
  <2>1. Script(d) = Upgrades[1] /\ step[d] \in Nat
    BY <1>1, <1>6, Directions, 0 + 1 = 1 DEF IInv
  <2>2. Script(d)[2].do = "create" /\ Script(d)[2].name = "users" /\ 2 \in 1 .. step[d]
    BY <1>1, <1>8, <2>1 DEF Upgrades, InitialAuthTables, Create
  <2> QED
    BY <2>2 DEF Waiting, Touched, NamesOf
<1>9. x # "refresh_sessions"
  <2> SUFFICES ASSUME x = "refresh_sessions"
               PROVE  FALSE
    OBVIOUS
  <2>1. step[p] # 1
    BY DEF Fitting
  <2>2. step[q] # 0 /\ step[q] # 1
    BY <1>6, <1>7 DEF Waiting, Reaches
  <2> QED
    BY <1>1, <1>2, <1>8, <2>1, <2>2
<1>10. step[p] = 1
  BY <1>1, <1>2, <1>3, <1>9 DEF Fitting
<1> QED
  BY <1>3, <1>6, <1>7, <1>9, <1>10

\* No two of the other waiting commands run scripts of the same revision.
LEMMA WaitingApart ==
    ASSUME IInv, NEW p \in Commands, NEW q \in Commands, Waiting(p), Waiting(q),
           Number(p) = Number(q), Number(p) \in {1, 3},
           Number(p) = 1 => ~Upwards(p) /\ ~Upwards(q)
    PROVE  p = q
<1>1. p # q => held[p] \cap held[q] = {}
  BY DEF IInv, Places
<1>2. CASE Number(p) = 1
  BY <1>1, <1>2 DEF Waiting, Reaches
<1>3. CASE Number(p) = 3
  <2>1. ("organizations" \in DOMAIN tables <=> "task_status_history" \in DOMAIN tables)
    <3>1. /\ "organizations" \in TableNames /\ "task_status_history" \in TableNames
          /\ MadeBy("organizations") = 3 /\ MadeBy("task_status_history") = 3
      BY DEF TableNames, MadeBy
    <3>2. DOMAIN tables = Present(revision)
      BY DEF IInv, Promised
    <3> QED
      BY <3>1, <3>2, NamesOfModels DEF Present
  <2>2. ASSUME NEW d \in {p, q}
        PROVE  /\ Upwards(d) => "organizations" \in held[d] /\ "organizations" \notin DOMAIN tables
               /\ ~Upwards(d) => "task_status_history" \in held[d] /\ "task_status_history" \in DOMAIN tables
    <3>1. /\ Upwards(d) => "organizations" \in held[d] /\ at[d] = 2
          /\ ~Upwards(d) => "task_status_history" \in held[d]
      <4>1. at[d] \in 0 .. 6
        BY Chain DEF IInv, Places
      <4> QED
        BY <1>3, <4>1 DEF Waiting, Reaches, Number
    <3>2. /\ "organizations" \in TableNames /\ "task_status_history" \in TableNames
          /\ MadeBy("organizations") = 3
      BY DEF TableNames, MadeBy
    <3> QED
      BY <3>1, <3>2, 2 + 1 = 3 DEF Waiting, HoldsRightly
  <2> QED
    BY <1>1, <2>1, <2>2
<1> QED
  BY <1>2, <1>3

\* Commands that have not moved the version, and nobody else, make no circle.
LEMMA NoCircle ==
    ASSUME IInv, NEW ring \in SUBSET Commands, Circle(ring),
           \A d \in ring : Version \notin held[d]
    PROVE  FALSE
<1> DEFINE Edge(p, q, x) ==
              p # q /\ x \in held[q] /\ x \notin held[p] /\ Fitting(p, x)
<1>1. \A p \in ring : Waiting(p) /\ \E q \in ring : \E x : Edge(p, q, x)
  BY CircleOfCommands
<1>2. \A p \in ring : Number(p) \in {1, 3}
  BY <1>1, BigScripts
<1>3. ASSUME NEW p \in ring, Number(p) = 1, Upwards(p)
      PROVE  FALSE
  <2>1. PICK q, x : q \in ring /\ Edge(p, q, x)
    BY <1>1
  <2>2. x = "users" /\ Number(q) = 1 /\ Upwards(q)
    BY <1>1, <1>3, <2>1, FirstUpgradeWaits
  <2>3. PICK r, y : r \in ring /\ Edge(q, r, y)
    BY <1>1, <2>1
  <2>4. y = "users"
    BY <1>1, <2>1, <2>2, <2>3, FirstUpgradeWaits
  <2> QED
    BY <2>1, <2>2, <2>3, <2>4
<1>4. ASSUME NEW p \in ring, NEW q \in ring, Number(p) = Number(q)
      PROVE  p = q
  BY <1>1, <1>2, <1>3, <1>4, WaitingApart
<1>5. PICK p \in ring : TRUE
  BY DEF Circle, Stuck
<1>6. PICK q, x : q \in ring /\ Edge(p, q, x)
  BY <1>1
<1>7. PICK r, y : r \in ring /\ Edge(q, r, y)
  BY <1>1, <1>6
<1>8. r = p /\ {Number(p), Number(q)} = {1, 3}
  BY <1>2, <1>4, <1>6, <1>7
<1>9. Region(1) \cap Region(3) = {"users"}
  <2>1. Region(1) = AuthThings /\ Region(3) = CoreThings
    BY DEF Region
  <2>2. /\ "user_role" \notin CoreThings /\ "refresh_sessions" \notin CoreThings
        /\ "users" \in CoreThings
    BY DEF CoreThings, EnumTypes, TableNames, MadeBy
  <2> QED
    BY <2>1, <2>2 DEF AuthThings
<1>10. ASSUME NEW d \in ring
       PROVE  held[d] \subseteq Region(Number(d))
  BY <1>1 DEF Waiting, Reaches
<1>11. /\ x \in Region(Number(p)) \cap Region(Number(q))
       /\ y \in Region(Number(q)) \cap Region(Number(p))
  BY <1>6, <1>7, <1>8, <1>10 DEF Fitting
<1>12. x = "users" /\ y = "users"
  BY <1>8, <1>9, <1>11
<1>13. "users" \in held[q] /\ "users" \notin held[q]
  BY <1>6, <1>7, <1>12
<1> QED
  BY <1>13

\* However commands overlap, one fails by itself only for one of three causes: another
\* one has committed since it read the version, a downgrade has left the enum types it
\* creates, or it is given up in a circle of locks that a request closes or a command
\* that has moved alembic_version.
THEOREM FailuresHaveCause == Spec => FailsOnlyForCause
<1>1. ASSUME IInv, NEW c \in Commands, Fail(c), c \notin overtaken
      PROVE  at[c] = 2 /\ goal[c] = Latest /\ types \ {"user_role"} # {}
  <2>1. ~(AtVersion(c) /\ Current(c).revision # at[c])
    BY <1>1 DEF AtVersion, MayRun, IInv, Sound, Abreast
  <2>2. AtStatement(c) /\ ~Succeeds(Current(c), Statement(c))
    BY <1>1, <2>1 DEF Fail
  <2> QED
    BY <1>1, <2>2, StatementSucceeds
<1>2. ASSUME IInv, NEW ring \in SUBSET (Commands \cup Events), Circle(ring), ring \cap Events = {}
      PROVE  \E d \in ring \cap Commands : Version \in held[d]
  <2>1. ring \in SUBSET Commands
    BY <1>2
  <2> QED
    BY <1>2, <2>1, NoCircle
<1>3. IInv /\ [Next]_vars =>
        [\A c \in Commands :
          Fail(c) \/ DeadlockVictim(c) =>
              \/ c \in overtaken
              \/ at[c] = 2 /\ goal[c] = Latest /\ types \ {"user_role"} # {}
              \/ \E ring \in SUBSET (Commands \cup Events) :
                    /\ c \in ring /\ Circle(ring)
                    /\ \/ ring \cap Events # {}
                       \/ \E d \in ring \cap Commands : Version \in held[d]]_vars
  <2> SUFFICES ASSUME IInv, NEW c \in Commands, Fail(c) \/ DeadlockVictim(c)
               PROVE  \/ c \in overtaken
                      \/ at[c] = 2 /\ goal[c] = Latest /\ types \ {"user_role"} # {}
                      \/ \E ring \in SUBSET (Commands \cup Events) :
                            /\ c \in ring /\ Circle(ring)
                            /\ \/ ring \cap Events # {}
                               \/ \E d \in ring \cap Commands : Version \in held[d]
    OBVIOUS
  <2>1. CASE Fail(c)
    BY <1>1, <2>1
  <2>2. CASE DeadlockVictim(c)
    BY <1>2, <2>2 DEF DeadlockVictim
  <2> QED
    BY <2>1, <2>2
<1> QED
  BY <1>3, InductiveInvariant, PTL DEF Spec, FailsOnlyForCause
=============================================================================
