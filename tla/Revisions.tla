----------------------------- MODULE Revisions ------------------------------
(***************************************************************************)
(* The migration scripts of src/alembic/versions as sequences of           *)
(* operations on a database, in the order of their down_revision.          *)
(***************************************************************************)
EXTENDS Schema, Naturals, Sequences

(***************************************************************************)
(* Operations.  A database here is what a transaction works on: its        *)
(* revision and tables, the enum types that exist, those of them this      *)
(* command has made, and what outbox events are like.                      *)
(***************************************************************************)

Create(name, types, t) == [do |-> "create", name |-> name, types |-> types, as |-> t]
Drop(name) == [do |-> "drop", name |-> name]
CreateType(type) == [do |-> "create_type", type |-> type]
DropType(type) == [do |-> "drop_type", type |-> type]
Alter(name, from, to) == [do |-> "alter", name |-> name, from |-> from, to |-> to]
Backfill == [do |-> "backfill"]
RequireCorrelation == [do |-> "require"]
Forget == [do |-> "forget"]

Table(required, defaulted, optional, unique, refs, indexes) ==
    [key |-> {"id"}, required |-> {"id"} \cup required, defaulted |-> defaulted,
     optional |-> optional, unique |-> unique, refs |-> refs, indexes |-> indexes]

Targets(t) == {ref[2] : ref \in t.refs}

\* CREATE TABLE also creates the enum types of its columns, without asking whether
\* they exist, except those the command has created before and that of users.
MayCreate(db, op) ==
    /\ op.name \notin DOMAIN db.tables
    /\ (op.types \ db.made) \cap db.types = {}
    /\ op.name = "users" => "user_role" \in db.types
    /\ Targets(op.as) \subseteq DOMAIN db.tables

Created(db, op) ==
    [db EXCEPT !.tables = [n \in DOMAIN @ \cup {op.name} |->
                              IF n = op.name THEN op.as ELSE @[n]],
               !.types = @ \cup op.types,
               !.made = @ \cup op.types]

\* DROP TABLE fails while another table refers to it; rows go with it, types stay.
MayDrop(db, op) ==
    /\ op.name \in DOMAIN db.tables
    /\ \A n \in DOMAIN db.tables \ {op.name} : op.name \notin Targets(db.tables[n])

Dropped(db, op) ==
    [db EXCEPT !.tables = [n \in DOMAIN @ \ {op.name} |-> @[n]],
               !.events = IF op.name = "outbox_events"
                          THEN [e \in DOMAIN @ |-> "absent"] ELSE @]

\* A table whose columns and constraints are as expected gets others.
MayAlter(db, op) == op.name \in DOMAIN db.tables /\ db.tables[op.name] = op.from

Altered(db, op) == [db EXCEPT !.tables[op.name] = op.to]

\* UPDATE outbox_events SET correlation_id = id WHERE correlation_id IS NULL.
Backfilled(events) ==
    [e \in DOMAIN events |-> IF events[e] = "bare" THEN "id" ELSE events[e]]

\* Mutant: the downgrade makes the table anew.
ForgottenEvents(events) == [e \in DOMAIN events |-> "absent"]

\* The columns of the metadata are dropped, the events stay.
Forgotten(events) ==
    [e \in DOMAIN events |-> IF events[e] = "absent" THEN "absent" ELSE "bare"]

\* SET NOT NULL fails when an event has no correlation.
Correlated(events) == \A e \in DOMAIN events : events[e] # "bare"

Succeeds(db, op) ==
    /\ op.do = "create" => MayCreate(db, op)
    /\ op.do = "drop" => MayDrop(db, op)
    /\ op.do = "alter" => MayAlter(db, op)
    /\ op.do = "require" => Correlated(db.events)

\* Whether a statement finds what it names, or that the name is free, and then the
\* locks it takes: first of what it makes, alters or drops, then of the tables that its
\* foreign keys refer to.
Finds(db, op) ==
    /\ op.do = "create" =>
          op.name \notin DOMAIN db.tables /\ (op.types \ db.made) \cap db.types = {}
    /\ op.do \in {"drop", "alter"} => op.name \in DOMAIN db.tables

Named(db, op) ==
    CASE op.do = "create" -> {op.name} \cup (op.types \ db.made)
      [] op.do \in {"drop", "alter"} -> {op.name}
      [] op.do = "create_type" -> {op.type} \ db.types
      [] op.do = "drop_type" -> {op.type} \cap db.types
      [] OTHER -> {}

Referred(db, op) ==
    CASE op.do = "create" -> Targets(op.as) \cap DOMAIN db.tables
      [] op.do = "drop" -> Targets(db.tables[op.name])
      [] OTHER -> {}

Locks(db, locks, op) == IF Named(db, op) \subseteq locks THEN Referred(db, op) ELSE Named(db, op)

After(db, op) ==
    CASE op.do = "create" -> Created(db, op)
      [] op.do = "drop" -> Dropped(db, op)
      [] op.do = "alter" -> Altered(db, op)
      [] op.do = "create_type" ->
           [db EXCEPT !.types = @ \cup {op.type}, !.made = @ \cup ({op.type} \ db.types)]
      [] op.do = "drop_type" -> [db EXCEPT !.types = @ \ {op.type}]
      [] op.do = "backfill" -> [db EXCEPT !.events = Backfilled(@)]
      [] op.do = "forget" -> [db EXCEPT !.events = Forgotten(@)]
      [] op.do = "require" -> db

Drops(names) == [i \in 1 .. Len(names) |-> Drop(names[i])]

(***************************************************************************)
(* 20260626_0001 and ebed6546cfe9, which is empty.                         *)
(***************************************************************************)

InitialAuthTables == <<
    CreateType("user_role"),
    Create("users", {}, Table(
        {"email", "username", "hashed_password"},
        {"password_algorithm", "is_active", "role"} \cup Stamps, {},
        {{"email"}, {"username"}}, {}, {{"role"}})),
    Create("refresh_sessions", {}, Table(
        {"user_id", "family_id", "jti", "token_hash", "expires_at"}, {"created_at"},
        {"revoked_at", "replaced_by_jti", "last_used_at", "user_agent", "ip_address"},
        {{"jti"}}, {<<"user_id", "users", "CASCADE">>}, {{"family_id"}, {"user_id"}}))>>

DropAuthTables == <<Drop("refresh_sessions"), Drop("users"), DropType("user_role")>>

(***************************************************************************)
(* 458a51aab222.                                                           *)
(***************************************************************************)

CreateOrganizations == Create("organizations", {}, Table(
    {"name", "slug"}, Stamps, {}, {{"slug"}}, {}, {}))

FirstOutboxEvents == Table(
    {"aggregate_type", "aggregate_id", "event_type", "payload", "status", "attempts"},
    Stamps, {"next_attempt_at", "last_error", "processed_at"}, {}, {},
    {{"aggregate_type", "aggregate_id"}, {"status", "next_attempt_at"}})

CreateAuditLogs == Create("audit_logs", {}, Table(
    {"action", "entity_type", "entity_id"}, {"created_at"},
    {"actor_id", "organization_id", "old_data", "new_data", "request_id"}, {},
    {<<"organization_id", "organizations", "SET_NULL">>},
    {{"actor_id"}, {"organization_id"}}))

CreateIdempotencyKeys == Create("idempotency_keys", {}, Table(
    {"user_id", "key", "request_hash", "expires_at"}, Stamps,
    {"response_body", "status_code"}, {{"user_id", "key"}},
    {<<"user_id", "users", "CASCADE">>}, {}))

CreateOrganizationMembers == Create("organization_members", {"organization_role"}, Table(
    {"organization_id", "user_id", "role"}, Stamps, {}, {{"organization_id", "user_id"}},
    {<<"organization_id", "organizations", "CASCADE">>, <<"user_id", "users", "CASCADE">>},
    {{"organization_id"}, {"user_id"}}))

CreateProjects == Create("projects", {}, Table(
    {"organization_id", "name", "key"}, Stamps, {"description"},
    {{"organization_id", "key"}}, {<<"organization_id", "organizations", "CASCADE">>},
    {{"organization_id"}}))

CreateWebhookSubscriptions == Create("webhook_subscriptions", {}, Table(
    {"organization_id", "url", "secret_hash", "event_types"}, {"is_active"} \cup Stamps,
    {"secret_encrypted"}, {}, {<<"organization_id", "organizations", "CASCADE">>}, {}))

CreateTasks == Create("tasks", {"task_status", "task_priority"}, Table(
    {"project_id", "created_by_id", "title", "status", "priority", "position", "version"},
    Stamps, {"assigned_to_id", "description", "due_date"}, {},
    {<<"assigned_to_id", "users", "SET_NULL">>, <<"created_by_id", "users", "RESTRICT">>,
     <<"project_id", "projects", "CASCADE">>},
    {{"assigned_to_id"}, {"project_id"}, {"status"}}))

CreateWebhookDeliveries == Create("webhook_deliveries", {}, Table(
    {"webhook_id", "event_id", "payload", "attempts"}, {"created_at"},
    {"status_code", "response_body"}, {},
    {<<"webhook_id", "webhook_subscriptions", "CASCADE">>}, {}))

CreateTaskComments == Create("task_comments", {}, Table(
    {"task_id", "author_id", "text"}, Stamps, {}, {},
    {<<"author_id", "users", "RESTRICT">>, <<"task_id", "tasks", "CASCADE">>},
    {{"task_id"}}))

CreateTaskStatusHistory == Create("task_status_history", {"task_status"}, Table(
    {"task_id", "changed_by_id", "new_status", "created_at"}, {}, {"old_status"}, {},
    {<<"changed_by_id", "users", "RESTRICT">>, <<"task_id", "tasks", "CASCADE">>},
    {{"task_id"}}))

CoreTables == <<
    CreateOrganizations, Create("outbox_events", {"outbox_status"}, FirstOutboxEvents),
    CreateAuditLogs, CreateIdempotencyKeys, CreateOrganizationMembers, CreateProjects,
    CreateWebhookSubscriptions, CreateTasks, CreateWebhookDeliveries, CreateTaskComments,
    CreateTaskStatusHistory>>

\* Mutant: organizations are dropped before the tables that refer to them.
DropCoreTablesTooEarly == Drops(
    <<"organizations", "task_status_history", "task_comments", "webhook_deliveries",
      "tasks", "webhook_subscriptions", "projects", "organization_members",
      "idempotency_keys", "audit_logs", "outbox_events">>)

\* The enum types stay.
DropCoreTables == Drops(
    <<"task_status_history", "task_comments", "webhook_deliveries", "tasks",
      "webhook_subscriptions", "projects", "organization_members", "idempotency_keys",
      "audit_logs", "outbox_events", "organizations">>)

(***************************************************************************)
(* 25ee7457c422, 463c1b611628 and 759b1ba037fb.                            *)
(***************************************************************************)

FirstProcessedMessages ==
    [Bare EXCEPT !.key = {"message_id"}, !.required = {"message_id", "consumer_name"},
                 !.defaulted = {"processed_at"}]

KeyedByConsumer ==
    [FirstProcessedMessages EXCEPT !.key = {"message_id", "consumer_name"}]

\* Mutant: the temporary default of event_version stays.
EventMetadataDefaulted ==
    [FirstOutboxEvents EXCEPT
        !.required = @ \cup {"correlation_id"},
        !.defaulted = @ \cup {"event_version"},
        !.optional = @ \cup {"causation_id", "organization_id"},
        !.indexes = @ \cup {{"correlation_id"}, {"organization_id"}}]

EventMetadata ==
    [FirstOutboxEvents EXCEPT
        !.required = @ \cup {"event_version", "correlation_id"},
        !.optional = @ \cup {"causation_id", "organization_id"},
        !.indexes = @ \cup {{"correlation_id"}, {"organization_id"}}]

(***************************************************************************)
(* The chain of revisions.                                                 *)
(***************************************************************************)

Upgrades == <<
    InitialAuthTables,
    <<>>,
    CoreTables,
    <<Create("processed_messages", {}, FirstProcessedMessages)>>,
    <<Alter("processed_messages", FirstProcessedMessages, KeyedByConsumer)>>,
    <<Alter("outbox_events", FirstOutboxEvents, EventMetadata), Backfill,
      RequireCorrelation>>>>

Downgrades == <<
    DropAuthTables,
    <<>>,
    DropCoreTables,
    <<Drop("processed_messages")>>,
    <<Alter("processed_messages", KeyedByConsumer, FirstProcessedMessages)>>,
    <<Alter("outbox_events", EventMetadata, FirstOutboxEvents), Forget>>>>

Latest == Len(Upgrades)

=============================================================================
