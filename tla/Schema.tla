------------------------------- MODULE Schema -------------------------------
(***************************************************************************)
(* The tables as the SQLAlchemy models declare them (src/src/*/models.py): *)
(* what a database has to look like for the API and the workers.  Types    *)
(* and lengths of columns are left out.                                    *)
(***************************************************************************)
EXTENDS TLC

Stamps == {"created_at", "updated_at"}

\* A table without columns.  required: NOT NULL; defaulted: NOT NULL with a server
\* default; optional: nullable.  refs: foreign keys <<column, table, on delete>>.
Bare == [key |-> {}, required |-> {}, defaulted |-> {}, optional |-> {},
         unique |-> {}, refs |-> {}, indexes |-> {}]

\* UUIDPrimaryKeyMixin.
WithId(t) == [t EXCEPT !.key = {"id"}, !.required = @ \cup {"id"}]

\* TimestampMixin.
WithStamps(t) == [t EXCEPT !.defaulted = @ \cup Stamps]

Mapped(t) == WithId(WithStamps(t))

User == Mapped([Bare EXCEPT
    !.required = {"email", "username", "hashed_password"},
    !.defaulted = {"password_algorithm", "is_active", "role"},
    !.unique = {{"email"}, {"username"}},
    !.indexes = {{"role"}}])

RefreshSession == WithId([Bare EXCEPT
    !.required = {"user_id", "family_id", "jti", "token_hash", "expires_at"},
    !.defaulted = {"created_at"},
    !.optional = {"revoked_at", "replaced_by_jti", "last_used_at", "user_agent",
                  "ip_address"},
    !.unique = {{"jti"}},
    !.refs = {<<"user_id", "users", "CASCADE">>},
    !.indexes = {{"user_id"}, {"family_id"}}])

Organization == Mapped([Bare EXCEPT
    !.required = {"name", "slug"},
    !.unique = {{"slug"}}])

OrganizationMember == Mapped([Bare EXCEPT
    !.required = {"organization_id", "user_id", "role"},
    !.unique = {{"organization_id", "user_id"}},
    !.refs = {<<"organization_id", "organizations", "CASCADE">>,
              <<"user_id", "users", "CASCADE">>},
    !.indexes = {{"organization_id"}, {"user_id"}}])

Project == Mapped([Bare EXCEPT
    !.required = {"organization_id", "name", "key"},
    !.optional = {"description"},
    !.unique = {{"organization_id", "key"}},
    !.refs = {<<"organization_id", "organizations", "CASCADE">>},
    !.indexes = {{"organization_id"}}])

Task == Mapped([Bare EXCEPT
    !.required = {"project_id", "created_by_id", "title", "status", "priority",
                  "position", "version"},
    !.optional = {"assigned_to_id", "description", "due_date"},
    !.refs = {<<"project_id", "projects", "CASCADE">>,
              <<"created_by_id", "users", "RESTRICT">>,
              <<"assigned_to_id", "users", "SET_NULL">>},
    !.indexes = {{"project_id"}, {"assigned_to_id"}, {"status"}}])

TaskComment == Mapped([Bare EXCEPT
    !.required = {"task_id", "author_id", "text"},
    !.refs = {<<"task_id", "tasks", "CASCADE">>, <<"author_id", "users", "RESTRICT">>},
    !.indexes = {{"task_id"}}])

TaskStatusHistory == WithId([Bare EXCEPT
    !.required = {"task_id", "changed_by_id", "new_status", "created_at"},
    !.optional = {"old_status"},
    !.refs = {<<"task_id", "tasks", "CASCADE">>,
              <<"changed_by_id", "users", "RESTRICT">>},
    !.indexes = {{"task_id"}}])

WebhookSubscription == Mapped([Bare EXCEPT
    !.required = {"organization_id", "url", "secret_hash", "event_types"},
    !.defaulted = {"is_active"},
    !.optional = {"secret_encrypted"},
    !.refs = {<<"organization_id", "organizations", "CASCADE">>}])

WebhookDelivery == WithId([Bare EXCEPT
    !.required = {"webhook_id", "event_id", "payload", "attempts"},
    !.defaulted = {"created_at"},
    !.optional = {"status_code", "response_body"},
    !.refs = {<<"webhook_id", "webhook_subscriptions", "CASCADE">>}])

OutboxEvent == Mapped([Bare EXCEPT
    !.required = {"aggregate_type", "aggregate_id", "event_type", "event_version",
                  "correlation_id", "payload", "status", "attempts"},
    !.optional = {"causation_id", "organization_id", "next_attempt_at", "last_error",
                  "processed_at"},
    !.indexes = {{"status", "next_attempt_at"}, {"aggregate_type", "aggregate_id"},
                 {"correlation_id"}, {"organization_id"}}])

ProcessedMessage == [Bare EXCEPT
    !.key = {"message_id", "consumer_name"},
    !.required = {"message_id", "consumer_name"},
    !.defaulted = {"processed_at"}]

AuditLog == WithId([Bare EXCEPT
    !.required = {"action", "entity_type", "entity_id"},
    !.defaulted = {"created_at"},
    !.optional = {"actor_id", "organization_id", "old_data", "new_data", "request_id"},
    !.refs = {<<"organization_id", "organizations", "SET_NULL">>},
    !.indexes = {{"actor_id"}, {"organization_id"}}])

IdempotencyKey == WithId([Bare EXCEPT
    !.required = {"user_id", "key", "request_hash", "expires_at"},
    !.defaulted = Stamps,
    !.optional = {"response_body", "status_code"},
    !.unique = {{"user_id", "key"}},
    !.refs = {<<"user_id", "users", "CASCADE">>}])

\* Base.metadata.
Models == [
    users |-> User, refresh_sessions |-> RefreshSession, organizations |-> Organization,
    organization_members |-> OrganizationMember, projects |-> Project, tasks |-> Task,
    task_comments |-> TaskComment, task_status_history |-> TaskStatusHistory,
    webhook_subscriptions |-> WebhookSubscription, webhook_deliveries |-> WebhookDelivery,
    outbox_events |-> OutboxEvent, processed_messages |-> ProcessedMessage,
    audit_logs |-> AuditLog, idempotency_keys |-> IdempotencyKey]

=============================================================================
