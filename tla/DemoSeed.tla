------------------------------ MODULE DemoSeed ------------------------------
(***************************************************************************)
(* The script that fills a migrated database with demo data                *)
(* (src/scripts/seed_demo_data.py): one transaction of INSERTs against the *)
(* foreign keys and unique columns of Schema, while the API goes on.       *)
(*                                                                         *)
(* Of a row only its key, foreign keys and unique columns are kept.        *)
(***************************************************************************)
EXTENDS Schema, Naturals, Sequences

VARIABLES
    db,      \* committed rows of each table
    mine,    \* rows of the open transaction
    next,    \* the statement it is at, 0 when the script does not run
    outcome  \* of the last run: "none", "done" or "failed"

vars == <<db, mine, next, outcome>>

Tables == DOMAIN Models
NoRows == [t \in Tables |-> {}]

\* A migrated database is empty.
Init ==
    /\ db = NoRows
    /\ mine = NoRows
    /\ next = 0
    /\ outcome = "none"

(***************************************************************************)
(* The rows.                                                               *)
(***************************************************************************)

user_rows == {[id |-> u, email |-> u, username |-> u] : u \in
    {"user-admin", "user-alice", "user-boris", "user-clara", "user-dmitry", "user-eva"}}

organization_rows == {[id |-> o, slug |-> o] : o \in {"org-northstar", "org-medpulse"}}

Member(org, user) ==
    [id |-> <<"member", org, user>>, organization_id |-> org, user_id |-> user]

member_rows ==
    {Member("org-northstar", u) :
         u \in {"user-alice", "user-boris", "user-clara", "user-eva"}}
    \cup {Member("org-medpulse", u) : u \in {"user-admin", "user-dmitry"}}

Project1(id, org) == [id |-> id, organization_id |-> org, key |-> id]

project_rows == {
    Project1("project-dispatch", "org-northstar"),
    Project1("project-billing", "org-northstar"),
    Project1("project-patient-intake", "org-medpulse")}

Task1(id, project, creator, assignee) ==
    [id |-> id, project_id |-> project, created_by_id |-> creator] @@
        IF assignee = {} THEN <<>> ELSE "assigned_to_id" :> CHOOSE u \in assignee : TRUE

task_rows == {
    Task1("task-route-map", "project-dispatch", "user-alice", {"user-clara"}),
    Task1("task-driver-import", "project-dispatch", "user-boris", {"user-boris"}),
    Task1("task-billing-export", "project-billing", "user-alice", {}),
    Task1("task-intake-signature", "project-patient-intake", "user-admin", {"user-dmitry"}),
    Task1("task-intake-kiosk", "project-patient-intake", "user-dmitry", {"user-dmitry"})}

\* Rows about a task by a user; column says in which capacity.
OfTask(column, task, user, nth) ==
    [id |-> <<column, task, nth>>, task_id |-> task] @@ column :> user

history_rows == {
    OfTask("changed_by_id", "task-route-map", "user-alice", 1),
    OfTask("changed_by_id", "task-route-map", "user-clara", 2),
    OfTask("changed_by_id", "task-driver-import", "user-boris", 1),
    OfTask("changed_by_id", "task-intake-signature", "user-dmitry", 1),
    OfTask("changed_by_id", "task-intake-kiosk", "user-admin", 1)}

comment_rows == {
    OfTask("author_id", "task-route-map", "user-alice", 1),
    OfTask("author_id", "task-route-map", "user-clara", 2),
    OfTask("author_id", "task-driver-import", "user-boris", 1),
    OfTask("author_id", "task-intake-signature", "user-dmitry", 1)}

webhook_rows == {
    [id |-> "webhook-northstar", organization_id |-> "org-northstar"],
    [id |-> "webhook-medpulse", organization_id |-> "org-medpulse"]}

outbox_rows == {[id |-> e] : e \in
    {"outbox-route-map-created", "outbox-driver-import-status", "outbox-signature-done"}}

webhook_delivery_rows == {[id |-> d, webhook_id |-> "webhook-northstar"] : d \in
    {"delivery-northstar-success", "delivery-northstar-failed"}}

refresh_session_rows ==
    {[id |-> u, user_id |-> u, jti |-> u] : u \in {"user-alice", "user-boris"}}

idempotency_rows == {[id |-> "create", user_id |-> "user-alice", key |-> "create"]}

audit_rows == {[id |-> a, organization_id |-> "org-northstar"] : a \in
                  {"audit-org-created", "audit-task-status"}}
    \cup {[id |-> "audit-webhook-created", organization_id |-> "org-medpulse"]}

(***************************************************************************)
(* Statements.                                                             *)
(***************************************************************************)

\* What the transaction sees.
Seen(t) == db[t] \cup mine[t]

HasColumns(row, columns) == columns \subseteq DOMAIN row

\* The rows could not both be there.
Clash(t, row, other) ==
    \E columns \in Models[t].unique \cup {Models[t].key} :
        /\ HasColumns(row, columns) /\ HasColumns(other, columns)
        /\ \A c \in columns : row[c] = other[c]

\* Every foreign key that is not NULL finds its row.
Refers(t, row) ==
    \A ref \in Models[t].refs :
        ref[1] \in DOMAIN row => \E target \in Seen(ref[2]) : target.id = row[ref[1]]

\* insert_rows: INSERT ... ON CONFLICT DO NOTHING.
Insert(t, rows) ==
    LET new == {row \in rows : ~\E other \in Seen(t) : Clash(t, row, other)} IN
    /\ \A row \in new : Refers(t, row)
    /\ mine' = [mine EXCEPT ![t] = @ \cup new]

\* upsert_user_rows, upsert_webhook_rows: ON CONFLICT (id) DO UPDATE; a clash with a
\* row of another id is an error.
Upsert(t, rows) ==
    /\ \A row \in rows :
          Refers(t, row) /\ \A other \in Seen(t) : Clash(t, row, other) => other.id = row.id
    /\ mine' = [mine EXCEPT ![t] = @ \cup rows]

\* seed_existing_active_users_access: every active user becomes a member of the first
\* organization; of the demo users only eva is inactive.
Access ==
    {Member("org-northstar", u.id) : u \in {v \in Seen("users") : v.id # "user-eva"}}

Statement(n) ==
    CASE n = 1 -> Upsert("users", user_rows)
      [] n = 2 -> Insert("organizations", organization_rows)
      [] n = 3 -> Insert("organization_members", member_rows)
      [] n = 4 -> Insert("projects", project_rows)
      [] n = 5 -> Insert("tasks", task_rows)
      [] n = 6 -> Insert("task_status_history", history_rows)
      [] n = 7 -> Insert("task_comments", comment_rows)
      [] n = 8 -> Insert("outbox_events", outbox_rows)
      [] n = 9 -> Insert("webhook_deliveries", webhook_delivery_rows)
      [] n = 10 -> Insert("refresh_sessions", refresh_session_rows)
      [] n = 11 -> Insert("idempotency_keys", idempotency_rows)
      [] n = 12 -> Insert("audit_logs", audit_rows)
      [] n = 13 -> Upsert("webhook_subscriptions", webhook_rows)
      [] n = 14 -> Insert("organization_members", Access)

Statements == 14

(***************************************************************************)
(* The script, and the API beside it.                                      *)
(***************************************************************************)

Begin ==
    /\ next = 0
    /\ next' = 1
    /\ outcome' = "none"
    /\ UNCHANGED <<db, mine>>

Execute ==
    /\ next \in 1 .. Statements
    /\ Statement(next)
    /\ next' = next + 1
    /\ UNCHANGED <<db, outcome>>

\* A statement fails and takes everything with it.
Fail ==
    /\ next \in 1 .. Statements
    /\ ~ENABLED Statement(next)
    /\ mine' = NoRows
    /\ next' = 0
    /\ outcome' = "failed"
    /\ UNCHANGED db

Commit ==
    /\ next = Statements + 1
    /\ db' = [t \in Tables |->
                 mine[t] \cup {row \in db[t] : \A r \in mine[t] : r.id # row.id}]
    /\ mine' = NoRows
    /\ next' = 0
    /\ outcome' = "done"

\* A user or an organization made by the API, perhaps with a name of the demo; it
\* waits while the script holds that name.
Add(t, row) ==
    /\ \A other \in Seen(t) : ~Clash(t, row, other)
    /\ db' = [db EXCEPT ![t] = @ \cup {row}]
    /\ UNCHANGED <<mine, next, outcome>>

Register(name) == Add("users", [id |-> "another user", email |-> name, username |-> name])

CreateOrganization(slug) == Add("organizations", [id |-> "another one", slug |-> slug])

Next ==
    \/ Begin \/ Execute \/ Fail \/ Commit
    \/ \E name \in {"user-alice", "newcomer"} : Register(name)
    \/ \E slug \in {"org-northstar", "newcomer"} : CreateOrganization(slug)

Spec == Init /\ [][Next]_vars

(***************************************************************************)
(* Properties.                                                             *)
(***************************************************************************)

\* README.md:153 says that after the migrations the database can be filled with the
\* demo data by this script: it fails only where somebody else has taken a name of the
\* demo.
FillsMigratedDatabase ==
    outcome = "failed" =>
        \/ \E row \in user_rows, other \in db["users"] : Clash("users", row, other)
        \/ \E row \in organization_rows, other \in db["organizations"] :
              Clash("organizations", row, other)

=============================================================================
