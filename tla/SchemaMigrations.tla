-------------------------- MODULE SchemaMigrations --------------------------
(***************************************************************************)
(* alembic commands on one database (src/alembic/env.py): upgrades to the  *)
(* head and downgrades to any revision, several at the same time, any of   *)
(* them killed, beside the requests of the API, which read tables and      *)
(* write events when the schema is at the head.                            *)
(*                                                                         *)
(* A command runs all its scripts in one transaction (READ COMMITTED),     *)
(* statement by statement, and after each script the update of             *)
(* alembic_version.  Nothing but the locks of its statements keeps two     *)
(* commands apart: scripts that touch different tables overlap, until one  *)
(* transaction waits for the other, or each for the other and PostgreSQL   *)
(* gives one of them up.                                                   *)
(***************************************************************************)
EXTENDS Revisions

CONSTANTS
    Commands,
    Events     \* outbox events, each of a request of the API that may write it

ASSUME ProcessesApart == Commands \cap Events = {}

VARIABLES
    revision,   \* alembic_version, counted from 0, the empty database
    tables, types,
    events,     \* "absent", "bare" (no metadata), "own" or "id": its correlation_id
    held,       \* the tables, enum types and the version a command has locked
    work,       \* what its transaction has made of them
    pc, at, goal, \* where a command is, the revision it believes in and wants
    step,       \* statements of the current script it has executed
    read,       \* how many tables a request has read in its transaction
    overtaken   \* history: commands during which another one has committed

dbVars == <<revision, tables, types, events>>
cmdVars == <<pc, at, goal, step>>
vars == <<dbVars, held, work, cmdVars, read, overtaken>>

Version == "alembic_version"

NoWork == [revision |-> 0, tables |-> <<>>, types |-> {}, made |-> {}, events |-> <<>>]

Init ==
    /\ revision = 0
    /\ tables = <<>>
    /\ types = {}
    /\ events = [e \in Events |-> "absent"]
    /\ held = [c \in Commands |-> {}]
    /\ work = [c \in Commands |-> NoWork]
    /\ pc = [c \in Commands |-> "idle"]
    /\ at = [c \in Commands |-> 0]
    /\ goal = [c \in Commands |-> 0]
    /\ step = [c \in Commands |-> 0]
    /\ read = [e \in Events |-> 0]
    /\ overtaken = {}

\* alembic reads the version and plans the scripts between it and the goal.
Begin(c, target) ==
    /\ pc[c] = "idle"
    /\ target # revision
    /\ target = Latest \/ target < revision
    /\ pc' = [pc EXCEPT ![c] = "running"]
    /\ at' = [at EXCEPT ![c] = revision]
    /\ goal' = [goal EXCEPT ![c] = target]
    /\ UNCHANGED <<dbVars, held, work, step, read, overtaken>>

(***************************************************************************)
(* Transactions and locks.                                                 *)
(***************************************************************************)

\* What a transaction sees (READ COMMITTED): of the things it has locked what it has
\* made of them, of the others what is committed.
Seen(locks, db) ==
    [revision |-> IF Version \in locks THEN db.revision ELSE revision,
     tables |-> [name \in (DOMAIN tables \ locks) \cup (DOMAIN db.tables \cap locks) |->
                    IF name \in locks THEN db.tables[name] ELSE tables[name]],
     types |-> (types \ locks) \cup (db.types \cap locks),
     made |-> db.made,
     events |-> IF "outbox_events" \in locks THEN db.events ELSE events]

Kept(locks, db) ==
    [revision |-> IF Version \in locks THEN db.revision ELSE 0,
     tables |-> [name \in DOMAIN db.tables \cap locks |-> db.tables[name]],
     types |-> db.types \cap locks,
     made |-> db.made,
     events |-> IF "outbox_events" \in locks THEN db.events ELSE <<>>]

Current(c) == Seen(held[c], work[c])

Upwards(c) == goal[c] > at[c]
Script(c) == IF Upwards(c) THEN Upgrades[at[c] + 1] ELSE Downgrades[at[c]]
Following(c) == IF Upwards(c) THEN at[c] + 1 ELSE at[c] - 1

MayRun(c) == pc[c] = "running" /\ at[c] # goal[c]
AtStatement(c) == MayRun(c) /\ step[c] < Len(Script(c))
AtVersion(c) == MayRun(c) /\ step[c] = Len(Script(c))
Statement(c) == Script(c)[step[c] + 1]

\* The locks that a command has to take before what it does next.
Wanted(c) ==
    CASE AtStatement(c) /\ Finds(Current(c), Statement(c)) ->
             Locks(Current(c), held[c], Statement(c)) \ held[c]
      [] AtVersion(c) /\ Current(c).revision = at[c] -> {Version} \ held[c]
      [] OTHER -> {}

\* What a request of the API uses, one after the other: it reads tables, then writes an
\* event.
RequestTables == <<"users", "tasks", "outbox_events">>

ReadBy(e) == {RequestTables[i] : i \in 1 .. read[e]}
WantedBy(e) == {RequestTables[read[e] + 1]} \cap DOMAIN tables

FreeOfCommands(x, others) == \A d \in others : x \notin held[d]

Free(c, x) ==
    /\ FreeOfCommands(x, Commands \ {c})
    /\ \A e \in Events : x \notin ReadBy(e)

\* Who waits for whom: requests do not wait for each other.
WaitsFor(p, q) ==
    \/ p \in Commands /\ q \in Commands /\ Wanted(p) \cap held[q] # {}
    \/ p \in Commands /\ q \in Events /\ Wanted(p) \cap ReadBy(q) # {}
    \/ p \in Events /\ q \in Commands /\ WantedBy(p) \cap held[q] # {}

\* A circle of transactions, each waiting for the next.
Stuck(ring) == ring # {} /\ \A p \in ring : \E q \in ring \ {p} : WaitsFor(p, q)
Circle(ring) == Stuck(ring) /\ \A part \in SUBSET ring : Stuck(part) => part = ring

(***************************************************************************)
(* Commands.                                                               *)
(***************************************************************************)

Lock(c) ==
    /\ AtStatement(c)
    /\ \E x \in Wanted(c) :
          /\ Free(c, x)
          /\ held' = [held EXCEPT ![c] = @ \cup {x}]
    /\ work' = [work EXCEPT ![c] = Kept(held'[c], Current(c))]
    /\ UNCHANGED <<dbVars, cmdVars, read, overtaken>>

RunStatement(c) ==
    /\ AtStatement(c)
    /\ Wanted(c) = {}
    /\ Succeeds(Current(c), Statement(c))
    /\ work' = [work EXCEPT ![c] = Kept(held[c], After(Current(c), Statement(c)))]
    /\ step' = [step EXCEPT ![c] = @ + 1]
    /\ UNCHANGED <<dbVars, held, pc, at, goal, read, overtaken>>

\* The script is over: alembic_version is updated, where the revision the command
\* believes in has to be found.  The row stays locked.
UpdateVersion(c) ==
    /\ AtVersion(c)
    /\ Free(c, Version)
    /\ Current(c).revision = at[c]
    /\ held' = [held EXCEPT ![c] = @ \cup {Version}]
    /\ work' = [work EXCEPT ![c] = Kept(held'[c], [Current(c) EXCEPT !.revision = Following(c)])]
    /\ at' = [at EXCEPT ![c] = Following(c)]
    /\ step' = [step EXCEPT ![c] = 0]
    /\ UNCHANGED <<dbVars, pc, goal, read, overtaken>>

\* The command is over and its transaction closed.
End(c) ==
    /\ pc' = [pc EXCEPT ![c] = "idle"]
    /\ at' = [at EXCEPT ![c] = 0]
    /\ goal' = [goal EXCEPT ![c] = 0]
    /\ step' = [step EXCEPT ![c] = 0]
    /\ held' = [held EXCEPT ![c] = {}]
    /\ work' = [work EXCEPT ![c] = NoWork]
    /\ read' = read

RollBack(c) ==
    /\ End(c)
    /\ overtaken' = overtaken \ {c}
    /\ UNCHANGED dbVars

\* A statement fails on what the command sees, or the version is not found.
Fail(c) ==
    /\ RollBack(c)
    /\ \/ AtStatement(c) /\ ~Succeeds(Current(c), Statement(c))
       \/ AtVersion(c) /\ Current(c).revision # at[c]

\* PostgreSQL breaks a circle by giving up one of its transactions.
DeadlockVictim(c) ==
    /\ RollBack(c)
    /\ \E ring \in SUBSET (Commands \cup Events) : c \in ring /\ Circle(ring)

Kill(c) ==
    /\ pc[c] = "running"
    /\ RollBack(c)

Commit(c) ==
    /\ pc[c] = "running"
    /\ at[c] = goal[c]
    /\ revision' = Current(c).revision
    /\ tables' = Current(c).tables
    /\ types' = Current(c).types
    /\ events' = Current(c).events
    /\ End(c)
    /\ overtaken' = (overtaken \cup {d \in Commands : pc[d] = "running"}) \ {c}

(***************************************************************************)
(* Requests of the API.                                                    *)
(***************************************************************************)

\* A request reads the next of its tables, which stays locked against commands.
ReadTable(e) ==
    /\ events[e] = "absent"
    /\ read[e] < 2
    /\ WantedBy(e) # {}
    /\ \A name \in WantedBy(e) : FreeOfCommands(name, Commands)
    /\ read' = [read EXCEPT ![e] = @ + 1]
    /\ UNCHANGED <<dbVars, held, work, cmdVars, overtaken>>

\* It inserts an event with a correlation of its own, whose columns exist only at the
\* head, and commits.
WriteEvent(e) ==
    /\ read[e] = 2
    /\ revision = Latest
    /\ FreeOfCommands("outbox_events", Commands)
    /\ events' = [events EXCEPT ![e] = "own"]
    /\ read' = [read EXCEPT ![e] = 0]
    /\ UNCHANGED <<revision, tables, types, held, work, cmdVars, overtaken>>

\* It ends without an event: it only reads, fails, or is given up in a circle.
EndRequest(e) ==
    /\ read[e] # 0
    /\ read' = [read EXCEPT ![e] = 0]
    /\ UNCHANGED <<dbVars, held, work, cmdVars, overtaken>>

Next ==
    \/ \E c \in Commands :
          \/ \E target \in 0 .. Latest : Begin(c, target)
          \/ Lock(c) \/ RunStatement(c) \/ UpdateVersion(c)
          \/ Fail(c) \/ DeadlockVictim(c) \/ Kill(c) \/ Commit(c)
    \/ \E e \in Events : ReadTable(e) \/ WriteEvent(e) \/ EndRequest(e)

Spec == Init /\ [][Next]_vars

(***************************************************************************)
(* Properties.                                                             *)
(***************************************************************************)

\* The tables of a revision, and their columns and constraints there: those of the
\* models, but for what a later revision alters.
MadeBy(name) ==
    IF name \in {"users", "refresh_sessions"} THEN 1
    ELSE IF name = "processed_messages" THEN 4 ELSE 3

Present(n) == {name \in DOMAIN Models : MadeBy(name) <= n}

Shape(name, n) ==
    IF name = "outbox_events" /\ n < 6 THEN FirstOutboxEvents
    ELSE IF name = "processed_messages" /\ n < 5 THEN FirstProcessedMessages
    ELSE Models[name]

Promised(n) == [name \in Present(n) |-> Shape(name, n)]

\* However commands follow, overlap, fail or are killed, the tables are those the
\* revision stands for, and at the head those the models declare, with their
\* columns, keys, foreign keys and indexes: downgrades undo upgrades, and neither
\* leaves half of its work (env.py: one transaction).
SchemaServesRevision ==
    /\ tables = Promised(revision)
    /\ revision = Latest => tables = Models

\* A command fails by itself only if another one has committed since it read the
\* version, if it creates the tables of 458a51aab222 once more after a downgrade, which
\* leaves their enum types, or if it is given up in a circle of locks, which a request
\* closes or a command that has already moved alembic_version.
FailsOnlyForCause ==
    [][\A c \in Commands :
          Fail(c) \/ DeadlockVictim(c) =>
              \/ c \in overtaken
              \/ at[c] = 2 /\ goal[c] = Latest /\ types \ {"user_role"} # {}
              \/ \E ring \in SUBSET (Commands \cup Events) :
                    /\ c \in ring /\ Circle(ring)
                    /\ \/ ring \cap Events # {}
                       \/ \E d \in ring \cap Commands : Version \in held[d]]_vars

\* No event of the outbox is lost as long as its table stays, and whenever the schema
\* is at the head every event has a correlation_id.
EventsSurvive ==
    [][\A e \in Events :
          /\ events[e] # "absent" /\ "outbox_events" \in DOMAIN tables'
                 => events'[e] # "absent"
          /\ revision' = Latest => events'[e] # "bare"]_vars

=============================================================================
