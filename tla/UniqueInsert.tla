---------------------------- MODULE UniqueInsert ----------------------------
(***************************************************************************)
(* Registration of users (src/src/users/service.py) and creation of        *)
(* organizations and projects: each looks for a row with its email,        *)
(* username, slug or key, inserts when there is none, and leaves the race  *)
(* of two such requests to the unique indexes of the table.                *)
(*                                                                         *)
(* The module is about one table.  A request is one READ COMMITTED         *)
(* transaction; the INSERT enters the unique indexes one after the other   *)
(* and waits where an uncommitted entry of another transaction stands.     *)
(***************************************************************************)
EXTENDS Naturals, Sequences

CONSTANTS
    Requests,
    Names,     \* contents of a unique column, up to upper and lower case
    Columns,   \* unique columns, in the order of their indexes
    Folded,    \* columns a validator normalises: email, slug, key
    Failures,  \* may a transaction fail for another reason?
    MaxRows    \* BOUND: rows inserted

ASSUME UniqueAssumption ==
    /\ Len(Columns) \in Nat
    /\ Failures \in BOOLEAN
    /\ MaxRows \in Nat

VARIABLES
    table,    \* committed rows
    pc,
    row,      \* row[r]: the row request r wants to insert
    looked,   \* unique columns it has looked up, in the order of Columns
    found,    \* whether one of them was taken
    entered   \* unique indexes that have its entry

reqVars == <<pc, row, looked, found, entered>>
vars == <<table, reqVars>>

ColumnIds == 1 .. Len(Columns)
Values == [name : Names, upper : BOOLEAN]
Rows == [ColumnIds -> Values]

NoRow == <<>>

TypeOK ==
    /\ table \in Seq(Rows)
    /\ pc \in [Requests -> {"idle", "looking", "inserting", "committing"}]
    /\ row \in [Requests -> Rows \cup {NoRow}]
    /\ looked \in [Requests -> 0 .. Len(Columns)]
    /\ found \in [Requests -> BOOLEAN]
    /\ entered \in [Requests -> 0 .. Len(Columns)]
    /\ \A r \in Requests : pc[r] = "idle" => row[r] = NoRow /\ entered[r] = 0

Init ==
    /\ table = <<>>
    /\ pc = [r \in Requests |-> "idle"]
    /\ row = [r \in Requests |-> NoRow]
    /\ looked = [r \in Requests |-> 0]
    /\ found = [r \in Requests |-> FALSE]
    /\ entered = [r \in Requests |-> 0]

\* Mutant: the text is stored as it was typed.
NormalisedNot(raw) == raw

\* data.email.lower(), slug.strip().lower(); a key is folded to upper case, which
\* is as good.  A username is kept as it is.
Normalised(raw) ==
    [c \in ColumnIds |->
        IF Columns[c] \in Folded THEN [raw[c] EXCEPT !.upper = FALSE] ELSE raw[c]]

Goto(r, from, to) == pc[r] = from /\ pc' = [pc EXCEPT ![r] = to]

\* The transaction ends and its index entries are committed or gone.
Finish(r) ==
    /\ pc' = [pc EXCEPT ![r] = "idle"]
    /\ row' = [row EXCEPT ![r] = NoRow]
    /\ looked' = [looked EXCEPT ![r] = 0]
    /\ found' = [found EXCEPT ![r] = FALSE]
    /\ entered' = [entered EXCEPT ![r] = 0]

Start(r, raw) ==
    /\ Len(table) < MaxRows
    /\ Goto(r, "idle", "looking")
    /\ row' = [row EXCEPT ![r] = Normalised(raw)]
    /\ UNCHANGED <<table, looked, found, entered>>

Taken(c, value) == \E i \in 1 .. Len(table) : table[i][c] = value

\* get_by_email and get_by_username, both before either is looked at; get_by_slug;
\* get_by_organization_and_key.
Look(r) ==
    LET c == looked[r] + 1 IN
    /\ pc[r] = "looking"
    /\ c \in ColumnIds
    /\ looked' = [looked EXCEPT ![r] = c]
    /\ found' = [found EXCEPT ![r] = @ \/ Taken(c, row[r][c])]
    /\ UNCHANGED <<table, pc, row, entered>>

\* UserAlreadyExistsError and the like.
AlreadyExists(r) ==
    /\ pc[r] = "looking"
    /\ looked[r] = Len(Columns)
    /\ found[r]
    /\ Finish(r)
    /\ UNCHANGED table

Insert(r) ==
    /\ looked[r] = Len(Columns)
    /\ ~found[r]
    /\ Goto(r, "looking", "inserting")
    /\ UNCHANGED <<table, row, looked, found, entered>>

\* Another transaction has an uncommitted entry with this value.
Pending(r, c, value) ==
    \E q \in Requests \ {r} : entered[q] >= c /\ row[q][c] = value

\* Mutant: the column has no unique index.
EnterUnchecked(r) ==
    LET c == entered[r] + 1 IN
    /\ pc[r] = "inserting"
    /\ c \in ColumnIds
    /\ entered' = [entered EXCEPT ![r] = c]
    /\ UNCHANGED <<table, pc, row, looked, found>>

\* One unique index takes the new row.
Enter(r) ==
    LET c == entered[r] + 1 IN
    /\ pc[r] = "inserting"
    /\ c \in ColumnIds
    /\ ~Pending(r, c, row[r][c])
    /\ ~Taken(c, row[r][c])
    /\ entered' = [entered EXCEPT ![r] = c]
    /\ UNCHANGED <<table, pc, row, looked, found>>

\* Mutant: an uncommitted entry counts like a committed one.
ViolationAtOnce(r) ==
    LET c == entered[r] + 1 IN
    /\ pc[r] = "inserting"
    /\ c \in ColumnIds
    /\ Pending(r, c, row[r][c]) \/ Taken(c, row[r][c])
    /\ Finish(r)
    /\ UNCHANGED table

\* IntegrityError, answered like AlreadyExists.
Violation(r) ==
    LET c == entered[r] + 1 IN
    /\ pc[r] = "inserting"
    /\ c \in ColumnIds
    /\ ~Pending(r, c, row[r][c])
    /\ Taken(c, row[r][c])
    /\ Finish(r)
    /\ UNCHANGED table

Inserted(r) ==
    /\ entered[r] = Len(Columns)
    /\ Goto(r, "inserting", "committing")
    /\ UNCHANGED <<table, row, looked, found, entered>>

Commit(r) ==
    /\ pc[r] = "committing"
    /\ table' = Append(table, row[r])
    /\ Finish(r)

Abort(r) ==
    /\ Failures
    /\ pc[r] # "idle"
    /\ Finish(r)
    /\ UNCHANGED table

Proceed(r) ==
    \/ Look(r) \/ AlreadyExists(r) \/ Insert(r) \/ Enter(r) \/ Violation(r)
    \/ Inserted(r) \/ Commit(r)

Next ==
    \E r \in Requests : (\E raw \in Rows : Start(r, raw)) \/ Proceed(r) \/ Abort(r)

Spec == Init /\ [][Next]_vars

(***************************************************************************)
(* Properties.                                                             *)
(***************************************************************************)

\* No two rows share a unique value, although every check was made before the
\* INSERT and without a lock.
NoDuplicates ==
    \A i, j \in 1 .. Len(table) :
        \A c \in ColumnIds : table[i][c] = table[j][c] => i = j

\* Nor do they share an email, slug or key in another spelling.
NoTwins ==
    \A i, j \in 1 .. Len(table) :
        \A c \in ColumnIds :
            Columns[c] \in Folded /\ table[i][c].name = table[j][c].name => i = j

\* A request is turned away as a duplicate only because of a row that is there to
\* stay, never because of one whose transaction failed: of the requests that want
\* a value and do not fail themselves, one gets it.
RefusedOnlyIfTaken ==
    [][\A r \in Requests :
          (AlreadyExists(r) \/ Violation(r)) =>
              \E c \in ColumnIds : Taken(c, row[r][c])]_vars

=============================================================================
