------------------------- MODULE UniqueInsertProofs -------------------------
(***************************************************************************)
(* Theorems about UniqueInsert for every set of requests and of names, any *)
(* number of unique columns and of rows, and failures at any point.        *)
(*                                                                         *)
(* NoDuplicates is not inductive: that a committing row is new follows     *)
(* from the index entries it holds, which EntriesAreNew and                *)
(* EntriesAreApart state.                                                  *)
(***************************************************************************)
EXTENDS UniqueInsert, TLAPS

Plain(w) == \A c \in ColumnIds : Columns[c] \in Folded => w[c].upper = FALSE

\* What a request wants to insert is a row, from its start to its end, normalised.
HasRow ==
    \A r \in Requests :
        pc[r] # "idle" => row[r] \in Rows /\ Plain(row[r])

\* A row is committed with an entry in every index.
CommitsEntered ==
    \A r \in Requests : pc[r] = "committing" => entered[r] = Len(Columns)

\* No row of the table has the value of a pending entry.
EntriesAreNew ==
    \A r \in Requests : \A c \in 1 .. entered[r] : ~Taken(c, row[r][c])

\* Pending entries of two requests differ.
EntriesAreApart ==
    \A r, q \in Requests : \A c \in ColumnIds :
        entered[r] >= c /\ entered[q] >= c /\ row[r][c] = row[q][c] => r = q

\* The rows of the table are normalised.
TableNormalised == \A i \in 1 .. Len(table) : Plain(table[i])

IInv ==
    /\ TypeOK
    /\ HasRow
    /\ CommitsEntered
    /\ EntriesAreNew
    /\ EntriesAreApart
    /\ TableNormalised
    /\ NoDuplicates

LEMMA InitIInv == Init => IInv
BY UniqueAssumption
   DEF Init, IInv, TypeOK, HasRow, CommitsEntered, EntriesAreNew, EntriesAreApart,
       TableNormalised, NoDuplicates, ColumnIds

LEMMA NormalisedType ==
    ASSUME NEW raw \in Rows
    PROVE  Normalised(raw) \in Rows /\ Plain(Normalised(raw))
<1>1. ASSUME NEW v \in Values
      PROVE  [v EXCEPT !.upper = FALSE] \in Values /\ [v EXCEPT !.upper = FALSE].upper = FALSE
  BY DEF Values
<1>2. \A c \in ColumnIds : raw[c] \in Values
  BY DEF Rows
<1>3. QED
  BY <1>1, <1>2 DEF Normalised, Rows, Plain

(***************************************************************************)
(* One lemma per action, after one for what two of them share.             *)
(***************************************************************************)

\* A transaction that ends without a commit.
LEMMA FinishIInv ==
    ASSUME IInv, NEW r \in Requests, Finish(r), table' = table
    PROVE  IInv'
<1>1. TypeOK'
  BY UniqueAssumption DEF IInv, TypeOK, Finish
<1>2. /\ pc'[r] = "idle" /\ entered'[r] = 0
      /\ \A q \in Requests \ {r} : /\ pc'[q] = pc[q] /\ entered'[q] = entered[q]
                                   /\ row'[q] = row[q]
  BY DEF IInv, TypeOK, Finish
<1>3. HasRow' /\ CommitsEntered' /\ TableNormalised' /\ NoDuplicates'
  BY <1>2 DEF IInv, HasRow, CommitsEntered, TableNormalised, NoDuplicates, Plain
<1>4. EntriesAreNew'
  BY <1>2 DEF IInv, EntriesAreNew, Taken
<1>5. EntriesAreApart'
  BY <1>2 DEF IInv, EntriesAreApart, ColumnIds
<1>6. QED
  BY <1>1, <1>3, <1>4, <1>5 DEF IInv

LEMMA StartIInv ==
    ASSUME IInv, NEW r \in Requests, NEW raw \in Rows, Start(r, raw) PROVE IInv'
<1>1. /\ pc[r] = "idle" /\ pc' = [pc EXCEPT ![r] = "looking"]
      /\ row' = [row EXCEPT ![r] = Normalised(raw)]
      /\ entered[r] = 0
      /\ UNCHANGED <<table, looked, found, entered>>
  BY DEF Start, Goto, IInv, TypeOK
<1>2. Normalised(raw) \in Rows /\ Plain(Normalised(raw))
  BY NormalisedType
<1>3. TypeOK'
  BY <1>1, <1>2 DEF IInv, TypeOK
<1>4. /\ pc'[r] = "looking" /\ row'[r] = Normalised(raw)
      /\ \A q \in Requests \ {r} : pc'[q] = pc[q] /\ row'[q] = row[q]
  BY <1>1 DEF IInv, TypeOK
<1>5. HasRow'
  BY <1>2, <1>4 DEF IInv, HasRow
<1>6. CommitsEntered' /\ TableNormalised' /\ NoDuplicates'
  BY <1>1, <1>4 DEF IInv, CommitsEntered, TableNormalised, NoDuplicates, Plain
<1>7. EntriesAreNew'
  BY <1>1, <1>4 DEF IInv, EntriesAreNew, Taken
<1>8. EntriesAreApart'
  BY <1>1, <1>4 DEF IInv, EntriesAreApart, ColumnIds
<1>9. QED
  BY <1>3, <1>5, <1>6, <1>7, <1>8 DEF IInv

\* A step that leaves rows and index entries alone.
LEMMA LookIInv ==
    ASSUME IInv, NEW r \in Requests, Look(r) \/ Insert(r) \/ Inserted(r) PROVE IInv'
<1>1. /\ pc[r] # "idle" /\ pc' \in [Requests -> {"idle", "looking", "inserting", "committing"}]
      /\ \A q \in Requests : pc'[q] = "idle" <=> pc[q] = "idle"
      /\ \A q \in Requests : pc'[q] = "committing" =>
            pc[q] = "committing" \/ entered[q] = Len(Columns)
      /\ UNCHANGED <<table, row, entered>>
      /\ looked' \in [Requests -> 0 .. Len(Columns)] /\ found' \in [Requests -> BOOLEAN]
  <2>1. CASE Look(r)
    <3>1. (found[r] \/ Taken(looked[r] + 1, row[r][looked[r] + 1])) \in BOOLEAN
      BY DEF IInv, TypeOK, Taken
    <3>2. found' \in [Requests -> BOOLEAN]
      BY <2>1, <3>1 DEF Look, IInv, TypeOK
    <3>3. looked' \in [Requests -> 0 .. Len(Columns)]
      BY <2>1, UniqueAssumption DEF Look, IInv, TypeOK, ColumnIds
    <3>4. QED
      BY <2>1, <3>2, <3>3 DEF Look, IInv, TypeOK
  <2>2. CASE Insert(r)
    BY <2>2 DEF Insert, Goto, IInv, TypeOK
  <2>3. CASE Inserted(r)
    BY <2>3 DEF Inserted, Goto, IInv, TypeOK
  <2>4. QED
    BY <2>1, <2>2, <2>3
<1>2. TypeOK'
  BY <1>1 DEF IInv, TypeOK
<1>3. HasRow' /\ CommitsEntered' /\ TableNormalised' /\ NoDuplicates'
  BY <1>1 DEF IInv, HasRow, CommitsEntered, TableNormalised, NoDuplicates, Plain
<1>4. EntriesAreNew' /\ EntriesAreApart'
  BY <1>1 DEF IInv, EntriesAreNew, EntriesAreApart, Taken
<1>5. QED
  BY <1>2, <1>3, <1>4 DEF IInv

LEMMA EnterIInv == ASSUME IInv, NEW r \in Requests, Enter(r) PROVE IInv'
<1> DEFINE c == entered[r] + 1
<1>1. /\ pc[r] = "inserting" /\ c \in ColumnIds /\ c \in 0 .. Len(Columns)
      /\ ~Pending(r, c, row[r][c]) /\ ~Taken(c, row[r][c])
      /\ entered' = [entered EXCEPT ![r] = c]
      /\ UNCHANGED <<table, pc, row, looked, found>>
  BY UniqueAssumption DEF Enter, ColumnIds
<1>2. TypeOK'
  BY <1>1 DEF IInv, TypeOK
<1>3. HasRow' /\ CommitsEntered' /\ TableNormalised' /\ NoDuplicates'
  BY <1>1 DEF IInv, TypeOK, HasRow, CommitsEntered, TableNormalised, NoDuplicates,
              Plain
<1>4. EntriesAreNew'
  BY <1>1, UniqueAssumption DEF IInv, TypeOK, EntriesAreNew, Taken, ColumnIds
<1>5. EntriesAreApart'
  <2>1. \A q \in Requests : entered'[q] = IF q = r THEN c ELSE entered[q]
    BY <1>1 DEF IInv, TypeOK
  <2>2. \A q \in Requests : entered[q] \in Nat /\ entered[r] + 1 = c
    BY UniqueAssumption DEF IInv, TypeOK
  <2>3. \A q \in Requests \ {r} : entered[q] >= c => row[q][c] # row[r][c]
    BY <1>1 DEF Pending
  <2>4. QED
    BY <1>1, <2>1, <2>2, <2>3 DEF IInv, EntriesAreApart, ColumnIds
<1>6. QED
  BY <1>2, <1>3, <1>4, <1>5 DEF IInv

LEMMA CommitIInv == ASSUME IInv, NEW r \in Requests, Commit(r) PROVE IInv'
<1>1. /\ table' = Append(table, row[r]) /\ row[r] \in Rows
      /\ Plain(row[r]) /\ entered[r] = Len(Columns)
      /\ table \in Seq(Rows)
  BY DEF Commit, IInv, TypeOK, HasRow, CommitsEntered
<1>2. /\ pc'[r] = "idle" /\ entered'[r] = 0
      /\ \A q \in Requests \ {r} : /\ pc'[q] = pc[q] /\ entered'[q] = entered[q]
                                   /\ row'[q] = row[q]
  BY DEF Commit, IInv, TypeOK, Finish
<1>3. /\ Len(table') = Len(table) + 1 /\ Len(table) \in Nat
      /\ table'[Len(table) + 1] = row[r]
      /\ \A i \in 1 .. Len(table) : table'[i] = table[i]
  BY <1>1
<1>4. TypeOK'
  BY <1>1, UniqueAssumption DEF Commit, IInv, TypeOK, Finish
<1>5. HasRow' /\ CommitsEntered'
  BY <1>2 DEF IInv, HasRow, CommitsEntered, Plain
<1>6. TableNormalised'
  BY <1>1, <1>3 DEF IInv, TableNormalised, Plain
<1>7. \A c \in ColumnIds : ~Taken(c, row[r][c])
  BY <1>1, UniqueAssumption DEF IInv, EntriesAreNew, ColumnIds
<1>8. NoDuplicates'
  BY <1>3, <1>7 DEF IInv, NoDuplicates, Taken
<1>9. EntriesAreNew'
  <2> SUFFICES ASSUME NEW q \in Requests \ {r}, NEW c \in 1 .. entered[q]
               PROVE  ~Taken(c, row[q][c])'
    BY <1>2 DEF EntriesAreNew
  <2>1. c \in ColumnIds /\ entered[q] >= c /\ entered[r] >= c
    BY <1>1, UniqueAssumption DEF IInv, TypeOK, ColumnIds
  <2>2. row[q][c] # row[r][c]
    BY <2>1 DEF IInv, EntriesAreApart
  <2>3. ~Taken(c, row[q][c])
    BY DEF IInv, EntriesAreNew
  <2>4. QED
    BY <1>2, <1>3, <2>2, <2>3 DEF Taken
<1>10. EntriesAreApart'
  BY <1>2 DEF IInv, EntriesAreApart, ColumnIds
<1>11. QED
  BY <1>4, <1>5, <1>6, <1>8, <1>9, <1>10 DEF IInv

LEMMA NextIInv == IInv /\ [Next]_vars => IInv'
<1> SUFFICES ASSUME IInv, [Next]_vars PROVE IInv'
  OBVIOUS
<1>1. ASSUME NEW r \in Requests, AlreadyExists(r) \/ Violation(r) \/ Abort(r) PROVE IInv'
  BY <1>1, FinishIInv DEF AlreadyExists, Violation, Abort
<1>2. CASE UNCHANGED vars
  BY <1>2 DEF vars, reqVars, IInv, TypeOK, HasRow, CommitsEntered, EntriesAreNew,
              EntriesAreApart, TableNormalised, NoDuplicates, Taken, Plain
<1>3. QED
  BY <1>1, <1>2, StartIInv, LookIInv, EnterIInv, CommitIInv DEF Next, Proceed

(***************************************************************************)
(* Theorems.                                                               *)
(***************************************************************************)

\* The inductive invariant holds in every reachable state.
THEOREM IInvHolds == Spec => []IInv
BY InitIInv, NextIInv, PTL DEF Spec

\* Requests, their rows and index entries and the table keep their types.
THEOREM TypesHold == Spec => []TypeOK
<1>1. IInv => TypeOK
  BY DEF IInv
<1>2. QED
  BY <1>1, IInvHolds, PTL

\* No two users, organizations or projects share an email, username, slug or key,
\* whatever requests looked for before they inserted (create_user and the unique
\* constraints of the models).
THEOREM ValuesAreUnique == Spec => []NoDuplicates
<1>1. IInv => NoDuplicates
  BY DEF IInv
<1>2. QED
  BY <1>1, IInvHolds, PTL

\* Nor do they share one of the normalised values in another spelling
\* (normalize_email, normalize_slug, normalize_key).
THEOREM ValuesHaveNoTwins == Spec => []NoTwins
<1>1. IInv => NoTwins
  <2> SUFFICES ASSUME IInv, NEW i \in 1 .. Len(table), NEW j \in 1 .. Len(table),
                      NEW c \in ColumnIds, Columns[c] \in Folded,
                      table[i][c].name = table[j][c].name
               PROVE  i = j
    BY DEF NoTwins
  <2>1. table[i] \in Rows /\ table[j] \in Rows
    BY DEF IInv, TypeOK
  <2>2. table[i][c] \in Values /\ table[j][c] \in Values
    BY <2>1 DEF Rows
  <2>3. table[i][c].upper = FALSE /\ table[j][c].upper = FALSE
    BY <2>2 DEF IInv, TableNormalised, Plain, Values
  <2>4. table[i][c] = table[j][c]
    BY <2>2, <2>3 DEF Values
  <2>5. QED
    BY <2>4 DEF IInv, NoDuplicates
<1>2. QED
  BY <1>1, IInvHolds, PTL

(***************************************************************************)
(* Refusals.  What a request found taken while it looked stays taken: rows *)
(* only join the table.                                                    *)
(***************************************************************************)

FoundIsTaken ==
    \A r \in Requests :
        found[r] => pc[r] = "looking" /\ \E c \in ColumnIds : Taken(c, row[r][c])

RInv == IInv /\ FoundIsTaken

\* The steps of one request leave what another one found.
LEMMA OthersFoundIsTaken ==
    ASSUME RInv, NEW r \in Requests, NEW q \in Requests \ {r}, found'[q],
           found'[q] = found[q], pc'[q] = pc[q], row'[q] = row[q],
           table' = table \/ (row[r] \in Rows /\ table' = Append(table, row[r]))
    PROVE  pc'[q] = "looking" /\ \E c \in ColumnIds : Taken(c, row[q][c])'
<1>1. PICK c \in ColumnIds : Taken(c, row[q][c])
  BY DEF RInv, FoundIsTaken
<1>2. Taken(c, row[q][c])'
  <2>1. CASE table' = table
    BY <1>1, <2>1 DEF Taken
  <2>2. CASE row[r] \in Rows /\ table' = Append(table, row[r])
    <3>1. table \in Seq(Rows)
      BY DEF RInv, IInv, TypeOK
    <3>2. Taken(c, row[q][c]) /\ row'[q] = row[q]
      BY <1>1
    <3>3. PICK i \in 1 .. Len(table) : table[i][c] = row[q][c]
      BY <3>2 DEF Taken
    <3>4. i \in 1 .. Len(table') /\ table'[i] = table[i]
      BY <3>1, <2>2
    <3>5. QED
      BY <3>2, <3>3, <3>4 DEF Taken
  <2>3. QED
    BY <2>1, <2>2
<1>3. QED
  BY <1>2 DEF RInv, FoundIsTaken

\* A step of r: only r's part of the invariant is left to show.
LEMMA OnlyOwnFound ==
    ASSUME RInv, NEW r \in Requests, NEW raw \in Rows,
           Start(r, raw) \/ Proceed(r) \/ Abort(r),
           found'[r] => /\ pc'[r] = "looking"
                        /\ \E c \in ColumnIds : Taken(c, row[r][c])'
    PROVE  FoundIsTaken'
<1>1. \A q \in Requests \ {r} :
         found'[q] = found[q] /\ pc'[q] = pc[q] /\ row'[q] = row[q]
  BY DEF Start, Proceed, Abort, Look, AlreadyExists, Insert, Enter, Violation, Inserted,
         Commit, Finish, Goto, RInv, IInv, TypeOK
<1>2. table' = table \/ (row[r] \in Rows /\ table' = Append(table, row[r]))
  BY DEF Start, Proceed, Abort, Look, AlreadyExists, Insert, Enter, Violation, Inserted,
         Commit, RInv, IInv, HasRow
<1>3. QED
  BY <1>1, <1>2, OthersFoundIsTaken DEF FoundIsTaken

LEMMA NextRInv == RInv /\ [Next]_vars => RInv'
<1> SUFFICES ASSUME RInv, [Next]_vars PROVE RInv'
  OBVIOUS
<1>1. IInv'
  BY NextIInv DEF RInv
<1>2. ASSUME NEW r \in Requests, NEW raw \in Rows, Start(r, raw) PROVE FoundIsTaken'
  <2>1. ~found'[r]
    BY <1>2 DEF Start, Goto, RInv, FoundIsTaken
  <2>2. QED
    BY <1>2, <2>1, OnlyOwnFound
<1>3. ASSUME NEW r \in Requests, NEW raw \in Rows, Look(r) PROVE FoundIsTaken'
  <2>1. /\ found'[r] = (found[r] \/ Taken(looked[r] + 1, row[r][looked[r] + 1]))
        /\ looked[r] + 1 \in ColumnIds
        /\ pc'[r] = "looking" /\ row' = row /\ table' = table
    BY <1>3 DEF Look, RInv, IInv, TypeOK
  <2>2. ASSUME found'[r] PROVE \E c \in ColumnIds : Taken(c, row[r][c])
    BY <2>1, <2>2 DEF RInv, FoundIsTaken
  <2>3. found'[r] => \E c \in ColumnIds : Taken(c, row[r][c])'
    BY <2>1, <2>2 DEF Taken
  <2>4. QED
    BY <1>3, <2>1, <2>3, OnlyOwnFound DEF Proceed
<1>4. ASSUME NEW r \in Requests, NEW raw \in Rows,
             Insert(r) \/ Enter(r) \/ Inserted(r)
      PROVE  FoundIsTaken'
  <2>1. ~found'[r]
    BY <1>4 DEF Insert, Enter, Inserted, Goto, RInv, FoundIsTaken
  <2>2. QED
    BY <1>4, <2>1, OnlyOwnFound DEF Proceed
<1>5. ASSUME NEW r \in Requests, NEW raw \in Rows,
             AlreadyExists(r) \/ Violation(r) \/ Commit(r) \/ Abort(r)
      PROVE  FoundIsTaken'
  <2>1. ~found'[r]
    BY <1>5 DEF AlreadyExists, Violation, Commit, Abort, Finish, RInv, IInv, TypeOK
  <2>2. QED
    BY <1>5, <2>1, OnlyOwnFound DEF Proceed
<1>6. ASSUME UNCHANGED vars PROVE FoundIsTaken'
  BY <1>6 DEF vars, reqVars, RInv, FoundIsTaken, Taken
<1>7. ASSUME NEW r \in Requests, Proceed(r) \/ Abort(r) PROVE FoundIsTaken'
  <2>1. pc[r] # "idle"
    BY <1>7 DEF Proceed, Abort, Look, AlreadyExists, Insert, Enter, Violation, Inserted,
                Commit, Goto
  <2>2. row[r] \in Rows
    BY <2>1 DEF RInv, IInv, HasRow
  <2>3. QED
    BY <1>3, <1>4, <1>5, <1>7, <2>2 DEF Proceed
<1>8. FoundIsTaken'
  BY <1>2, <1>6, <1>7 DEF Next
<1>9. QED
  BY <1>1, <1>8 DEF RInv

\* A registration, or the creation of an organization or a project, is answered
\* "already exists" only because of a committed row: by the check it made before
\* the INSERT (create_user) or by the IntegrityError, which PostgreSQL raises only
\* after the transaction with the other entry has ended.
THEOREM RefusalsHaveCause == Spec => RefusedOnlyIfTaken
<1>1. Init => RInv
  BY InitIInv DEF Init, RInv, FoundIsTaken
<1>2. ASSUME RInv, NEW r \in Requests, AlreadyExists(r) \/ Violation(r)
      PROVE  \E c \in ColumnIds : Taken(c, row[r][c])
  BY <1>2 DEF AlreadyExists, Violation, RInv, FoundIsTaken
<1>3. RInv /\ [Next]_vars =>
        [\A r \in Requests :
            (AlreadyExists(r) \/ Violation(r)) =>
                \E c \in ColumnIds : Taken(c, row[r][c])]_vars
  BY <1>2
<1>4. QED
  BY <1>1, <1>3, NextRInv, PTL DEF Spec, RefusedOnlyIfTaken

=============================================================================
