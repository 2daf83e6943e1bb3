--------------------------- MODULE TokenFamilies ----------------------------
(***************************************************************************)
(* What refresh-token rotation promises: the tokens issued from one login  *)
(* are a family with at most one usable token, its head.  Each exchange    *)
(* replaces the head by a token that was never issued before, and a family *)
(* that has lost its head never gets another.                              *)
(***************************************************************************)
CONSTANTS
    Sessions,  \* refresh tokens; a family is named by its first one
    Unopened,  \* the head of a family that no login has opened
    Closed     \* the head of a family with no usable token left

VARIABLES
    head,   \* head[f]: the usable token of family f
    issued  \* tokens handed out so far

avars == <<head, issued>>

AInit ==
    /\ head = [f \in Sessions |-> Unopened]
    /\ issued = {}

Open(f) ==
    /\ f \notin issued
    /\ head[f] = Unopened
    /\ head' = [head EXCEPT ![f] = f]
    /\ issued' = issued \cup {f}

Rotate(f, t) ==
    /\ head[f] \in Sessions
    /\ t \notin issued
    /\ head' = [head EXCEPT ![f] = t]
    /\ issued' = issued \cup {t}

\* One request may close many families: logout everywhere.
Close(F) ==
    /\ \A f \in F : head[f] \in Sessions
    /\ head' = [f \in Sessions |-> IF f \in F THEN Closed ELSE head[f]]
    /\ UNCHANGED issued

ANext ==
    \/ \E f \in Sessions : Open(f)
    \/ \E f, t \in Sessions : Rotate(f, t)
    \/ \E F \in SUBSET Sessions : Close(F)

ASpec == AInit /\ [][ANext]_avars

=============================================================================
