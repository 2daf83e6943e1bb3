CONSTANTS
    Requests = {r1, r2, r3}
    Names = {n1, n2}
    Columns <- UserColumns
    Folded <- FoldedColumns
    Failures = TRUE
    MaxRows = 2
SYMMETRY Symmetry
SPECIFICATION Spec
CHECK_DEADLOCK FALSE
INVARIANTS
    NoDuplicates
    NoTwins
PROPERTIES
    RefusedOnlyIfTaken
