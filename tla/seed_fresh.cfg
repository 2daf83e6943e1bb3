SPECIFICATION Spec
INVARIANT FillsMigratedDatabase
