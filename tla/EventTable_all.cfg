SPECIFICATION Spec
CONSTANTS
  Vendors = {"Intel", "AMD", "ARM"}
  Entries <- MCEntries
  MaxLen = 2
INVARIANTS TypeOK RowsMatchLibrary LossesAreExplained
CHECK_DEADLOCK FALSE
