SPECIFICATION Spec
CONSTANTS
  MaxId = 6
  JournalCap = 1
  MaxCreated = 1
  Documents <- MCDocuments
  Fragments <- MCFragments
  Kinds = {"comment"}
  ReadKinds = {"elem"}
  Viewports = {1}
  MaxReads = 2
  MaxMutations = 4
INVARIANTS StyledIsFresh ReuseIsSound BoundedModeIsSeeded JournalCovers
PROPERTY IdsAreNeverReused
CHECK_DEADLOCK FALSE
