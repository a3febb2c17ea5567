CONSTANTS
  e1 = e1
  e2 = e2
  c1 = c1
  c2 = c2
  None = None
  Empty = Empty
  First = c1
  Operations = {o1}
  Kinds <- MCKinds
  Entry <- MCEntry
  Cursors <- MCCursors
  Catalogs <- MCCatalogs
  MaxEntries = 3
  MaxPages = 4

SPECIFICATION FairSpec

INVARIANTS
  TypeOK
  ExecutedAtMostOnce
  WholeUnlessFailed

PROPERTIES
  ImplementsAnswers
  EveryOperationEnds

CHECK_DEADLOCK FALSE
