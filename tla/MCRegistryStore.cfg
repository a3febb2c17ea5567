CONSTANTS
  tool1 = tool1
  tool2 = tool2
  default = default
  entry = entry
  Absent = Absent
  Keys <- MCKeys
  Rank <- MCRank
  Values <- MCValues
  Base <- MCBase
  Workers = {w1, w2}
  MaxRequests = 2
  MaxCrashes = 2

SPECIFICATION FairSpec

INVARIANTS
  TypeOK
  SnapshotsAreRecent
  SomeSaveIsCurrent
  SerialFileWhole
  SerialDurable

PROPERTIES
  SerialRestart
  DurableAtLast

CHECK_DEADLOCK FALSE
