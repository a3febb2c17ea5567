CONSTANTS
  tool1 = tool1
  tool2 = tool2
  default = default
  entry = entry
  Absent = Absent
  Keys <- MCKeys
  Rank <- MCRank
  Values <- MCValues
  Base <- MCBase
  Workers = {w1, w2}
  MaxRequests = 2
  MaxCrashes = 1

SPECIFICATION Spec

INVARIANTS
  AtomicWrites

CHECK_DEADLOCK FALSE
