CONSTANTS
  fixed = fixed
  added = added
  north = north
  south = south
  tool = tool
  renamed = renamed
  prompt = prompt
  Local = Local
  None = None
  Names <- MCNames
  Addresses <- MCAddresses
  Items <- MCItems
  Rank <- MCRank
  Catalogs <- MCCatalogs
  Config <- MCConfig
  Workers = {w1, w2}
  MaxOps = 3

SPECIFICATION FairSpec

INVARIANTS
  TypeOK
  Provenance
  AvailableWasReached
  TidyNoOrphans

PROPERTIES
  SoloDelete
  SoloRefresh
  EveryRequestEnds

CHECK_DEADLOCK FALSE
