CONSTANTS
  gate = gate
  curate = curate
  old = old
  new = new
  ns1 = ns1
  None = None
  FilterNames = {"wanaku_evaluator"}
  Names <- MCNames
  Evaluations = {e1}
  Reloads = {r1, r2}
  Paths <- MCPaths
  Configs <- MCConfigs
  Namespaces = {ns1}
  Conversations = {c1}
  MaxRequests = 2

SYMMETRY MCSymmetry

SPECIFICATION Spec

INVARIANTS
  TypeOK
  SerialReloadsAgree
  FoundIsLoaded
  ResultFitsSchema
  SnapshotAddsUp
  EveryMatchCounted

CHECK_DEADLOCK FALSE
