CONSTANTS
  q1 = q1
  q2 = q2
  t1 = t1
  r1 = r1
  r2 = r2
  p1 = p1
  sales = sales
  ops = ops
  s1 = s1
  s2 = s2
  None = None
  Var = "*"
  Open = "{"
  Requests = {q1, q2}
  Shapes <- MCShapes
  Names <- MCNames
  Entries <- MCEntries
  Registries <- MCRegistries
  Namespaces = {sales, ops}
  Headers = {"authorization", "host", "dpop"}
  Addresses = {s1, s2}
  Characters = {"a", "b", "*", "{"}
  Args <- MCArgs
  RequestId = "x-request-id"
  HeaderOf <- MCHeaderOf
  GlobalHeaders = {"dpop"}
  Denied = {"host"}
  Evaluated = {"tools/list", "tools/call"}
  Overrides = {"prompts/list"}
  MaxCopies <- MCMaxCopies
  MaxEdits = 1

SPECIFICATION Spec

INVARIANTS
  TypeOK
  NothingFromElsewhere
  SentAsAllowed
  CopyKeepsLatest
  ListedIsFound
  ReadsWhatWasAsked
  AlwaysGoesOn

CHECK_DEADLOCK FALSE
