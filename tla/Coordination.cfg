SPECIFICATION Spec
CONSTANTS
  n1 = n1  n2 = n2  u1 = u1  u2 = u2  r1 = r1  r2 = r2  fa = fa
  None = None
  Nodes = {n1, n2}
  Uploads = {u1}
  Requests = {r1, r2}
  TotalChunks = 1
  Names = {fa}
  NameOf <- SameName
  LostAcks = TRUE
  Calls = {"put", "complete", "abort"}
  Vias = {"pipe"}
  ClientSums = {"null"}
  AlwaysHash = TRUE
  Faults = {"expire"}
  MaxCrashes = 1
SYMMETRY NodeRequestSymmetry
INVARIANTS TypeOK MergeExclusive AnswersTruthful
PROPERTIES LifecycleSpec OnlyOwnersDeleteParts
CHECK_DEADLOCK FALSE
