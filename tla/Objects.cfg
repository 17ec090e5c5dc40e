SPECIFICATION Spec
CONSTANTS
  n1 = n1  n2 = n2  u1 = u1  u2 = u2  r1 = r1  r2 = r2  fa = fa
  None = None
  Nodes = {n1}
  Uploads = {u1, u2}
  Requests = {r1}
  TotalChunks = 1
  Names = {fa}
  NameOf <- SameName
  LostAcks = TRUE
  Calls = {"put", "complete"}
  Vias = {"pipe"}
  ClientSums = {"null", "true", "malformed"}
  AlwaysHash = FALSE
  Faults = {"corrupt", "io", "expire"}
  MaxCrashes = 0
SYMMETRY UploadSymmetry
VIEW Concrete
INVARIANTS CompletedObject ChecksumHonoured
CHECK_DEADLOCK FALSE
