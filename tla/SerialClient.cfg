SPECIFICATION Spec
CONSTANTS
  n1 = n1  n2 = n2  u1 = u1  u2 = u2  r1 = r1  r2 = r2  fa = fa
  None = None
  Nodes = {n1}
  Uploads = {u1}
  Requests = {r1, r2}
  TotalChunks = 2
  Names = {fa}
  NameOf <- SameName
  LostAcks = TRUE
  Calls = {"put", "complete", "abort", "status"}
  Vias = {"tee"}
  ClientSums = {"null", "true"}
  AlwaysHash = TRUE
  Faults = {"expire", "corrupt"}
  MaxCrashes = 0
INVARIANTS AckedPartsWhole 
CONSTRAINT ChunkSerial
SYMMETRY RequestSymmetry
CHECK_DEADLOCK FALSE
