SPECIFICATION FairSpec
CONSTANTS
  n1 = n1  n2 = n2  u1 = u1  u2 = u2  r1 = r1  r2 = r2  fa = fa
  None = None
  Nodes = {n1, n2}
  Uploads = {u1}
  Requests = {r1}
  TotalChunks = 1
  Names = {fa}
  NameOf <- SameName
  LostAcks = TRUE
  Calls = {"put", "complete", "abort"}
  Vias = {"tee"}
  ClientSums = {"null", "malformed"}
  AlwaysHash = TRUE
  Faults = {"expire", "disconnect", "corrupt", "undecodable", "io", "drop"}
  MaxCrashes = 1
PROPERTIES LeaseSettles
CHECK_DEADLOCK FALSE
