SPECIFICATION Spec
CONSTANTS
  n1 = n1  n2 = n2  u1 = u1  u2 = u2  r1 = r1  r2 = r2  fa = fa
  None = None
  Nodes = {n1}
  Uploads = {u1}
  Requests = {r1}
  TotalChunks = 1
  Names = {fa}
  NameOf <- SameName
  LostAcks = FALSE
  Calls = {"put"}
  Vias = {"encoded"}
  ClientSums = {"null"}
  AlwaysHash = TRUE
  Faults = {"disconnect", "undecodable"}
  MaxCrashes = 0
INVARIANTS AckedPartsWhole
CHECK_DEADLOCK FALSE
