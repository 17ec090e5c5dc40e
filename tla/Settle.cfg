SPECIFICATION LoopsSpec
CONSTANTS
  n1 = n1  n2 = n2  u1 = u1  u2 = u2  r1 = r1  r2 = r2  fa = fa
  None = None
  Nodes = {n1}
  Uploads = {u1}
  Requests = {r1, r2}
  TotalChunks = 2
  Names = {fa}
  NameOf <- SameName
  LostAcks = FALSE
  Calls = {"put", "complete", "abort"}
  Vias = {"encoded"}
  ClientSums = {"null"}
  AlwaysHash = TRUE
  Faults = {"expire"}
  MaxCrashes = 0
PROPERTIES LeaseSettles 
CHECK_DEADLOCK FALSE
