CONSTANTS
  u1 = u1
  u2 = u2
  u3 = u3
  u4 = u4
  ip1 = ip1
  fa = fa
  None = None
  Uploads = {u1, u2, u3, u4}
  Ips = {ip1}
  IpOf <- Callers
  Names = {fa}
  NameOf <- SameName
  SizeOf <- Sizes
  SumOf <- Sums
  SampleOf <- Samples
  Valid = {u1, u2, u3}
  Declares = {{}, {"sum", "sample"}}
  DeduplicateByContent = TRUE
  AlwaysComputeFullChecksum = FALSE
  MaxPendingSessionsPerIp = 1
  MaxTotalStoredBytes = 2
  MaxStoredBytesPerIp = 2
  MaxConcurrent = 2
SPECIFICATION Spec
SYMMETRY Twins
INVARIANTS AdmissionTypeOK PendingBounded
PROPERTIES RefusalJust 
CHECK_DEADLOCK FALSE
