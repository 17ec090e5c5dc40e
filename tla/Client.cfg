CONSTANTS
  u1 = u1
  u2 = u2
  f1 = f1
  f2 = f2
  None = None
  Uploads = {u1}
  TotalChunks = 2
  Flows = {f1}
  MinWorkers = 1
  MaxWorkersCap = 2
  MaxRetries = 1
  MaxReloads = 1
  RequireCrc = FALSE
  Faults = {"net", "expire", "merge", "exists"}
SPECIFICATION FairSpec
INVARIANTS ClientTypeOK WorkersCounted CompleteHasAll PausedQuiet
PROPERTIES DoneIsStored FlowSettles
CHECK_DEADLOCK FALSE
