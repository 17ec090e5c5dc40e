\* Two nodes, three uploads, a channel that holds one event, one abort at a
\* time, one crash.
SPECIFICATION Spec
CONSTANTS
  u1 = u1
  u2 = u2
  u3 = u3
  n1 = n1
  n2 = n2
  r1 = r1
  Uploads = {u1, u2, u3}
  Nodes = {n1, n2}
  Requests = {r1}
  Calls <- MCCalls
  Handlers <- MCHandlers
  Capacity = 1
  MaxCrashes = 1
  None = None
INVARIANTS
  EventsTypeOK
  OneVerdict
  VerdictTrue
PROPERTIES
  JobsDrain
  Announced
CHECK_DEADLOCK FALSE
