\* Two maintenance passes overlap; operations fail and the server is
\* restarted, twice in all.
\* The server may stop: its maintenance job dies.
SPECIFICATION Spec
CONSTANTS
  h1 = h1
  h2 = h2
  bad = bad
  c1 = c1
  c2 = c2
  q1 = q1
  q2 = q2
  j1 = j1
  j2 = j2
  Host = {h1}
  BadHost = bad
  Client = {c1, c2}
  HostLists <- OneHost
  Request = {q1}
  Job = {j1, j2}
  Loop = {j1}
  NULL = NULL
  DAY = 1
  EXPIRY = 2
  BatchSize = 2
  MaxDelay = 0
  MaxTime = 3
  MaxAccepted = 3
  MaxFaults = 2
  FaultKinds = {"request", "job", "restart"}
SYMMETRY Clients
INVARIANTS
  LocksAreHeld
  NoDanglingReport
  CurrentIsExact
CHECK_DEADLOCK FALSE
