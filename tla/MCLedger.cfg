\* The reports implement the ledger, with one failure.
\* The server may stop: its maintenance job dies.
SPECIFICATION Spec
CONSTANTS
  h1 = h1
  h2 = h2
  bad = bad
  c1 = c1
  c2 = c2
  q1 = q1
  q2 = q2
  j1 = j1
  j2 = j2
  Host = {h1}
  BadHost = bad
  Client = {c1}
  HostLists <- OneHost
  Request = {q1, q2}
  Job = {j1}
  Loop = {j1}
  NULL = NULL
  DAY = 1
  EXPIRY = 4
  BatchSize = 2
  MaxDelay = 0
  MaxTime = 6
  MaxAccepted = 4
  MaxFaults = 1
  FaultKinds = {"request", "job", "restart"}
INVARIANTS
  AtMostThree
PROPERTIES
  ImplementsLedger
  Spaced
  
CHECK_DEADLOCK FALSE
