\* Two requests race for two hosts; nothing expires.
\* The server may stop: it is idle once the last report is answered.
SPECIFICATION Spec
CONSTANTS
  h1 = h1
  h2 = h2
  bad = bad
  c1 = c1
  c2 = c2
  q1 = q1
  q2 = q2
  j1 = j1
  j2 = j2
  Host = {h1, h2}
  BadHost = bad
  Client = {c1, c2}
  HostLists <- TwoHosts
  Request = {q1, q2}
  Job = {}
  Loop = {}
  NULL = NULL
  DAY = 1
  EXPIRY = 9
  BatchSize = 1
  MaxDelay = 0
  MaxTime = 2
  MaxAccepted = 4
  MaxFaults = 0
  FaultKinds = {}
SYMMETRY Clients
INVARIANTS
  TypeOK
  MutualExclusion
  CreateIsFresh
  EveryReportCounted
CHECK_DEADLOCK FALSE
