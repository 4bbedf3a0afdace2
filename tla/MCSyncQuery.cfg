\* Two clients report two hosts while a third client polls; the server
\* may be restarted once; nothing expires.
\* The server may stop: no report, poll or tick is left.
SPECIFICATION QSpec
CONSTANTS
  h1 = h1
  h2 = h2
  bad = bad
  c1 = c1
  c2 = c2
  q1 = q1
  Host = {h1, h2}
  BadHost = bad
  Client = {c1, c2}
  HostLists <- TwoHosts
  Request = {q1}
  Job = {}
  Loop = {}
  NULL = NULL
  DAY = 1
  EXPIRY = 9
  BatchSize = 1
  MaxDelay = 0
  MaxTime = 3
  MaxAccepted = 3
  MaxFaults = 1
  FaultKinds = {"restart"}
  Threshold = 1
  Resilience = 1
  MaxReported = {1, 3}
  MaxPolls = 2
  QueriesFail = TRUE
  AddedHosts <- OneAdded
SYMMETRY Clients
INVARIANTS
  QTypeOK
  
CHECK_DEADLOCK FALSE
