\* Maintenance writes back the cracker it read before it had the lock.
SPECIFICATION Spec
CONSTANTS
  h1 = h1
  h2 = h2
  bad = bad
  c1 = c1
  c2 = c2
  q1 = q1
  q2 = q2
  j1 = j1
  j2 = j2
  Host = {h1}
  BadHost = bad
  Client = {c1, c2}
  HostLists <- OneHost
  Request = {q1}
  Job = {j1}
  Loop = {j1}
  NULL = NULL
  DAY = 1
  EXPIRY = 2
  BatchSize = 1
  MaxDelay = 0
  MaxTime = 4
  MaxAccepted = 3
  MaxFaults = 0
  FaultKinds = {}
PROPERTIES
  OnlyCurrentUpdated
