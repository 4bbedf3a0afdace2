\* A maintenance job runs against two requests for one host; nothing fails.
SPECIFICATION FairSpec
CONSTANTS
  h1 = h1
  h2 = h2
  bad = bad
  c1 = c1
  c2 = c2
  q1 = q1
  q2 = q2
  j1 = j1
  j2 = j2
  Host = {h1}
  BadHost = bad
  Client = {c1, c2}
  HostLists <- OneHost
  Request = {q1, q2}
  Job = {j1}
  Loop = {j1}
  NULL = NULL
  DAY = 1
  EXPIRY = 2
  BatchSize = 2
  MaxDelay = 1
  MaxTime = 4
  MaxAccepted = 3
  MaxFaults = 0
  FaultKinds = {}
INVARIANTS
  CurrentIsExact
  JobSurvives
PROPERTIES
  RequestsAreAnswered
  OldReportsArePurged
  EmptyCrackersAreRemoved
