\* Two reports of one client reach any of three servers; one failure.
\* The servers may stop: they are idle once both reports are answered.
SPECIFICATION FairSpec
CONSTANTS
  h1 = h1
  bad = bad
  Server = {s1, s2, s3}
  Host = {h1}
  BadHost = bad
  HostLists <- Lists
  Client = {c1}
  Report = {r1, r2}
  NULL = NULL
  DAY = 0
  Threads = 1
  MaxTime = 1
  MaxFaults = 1
  FaultKinds = {"record", "crash", "call", "answer"}
INVARIANTS
  TypeOK
  
  
PROPERTIES
  AddIsAnswered
CHECK_DEADLOCK FALSE
