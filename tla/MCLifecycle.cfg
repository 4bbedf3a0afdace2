\* Two reloads and a stop at any time, while jobs and a request are under way;
\* one failure.  The data of the statistics do not matter here.
\* The server stops.
SPECIFICATION FairSpec
CONSTANTS
  q1 = q1
  Caller = {0, 1, 2}
  Page = {p1}
  p1 = p1
  NULL = NULL
  EXPIRY = 1
  MaxDay = 0
  MaxReports = 0
  MaxTotal = 0
  MaxFaults = 1
  Request = {q1}
  MaxReloads = 2
INVARIANTS
  TypeOK
  UpdatesDoNotOverlap
  ClosedStaysClosed
  NoLockIsCut
PROPERTIES
  ListensAgain
CHECK_DEADLOCK FALSE
