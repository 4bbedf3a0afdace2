\* Two commands in a row, one of which may be killed, from any older database;
\* the peer works on.
\* Nothing is left to do once both commands are over.
SPECIFICATION FairSpec
CONSTANTS
  h1 = h1
  h2 = h2
  NULL = NULL
  Host = {h1, h2}
  PeerVersion = {7, 8}
  MaxRuns = 2
  MaxCrashes = 1
  MaxChanges = 3
  MaxFaults = 1
INVARIANTS
  TypeOK
  VersionIsTrue
  StepsFollowOn
  
  CopiedReportsHaveCrackers
PROPERTIES
  RecreateRepairs
CHECK_DEADLOCK FALSE
