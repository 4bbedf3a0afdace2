\* One host is published twice; the download is rescheduled, the host purged and
\* a client polls, once each; one operation fails or the server stops.
\* The server may stay down.
SPECIFICATION FairSpec
CONSTANTS
  Host = {h1}
  Download = {d1, d2}
  NULL = NULL
  EXPIRY = 0
  MaxReported = 2
  MaxTime = 2
  MaxPublished = 2
  MaxReloads = 1
  MaxPolls = 1
  MaxPurges = 1
  MaxFaults = 1
INVARIANTS
  TypeOK
  NoHostSkipped
  LegacyNotMissed
PROPERTIES
  PublishedIsStored
CHECK_DEADLOCK FALSE
