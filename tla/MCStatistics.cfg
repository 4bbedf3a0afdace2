\* Two reports in five days; refreshes at any time, one of which may fail.
\* The server may stop: after an error there are no more refreshes.
SPECIFICATION FairStatistics
CONSTANTS
  Caller = {1}
  Page = {p1}
  p1 = p1
  NULL = NULL
  EXPIRY = 1
  MaxDay = 4
  MaxReports = 2
  MaxTotal = 1
  MaxFaults = 1
INVARIANTS
  HistoryIsContiguous
  HistoryCounts
PROPERTIES
  PageIsRendered
CHECK_DEADLOCK FALSE
