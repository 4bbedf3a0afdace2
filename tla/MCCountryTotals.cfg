\* Reports of two days and repeated refreshes; nothing fails.
SPECIFICATION StatisticsSpec
CONSTANTS
  Caller = {1}
  Page = {}
  p1 = p1
  NULL = NULL
  EXPIRY = 1
  MaxDay = 2
  MaxReports = 2
  MaxTotal = 3
  MaxFaults = 0
INVARIANTS
  TotalsCountReports
