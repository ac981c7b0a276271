\* The job and POST /run/monthly beside it, no fault.
SPECIFICATION MonthlySpec
CONSTANTS
  MaxRuns = 2
  MaxMonth = 1
  NumFiles = 1
  MaxAttempts = 1
  Overlap = TRUE
  MaxFaults = 0
INVARIANT WarningIsTrue
CHECK_DEADLOCK FALSE
