\* The job alone: one run after the other, faults and kills.
SPECIFICATION MonthlySpec
CONSTANTS
  MaxRuns = 3
  MaxMonth = 2
  NumFiles = 2
  MaxAttempts = 2
  Overlap = FALSE
  MaxFaults = 3
INVARIANTS SuccessIsPublished SilentOnlyAfterSuccess
PROPERTIES NeverRefusedByOwnPut
CHECK_DEADLOCK FALSE
