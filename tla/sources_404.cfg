\* The annual series alone; the failing request is one of an issuer whose CIK holds 404.
SPECIFICATION FairSpec
CONSTANTS
  c1 = c1  c2 = c2
  None = None
  Callers = {c1, c2}
  Kinds <- MCAnnual
  Contents <- MCContents
  Legacy <- MCLegacy
  Instants <- MCInstants
  Concepts <- MCConcepts
  RevenueOffsets <- MCRevenueOffsets
  DrawnOffsets <- MCDrawnOffsets
  PageSize = 2
  MaxAttempts = 2
  MaxFaults = 1
  ClauseMax = 3
PROPERTY TransientFailureIsNotCached
CHECK_DEADLOCK FALSE
