SPECIFICATION FairSpec
CONSTANTS
  c1 = c1  c2 = c2
  None = None
  Callers = {c1, c2}
  Kinds <- MCKinds
  Contents <- MCContents
  Legacy <- MCLegacy
  Instants <- MCInstants
  Concepts <- MCConcepts
  RevenueOffsets <- MCRevenueOffsets
  DrawnOffsets <- MCDrawnOffsets
  PageSize = 2
  MaxAttempts = 2
  MaxFaults = 2
  ClauseMax = 3
INVARIANTS AnswerIsRecent
PROPERTIES FailureIsNoStatement CallsEnd
CHECK_DEADLOCK FALSE
