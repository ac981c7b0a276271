SPECIFICATION Spec
CONSTANTS
  None = None
  Titles <- MCTitles
  Profiles <- MCProfiles
  Takers <- MCTakers
  MinSectorN = 2
  ScoreThreshold = 4
  MinDimensions = {2, 3}
  Cap = 1
INVARIANTS WithholdingNeverPays OneSectionPerTitle SentinelIsNoMeasurement
CHECK_DEADLOCK FALSE
