SPECIFICATION Spec
CONSTANTS
  a = a  b = b
  None = None
  Universe <- MCUniverse
  Infos <- MCInfos
  Statements <- MCStatements
  Rate <- MCRate
  Bucket <- MCBucket
  Median <- MCMedian
  SectorWideSize = 2
INVARIANTS EveryTitleInOneBasket StagesAddUp OutageIsNoVerdict UncheckedIsReported
  GateNeverThrows MarginCohortReachedTheGate
PROPERTIES DecidesOnce
CHECK_DEADLOCK FALSE
