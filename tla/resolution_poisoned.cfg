SPECIFICATION Spec
CONSTANTS
  eu1 = eu1  eu2 = eu2  eu3 = eu3  us1 = us1  us2 = us2  us3 = us3
  None = None
  Procs = {p1}
  EuTickers = {eu1, eu2, eu3}
  UsTickers = {us1, us2, us3}
  Table <- MCTable
  Truth <- MCTruth
  MaxFaults = 1
  Letters <- MCLetters
  NominalValues <- MCNominalValues
  Issuers <- MCIssuers
  Before <- MCBefore
  After <- MCAfter
  NamesOf <- MCNamesOf
INVARIANT VerdictIsAboutIssuer
CHECK_DEADLOCK FALSE
