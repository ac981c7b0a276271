SPECIFICATION CliSpec
CONSTANTS
  p1 = p1  r1 = r1  r2 = r2
  eu1 = eu1  us1 = us1  us2 = us2  us3 = us3
  None = None
  Procs = {p1, r1, r2}
  Preflights = {p1}
  Runs = {r1, r2}
  EuTickers = {eu1}
  UsTickers = {us1, us2, us3}
  Table <- MCTable
  Truth <- MCTruth
  MaxFaults = 1
  MaxRunFaults = 1
  Letters <- MCLetters
  NominalValues <- MCNominalValues
  Issuers <- MCIssuers
  Before <- MCBefore
  After <- MCAfter
  NamesOf <- MCNamesOf
SYMMETRY MCSymmetry
INVARIANTS NoneMeansNoSymbol TornFilesStayUnseen
  ExitTellsTheDossier PaidRunIsNotRefused DossierKindIsTrue
  WrongOnlyIfBlind OnlyTheIssuerCounts
CHECK_DEADLOCK FALSE
