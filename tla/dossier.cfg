CONSTANTS
  None = None
  FixedAfter = 0
  ArgxTicker = "A"
  InitialFiles <- MCInitialFiles
  Inputs <- MCInputs
  Cuts <- MCCuts
  Unwritable = {"S/"}
  LastDay = 1
  MaxBuilds = 1
SPECIFICATION Spec
INVARIANTS
  GreenIsGrounded
  PageTellsTheRecord
PROPERTIES
  NothingDisappears
CHECK_DEADLOCK FALSE
