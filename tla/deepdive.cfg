\* Faults and a restart, local UI: children outlive the service.
SPECIFICATION FairSpec
CONSTANTS
  RunIds = {r1, r2}
  Procs = {p1, p2}
  Handlers = {h1, h2}
  t1 = t1
  t2 = t2
  k1 = k1
  k2 = k2
  Tokens = {t1, t2}
  Keys = {k1, k2}
  KeyOf <- MCKeyOf
  NeedsAck = {t1, t2}
  None = None
  ChildrenDieWithService = FALSE
  MaxFaults = 1
  MaxRestarts = 1
INVARIANTS TypeOK TrackedProcessHoldsSlot RunningFileIsWatched OutcomeIsTrue StartedWasPreflighted
PROPERTIES TokenKeptUntilStart LedgerSafe RunsAreSettled
CHECK_DEADLOCK FALSE
