\* Two requests of one tab race on one token.
SPECIFICATION Spec
CONSTANTS
  RunIds = {r1, r2}
  Procs = {p1, p2}
  Handlers = {h1, h2}
  t1 = t1
  t2 = t2
  k1 = k1
  k2 = k2
  Tokens = {t1, t2}
  Keys = {k1, k2}
  KeyOf <- MCKeyOf
  NeedsAck = {t2}
  None = None
  ChildrenDieWithService = TRUE
  MaxFaults = 0
  MaxRestarts = 0
SYMMETRY Sym
INVARIANT TokenSingleUse
CHECK_DEADLOCK FALSE
