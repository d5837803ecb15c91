CONSTANTS
  None = None
  Partial = Partial
  Caller = {c1, c2}
  Operator = {c1, c2}
  Obj = {o1, o2}
  Thread = {t1, t2}
  Cfg = {good}
  IpOk = {good}
  RadioOk = {good}
  Fallible = {}
  CancelExited = {"ok"}
  StartAtInit = FALSE
  Offered = {"start", "stop"}
  Polite = TRUE
  MaxBoot = 0
SPECIFICATION Spec
INVARIANTS
  StatusTruth
SYMMETRY CallerSymmetry
CHECK_DEADLOCK FALSE
