CONSTANTS
  None = None
  Partial = Partial
  Caller = {c1}
  Operator = {c1}
  Obj = {o1, o2}
  Thread = {t1, t2}
  Cfg = {good, bad_ip, bad_radio}
  IpOk = {good, bad_radio}
  RadioOk = {good, bad_ip}
  Fallible = {}
  CancelExited = {"ok"}
  StartAtInit = TRUE
  Offered = {"start", "stop"}
  Polite = TRUE
  MaxBoot = 2
SPECIFICATION Spec
INVARIANTS
  MarkersCoverDaemons
  FailsOnlyOnBadParameters
  StatusTruth
PROPERTY PromiseKept
CHECK_DEADLOCK FALSE
