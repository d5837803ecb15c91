CONSTANTS
  None = None
  Partial = Partial
  Caller = {c1}
  Operator = {c1}
  Obj = {o1, o2}
  Thread = {t1, t2}
  Cfg = {good, bad_ip, bad_radio}
  IpOk = {good, bad_radio}
  RadioOk = {good, bad_ip}
  Fallible = {}
  CancelExited = {"ok", "ESRCH"}
  StartAtInit = FALSE
  Offered = {"start", "stop", "restart"}
  Polite = FALSE
  MaxBoot = 0
SPECIFICATION FairSpec
PROPERTIES
  CancelReturns
CHECK_DEADLOCK FALSE
