CONSTANTS
  None = None
  Partial = Partial
  Caller = {c1, c2}
  Operator = {c1, c2}
  Obj = {o1, o2}
  Thread = {t1, t2}
  Cfg = {good}
  IpOk = {good}
  RadioOk = {good}
  Fallible = {"clean", "kill_hostapd", "signal", "dnsmasq", "fopen", "hostapd", "pthread_create"}
  CancelExited = {"ok"}
  StartAtInit = FALSE
  Offered = {"start", "stop"}
  Polite = FALSE
  MaxBoot = 0
SPECIFICATION Spec
INVARIANTS
  ListSound
  LeakIsFinal
SYMMETRY CallerSymmetry
CONSTRAINT UntilFault
CHECK_DEADLOCK FALSE
