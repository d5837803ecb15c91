CONSTANTS
  None = None
  Partial = Partial
  Caller = {c1, c2}
  Operator = {c1}
  Obj = {o1, o2, o3}
  Thread = {t1, t2, t3}
  Cfg = {good, bad_ip, bad_radio}
  IpOk = {good, bad_radio}
  RadioOk = {good, bad_ip}
  Fallible = {"clean", "wlan_up", "dnsmasq", "conf", "hw_start", "hostapd", "hw_stop"}
  CancelExited = {"ok"}
  StartAtInit = FALSE
  Offered = {"start", "stop", "restart"}
  Polite = TRUE
  MaxBoot = 0
SPECIFICATION FairSpec
INVARIANTS
  TypeOK
  StatusTruth
  LibrarySafe
  Stoppable
  JoinedThreadEnds
  StopEndsItsThread
PROPERTIES
  VerbsEnd
  PromiseKept
