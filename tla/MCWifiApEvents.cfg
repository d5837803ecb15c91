CONSTANTS
  None = None
  Caller = {}
  Thread = {t1, t2}
  Interface = {wlan0, wlan1}
  Own = wlan0
  Matching = {wlan0}
  Fallible = {"popen", "iw_event", "clean", "hostapd"}
  MaxStation = 1
  MaxLine = 2
  MaxLaunch = 2
SPECIFICATION FairSpec
INVARIANTS
  EventsTypeOK
  CounterFollowsStations
  PipeSafe
  PcloseReturns
PROPERTIES
  StopEnds
CHECK_DEADLOCK FALSE
