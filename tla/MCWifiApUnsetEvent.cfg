CONSTANTS
  None = None
  Caller = {}
  Thread = {t1, t2}
  Interface = {wlan0, wlan1}
  Own = wlan0
  Matching = {wlan0}
  Fallible = {}
  MaxStation = 1
  MaxLine = 2
  MaxLaunch = 2
SPECIFICATION Spec
PROPERTIES
  ScriptKilled
CHECK_DEADLOCK FALSE
