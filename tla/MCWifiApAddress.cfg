CONSTANTS
  None = None
  Caller = {}
  Fallible = {"wlan_up", "fopen", "dnsmasq"}
  MaxCall = 1
  Leftover = {0, 17}
  Torn <- MCTorn
  Request <- MCRequest
SPECIFICATION Spec
INVARIANTS
  AddressTypeOK
  RangeOfOneCall
  StartUsesTestedRange
  PrefixFitsMask
CHECK_DEADLOCK FALSE
