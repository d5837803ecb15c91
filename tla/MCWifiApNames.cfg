CONSTANTS
  None = None
  Caller = {c1}
  Fallible = {"wlan_up", "dnsmasq", "hostapd"}
  Address = {a1, a2, a3, a4, a5}
  Name = {w0, w1, h0}
  Present = {w0, w1}
  MaxCall = 2
SPECIFICATION Spec
SYMMETRY Symmetry
INVARIANTS
  NamesTypeOK
  NameLive
  PreviousFreed
  OneInterface
CHECK_DEADLOCK FALSE
