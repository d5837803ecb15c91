CONSTANTS
  None = None
  Caller = {c1, c2}
  Setter = {c1}
  Fallible = {"conf"}
  Channel = {3, 36, 70000}
  Std = {{"A"}, {"G"}, {}, {"A", "G"}, {"G", "AC"}, {"A", "H"}}
  Length = {0, 8}
SPECIFICATION Spec
INVARIANTS
  DataTypeOK
  GoodConfigAccepted
  StartHasSsidAndKey
PROPERTIES
  AgreedChannelStarts
CHECK_DEADLOCK FALSE
