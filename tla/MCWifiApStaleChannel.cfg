CONSTANTS
  None = None
  Caller = {c1}
  Setter = {c1}
  Fallible = {}
  Channel = {3, 36, 70000}
  Std = {{"A"}, {"G"}, {}, {"A", "G"}, {"G", "AC"}, {"A", "H"}}
  Length = {0, 8}
SPECIFICATION Spec
INVARIANTS
  ChannelMatchesMode
CHECK_DEADLOCK FALSE
