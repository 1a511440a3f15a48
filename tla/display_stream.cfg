SPECIFICATION Spec
CONSTANTS
  m1 = m1
  m2 = m2
  Name = {"a", "b"}
  Message = {m1, m2}
  ChannelOf <- Channels
  Second = {1}
  Limit = 1
  Cap = 1
  MaxCasts = 2
  MaxDials = 2
SYMMETRY Alike
INVARIANTS NothingMissed ShownRightly SelectedInRange
