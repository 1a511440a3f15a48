SPECIFICATION Spec
CONSTANTS
  p1 = p1
  p2 = p2
  Nil = Nil
  Handler = {p1, p2}
  Text <- Texts
  Number = {1}
  Incoming <- Puts
  Unset = "unset"
  FirstConfig <- First
  MaxChanges = 3
  MaxFaults = 1
INVARIANTS Settled HasCallsign FramesNameUs
SYMMETRY Requests
CHECK_DEADLOCK FALSE
