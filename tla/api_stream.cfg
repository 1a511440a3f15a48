SPECIFICATION FairSpec
CONSTANTS
  rx = rx
  Message = {m1, m2}
  Own = {m1}
  MaxCasts = 2
  Handler = {h}
  Conn = {c1, c2, c3}
  Slow = {c3}
  client = c3
INVARIANT StreamInOrder
PROPERTIES ImplementsClientStream LockGivenBack
CHECK_DEADLOCK FALSE
