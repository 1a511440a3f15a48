SPECIFICATION QuietSpec
CONSTANTS
  n1 = n1
  n2 = n2
  n3 = n3
  a1 = a1
  a2 = a2
  Node = {n1, n2, n3}
  MsgId = {a1}
  IdsOf <- OneEndPosts
  Hears <- Line
  MaxSeq = 1
  MaxSvec = 1
  Faults <- RelayCrashes
INVARIANTS SeenIsStored
PROPERTIES Convergence Quiescence
