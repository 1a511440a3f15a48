SPECIFICATION FairSpec
CONSTANTS
  n1 = n1
  n2 = n2
  n3 = n3
  a1 = a1
  a2 = a2
  Node = {n1, n2}
  MsgId = {a1, a2}
  IdsOf <- OnePosts
  Hears <- Pair
  MaxSeq = 2
  MaxSvec = 1
  Faults <- PosterCrashes
INVARIANTS IInv SameMessage
PROPERTIES ClockNeverDrops ImplementsMicroblog Convergence
