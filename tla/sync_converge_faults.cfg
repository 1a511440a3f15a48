SPECIFICATION FairSpec
CONSTANTS
  n1 = n1
  n2 = n2
  n3 = n3
  a1 = a1
  a2 = a2
  Node = {n1, n2}
  MsgId = {a1}
  IdsOf <- OnePost
  Hears <- Pair
  MaxSeq = 1
  MaxSvec = 1
  Faults <- BothFail
PROPERTIES Convergence
