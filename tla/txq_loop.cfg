SPECIFICATION FairSpec
CONSTANTS
  Row = {r1, r2, r3}
  Unbuildable = {r3}
  MaxRetries = 2
  MaxFaults = 2
INVARIANTS SentOnce SettledHonestly HeldIsLive NoneForgotten
PROPERTIES SettledForGood Settles
