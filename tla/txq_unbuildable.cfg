SPECIFICATION FairSpec
CONSTANTS
  Row = {r1, r2}
  Unbuildable = {r1}
  MaxRetries = 2
  MaxFaults = 2
PROPERTIES AllSettle
