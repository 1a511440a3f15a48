\* Length 6 with Overhead 1 makes 3 fragments at threshold 3, and 2 at 4 and 5,
\* cut in different places.
SPECIFICATION FairSpec
CONSTANTS
  Threshold = {3, 4}
  Length = 6
  Overhead = 1
  MaxFragments = 255
  CollectorTicks = 2
  SeenTicks = 4
  MaxFaults = 1
INVARIANTS Intact SeenCoversCollector
PROPERTIES NotTwice ReassembledAfterLoss
