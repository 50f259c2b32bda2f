SPECIFICATION Spec
CONSTANTS
  Block = {1, 2, 3, 4}
  Time = {1, 2, 3, 5}
  Work = {1}
  MaxLinks = 2
  LinkList <- SomeLinks
  Period = 2
  MaxExtra = 1
  ChunkSize = 2
  MaxStarts = 0
ACTION_CONSTRAINT InOrderOfArrival
CHECK_DEADLOCK FALSE
INVARIANT NoCritical
