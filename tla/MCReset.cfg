SPECIFICATION Spec
CONSTANTS
  Block = {1, 2}
  Time = {1, 2, 3}
  Work = {1}
  MaxLinks = 1
  LinkList <- SomeLinks
  Period = 2
  MaxExtra = 1
  ChunkSize = 2
  MaxStarts = 1
ACTION_CONSTRAINT InOrderOfArrival
CHECK_DEADLOCK FALSE
PROPERTY ReloadAfterReset
