SPECIFICATION ChainSpec
CONSTANTS
  Block = {1, 2, 3, 4}
  Time = {0, 4, 5, 8}
  Instants = {4, 12}
  Work = {1, 3}
  MaxLinks = 2
  LinkList <- SomeLinks
  Period = 4
  MaxExtra = 4
  ChunkSize = 2
  MaxStarts = 1
  NoBlock = NoBlock
  Settle = 1
  SyncFix = 0
ACTION_CONSTRAINTS InOrderOfArrival LoadFirst LostFirst StopsEarly
CHECK_DEADLOCK FALSE
INVARIANTS ChainMarked MainHeights ChainWeight
PROPERTY UnwindsOnlyForks
