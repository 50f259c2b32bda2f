SPECIFICATION Spec
CONSTANTS
  Block = {1, 2, 3}
  Time = {0, 1, 3}
  Work = {1}
  MaxLinks = 2
  LinkList <- SomeLinks
  Period = 2
  MaxExtra = 0
  ChunkSize = 2
  MaxStarts = 1
ACTION_CONSTRAINT InOrderOfArrival
CHECK_DEADLOCK FALSE
INVARIANTS TypeOK OrphanLists LinksInMemory UnionSafe NothingUnsaved StoredInOrder
PROPERTY ReloadComplete
