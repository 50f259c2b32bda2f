SPECIFICATION LedgerSpec
CONSTANTS
  Block = {1, 2, 3, 4}
  Time = {0, 1, 4}
  Instants = {12}
  Work = {1, 3, 5}
  MaxLinks = 1
  LinkList <- SomeLinks
  Period = 4
  MaxExtra = 4
  ChunkSize = 2
  MaxStarts = 0
  NoBlock = NoBlock
  Settle = 1
  SyncFix = 0
  START_AMOUNT = 4
  APOLLO_AMOUNT = 2
  APOLLO_HEIGHT = 2
  BIG_PERIOD_LOG = 2
  Amount = {0}
  Fee = {0, 1}
  Ours = {1}
  Modulus = 64
  MaxPaying = 1
ACTION_CONSTRAINTS InOrderOfArrival LoadFirst FewPaying
CHECK_DEADLOCK FALSE
INVARIANT Conserved
