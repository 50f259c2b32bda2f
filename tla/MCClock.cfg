SPECIFICATION LedgerSpec
CONSTANTS
  Block = {1, 2, 3}
  Time = {7, 8, 12, 13}
  Instants = {7, 8, 12}
  Work = {1, 3}
  MaxLinks = 1
  LinkList <- SomeLinks
  Period = 4
  MaxExtra = 4
  ChunkSize = 2
  MaxStarts = 1
  NoBlock = NoBlock
  Settle = 1
  SyncFix = 1
  START_AMOUNT = 4
  APOLLO_AMOUNT = 2
  APOLLO_HEIGHT = 2
  BIG_PERIOD_LOG = 2
  Amount = {0}
  Fee = {0, 1}
  Ours = {1}
  Modulus = 64
  MaxPaying = 1
ACTION_CONSTRAINTS InOrderOfArrival LoadFirst LostFirst StopsEarly FewPaying FirstPays
CHECK_DEADLOCK FALSE
INVARIANTS LedgerTypeOK ForksForgotten MinesOnBest DistinctFrames
