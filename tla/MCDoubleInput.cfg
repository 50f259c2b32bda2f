SPECIFICATION LedgerSpec
CONSTANTS
  Block = {1, 2, 3}
  Time = {0, 4, 8}
  Instants = {12}
  Work = {1}
  MaxLinks = 2
  LinkList <- AnyLinks
  Period = 4
  MaxExtra = 3
  ChunkSize = 2
  MaxStarts = 0
  NoBlock = NoBlock
  Settle = 1
  SyncFix = 0
  START_AMOUNT = 4
  APOLLO_AMOUNT = 2
  APOLLO_HEIGHT = 2
  BIG_PERIOD_LOG = 2
  Amount = {0, 3}
  Fee = {0}
  Ours = {1}
  Modulus = 64
  MaxPaying = 1
ACTION_CONSTRAINTS InOrderOfArrival LoadFirst OneRoot FewPaying
CHECK_DEADLOCK FALSE
INVARIANT Conserved
