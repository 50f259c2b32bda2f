SPECIFICATION LedgerSpec
CONSTANTS
  Block = {1, 2, 3, 4}
  Time = {0, 1, 4, 8}
  Instants = {12}
  Work = {1, 3}
  MaxLinks = 2
  LinkList <- AnyLinks
  Period = 4
  MaxExtra = 4
  ChunkSize = 2
  MaxStarts = 0
  NoBlock = NoBlock
  Settle = 1
  SyncFix = 0
  START_AMOUNT = 4
  APOLLO_AMOUNT = 2
  APOLLO_HEIGHT = 2
  BIG_PERIOD_LOG = 2
  Amount = {0, 3}
  Fee = {0}
  Ours = {1}
  Modulus = 64
  MaxPaying = 2
ACTION_CONSTRAINTS InOrderOfArrival LoadFirst OneRoot HeavyLast FewPaying LastMovesNothing OneInputEach
CHECK_DEADLOCK FALSE
INVARIANTS Conserved MainRefExact ForksForgotten
