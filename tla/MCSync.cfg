SPECIFICATION Spec
CONSTANTS
  Block = {1, 2, 3}
  LinkMaps <- Shapes
  Storages = {{}, {1}}
  NoBlock = NoBlock
  MaxGossip = 2
  MaxOwn = 1
  MaxLoss = 1
  MaxResets = 1
CHECK_DEADLOCK FALSE
INVARIANTS TypeOK NoLostWakeup RelayOnce
PROPERTY WaitersServed
