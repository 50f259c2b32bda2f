SPECIFICATION Spec
CONSTANTS
  START_AMOUNT = 1024
  APOLLO_AMOUNT = 128
  APOLLO_HEIGHT = 20
  BIG_PERIOD_LOG = 5
  MaxHeight = 200
INVARIANT SupplyExact
