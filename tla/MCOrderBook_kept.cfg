SPECIFICATION KeptSpec
CONSTANTS
  Accounts = {alice}
  Nobody = nobody
  OrderKeepers = {keeper, frozenKeeper}
  FrozenOrderKeepers = {frozenKeeper}
  Tokens = {"wnt"}
  Wnt = "wnt"
  CreatableTypes = {"MarketDecrease", "MarketIncrease"}
  ForcedTypes = {}
  Switches <- NoSwitches
  MinExecutionFee = 1
  RequestExpirationBlockAge = 1
  HeartbeatDuration = 1
  MaxOrders = 2
  MaxBlock = 2
  LastCreationBlock = 1
  MaxBalance = 2
  MaxObservations = 1
PROPERTIES
  MarketOrdersAreServed
CHECK_DEADLOCK FALSE
