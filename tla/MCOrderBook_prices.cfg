SPECIFICATION Spec
CONSTANTS
  Accounts = {alice}
  Nobody = nobody
  OrderKeepers = {keeper, frozenKeeper}
  FrozenOrderKeepers = {frozenKeeper}
  Tokens = {"wnt"}
  Wnt = "wnt"
  CreatableTypes = {"MarketIncrease", "LimitIncrease", "LimitDecrease"}
  ForcedTypes = {"Liquidation", "Adl"}
  Switches <- NoSwitches
  MinExecutionFee = 1
  RequestExpirationBlockAge = 1
  HeartbeatDuration = 1
  MaxOrders = 2
  MaxBlock = 3
  LastCreationBlock = 3
  MaxBalance = 1
  MaxObservations = 2
PROPERTIES
  FrozenOrdersAreReserved
  ExecutedAtFreshPrices
  MarketOrdersBind
CHECK_DEADLOCK FALSE
