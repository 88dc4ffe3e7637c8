SPECIFICATION AbandonedSpec
CONSTANTS
  Accounts = {alice}
  Nobody = nobody
  OrderKeepers = {keeper}
  FrozenOrderKeepers = {}
  Tokens = {"wnt"}
  Wnt = "wnt"
  CreatableTypes = {"MarketDecrease", "LimitDecrease"}
  ForcedTypes = {}
  Switches <- ExecuteSwitches
  MinExecutionFee = 1
  RequestExpirationBlockAge = 1
  HeartbeatDuration = 0
  MaxOrders = 2
  MaxBlock = 2
  LastCreationBlock = 1
  MaxBalance = 1
  MaxObservations = 1
PROPERTIES
  OwnersCanLeave
CHECK_DEADLOCK FALSE
