SPECIFICATION Spec
CONSTANTS
  Accounts = {alice, bob}
  Nobody = nobody
  OrderKeepers = {keeper}
  FrozenOrderKeepers = {keeper}
  Tokens = {"wnt", "usd"}
  Wnt = "wnt"
  CreatableTypes = {"MarketIncrease", "LimitSwap", "LimitDecrease"}
  ForcedTypes = {"Liquidation"}
  Switches <- NoSwitches
  MinExecutionFee = 1
  RequestExpirationBlockAge = 0
  HeartbeatDuration = 0
  MaxOrders = 2
  MaxBlock = 1
  LastCreationBlock = 1
  MaxBalance = 2
  MaxObservations = 1
SYMMETRY Traders
INVARIANTS
  TypeOK
  VaultCoversBook
  IndexesAgree
  RestingOrdersAreServable
  NothingOutlivesTheTransaction
PROPERTIES
  OnlyTheHandledOrderMoves
  ImplementsEscrow
CHECK_DEADLOCK FALSE
