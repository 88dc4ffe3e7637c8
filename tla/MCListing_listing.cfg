SPECIFICATION FairSpec
CONSTANTS
  Undefined = Undefined
  BigZero = BigZero
  Networks = {"rolluxtest", "avalancheFuji"}
  First = 1
  Final = 2
  Tracked = {"VIRTUAL_MARKET_ID", "VIRTUAL_TOKEN_ID", "MAX_POOL_AMOUNT",
             "MAX_POOL_AMOUNT_FOR_DEPOSIT", "MIN_COLLATERAL_FACTOR", "MAX_OPEN_INTEREST",
             "RESERVE_FACTOR", "OPEN_INTEREST_RESERVE_FACTOR", "TOKEN_TRANSFER_GAS_LIMIT",
             "IS_MARKET_DISABLED", "POSITION_IMPACT_POOL_DISTRIBUTION_RATE",
             "MIN_POSITION_IMPACT_POOL_AMOUNT", "MAX_UI_FEE_FACTOR"}
  MaxUnits = 1
  MaxUnusual = 1
INVARIANTS
  InventoriesTrackTheMarkets
  PositionsNeedCollateral
  ScriptsAgree
PROPERTIES
  EveryMarketIsListed
