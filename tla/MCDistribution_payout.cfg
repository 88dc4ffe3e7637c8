SPECIFICATION FairSpec
CONSTANTS
  NumAccounts = 4
  NumMarkets = 2
  BASIS_POINTS_DIVISOR = 10
  SupplyTolerance = 20
  MIN_REWARD_THRESHOLD = 2
  OneToken = 1
  PageSize = 5
  ReceiverOverrides <- Overrides1
  NoStat = NoStat
  Runners = {r1, r2}
  Subgraph <- Subgraph1
  BlockTime <- BlockTime1
  ToTimestamp <- ToTimestamp1
  BlocksPerPeriod = 1
  SecondsPerPeriod = 1
  BatchSize = 2
  NoFile = NoFile
  MaxBalance = 12
  MaxUnusual = 2
INVARIANTS
  TypeOK
  FilesMatchTheirEpoch
  PaidAsFiled
  EachLossCostsOneBatch
  CorrectionsTopUp
PROPERTIES
  SearchFindsTheExactBlock
  StartedAreFinished
ACTION_CONSTRAINT OneThingAfterTheOther
CHECK_DEADLOCK FALSE
