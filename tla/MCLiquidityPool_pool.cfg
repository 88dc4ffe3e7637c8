SPECIFICATION Spec
CONSTANTS
  Long = "wnt"
  Short = "usd"
  Wnt = "wnt"
  MarketToken = "gm"
  Precision = 20
  FloatToWeiDivisor = 2
  SwapFeeFactor <- SwapFees1
  SwapFeeReceiverFactor = 10
  UiFeeFactor = 1
  MaxPnlFactor <- PnlFactors
  ReserveFactor = 20
  MaxPoolAmount = 1000
  MaxPoolAmountForDeposit = 800
  MinMarketTokensForFirstDeposit = 0
  MinExecutionFee = 1
  Conditions <- AllConditions
  PriceImpacts <- Impacts
  Minimums = {0}
  SwapAmounts = {9, 200}
  InitialMarkets <- ManyMarkets
  MaxRequests = 1
  MaxCredit = 200
  TransferAmounts = {200}
INVARIANTS
  TypeOK
  MarketCoversAccounts
  RoundTripsDoNotPay
PROPERTY
  SharesKeepTheirValue
CHECK_DEADLOCK FALSE
