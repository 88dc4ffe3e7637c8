SPECIFICATION Spec
CONSTANTS
  Long = "eth"
  Short = "usd"
  Wnt = "wnt"
  MarketToken = "gm"
  Precision = 20
  FloatToWeiDivisor = 2
  SwapFeeFactor <- SwapFees1
  SwapFeeReceiverFactor = 10
  UiFeeFactor = 1
  MaxPnlFactor <- PnlFactors
  ReserveFactor = 20
  MaxPoolAmount = 100
  MaxPoolAmountForDeposit = 80
  MinMarketTokensForFirstDeposit = 30
  MinExecutionFee = 1
  Conditions <- QuietConditions
  PriceImpacts <- NoImpact
  Minimums = {30}
  SwapAmounts <- NoSwaps
  InitialMarkets <- NewMarket
  MaxRequests = 1
  MaxCredit = 20
  TransferAmounts = {20}
PROPERTY
  DepositsMintTheirMinimum
CHECK_DEADLOCK FALSE
