SPECIFICATION Spec
CONSTANTS
  Long = "eth"
  Short = "usd"
  Wnt = "wnt"
  MarketToken = "gm"
  Precision = 20
  FloatToWeiDivisor = 2
  SwapFeeFactor <- SwapFees1
  SwapFeeReceiverFactor = 10
  UiFeeFactor = 1
  MaxPnlFactor <- PnlFactors
  ReserveFactor = 20
  MaxPoolAmount = 100
  MaxPoolAmountForDeposit = 80
  MinMarketTokensForFirstDeposit = 0
  MinExecutionFee = 1
  Conditions <- QuietConditions
  PriceImpacts <- NoImpact
  Minimums = {0}
  SwapAmounts <- NoSwaps
  InitialMarkets <- OneMarket
  MaxRequests = 2
  MaxCredit = 20
  TransferAmounts = {20}
INVARIANT
  VaultsCoverRequests
PROPERTIES
  DepositsAreEscrowed
  WithdrawalsAreEscrowed
CHECK_DEADLOCK FALSE
