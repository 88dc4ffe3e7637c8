--------------------------- MODULE MarketSettings ---------------------------
(***************************************************************************)
(* The values that the scripts write to the DataStore: the deployment of   *)
(* markets and general settings, which the deployer runs while it is a     *)
(* controller, and the updates, which a config keeper sends through the    *)
(* Config contract.                                                        *)
(*                                                                         *)
(* A key is the tuple its hash is made of, a market is the tuple of its    *)
(* tokens.  A script is the sequence of its writes [key, value], in the    *)
(* order of its code; a missing value is Undefined.                        *)
(***************************************************************************)
EXTENDS MarketConfigs, SequencesExt

\* A key that the Config contract puts together from a base key and encoded data.
getFullKey(baseKey, data) == <<baseKey>> \o data

(***************************************************************************)
(* Keys.                                                                   *)
(***************************************************************************)
isMarketDisabledKey(market) == <<"IS_MARKET_DISABLED", market>>
virtualMarketIdKey(market) == <<"VIRTUAL_MARKET_ID", market>>
virtualTokenIdKey(token) == <<"VIRTUAL_TOKEN_ID", token>>
virtualInventoryForSwapsKey(id, isLongToken) == <<"VIRTUAL_INVENTORY_FOR_SWAPS", id, isLongToken>>
virtualInventoryForPositionsKey(id) == <<"VIRTUAL_INVENTORY_FOR_POSITIONS", id>>
poolAmountKey(market, token) == <<"POOL_AMOUNT", market, token>>
maxPoolAmountKey(market, token) == <<"MAX_POOL_AMOUNT", market, token>>
maxPoolAmountForDepositKey(market, token) == <<"MAX_POOL_AMOUNT_FOR_DEPOSIT", market, token>>
openInterestKey(market, isLong) == <<"OPEN_INTEREST", market, isLong>>
maxOpenInterestKey(market, isLong) == <<"MAX_OPEN_INTEREST", market, isLong>>
tokenTransferGasLimit(token) == <<"TOKEN_TRANSFER_GAS_LIMIT", token>>
minCollateralFactorKey(market) == <<"MIN_COLLATERAL_FACTOR", market>>
minCollateralFactorForOpenInterestMultiplierKey(market, isLong) ==
  <<"MIN_COLLATERAL_FACTOR_FOR_OPEN_INTEREST_MULTIPLIER", market, isLong>>
reserveFactorKey(market, isLong) == <<"RESERVE_FACTOR", market, isLong>>
openInterestReserveFactorKey(market, isLong) == <<"OPEN_INTEREST_RESERVE_FACTOR", market, isLong>>
maxPnlFactorKey(type, market, isLong) == <<"MAX_PNL_FACTOR", type, market, isLong>>
minPnlFactorAfterAdl(market, isLong) == <<"MIN_PNL_FACTOR_AFTER_ADL", market, isLong>>
swapImpactExponentFactorKey(market) == <<"SWAP_IMPACT_EXPONENT_FACTOR", market>>
swapFeeFactorKey(market, forPositiveImpact) == <<"SWAP_FEE_FACTOR", market, forPositiveImpact>>
swapImpactFactorKey(market, isPositive) == <<"SWAP_IMPACT_FACTOR", market, isPositive>>
positionImpactExponentFactorKey(market) == <<"POSITION_IMPACT_EXPONENT_FACTOR", market>>
positionImpactFactorKey(market, isPositive) == <<"POSITION_IMPACT_FACTOR", market, isPositive>>
maxPositionImpactFactorKey(market, isPositive) == <<"MAX_POSITION_IMPACT_FACTOR", market, isPositive>>
maxPositionImpactFactorForLiquidationsKey(market) ==
  <<"MAX_POSITION_IMPACT_FACTOR_FOR_LIQUIDATIONS", market>>
positionFeeFactorKey(market, forPositiveImpact) == <<"POSITION_FEE_FACTOR", market, forPositiveImpact>>
fundingFactorKey(market) == <<"FUNDING_FACTOR", market>>
fundingExponentFactorKey(market) == <<"FUNDING_EXPONENT_FACTOR", market>>
fundingIncreaseFactorPerSecondKey(market) == <<"FUNDING_INCREASE_FACTOR_PER_SECOND", market>>
fundingDecreaseFactorPerSecondKey(market) == <<"FUNDING_DECREASE_FACTOR_PER_SECOND", market>>
minFundingFactorPerSecondKey(market) == <<"MIN_FUNDING_FACTOR_PER_SECOND", market>>
maxFundingFactorPerSecondKey(market) == <<"MAX_FUNDING_FACTOR_PER_SECOND", market>>
thresholdForStableFundingKey(market) == <<"THRESHOLD_FOR_STABLE_FUNDING", market>>
thresholdForDecreaseFundingKey(market) == <<"THRESHOLD_FOR_DECREASE_FUNDING", market>>
borrowingFactorKey(market, isLong) == <<"BORROWING_FACTOR", market, isLong>>
borrowingExponentFactorKey(market, isLong) == <<"BORROWING_EXPONENT_FACTOR", market, isLong>>
positionImpactPoolDistributionRateKey(market) == <<"POSITION_IMPACT_POOL_DISTRIBUTION_RATE", market>>
minPositionImpactPoolAmountKey(market) == <<"MIN_POSITION_IMPACT_POOL_AMOUNT", market>>
depositGasLimitKey(singleToken) == <<"DEPOSIT_GAS_LIMIT", singleToken>>
withdrawalGasLimitKey == <<"WITHDRAWAL_GAS_LIMIT">>

(***************************************************************************)
(* The general settings, by network.                                       *)
(***************************************************************************)
GasEstimates ==
  {"depositGasLimitSingle", "depositGasLimitMultiple", "withdrawalGasLimit", "singleSwapGasLimit",
   "increaseOrderGasLimit", "decreaseOrderGasLimit", "swapOrderGasLimit",
   "estimatedGasFeeBaseAmount", "estimatedGasFeeMultiplierFactor", "executionGasFeeBaseAmount",
   "executionGasFeeMultiplierFactor"}
FeeShares == {"positionFeeReceiverFactor", "swapFeeReceiverFactor", "borrowingFeeReceiverFactor"}
Limits ==
  {"maxUiFeeFactor", "minHandleExecutionErrorGas", "minHandleExecutionErrorGasToForward",
   "minAdditionalGasForExecution", "tokenTransferGasLimit", "nativeTokenTransferGasLimit",
   "maxSwapPathLength", "maxCallbackGasLimit", "minCollateralUsd", "minPositionSizeUsd",
   "claimableCollateralTimeDivisor"}

hardhatGeneral ==
  Each(Limits, 1) @@ Each(GasEstimates \union FeeShares \union {"feeReceiver", "holdingAddress"}, 0)
  @@ ("skipBorrowingFeeForSmallerSide" :> FALSE)
liveGeneral ==
  Each(Limits \union GasEstimates \union FeeShares \union {"feeReceiver", "holdingAddress"}, 1)
  @@ ("skipBorrowingFeeForSmallerSide" :> TRUE)

\* A live network without an entry of its own is refused: localhost is.
GeneralNetworks ==
  {"hardhat", "arbitrumGoerli", "avalancheFuji", "arbitrum", "avalanche", "zktest", "rolluxtest"}
getGeneral(chain) ==
  IF chain = "hardhat" THEN hardhatGeneral
  ELSE liveGeneral @@ ("requestExpirationBlockAge" :> 1)

(***************************************************************************)
(* Writes.  A script skips a value that is false in a condition, or writes *)
(* it whatever it is.                                                      *)
(***************************************************************************)
Field(config, name) == IF name \in DOMAIN config THEN config[name] ELSE Undefined
Write(key, value) == <<[key |-> key, value |-> value]>>
IfDefined(key, value) == IF value = Undefined THEN <<>> ELSE Write(key, value)
IfGiven(key, value) == IF value = Undefined \/ value = 0 THEN <<>> ELSE Write(key, value)

(***************************************************************************)
(* deployAndConfigureMarkets: the settings of one market.  The ids come    *)
(* first, so that nobody trades before they are set.                       *)
(***************************************************************************)
longOf(m) == m.tokens[Len(m.tokens) - 1]
shortOf(m) == m.tokens[Len(m.tokens)]

DeployIds(m, config) ==
  IfDefined(virtualMarketIdKey(m.tokens), Field(config, "virtualMarketId"))
  \o IfDefined(virtualTokenIdKey(m.tokens[1]), Field(config, "virtualTokenIdForIndexToken"))

DeployCaps(m, config) ==
  Write(maxPoolAmountKey(m.tokens, longOf(m)), Field(config, "maxLongTokenPoolAmount"))
  \o Write(maxPoolAmountKey(m.tokens, shortOf(m)), Field(config, "maxShortTokenPoolAmount"))
  \o Write(maxPoolAmountForDepositKey(m.tokens, longOf(m)),
           Field(config, "maxLongTokenPoolAmountForDeposit"))
  \o Write(maxPoolAmountForDepositKey(m.tokens, shortOf(m)),
           Field(config, "maxShortTokenPoolAmountForDeposit"))

DeploySwap(m, config) ==
  IfGiven(swapImpactExponentFactorKey(m.tokens), Field(config, "swapImpactExponentFactor"))
  \o IfDefined(isMarketDisabledKey(m.tokens), Field(config, "isDisabled"))
  \o IfGiven(swapFeeFactorKey(m.tokens, TRUE), Field(config, "swapFeeFactorForPositiveImpact"))
  \o IfGiven(swapFeeFactorKey(m.tokens, FALSE), Field(config, "swapFeeFactorForNegativeImpact"))
  \o IfGiven(swapImpactFactorKey(m.tokens, TRUE), Field(config, "positiveSwapImpactFactor"))
  \o IfGiven(swapImpactFactorKey(m.tokens, FALSE), Field(config, "negativeSwapImpactFactor"))

DeployPnlFactors(m, config) ==
  Write(maxPnlFactorKey("TRADERS", m.tokens, TRUE), Field(config, "maxPnlFactorForTradersLongs"))
  \o Write(maxPnlFactorKey("TRADERS", m.tokens, FALSE), Field(config, "maxPnlFactorForTradersShorts"))
  \o Write(maxPnlFactorKey("ADL", m.tokens, TRUE), Field(config, "maxPnlFactorForAdlLongs"))
  \o Write(maxPnlFactorKey("ADL", m.tokens, FALSE), Field(config, "maxPnlFactorForAdlShorts"))
  \o Write(minPnlFactorAfterAdl(m.tokens, TRUE), Field(config, "minPnlFactorAfterAdlLongs"))
  \o Write(minPnlFactorAfterAdl(m.tokens, FALSE), Field(config, "minPnlFactorAfterAdlShorts"))
  \o Write(maxPnlFactorKey("DEPOSITS", m.tokens, TRUE), Field(config, "maxPnlFactorForDepositsLongs"))
  \o Write(maxPnlFactorKey("DEPOSITS", m.tokens, FALSE), Field(config, "maxPnlFactorForDepositsShorts"))
  \o Write(maxPnlFactorKey("WITHDRAWALS", m.tokens, TRUE), Field(config, "maxPnlFactorForWithdrawalsLongs"))
  \o Write(maxPnlFactorKey("WITHDRAWALS", m.tokens, FALSE), Field(config, "maxPnlFactorForWithdrawalsShorts"))

DeployLimits(m, config, general) ==
  Write(minCollateralFactorKey(m.tokens), Field(config, "minCollateralFactor"))
  \o Write(minCollateralFactorForOpenInterestMultiplierKey(m.tokens, TRUE),
           Field(config, "minCollateralFactorForOpenInterestMultiplierLong"))
  \o Write(minCollateralFactorForOpenInterestMultiplierKey(m.tokens, FALSE),
           Field(config, "minCollateralFactorForOpenInterestMultiplierShort"))
  \o Write(maxOpenInterestKey(m.tokens, TRUE), Field(config, "maxOpenInterestForLongs"))
  \o Write(maxOpenInterestKey(m.tokens, FALSE), Field(config, "maxOpenInterestForShorts"))
  \o Write(reserveFactorKey(m.tokens, TRUE), Field(config, "reserveFactorLongs"))
  \o Write(reserveFactorKey(m.tokens, FALSE), Field(config, "reserveFactorShorts"))
  \o Write(openInterestReserveFactorKey(m.tokens, TRUE), Field(config, "openInterestReserveFactorLongs"))
  \o Write(openInterestReserveFactorKey(m.tokens, FALSE), Field(config, "openInterestReserveFactorShorts"))
  \o DeployPnlFactors(m, config)
  \o Write(tokenTransferGasLimit(m.tokens), Field(general, "tokenTransferGasLimit"))

DeployFunding(m, config) ==
  IfGiven(positionImpactExponentFactorKey(m.tokens), Field(config, "positionImpactExponentFactor"))
  \o IfGiven(fundingFactorKey(m.tokens), Field(config, "fundingFactor"))
  \o IfGiven(fundingIncreaseFactorPerSecondKey(m.tokens), Field(config, "fundingIncreaseFactorPerSecond"))
  \o IfGiven(fundingDecreaseFactorPerSecondKey(m.tokens), Field(config, "fundingDecreaseFactorPerSecond"))
  \o IfGiven(minFundingFactorPerSecondKey(m.tokens), Field(config, "minFundingFactorPerSecond"))
  \o IfGiven(maxFundingFactorPerSecondKey(m.tokens), Field(config, "maxFundingFactorPerSecond"))
  \o IfGiven(thresholdForStableFundingKey(m.tokens), Field(config, "thresholdForStableFunding"))
  \o IfGiven(thresholdForDecreaseFundingKey(m.tokens), Field(config, "thresholdForDecreaseFunding"))
  \o IfGiven(positionImpactPoolDistributionRateKey(m.tokens), Field(config, "positionImpactPoolDistributionRate"))
  \o IfGiven(minPositionImpactPoolAmountKey(m.tokens), Field(config, "minPositionImpactPoolAmount"))
  \o IfGiven(fundingExponentFactorKey(m.tokens), Field(config, "fundingExponentFactor"))

DeployPositionFees(m, config) ==
  IfGiven(positionFeeFactorKey(m.tokens, TRUE), Field(config, "positionFeeFactorForPositiveImpact"))
  \o IfGiven(positionFeeFactorKey(m.tokens, FALSE), Field(config, "positionFeeFactorForNegativeImpact"))
  \o IfGiven(borrowingFactorKey(m.tokens, TRUE), Field(config, "borrowingFactorForLongs"))
  \o IfGiven(borrowingFactorKey(m.tokens, FALSE), Field(config, "borrowingFactorForShorts"))
  \o IfGiven(borrowingExponentFactorKey(m.tokens, TRUE), Field(config, "borrowingExponentFactorForLongs"))
  \o IfGiven(borrowingExponentFactorKey(m.tokens, FALSE), Field(config, "borrowingExponentFactorForShorts"))
  \o IfGiven(positionImpactFactorKey(m.tokens, TRUE), Field(config, "positivePositionImpactFactor"))
  \o IfGiven(positionImpactFactorKey(m.tokens, FALSE), Field(config, "negativePositionImpactFactor"))
  \o IfGiven(maxPositionImpactFactorForLiquidationsKey(m.tokens), Field(config, "maxPositionImpactFactorForLiquidations"))
  \o IfGiven(maxPositionImpactFactorKey(m.tokens, TRUE), Field(config, "positiveMaxPositionImpactFactor"))
  \o IfGiven(maxPositionImpactFactorKey(m.tokens, FALSE), Field(config, "negativeMaxPositionImpactFactor"))

DeployMarket(m, general) ==
  DeployIds(m, m.config) \o DeployCaps(m, m.config) \o DeploySwap(m, m.config)
  \o (IF m.swapOnly THEN <<>>
      ELSE DeployLimits(m, m.config, general) \o DeployFunding(m, m.config)
           \o DeployPositionFees(m, m.config))

(***************************************************************************)
(* updateMarketConfig: the settings of one market.                         *)
(***************************************************************************)
Keyed(config, baseKey, data, name) == Write(getFullKey(baseKey, data), Field(config, name))

\* A setting of each direction or side: TRUE has the first name, FALSE the second.
KeyedPair(config, baseKey, data, names) ==
  Keyed(config, baseKey, data \o <<TRUE>>, names[1]) \o Keyed(config, baseKey, data \o <<FALSE>>, names[2])
KeyedSides(config, baseKey, data, name) ==
  KeyedPair(config, baseKey, data, <<name \o "Longs", name \o "Shorts">>)

UpdateSwap(m, config, general) ==
  Keyed(config, "MAX_POOL_AMOUNT", <<m.tokens, longOf(m)>>, "maxLongTokenPoolAmount")
  \o Keyed(config, "MAX_POOL_AMOUNT", <<m.tokens, shortOf(m)>>, "maxShortTokenPoolAmount")
  \o Keyed(config, "MAX_POOL_AMOUNT_FOR_DEPOSIT", <<m.tokens, longOf(m)>>, "maxLongTokenPoolAmountForDeposit")
  \o Keyed(config, "MAX_POOL_AMOUNT_FOR_DEPOSIT", <<m.tokens, shortOf(m)>>, "maxShortTokenPoolAmountForDeposit")
  \o Keyed(config, "SWAP_IMPACT_EXPONENT_FACTOR", <<m.tokens>>, "swapImpactExponentFactor")
  \o KeyedPair(config, "SWAP_FEE_FACTOR", <<m.tokens>>,
               <<"swapFeeFactorForPositiveImpact", "swapFeeFactorForNegativeImpact">>)
  \o KeyedPair(config, "SWAP_IMPACT_FACTOR", <<m.tokens>>,
               <<"positiveSwapImpactFactor", "negativeSwapImpactFactor">>)
  \o Keyed(general, "TOKEN_TRANSFER_GAS_LIMIT", <<m.tokens>>, "tokenTransferGasLimit")

UpdateLimits(m, config) ==
  Keyed(config, "MIN_COLLATERAL_FACTOR", <<m.tokens>>, "minCollateralFactor")
  \o KeyedPair(config, "MIN_COLLATERAL_FACTOR_FOR_OPEN_INTEREST_MULTIPLIER", <<m.tokens>>,
               <<"minCollateralFactorForOpenInterestMultiplierLong",
                 "minCollateralFactorForOpenInterestMultiplierShort">>)
  \o KeyedPair(config, "MAX_OPEN_INTEREST", <<m.tokens>>,
               <<"maxOpenInterestForLongs", "maxOpenInterestForShorts">>)
  \o KeyedSides(config, "RESERVE_FACTOR", <<m.tokens>>, "reserveFactor")
  \o KeyedSides(config, "OPEN_INTEREST_RESERVE_FACTOR", <<m.tokens>>, "openInterestReserveFactor")
  \o KeyedSides(config, "MAX_PNL_FACTOR", <<"TRADERS", m.tokens>>, "maxPnlFactorForTraders")
  \o KeyedSides(config, "MAX_PNL_FACTOR", <<"ADL", m.tokens>>, "maxPnlFactorForAdl")
  \o KeyedSides(config, "MIN_PNL_FACTOR_AFTER_ADL", <<m.tokens>>, "minPnlFactorAfterAdl")
  \o KeyedSides(config, "MAX_PNL_FACTOR", <<"DEPOSITS", m.tokens>>, "maxPnlFactorForDeposits")
  \o KeyedSides(config, "MAX_PNL_FACTOR", <<"WITHDRAWALS", m.tokens>>, "maxPnlFactorForWithdrawals")

UpdateFunding(m, config) ==
  Keyed(config, "POSITION_IMPACT_EXPONENT_FACTOR", <<m.tokens>>, "positionImpactExponentFactor")
  \o Keyed(config, "FUNDING_FACTOR", <<m.tokens>>, "fundingFactor")
  \o Keyed(config, "FUNDING_EXPONENT_FACTOR", <<m.tokens>>, "fundingExponentFactor")
  \o Keyed(config, "FUNDING_INCREASE_FACTOR_PER_SECOND", <<m.tokens>>, "fundingIncreaseFactorPerSecond")
  \o Keyed(config, "FUNDING_DECREASE_FACTOR_PER_SECOND", <<m.tokens>>, "fundingDecreaseFactorPerSecond")
  \o Keyed(config, "MIN_FUNDING_FACTOR_PER_SECOND", <<m.tokens>>, "minFundingFactorPerSecond")
  \o Keyed(config, "MAX_FUNDING_FACTOR_PER_SECOND", <<m.tokens>>, "maxFundingFactorPerSecond")
  \o Keyed(config, "THRESHOLD_FOR_STABLE_FUNDING", <<m.tokens>>, "thresholdForStableFunding")
  \o Keyed(config, "THRESHOLD_FOR_DECREASE_FUNDING", <<m.tokens>>, "thresholdForDecreaseFunding")

UpdatePositionFees(m, config) ==
  KeyedPair(config, "POSITION_FEE_FACTOR", <<m.tokens>>,
            <<"positionFeeFactorForPositiveImpact", "positionFeeFactorForNegativeImpact">>)
  \o KeyedPair(config, "BORROWING_FACTOR", <<m.tokens>>,
               <<"borrowingFactorForLongs", "borrowingFactorForShorts">>)
  \o KeyedPair(config, "BORROWING_EXPONENT_FACTOR", <<m.tokens>>,
               <<"borrowingExponentFactorForLongs", "borrowingExponentFactorForShorts">>)
  \o KeyedPair(config, "POSITION_IMPACT_FACTOR", <<m.tokens>>,
               <<"positivePositionImpactFactor", "negativePositionImpactFactor">>)
  \o Keyed(config, "MAX_POSITION_IMPACT_FACTOR_FOR_LIQUIDATIONS", <<m.tokens>>,
           "maxPositionImpactFactorForLiquidations")
  \o KeyedPair(config, "MAX_POSITION_IMPACT_FACTOR", <<m.tokens>>,
               <<"positiveMaxPositionImpactFactor", "negativeMaxPositionImpactFactor">>)

UpdateMarket(m, general) ==
  UpdateSwap(m, m.config, general)
  \o (IF m.swapOnly THEN <<>>
      ELSE UpdateLimits(m, m.config) \o UpdateFunding(m, m.config) \o UpdatePositionFees(m, m.config))

(***************************************************************************)
(* The general settings: configureGeneralSettings and updateGeneralConfig. *)
(***************************************************************************)
\* Settings whose key has no data.
Plain(general, baseKeys, names) ==
  [i \in DOMAIN baseKeys |-> [key |-> <<baseKeys[i]>>, value |-> Field(general, names[i])]]

DeployGeneral(general) ==
  Plain(general,
    <<"FEE_RECEIVER", "HOLDING_ADDRESS", "MAX_UI_FEE_FACTOR", "MIN_HANDLE_EXECUTION_ERROR_GAS",
      "MIN_HANDLE_EXECUTION_ERROR_GAS_TO_FORWARD", "MIN_ADDITIONAL_GAS_FOR_EXECUTION",
      "MAX_CALLBACK_GAS_LIMIT", "MAX_SWAP_PATH_LENGTH", "MIN_COLLATERAL_USD",
      "MIN_POSITION_SIZE_USD", "SWAP_FEE_RECEIVER_FACTOR", "POSITION_FEE_RECEIVER_FACTOR",
      "BORROWING_FEE_RECEIVER_FACTOR", "CLAIMABLE_COLLATERAL_TIME_DIVISOR">>,
    <<"feeReceiver", "holdingAddress", "maxUiFeeFactor", "minHandleExecutionErrorGas",
      "minHandleExecutionErrorGasToForward", "minAdditionalGasForExecution",
      "maxCallbackGasLimit", "maxSwapPathLength", "minCollateralUsd", "minPositionSizeUsd",
      "swapFeeReceiverFactor", "positionFeeReceiverFactor", "borrowingFeeReceiverFactor",
      "claimableCollateralTimeDivisor">>)
  \o Write(depositGasLimitKey(TRUE), Field(general, "depositGasLimitSingle"))
  \o Write(depositGasLimitKey(FALSE), Field(general, "depositGasLimitMultiple"))
  \o Write(withdrawalGasLimitKey, Field(general, "withdrawalGasLimit"))
  \o Plain(general,
       <<"SINGLE_SWAP_GAS_LIMIT", "INCREASE_ORDER_GAS_LIMIT", "DECREASE_ORDER_GAS_LIMIT",
         "SWAP_ORDER_GAS_LIMIT", "NATIVE_TOKEN_TRANSFER_GAS_LIMIT",
         "ESTIMATED_GAS_FEE_BASE_AMOUNT", "ESTIMATED_GAS_FEE_MULTIPLIER_FACTOR",
         "EXECUTION_GAS_FEE_BASE_AMOUNT", "EXECUTION_GAS_FEE_MULTIPLIER_FACTOR",
         "SKIP_BORROWING_FEE_FOR_SMALLER_SIDE">>,
       <<"singleSwapGasLimit", "increaseOrderGasLimit", "decreaseOrderGasLimit",
         "swapOrderGasLimit", "nativeTokenTransferGasLimit", "estimatedGasFeeBaseAmount",
         "estimatedGasFeeMultiplierFactor", "executionGasFeeBaseAmount",
         "executionGasFeeMultiplierFactor", "skipBorrowingFeeForSmallerSide">>)
  \o IfDefined(<<"REQUEST_EXPIRATION_BLOCK_AGE">>, Field(general, "requestExpirationBlockAge"))

UpdateGeneral(general) ==
  Plain(general,
    <<"MAX_UI_FEE_FACTOR", "MIN_HANDLE_EXECUTION_ERROR_GAS",
      "MIN_HANDLE_EXECUTION_ERROR_GAS_TO_FORWARD", "MIN_ADDITIONAL_GAS_FOR_EXECUTION",
      "MAX_CALLBACK_GAS_LIMIT", "MAX_SWAP_PATH_LENGTH", "MIN_COLLATERAL_USD",
      "MIN_POSITION_SIZE_USD", "SWAP_FEE_RECEIVER_FACTOR", "POSITION_FEE_RECEIVER_FACTOR">>,
    <<"maxUiFeeFactor", "minHandleExecutionErrorGas", "minHandleExecutionErrorGasToForward",
      "minAdditionalGasForExecution", "maxCallbackGasLimit", "maxSwapPathLength",
      "minCollateralUsd", "minPositionSizeUsd", "swapFeeReceiverFactor",
      "positionFeeReceiverFactor">>)
  \o Keyed(general, "DEPOSIT_GAS_LIMIT", <<TRUE>>, "depositGasLimitSingle")
  \o Keyed(general, "DEPOSIT_GAS_LIMIT", <<FALSE>>, "depositGasLimitMultiple")
  \o Plain(general,
       <<withdrawalGasLimitKey[1], "SINGLE_SWAP_GAS_LIMIT", "INCREASE_ORDER_GAS_LIMIT",
         "DECREASE_ORDER_GAS_LIMIT", "SWAP_ORDER_GAS_LIMIT", "NATIVE_TOKEN_TRANSFER_GAS_LIMIT",
         "ESTIMATED_GAS_FEE_BASE_AMOUNT", "ESTIMATED_GAS_FEE_MULTIPLIER_FACTOR",
         "EXECUTION_GAS_FEE_BASE_AMOUNT", "EXECUTION_GAS_FEE_MULTIPLIER_FACTOR",
         "REQUEST_EXPIRATION_BLOCK_AGE">>,
       <<"withdrawalGasLimit", "singleSwapGasLimit", "increaseOrderGasLimit",
         "decreaseOrderGasLimit", "swapOrderGasLimit", "nativeTokenTransferGasLimit",
         "estimatedGasFeeBaseAmount", "estimatedGasFeeMultiplierFactor",
         "executionGasFeeBaseAmount", "executionGasFeeMultiplierFactor",
         "requestExpirationBlockAge">>)
=============================================================================
