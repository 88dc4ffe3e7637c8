--------------------------- MODULE MarketConfigs ---------------------------
(***************************************************************************)
(* The markets, tokens and general settings that config/*.ts gives each    *)
(* network.                                                                *)
(*                                                                         *)
(* Of a number only the sign is kept: 1 stands for every positive number,  *)
(* so that a market does not repeat a field whose positive number it       *)
(* changes.  The literal 0 and a BigNumber of value 0 are different: the   *)
(* first is false in a condition and the second is true.                   *)
(***************************************************************************)
EXTENDS Integers, Sequences, FiniteSets, TLC

CONSTANTS
  Undefined,  \* what a missing field of an object is
  BigZero     \* a BigNumber of value 0

HashZero == "0x00"

\* Every one of some fields with the same value.
Each(fields, value) == [f \in fields |-> value]

(***************************************************************************)
(* The fields of a market's configuration.                                 *)
(***************************************************************************)
BothSides(names) == {n \o "Longs" : n \in names} \union {n \o "Shorts" : n \in names}

ReserveFields == BothSides({"reserveFactor", "openInterestReserveFactor"})
PnlFields == BothSides({"maxPnlFactorForTraders", "maxPnlFactorForAdl", "minPnlFactorAfterAdl",
                        "maxPnlFactorForDeposits", "maxPnlFactorForWithdrawals"})
PoolFields == {"maxLongTokenPoolAmount", "maxShortTokenPoolAmount",
               "maxLongTokenPoolAmountForDeposit", "maxShortTokenPoolAmountForDeposit"}
OpenInterestFields == {"maxOpenInterestForLongs", "maxOpenInterestForShorts"}
MultiplierFields == {"minCollateralFactorForOpenInterestMultiplierLong",
                     "minCollateralFactorForOpenInterestMultiplierShort"}
MaxImpactFields == {"negativeMaxPositionImpactFactor", "positiveMaxPositionImpactFactor",
                    "maxPositionImpactFactorForLiquidations"}
SwapFields == {"swapFeeFactorForPositiveImpact", "swapFeeFactorForNegativeImpact",
               "negativeSwapImpactFactor", "positiveSwapImpactFactor"}
BorrowingFields == {"borrowingFactorForLongs", "borrowingFactorForShorts"}
AdaptiveFundingFields == {"fundingIncreaseFactorPerSecond", "fundingDecreaseFactorPerSecond",
                          "thresholdForStableFunding", "thresholdForDecreaseFunding",
                          "minFundingFactorPerSecond", "maxFundingFactorPerSecond"}
DistributionFields == {"positionImpactPoolDistributionRate", "minPositionImpactPoolAmount"}

\* The fields the base configuration gives a number other than 0: all but the
\* limits of the open interest, which BaseMarketConfig declares as well.
BaseFields ==
  ReserveFields \union PnlFields \union PoolFields \union MaxImpactFields \union SwapFields
  \union BorrowingFields \union
  {"minCollateralFactor", "positionFeeFactorForPositiveImpact",
   "positionFeeFactorForNegativeImpact", "negativePositionImpactFactor",
   "positivePositionImpactFactor", "positionImpactExponentFactor",
   "swapImpactExponentFactor", "borrowingExponentFactorForLongs",
   "borrowingExponentFactorForShorts", "fundingFactor", "fundingExponentFactor",
   "minCollateralUsd"}

baseMarketConfig ==
  Each(BaseFields, 1) @@ Each(MultiplierFields \union AdaptiveFundingFields \union DistributionFields, 0)

synthethicMarketConfig == Each(ReserveFields \union PnlFields, 1)

stablecoinSwapMarketConfig == Each(SwapFields, 1)

hardhatBaseMarketConfig ==
  Each(ReserveFields \union PnlFields \union PoolFields \union OpenInterestFields
       \union MaxImpactFields \union {"minCollateralFactor"}, 1)
  @@ Each(MultiplierFields, 0)

(***************************************************************************)
(* The lists.  A market of swaps only has no index token.                  *)
(***************************************************************************)
Perp(indexToken, longToken, shortToken, config) ==
  [tokens |-> <<indexToken, longToken, shortToken>>, swapOnly |-> FALSE, config |-> config]
Spot(longToken, shortToken, config) ==
  [tokens |-> <<longToken, shortToken>>, swapOnly |-> TRUE, config |-> config]

NoFields == <<>>
MarketId(id) == "virtualMarketId" :> id
TokenId(id) == "virtualTokenIdForIndexToken" :> id
Ids(name) == TokenId("PERP:" \o name) @@ MarketId("SPOT:" \o name)
Distribution == Each(DistributionFields, 1)
Disabled == "isDisabled" :> TRUE
Enabled == "isDisabled" :> FALSE

\* What every perpetual market of the main networks adds to the base configuration.
Own ==
  Each(OpenInterestFields \union MultiplierFields \union AdaptiveFundingFields, 1)
Unused == Each({"fundingDecreaseFactorPerSecond", "thresholdForDecreaseFunding"}, BigZero)

Major(name) == Unused @@ Own @@ baseMarketConfig @@ Ids(name)
Synthetic(name) == Unused @@ Own @@ synthethicMarketConfig @@ baseMarketConfig @@ Ids(name)
Stable == stablecoinSwapMarketConfig @@ baseMarketConfig

rolluxtest ==
  <<Perp("BTC", "BTC", "USDT", Distribution @@ Major("BTC/USD")),
    Perp("ETH", "ETH", "USDT", Distribution @@ Major("ETH/USD"))>>

ArbitrumFirst ==
  <<Perp("BTC", "WBTC.e", "USDC", Distribution @@ Major("BTC/USD")),
    Perp("WETH", "WETH", "USDC", Distribution @@ Major("ETH/USD")),
    Perp("XRP", "WETH", "USDC", Distribution @@ Synthetic("XRP/USD"))>>
ArbitrumSecond ==
  <<Perp("DOGE", "WETH", "USDC", Distribution @@ Synthetic("DOGE/USD")),
    Perp("SOL", "SOL", "USDC", Distribution @@ Major("SOL/USD")),
    Perp("LTC", "WETH", "USDC", Distribution @@ Synthetic("LTC/USD"))>>
ArbitrumThird ==
  <<Perp("UNI", "UNI", "USDC", Distribution @@ Major("UNI/USD")),
    Perp("LINK", "LINK", "USDC", Distribution @@ Major("LINK/USD")),
    Perp("ARB", "ARB", "USDC", Distribution @@ Major("ARB/USD"))>>
ArbitrumSwaps ==
  <<Spot("USDC", "USDC.e", Stable), Spot("USDC", "USDT", Stable), Spot("USDC", "DAI", Stable)>>
arbitrum == ArbitrumFirst \o ArbitrumSecond \o ArbitrumThird \o ArbitrumSwaps

AvalancheFirst ==
  <<Perp("BTC.b", "BTC.b", "USDC", Major("BTC/USD")),
    Perp("WETH.e", "WETH.e", "USDC", Major("ETH/USD")),
    Perp("XRP", "WAVAX", "USDC", Synthetic("XRP/USD"))>>
AvalancheSecond ==
  <<Perp("DOGE", "WAVAX", "USDC", Synthetic("DOGE/USD")),
    Perp("SOL", "SOL", "USDC", Major("SOL/USD")),
    Perp("LTC", "WAVAX", "USDC", Synthetic("LTC/USD"))>>
AvalancheThird ==
  <<Perp("WAVAX", "WAVAX", "USDC", Distribution @@ Major("AVAX/USD")),
    Spot("USDC", "USDT.e", Stable), Spot("USDC", "USDC.e", Stable),
    Spot("USDT", "USDT.e", Stable), Spot("USDC", "DAI.e", Stable)>>
avalanche == AvalancheFirst \o AvalancheSecond \o AvalancheThird

arbitrumGoerli ==
  <<Perp("WETH", "WETH", "USDC", Each(AdaptiveFundingFields, 1) @@ MarketId("0x0453")),
    Perp("WETH", "WETH", "DAI", MarketId(HashZero)),
    Perp("WETH", "USDC", "USDC", NoFields), Perp("BTC", "WBTC", "USDC", NoFields),
    Perp("WBTC", "WBTC", "USDC", MarketId("0x1111") @@ TokenId("0x0453")
                                 @@ ("positionImpactPoolDistributionRate" :> 1)),
    Perp("WBTC", "WBTC", "DAI", NoFields), Perp("SOL", "WBTC", "USDC", Enabled),
    Spot("USDC", "USDT", NoFields),
    Perp("DOGE", "WBTC", "DAI", Distribution), Perp("LINK", "WBTC", "DAI", NoFields),
    Perp("BNB", "WBTC", "DAI", Disabled), Perp("ADA", "WBTC", "DAI", Disabled),
    Perp("TRX", "WBTC", "DAI", Disabled), Perp("MATIC", "WBTC", "USDC", Disabled),
    Perp("DOT", "WBTC", "USDC", Disabled), Perp("UNI", "WBTC", "USDC", Disabled),
    Perp("TEST", "WBTC", "USDC", Enabled),
    Perp("WBTC", "USDC", "USDT", NoFields), Perp("WETH", "USDC", "DAI", NoFields)>>

avalancheFuji ==
  <<Perp("WAVAX", "WAVAX", "USDC", NoFields),
    Perp("WETH", "WETH", "USDC",
         Distribution @@ Each(OpenInterestFields, 1) @@ MarketId("0x0453")),
    Perp("WETH", "WETH", "DAI", MarketId("SPOT:AVAX/USD") @@ TokenId("0x275d")),
    Perp("WETH", "USDC", "USDC", TokenId("0x275d")),
    Perp("WBTC", "WBTC", "USDC", MarketId("0x1111") @@ TokenId("0x0453")),
    Perp("WBTC", "WBTC", "DAI", MarketId("0x1111")),
    Perp("SOL", "WETH", "USDC", MarketId("0x0453")),
    Spot("USDC", "USDT", NoFields),
    Perp("DOGE", "WETH", "DAI", Distribution), Perp("LINK", "WETH", "DAI", NoFields),
    Perp("BNB", "WETH", "DAI", NoFields), Perp("ADA", "WETH", "DAI", NoFields),
    Perp("TRX", "WETH", "DAI", NoFields), Perp("MATIC", "WETH", "USDC", NoFields),
    Perp("DOT", "WETH", "USDC", NoFields), Perp("UNI", "WETH", "USDC", NoFields),
    Perp("TEST", "WETH", "USDC", NoFields),
    Perp("WBTC", "USDC", "USDT", NoFields), Perp("WETH", "USDC", "DAI", NoFields)>>

hardhat ==
  <<Perp("WETH", "WETH", "USDC", NoFields), Perp("WETH", "WETH", "USDT", NoFields),
    Spot("WETH", "USDC", NoFields), Perp("WBTC", "WBTC", "USDC", NoFields),
    Perp("SOL", "WETH", "USDC", NoFields), Perp("WETH", "USDC", "USDC", NoFields)>>

localhost ==
  <<Perp("WETH", "WETH", "USDC", NoFields), Spot("WETH", "USDC", NoFields),
    Perp("SOL", "WETH", "USDC", NoFields)>>

Lists ==
  [rolluxtest |-> rolluxtest, arbitrum |-> arbitrum, avalanche |-> avalanche,
   arbitrumGoerli |-> arbitrumGoerli, avalancheFuji |-> avalancheFuji,
   hardhat |-> hardhat, localhost |-> localhost]

(***************************************************************************)
(* What the file's function makes of a list on a network.                  *)
(***************************************************************************)
Tokens(wrapped, real, synthetic, realtime) ==
  [wrapped |-> wrapped, real |-> real \union {wrapped}, synthetic |-> synthetic,
   realtime |-> realtime]

rolluxtestTokens ==
  LET real == {"SYS", "USDT", "USDC", "ETH", "BTC", "PSYS"} IN Tokens("SYS", real, {}, real)

arbitrumTokens ==
  LET real == {"WETH", "WBTC.e", "SOL", "UNI", "LINK", "ARB", "USDC", "USDC.e", "USDT", "DAI"}
      synthetic == {"BTC", "XRP", "DOGE", "LTC"}
  IN Tokens("WETH", real, synthetic, real \union synthetic)

avalancheTokens ==
  Tokens("WAVAX", {"BTC.b", "WETH.e", "SOL", "USDC", "USDC.e", "USDT", "USDT.e", "DAI.e"},
         {"XRP", "DOGE", "LTC"}, {})

OnlyTraded == {"SOL", "TEST", "BNB", "DOGE", "LINK", "ADA", "DOT", "MATIC", "UNI", "TRX"}

arbitrumGoerliTokens ==
  Tokens("WETH", {"WBTC", "USDC", "USDT", "DAI"}, OnlyTraded \union {"BTC"},
         {"WETH", "BTC", "WBTC", "USDC", "USDT", "DAI", "BNB", "DOGE", "LINK"})

avalancheFujiTokens == Tokens("WAVAX", {"WBTC", "USDC", "USDT", "DAI", "WETH"}, OnlyTraded, {})

hardhatTokens == Tokens("WETH", {"WBTC", "USDC", "USDT"}, {"SOL"}, {})
localhostTokens == Tokens("WETH", {"WBTC", "USDC", "USDT"}, {"SOL"}, {})

tokens ==
  [rolluxtest |-> rolluxtestTokens, arbitrum |-> arbitrumTokens, avalanche |-> avalancheTokens,
   arbitrumGoerli |-> arbitrumGoerliTokens, avalancheFuji |-> avalancheFujiTokens,
   hardhat |-> hardhatTokens, localhost |-> localhostTokens]

defaultMarketConfig(chain) ==
  IF chain = "hardhat" THEN hardhatBaseMarketConfig ELSE baseMarketConfig

\* The function throws for two markets of the same tokens and for unknown tokens.
Accepted(chain, list) ==
  /\ \A i, j \in DOMAIN list : list[i].tokens = list[j].tokens => i = j
  /\ \A i \in DOMAIN list : \A k \in DOMAIN list[i].tokens :
       list[i].tokens[k] \in tokens[chain].real \union tokens[chain].synthetic

getMarkets(chain, list) ==
  [i \in DOMAIN list |->
     [list[i] EXCEPT !.config = @ @@ defaultMarketConfig(chain)]]
=============================================================================
