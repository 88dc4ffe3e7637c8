-------------------------- MODULE MCLiquidityPool --------------------------
(* Instances of LiquidityPool for TLC. *)
EXTENDS LiquidityPoolProperties, TLC

Exactly(n) == [min |-> n, max |-> n]
Spread(m, n) == [min |-> m, max |-> n]
NoInterest == [usd |-> 0, tokens |-> 0]

Market1(long, short, longInterest, shortInterest, fees, impact) ==
  [price |-> Long :> long @@ Short :> short,
   openInterest |-> Long :> longInterest @@ Short :> shortInterest,
   borrowingFees |-> fees, positionImpactPool |-> impact]

\* A quiet market; one with a spread and losing positions; one with long
\* positions whose profits are far above the maximum pnl; one with short positions
\* whose profits are just above it, by less than one unit of the factor.
QuietMarket == Market1(Exactly(2), Exactly(1), NoInterest, NoInterest, 0, 0)
AllConditions ==
  {QuietMarket,
   Market1(Spread(2, 3), Spread(1, 2), [usd |-> 200, tokens |-> 50], NoInterest, 20, 10),
   Market1(Exactly(3), Exactly(1), [usd |-> 30, tokens |-> 330], NoInterest, 0, 0),
   Market1(Exactly(1), Exactly(1), NoInterest, [usd |-> 360, tokens |-> 50], 0, 30)}
QuietConditions == {QuietMarket}

\* Markets that traders have used: profits, losses and swaps may have left any
\* amounts in the pool for any supply.
UsedMarket(long, short, supply) ==
  [pool |-> Long :> long @@ Short :> short, swapImpactPool |-> Long :> 20 @@ Short :> 30,
   claimableFees |-> Nothing, claimableUiFees |-> Nothing,
   balance |-> Long :> long + 20 @@ Short :> short + 30, supply |-> supply, locked |-> 0]
ManyMarkets == {EmptyMarket, UsedMarket(500, 600, 200), UsedMarket(500, 0, 14000)}
OneMarket == {UsedMarket(20, 60, 120)}
NewMarket == {EmptyMarket}

SwapFees1 == [forPositiveImpact \in BOOLEAN |-> IF forPositiveImpact THEN 1 ELSE 2]
PnlFactors == [deposit |-> 12, withdrawal |-> 10]
Impacts == {-50, 0, 80}
NoImpact == {0}
NoSwaps == {}
=============================================================================
