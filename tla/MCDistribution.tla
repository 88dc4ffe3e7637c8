--------------------------- MODULE MCDistribution ---------------------------
(* An instance of Distribution for TLC: the answers of the subgraph. *)
EXTENDS DistributionProperties

Quiet ==
  [lp |-> [isActive |-> FALSE, totalRewards |-> 0,
           rewardsPerMarket |-> [m \in Markets |-> 0],
           weighted |-> [m \in Markets |-> [a \in Accounts |-> NoStat]],
           balance |-> [m \in Markets |-> [a \in Accounts |-> NoStat]],
           weightedSupply |-> [m \in Markets |-> NoStat],
           supply |-> [m \in Markets |-> NoStat]],
   trading |-> [positionFees |-> [a \in Accounts |-> NoStat],
                rebatePercent |-> 0, allocation |-> 0, hasTotal |-> FALSE],
   migration |-> [eligibleRedemption |-> [a \in Accounts |-> NoStat],
                  feeBps |-> [a \in Accounts |-> 0], hasTotal |-> FALSE]]

\* Two markets; account 2 has left before the end of the epoch and counts with its
\* average, account 4 came too late for one and counts with its balance.
Liquidity(balance4) ==
  [Quiet EXCEPT !.lp =
    [isActive |-> TRUE, totalRewards |-> 13, rewardsPerMarket |-> <<9, 4>>,
     weighted |-> <<<<10, 20, NoStat, NoStat>>, <<NoStat, 9, 0, NoStat>>>>,
     balance |-> <<<<30, 0, NoStat, balance4>>, <<NoStat, 9, 5, NoStat>>>>,
     weightedSupply |-> <<40, NoStat>>, supply |-> <<70, 9>>]]

\* The fees of the week call for more than is allocated.
Trading(fees) ==
  [Quiet EXCEPT !.trading =
    [positionFees |-> fees, rebatePercent |-> 8, allocation |-> 9, hasTotal |-> TRUE]]

Migration(redemption, bps) ==
  [Quiet EXCEPT !.migration =
    [eligibleRedemption |-> redemption, feeBps |-> bps, hasTotal |-> TRUE]]

Subgraph1 ==
  {[t \in Times |-> IF t = 0 THEN Liquidity(0) ELSE Liquidity(10)],
   [t \in Times |-> Trading(IF t = 0 THEN <<3, NoStat, 0, NoStat>> ELSE <<7, 5, 0, 3>>)],
   [t \in Times |-> IF t < 2 THEN Migration(<<10, 20, NoStat, 8>>, <<3, 2, 0, 5>>)
                    ELSE Migration(<<10, 20, 5, 8>>, <<5, 2, 4, 2>>)]}

BlockTime1 == <<0, 1, 1, 3, 4, 6, 6, 7, 9>>
ToTimestamp1 == [t \in Times |-> IF t = 0 THEN 3 ELSE 6]
\* Time passes and totals are written between the runs only, since neither
\* disturbs a run; the old totals are those of the distribution that was paid, and
\* are written once, before the new ones.  Nobody computes what there are no data for.
OneThingAfterTheOther ==
  /\ time' # time \/ totals' # totals => InProgress = 0
  /\ totals'.old # totals.old => totals.old = NoTotals /\ "migration" \in migrations
  /\ totals'.new # totals.new => totals.old # NoTotals /\ files["fix"] = NoFile
  /\ search'.for # "nobody" => Answer(search'.for) # Quiet[search'.for]

Overrides1 == (1 :> 2)
=============================================================================
