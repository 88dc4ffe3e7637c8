------------------------------ MODULE Rewards ------------------------------
(***************************************************************************)
(* What the scripts of scripts/incentives compute before anything is paid: *)
(* the rewards of an epoch, the overridden receivers, the totals of the    *)
(* migration rebates and the difference that a correction pays.            *)
(*                                                                         *)
(* Accounts and markets are numbered in the order in which the subgraph    *)
(* lists them.  A distribution is a sequence of entries, the insertion     *)
(* order of the JSON object.  An entry's key is an account together with   *)
(* the spelling of its address: objects compare spellings, the chain does  *)
(* not.                                                                    *)
(***************************************************************************)
EXTENDS Integers, Sequences, FiniteSets, SequencesExt, Sums

CONSTANTS
  NumAccounts,         \* accounts are 1..NumAccounts
  NumMarkets,          \* markets are 1..NumMarkets
  BASIS_POINTS_DIVISOR,
  SupplyTolerance,     \* balances may miss the supply by 1 / SupplyTolerance
  MIN_REWARD_THRESHOLD,
  OneToken,            \* by how much the rewards may exceed the total
  PageSize,            \* the subgraph answers a query with so many rows at most
  ReceiverOverrides,   \* a function from some accounts to their receivers
  NoStat               \* the subgraph has no such row

Accounts == 1..NumAccounts
Markets == 1..NumMarkets
Keys == [account : Accounts, checksummed : BOOLEAN]

\* No receiver is itself overridden: overrideReceivers walks over the entries as
\* they were before it changed them.
RewardsAssumption ==
  /\ NumAccounts \in Nat /\ NumMarkets \in Nat
  /\ BASIS_POINTS_DIVISOR \in Nat \ {0} /\ SupplyTolerance \in Nat \ {0}
  /\ MIN_REWARD_THRESHOLD \in Nat \ {0}
  /\ OneToken \in Nat /\ PageSize \in Nat
  /\ DOMAIN ReceiverOverrides \subseteq Accounts
  /\ \A a \in DOMAIN ReceiverOverrides :
       ReceiverOverrides[a] \in Accounts \ DOMAIN ReceiverOverrides
ASSUME RewardsAssumption

\* Distributions, as the files hold them: not more entries than keys.
Distributions == {d \in Seq([key : Keys, amount : Nat]) : Len(d) <= 2 * NumAccounts}

Abs(i) == IF i < 0 THEN -i ELSE i

(***************************************************************************)
(* Distributions.                                                          *)
(***************************************************************************)
AmountOf(d) == Total([i \in 1..Len(d) |-> d[i].amount], Len(d))

\* What an account receives from entries d: both spellings are one account.
ReceivedBy(d, a) ==
  Total([i \in 1..Len(d) |-> IF d[i].key.account = a THEN d[i].amount ELSE 0], Len(d))

\* The elements of S, each after those that are before it: `before' holds the pairs
\* of them in order.  (The sorts of the libraries recurse, which no proof follows.)
InOrder(S, before) ==
  [i \in 1..Cardinality(S) |->
     CHOOSE x \in S : Cardinality({y \in S : <<y, x>> \in before}) = i - 1]

\* The entries of those whose reward reaches the threshold, in the order of rank.
Entries(rewards, rank, checksummed) ==
  LET eligible == {a \in Accounts : rewards[a] >= MIN_REWARD_THRESHOLD}
      before == {p \in eligible \X eligible :
                   \/ rank[p[1]] < rank[p[2]]
                   \/ rank[p[1]] = rank[p[2]] /\ p[1] < p[2]}
      order == InOrder(eligible, before)
  IN [i \in DOMAIN order |->
        [key |-> [account |-> order[i], checksummed |-> checksummed],
         amount |-> rewards[order[i]]]]

Redirect_Replaces(d, e) ==
  IF e.key.account \notin DOMAIN ReceiverOverrides THEN d
  ELSE LET new == [account |-> ReceiverOverrides[e.key.account], checksummed |-> TRUE]
           rest == SelectSeq(d, LAMBDA x : x.key \notin {e.key, new})
       IN Append(rest, [key |-> new, amount |-> e.amount])

\* One turn of the loop of overrideReceivers: d is the object, e an entry of it
\* as it was when the loop began.
Redirect(d, e) ==
  IF e.key.account \notin DOMAIN ReceiverOverrides THEN d
  ELSE LET new == [account |-> ReceiverOverrides[e.key.account], checksummed |-> TRUE]
           rest == RemoveAt(d, CHOOSE i \in DOMAIN d : d[i].key = e.key)
       IN IF \E i \in DOMAIN rest : rest[i].key = new
          THEN [i \in DOMAIN rest |->
                  IF rest[i].key = new THEN [rest[i] EXCEPT !.amount = @ + e.amount] ELSE rest[i]]
          ELSE Append(rest, [key |-> new, amount |-> e.amount])

\* The object after each turn of the loop.
Redirected(d) ==
  LET o[i \in 0..Len(d)] == IF i = 0 THEN d ELSE Redirect(o[i - 1], d[i]) IN o

overrideReceivers(d) == Redirected(d)[Len(d)]

(***************************************************************************)
(* What the subgraph and the allocation files answer.                      *)
(***************************************************************************)
LpAnswer ==
  [isActive : BOOLEAN, totalRewards : Nat, rewardsPerMarket : [Markets -> Nat],
   weighted : [Markets -> [Accounts -> {NoStat} \union Nat]],
   balance : [Markets -> [Accounts -> {NoStat} \union Nat]],
   weightedSupply : [Markets -> {NoStat} \union Nat],
   supply : [Markets -> {NoStat} \union Nat]]

TradingAnswer ==
  [positionFees : [Accounts -> {NoStat} \union Nat], rebatePercent : Nat, allocation : Nat,
   hasTotal : BOOLEAN]

MigrationAnswer ==
  [eligibleRedemption : [Accounts -> {NoStat} \union Nat], feeBps : [Accounts -> Nat],
   hasTotal : BOOLEAN]

(***************************************************************************)
(* Liquidity incentives.  lp.weighted[m][a] is the average balance of      *)
(* account a in the epoch, lp.balance[m][a] the balance at its end; supply *)
(* is the market token's at the end, weightedSupply its average.           *)
(***************************************************************************)
UserBalance(lp, m, a) ==
  IF lp.weighted[m][a] # NoStat THEN lp.weighted[m][a]
  ELSE IF lp.balance[m][a] # NoStat THEN lp.balance[m][a] ELSE 0

HasUsers(lp, m) ==
  \E a \in Accounts : lp.weighted[m][a] # NoStat \/ lp.balance[m][a] \notin {NoStat, 0}

UserBalancesSum(lp, m) == Total([a \in Accounts |-> UserBalance(lp, m, a)], NumAccounts)

\* An average of zero counts as well: it is a string, and not an empty one.
MarketTokensSupply(lp, m) ==
  IF lp.weightedSupply[m] # NoStat THEN lp.weightedSupply[m] ELSE lp.supply[m]

\* No page of the answer is full, or rows might be missing.  The balances at the end
\* of the epoch fill three pages; rows of zero count.
AllRowsFetched(lp) ==
  LET rows(stat) == Cardinality({x \in Markets \X Accounts : stat[x[1]][x[2]] # NoStat})
      marketRows(stat) == Cardinality({m \in Markets : stat[m] # NoStat})
  IN /\ marketRows(lp.supply) < PageSize /\ marketRows(lp.weightedSupply) < PageSize
     /\ rows(lp.weighted) < PageSize
     /\ rows(lp.balance) < 3 * PageSize

BalancesMatchSupply(lp, m) ==
  LET supply == MarketTokensSupply(lp, m) IN
  Abs(UserBalancesSum(lp, m) - supply) <= supply \div SupplyTolerance

UserRewards(lp, m, a) ==
  IF UserBalancesSum(lp, m) = 0 THEN 0
  ELSE (UserBalance(lp, m, a) * lp.rewardsPerMarket[m]) \div UserBalancesSum(lp, m)

LpRewards(lp) ==
  [a \in Accounts |-> Total([m \in Markets |-> UserRewards(lp, m, a)], NumMarkets)]

\* The script ends with a distribution, not with one of its errors (a division
\* by zero in a line it logs included).
LpSucceeds(lp) ==
  /\ AllRowsFetched(lp)
  /\ lp.isActive
  /\ \A m \in Markets :
       /\ lp.supply[m] # NoStat
       /\ BalancesMatchSupply(lp, m)
       /\ HasUsers(lp, m) => UserBalancesSum(lp, m) # 0 /\ MarketTokensSupply(lp, m) # 0
       /\ Total([a \in Accounts |-> UserRewards(lp, m, a)], NumAccounts) <= lp.rewardsPerMarket[m]
  /\ Total(LpRewards(lp), NumAccounts) - lp.totalRewards <= OneToken
  /\ lp.totalRewards # 0 \/ \A a \in Accounts : LpRewards(lp)[a] < MIN_REWARD_THRESHOLD

LpDistribution(lp) == overrideReceivers(Entries(LpRewards(lp), LpRewards(lp), TRUE))

(***************************************************************************)
(* Trading incentives.  trading.positionFees[a] is NoStat for an account   *)
(* without a row.  Rows beyond the first page are silently missing.        *)
(***************************************************************************)
FirstPage(stat) ==
  LET rows == {a \in Accounts : stat[a] # NoStat} IN
  {a \in rows : Cardinality({b \in rows : b < a}) < PageSize}

PositionFees(trading) ==
  [a \in Accounts |->
     IF a \in FirstPage(trading.positionFees) THEN trading.positionFees[a] ELSE 0]

UsedAllocation(fees, percent) == (Total(fees, NumAccounts) * percent) \div BASIS_POINTS_DIVISOR

AdjustedRebatePercent_NotAdjusted(fees, percent, allocation) == percent

AdjustedRebatePercent(fees, percent, allocation) ==
  IF UsedAllocation(fees, percent) > allocation
  THEN (percent * allocation) \div UsedAllocation(fees, percent)
  ELSE percent

TradingRebates(fees, percent, allocation) ==
  LET adjusted == AdjustedRebatePercent(fees, percent, allocation) IN
  [a \in Accounts |-> (fees[a] * adjusted) \div BASIS_POINTS_DIVISOR]

RebatesOf(trading) ==
  TradingRebates(PositionFees(trading), trading.rebatePercent, trading.allocation)

\* Nothing is written for a week without rows; the share of each user is logged,
\* which divides by the sum of the rebates.
TradingSucceeds(trading) ==
  /\ FirstPage(trading.positionFees) # {}
  /\ trading.hasTotal
  /\ Total(RebatesOf(trading), NumAccounts) # 0

TradingDistribution(trading) ==
  overrideReceivers(Entries(RebatesOf(trading), PositionFees(trading), FALSE))

(***************************************************************************)
(* Rebates for the migration from GLP to GM.                               *)
(***************************************************************************)
Redemption(migration) ==
  [a \in Accounts |->
     IF a \in FirstPage(migration.eligibleRedemption)
     THEN migration.eligibleRedemption[a] ELSE 0]

GlpRebates(migration) ==
  [a \in Accounts |-> (Redemption(migration)[a] * migration.feeBps[a]) \div BASIS_POINTS_DIVISOR]

GlpSucceeds(migration) ==
  /\ migration.hasTotal
  /\ FirstPage(migration.eligibleRedemption) # {}

GlpDistribution(migration) ==
  overrideReceivers(Entries(GlpRebates(migration), Redemption(migration), FALSE))

(***************************************************************************)
(* The correction of rebates that were computed from wrong data.           *)
(***************************************************************************)
\* The rebates of each key in the distribution of the migration.
TotalRebates(d) ==
  [k \in Keys |-> Total([i \in 1..Len(d) |-> IF d[i].key = k THEN d[i].amount ELSE 0], Len(d))]

DiffOf_PaysReductions(old, new) ==
  [k \in Keys |-> Abs(new[k] - old[k])]

\* A key whose rebate has become smaller keeps what it has got.
DiffOf(old, new) == [k \in Keys |-> IF new[k] > old[k] THEN new[k] - old[k] ELSE 0]

DiffDistribution(old, new) ==
  LET diff == DiffOf(old, new)
      rank(k) == 2 * k.account + (IF k.checksummed THEN 1 ELSE 0)
      raised == {k \in Keys : diff[k] > 0}
      before == {p \in raised \X raised :
                   \/ diff[p[1]] < diff[p[2]]
                   \/ diff[p[1]] = diff[p[2]] /\ rank(p[1]) < rank(p[2])}
      order == InOrder(raised, before)
  IN [i \in DOMAIN order |-> [key |-> order[i], amount |-> diff[order[i]]]]
=============================================================================
