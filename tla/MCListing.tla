----------------------------- MODULE MCListing -----------------------------
(***************************************************************************)
(* What the full tables say, whatever part of them an instance follows.    *)
(* The runs follow the two markets of the test network, the first two of   *)
(* Fuji, which lack limits of the open interest, and the last perpetual    *)
(* market and the first market for swaps only of Arbitrum.                 *)
(***************************************************************************)
EXTENDS ListingInvariant

\* Every list of the configuration file is accepted.
ASSUME ListsAreAccepted == \A n \in DOMAIN Lists : Accepted(n, Lists[n])

\* No market is backed by a token that does not exist.
ASSUME CollateralIsReal ==
  \A n \in DOMAIN Lists : \A i \in DOMAIN Lists[n] :
    {longOf(Lists[n][i]), shortOf(Lists[n][i])} \subseteq tokens[n].real

Undeployable == {"arbitrumGoerli", "avalancheFuji", "localhost"}

\* The lists that leave out the limits of the open interest cannot be deployed, the others can.
ASSUME UndefinedValues ==
  \A n \in DOMAIN Lists :
    LET markets == getMarkets(n, Lists[n])
    IN n \in Undeployable <=>
         \E i \in DOMAIN markets :
           ~EachTask(DeployMarket(markets[i], getGeneral(n)), LAMBDA w : w.value # Undefined)

\* Each setting that both scripts write has one value.
ASSUME OneValueEach ==
  \A n \in DOMAIN Lists : LET markets == getMarkets(n, Lists[n]) IN
    \A i \in DOMAIN markets :
      LET deployed == DeployMarket(markets[i], getGeneral(n))
          updated == UpdateMarket(markets[i], getGeneral(n))
      IN EachTask(deployed, LAMBDA d :
           \/ d.key[1] \in OnlyDeployed
           \/ \E k \in DOMAIN updated : updated[k].key = d.key /\ updated[k].value = d.value)

\* The facts of ListingInvariant hold for the whole lists, and those about the
\* order of the writes for every beginning of one.
ASSUME WholeLists ==
  \A n \in DOMAIN Lists \ {"hardhat"} :
    LET whole == getMarkets(n, Lists[n])
        markets == {whole[i] : i \in DOMAIN whole}
        plan == [e \in DOMAIN Lists[n] |->
                   [s \in Scripts |-> TasksOf(n, SubSeq(Lists[n], 1, e), s)]]
        settings == UNION {SettingsOf(plan[e][s]) : e \in DOMAIN plan, s \in Scripts}
    IN /\ \A i, j \in DOMAIN whole : whole[i].tokens = whole[j].tokens => i = j
       /\ \A v, w \in settings : v[1] = w[1] => v[2] = w[2]
       /\ \A w \in settings : w[1][1] = "MIN_COLLATERAL_FACTOR" => w[2] # 0
       /\ \A w \in settings, m \in markets :
            w[1] = virtualMarketIdKey(m.tokens) /\ w[2] # HashZero => longOf(m) # shortOf(m)
       /\ \A e \in DOMAIN plan :
            /\ \A s \in Deployments : IsOrdered(plan[e][s], markets, settings)
            /\ \A s \in Updates : IsComplete(plan[e][s], markets)
=============================================================================
