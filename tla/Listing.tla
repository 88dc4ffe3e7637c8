------------------------------ MODULE Listing ------------------------------
(***************************************************************************)
(* How markets are listed: the deployer's scripts create the markets and   *)
(* set their values in the DataStore one transaction at a time, a config   *)
(* keeper's scripts read all the values and then send every change in one  *)
(* transaction, keepers change values on their own, and in between traders *)
(* use whatever markets exist.                                             *)
(*                                                                         *)
(* The lists of config/markets.ts come from MarketConfigs and the writes   *)
(* of each script from MarketSettings.  Amounts are units: a limit of 1    *)
(* lets one unit in.                                                       *)
(***************************************************************************)
EXTENDS MarketSettings

CONSTANTS
  Networks,     \* the networks the instance looks at
  First, Final, \* the part of each network's list that it follows
  Tracked,      \* the base keys it follows
  MaxUnits,     \* bound: units in all pools together
  MaxUnusual    \* bound: crashes, edits and acts of keepers

TradeKeys ==
  {"VIRTUAL_MARKET_ID", "VIRTUAL_TOKEN_ID", "MAX_POOL_AMOUNT", "MAX_POOL_AMOUNT_FOR_DEPOSIT",
   "MIN_COLLATERAL_FACTOR", "MAX_OPEN_INTEREST", "RESERVE_FACTOR",
   "OPEN_INTEREST_RESERVE_FACTOR", "TOKEN_TRANSFER_GAS_LIMIT", "IS_MARKET_DISABLED"}

ASSUME NetworksAssumption == Networks \subseteq DOMAIN Lists
ASSUME TrackedAssumption == TradeKeys \subseteq Tracked
ASSUME BoundsAssumption ==
  First \in Nat /\ Final \in Nat /\ First <= Final /\ MaxUnits \in Nat /\ MaxUnusual \in Nat

\* The configuration file starts with the first of the markets and gets one more at a time.
Editions ==
  [n \in Networks |-> [e \in 1 .. Final - First + 1 |-> SubSeq(Lists[n], First, First + e - 1)]]

VARIABLES
  network,  \* where the scripts run
  edition,  \* the list that the configuration file holds
  created,  \* the markets that MarketFactory has created
  store,    \* the DataStore: the value of each key
  job,      \* the script that runs: [script, at, todo, dry, skipNew, clean]
  settled,  \* the script that completed last, if nobody has changed a value since
  unusual,  \* how many crashes, edits and acts of keepers there have been
  \* History: the virtual ids that keepers have taken out of order.  One got its
  \* market opened before the market had the id, or was given, taken or reset by hand.
  untracked

vars == <<network, edition, created, store, job, settled, unusual, untracked>>

(***************************************************************************)
(* What each script has to do for each list, computed once.                *)
(***************************************************************************)
Following(writes) ==
  SelectSeq(writes, LAMBDA w : w.value = Undefined \/ w.key[1] \in Tracked)

Of(market, writes) ==
  [i \in DOMAIN writes |-> [kind |-> "set", market |-> market, key |-> writes[i].key,
                            value |-> writes[i].value]]

\* For each market a list of tasks, one after the other.
ForEach(list, tasksOf(_)) == FlattenSeq([i \in DOMAIN list |-> tasksOf(list[i])])

Creation(m) == <<[kind |-> "create", market |-> m.tokens, key |-> <<>>, value |-> 0]>>

\* All markets are created before the first is configured.
DeployTasks(list, general) ==
  ForEach(list, Creation)
  \o ForEach(list, LAMBDA m : Of(m.tokens, Following(DeployMarket(m, general))))

UpdateTasks(list, general) ==
  ForEach(list, LAMBDA m : Of(m.tokens, Following(UpdateMarket(m, general))))

\* A market without both values keeps those it has.
DistributionTasks(list) ==
  ForEach(list, LAMBDA m :
    IF \E f \in DistributionFields : Field(m.config, f) \in {Undefined, 0} THEN <<>>
    ELSE Of(m.tokens, Following(
           Write(positionImpactPoolDistributionRateKey(m.tokens),
                 m.config.positionImpactPoolDistributionRate)
           \o Write(minPositionImpactPoolAmountKey(m.tokens), m.config.minPositionImpactPoolAmount))))

Deployments == {"Markets", "GeneralSettings"}
Updates == {"updateMarketConfig", "updateGeneralConfig", "updateMarketPositionImpactDistributionConfig"}

TasksOf(n, list, script) ==
  LET markets == getMarkets(n, list)
  IN CASE script = "Markets" -> DeployTasks(markets, getGeneral(n))
       [] script = "GeneralSettings" -> Of(<<>>, Following(DeployGeneral(getGeneral(n))))
       [] script = "updateMarketConfig" -> UpdateTasks(markets, getGeneral(n))
       [] script = "updateGeneralConfig" -> Of(<<>>, Following(UpdateGeneral(getGeneral(n))))
       [] OTHER -> DistributionTasks(markets)

Plan ==
  [n \in Networks |-> [e \in DOMAIN Editions[n] |->
     [s \in Deployments \union Updates |-> TasksOf(n, Editions[n][e], s)]]]

Tasks(script) == Plan[network][edition][script]
EachTask(tasks, Holds(_)) == \A i \in DOMAIN tasks : Holds(tasks[i])

(***************************************************************************)
(* The DataStore.                                                          *)
(***************************************************************************)
\* The markets of the last list of a network, with their fields.
MarketList == [n \in Networks |-> getMarkets(n, Last(Editions[n]))]
AllMarkets == [n \in Networks |-> {MarketList[n][i] : i \in DOMAIN MarketList[n]}]
MarketsOf ==
  [n \in Networks |-> [e \in DOMAIN Editions[n] |->
     {m \in AllMarkets[n] : \E i \in DOMAIN Editions[n][e] : Editions[n][e][i].tokens = m.tokens}]]
Listed == MarketsOf[network][edition]

tokenOf(m, isLong) == IF isLong THEN longOf(m) ELSE shortOf(m)
Pool(m, isLong) == poolAmountKey(m.tokens, tokenOf(m, isLong))

IdsOf(m, name) == IF name \in DOMAIN m.config THEN {m.config[name]} ELSE {}
SwapIds == [n \in Networks |-> UNION {IdsOf(m, "virtualMarketId") : m \in AllMarkets[n]}]
PositionIds ==
  [n \in Networks |-> UNION {IdsOf(m, "virtualTokenIdForIndexToken") : m \in AllMarkets[n]}]

\* The keys that hold a market's ids.  The second is shared by the markets of an index token.
IdKeys(m) == {virtualMarketIdKey(m.tokens), virtualTokenIdKey(m.tokens[1])}
CapKeys(m) == {maxPoolAmountKey(m.tokens, tokenOf(m, isLong)) : isLong \in BOOLEAN}

MarketKeys(m) ==
  {isMarketDisabledKey(m.tokens), virtualMarketIdKey(m.tokens), virtualTokenIdKey(m.tokens[1]),
   tokenTransferGasLimit(m.tokens), minCollateralFactorKey(m.tokens)}
  \union {Pool(m, isLong) : isLong \in BOOLEAN}
  \union {maxPoolAmountKey(m.tokens, tokenOf(m, isLong)) : isLong \in BOOLEAN}
  \union {maxPoolAmountForDepositKey(m.tokens, tokenOf(m, isLong)) : isLong \in BOOLEAN}
  \union {openInterestKey(m.tokens, isLong) : isLong \in BOOLEAN}
  \union {maxOpenInterestKey(m.tokens, isLong) : isLong \in BOOLEAN}
  \union {reserveFactorKey(m.tokens, isLong) : isLong \in BOOLEAN}
  \union {openInterestReserveFactorKey(m.tokens, isLong) : isLong \in BOOLEAN}
  \union {virtualInventoryForSwapsKey(id, isLong) :
            id \in IdsOf(m, "virtualMarketId"), isLong \in BOOLEAN}
  \union {virtualInventoryForPositionsKey(id) : id \in IdsOf(m, "virtualTokenIdForIndexToken")}

\* What is stored for a configured value.
Stored(value) == IF value = BigZero THEN 0 ELSE value

\* What the scripts write, with whatever list: keys with their values.
SettingsOf(tasks) ==
  {<<tasks[i].key, Stored(tasks[i].value)>> : i \in {j \in DOMAIN tasks : tasks[j].kind = "set"}}
Settings ==
  [n \in Networks |->
     UNION {SettingsOf(Plan[n][e][s]) : e \in DOMAIN Editions[n], s \in Deployments \union Updates}]

KeysOf ==
  [n \in Networks |->
     (UNION {MarketKeys(m) : m \in AllMarkets[n]}) \union {w[1] : w \in Settings[n]}]

Default(key) ==
  CASE key[1] \in {"VIRTUAL_MARKET_ID", "VIRTUAL_TOKEN_ID"} -> HashZero
    [] key[1] \in {"IS_MARKET_DISABLED", "SKIP_BORROWING_FEE_FOR_SMALLER_SIDE"} -> FALSE
    [] OTHER -> 0

\* Whether a task finds its value in place.
InPlace(t) == store[t.key] = Stored(t.value)

Plus(s, key, delta) == [s EXCEPT ![key] = @ + delta]

(***************************************************************************)
(* Scripts of the deployer.                                                *)
(***************************************************************************)
NoJob == [script |-> "none", at |-> 0, todo |-> {}, dry |-> FALSE, skipNew |-> FALSE, clean |-> TRUE]
Idle == job.script = "none"

Init ==
  /\ network \in Networks
  /\ edition = 1
  /\ created = {}
  /\ store = [k \in KeysOf[network] |-> Default(k)]
  /\ job = NoJob
  /\ settled = "none"
  /\ unusual = 0
  /\ untracked = {}

\* With FOR_EXISTING_MAINNET_DEPLOYMENT a script sets nothing, with
\* SKIP_NEW_MARKETS it creates nothing.
Deploy(script, dry, skipNew) ==
  /\ Idle
  /\ Len(Tasks(script)) > 0
  /\ dry \/ skipNew => unusual < MaxUnusual
  /\ unusual' = IF dry \/ skipNew THEN unusual + 1 ELSE unusual
  /\ job' = [NoJob EXCEPT !.script = script, !.at = 1, !.dry = dry, !.skipNew = skipNew]
  /\ UNCHANGED <<network, edition, created, store, settled, untracked>>

Task == Tasks(job.script)[job.at]

\* The script goes on to its next task; after the last it has completed.
Advance ==
  IF job.at < Len(Tasks(job.script))
  THEN job' = [job EXCEPT !.at = @ + 1] /\ UNCHANGED settled
  ELSE job' = NoJob /\ settled' = IF job.clean /\ ~job.dry THEN job.script ELSE settled

Throw == job' = NoJob /\ UNCHANGED settled

\* A script that does not ask which markets exist would take none to be there:
OnChain_NotAsked(market) == FALSE

\* onchainMarketsByTokens[marketKey]
OnChain(market) == market \in created

\* MarketFactory.createMarket reverts for a market that exists.
createMarket(market) ==
  IF market \in created THEN Throw /\ UNCHANGED created
  ELSE Advance /\ created' = created \union {market}

CreateMarkets ==
  /\ job.script \in Deployments
  /\ Task.kind = "create"
  /\ IF OnChain(Task.market) \/ job.skipNew THEN Advance /\ UNCHANGED created
     ELSE createMarket(Task.market)
  /\ UNCHANGED <<network, edition, store, unusual, untracked>>

setIfDifferent(t) ==
  CASE t.value = Undefined -> Throw /\ UNCHANGED store
    [] t.value # Undefined /\ job.dry -> Advance /\ UNCHANGED store
    [] OTHER -> Advance /\ store' = [store EXCEPT ![t.key] = Stored(t.value)]

\* A script that passed over a market it was told not to create would be:
SetValues_PassesOver ==
  /\ job.script \in Deployments
  /\ Task.kind = "set"
  /\ IF job.script = "Markets" /\ ~OnChain(Task.market) THEN Advance /\ UNCHANGED store
     ELSE setIfDifferent(Task)
  /\ UNCHANGED <<network, edition, created, unusual, untracked>>

\* The script throws at a market that it was told not to create.
SetValues ==
  /\ job.script \in Deployments
  /\ Task.kind = "set"
  /\ IF job.script = "Markets" /\ ~OnChain(Task.market) THEN Throw /\ UNCHANGED store
     ELSE setIfDifferent(Task)
  /\ UNCHANGED <<network, edition, created, unusual, untracked>>

Crash ==
  /\ ~Idle
  /\ unusual < MaxUnusual
  /\ unusual' = unusual + 1
  /\ Throw
  /\ UNCHANGED <<network, edition, created, store, untracked>>

(***************************************************************************)
(* Scripts of the config keeper: one read of all values, one transaction.  *)
(* A run that throws has sent nothing, and neither has one without WRITE.  *)
(***************************************************************************)
\* The tasks whose values the script sends, from what it read.
Changes(script) == {i \in DOMAIN Tasks(script) : ~InPlace(Tasks(script)[i])}

\* It needs every market, and every value.
Runs(script) ==
  EachTask(Tasks(script), LAMBDA t :
    /\ t.market # <<>> => t.market \in created
    /\ t.value # Undefined
    \* A change is logged as a multiple of the present value.
    /\ script = "updateMarketPositionImpactDistributionConfig" => InPlace(t) \/ store[t.key] # 0)

\* A market's pair of distribution values is set together.
WithPairs(script, changes) ==
  IF script # "updateMarketPositionImpactDistributionConfig" THEN changes
  ELSE {i \in DOMAIN Tasks(script) :
          \E c \in changes : Tasks(script)[c].market = Tasks(script)[i].market}

ReadForUpdate(script) ==
  /\ Idle
  /\ Runs(script)
  \* A run that finds nothing to change and nothing new is left out.
  /\ Changes(script) # {} \/ script # settled
  /\ job' = [NoJob EXCEPT !.script = script, !.todo = WithPairs(script, Changes(script))]
  /\ UNCHANGED <<network, edition, created, store, settled, unusual, untracked>>

\* The ids that a market does not have yet when some writes give it a limit.
OpenedWithout(keys) ==
  {w[2] : w \in {x \in Settings[network] :
     /\ store[x[1]] # x[2]
     /\ \E m \in AllMarkets[network] : x[1] \in IdKeys(m) /\ CapKeys(m) \intersect keys # {}}}

\* An update without multicall, one transaction for each change, would be:
SendUpdate_OneByOne ==
  /\ job.script \in Updates
  /\ \/ /\ job.todo = {}
        /\ job' = NoJob
        /\ settled' = IF job.clean THEN job.script ELSE settled
        /\ UNCHANGED <<store, untracked>>
     \/ \E i \in job.todo : LET task == Tasks(job.script)[i] IN
          /\ store' = [store EXCEPT ![task.key] = Stored(task.value)]
          /\ job' = [job EXCEPT !.todo = @ \ {i}]
          /\ untracked' = untracked \union OpenedWithout({task.key})
          /\ UNCHANGED settled
  /\ UNCHANGED <<network, edition, created, unusual>>

\* Nothing makes the script wait for the ids, which only a deployment sets.
SendUpdate ==
  /\ job.script \in Updates
  /\ LET tasks == Tasks(job.script)
     IN /\ store' = [k \in DOMAIN store |->
                       IF \E i \in job.todo : tasks[i].key = k
                       THEN Stored(tasks[CHOOSE i \in job.todo : tasks[i].key = k].value)
                       ELSE store[k]]
        /\ untracked' = untracked \union OpenedWithout({tasks[i].key : i \in job.todo})
  /\ job' = NoJob
  /\ settled' = IF job.clean THEN job.script ELSE settled
  /\ UNCHANGED <<network, edition, created, unusual>>

(***************************************************************************)
(* Keepers and the people who edit the configuration.                      *)
(***************************************************************************)
ByHand(changed, ids) ==
  /\ unusual < MaxUnusual
  /\ unusual' = unusual + 1
  /\ store' = changed
  /\ untracked' = untracked \union ids
  /\ job' = [job EXCEPT !.clean = Idle]
  /\ settled' = "none"
  /\ UNCHANGED <<network, edition, created>>

\* Config.setUint: a keeper closes one side of a market.
CloseByHand(m, isLong) ==
  LET key == maxPoolAmountKey(m.tokens, tokenOf(m, isLong))
  IN store[key] # 0 /\ ByHand([store EXCEPT ![key] = 0], {})

\* Config.setPositionImpactDistributionRate, here to another pair of numbers than the list's.
setPositionImpactDistributionRate(m) ==
  LET rate == positionImpactPoolDistributionRateKey(m.tokens)
      floor == minPositionImpactPoolAmountKey(m.tokens)
  IN /\ m.tokens \in created
     /\ {rate, floor} \subseteq DOMAIN store
     /\ store[rate] # 2
     /\ ByHand([store EXCEPT ![rate] = 2, ![floor] = 2], {})

\* Config.setBytes32: a keeper gives the markets of a key another id, or none.
SetIdByHand(key, id) ==
  /\ store[key] # id
  /\ ByHand([store EXCEPT ![key] = id], {store[key], id})

\* Config.setUint, Config.setInt: a keeper resets the inventory of an id.
ResetInventoryByHand(key, id) ==
  /\ store[key] # 0
  /\ ByHand([store EXCEPT ![key] = 0], {id})

VirtualsByHand(n) ==
  \/ \E m \in Listed, id \in SwapIds[n] \union {HashZero} : SetIdByHand(virtualMarketIdKey(m.tokens), id)
  \/ \E m \in Listed, id \in PositionIds[n] \union {HashZero} : SetIdByHand(virtualTokenIdKey(m.tokens[1]), id)
  \/ \E id \in SwapIds[n], isLong \in BOOLEAN : ResetInventoryByHand(virtualInventoryForSwapsKey(id, isLong), id)
  \/ \E id \in PositionIds[n] : ResetInventoryByHand(virtualInventoryForPositionsKey(id), id)

\* The list of the next edition; a script that runs has read its list already.
EditList ==
  /\ Idle
  /\ edition < Final - First + 1
  /\ edition' = edition + 1
  /\ settled' = "none"
  /\ UNCHANGED <<network, created, store, job, unusual, untracked>>

(***************************************************************************)
(* Traders, one unit at a time.                                            *)
(***************************************************************************)
IsEnabled(m) == m.tokens \in created /\ ~store[isMarketDisabledKey(m.tokens)]

\* Bound: the units in the pools.
Units == MapThenSumSet(LAMBDA k : store[k], {Pool(m, isLong) : m \in Listed, isLong \in BOOLEAN})

applyDeltaToVirtualInventoryForSwaps(s, m, isLong, delta) ==
  LET id == s[virtualMarketIdKey(m.tokens)]
      key == virtualInventoryForSwapsKey(id, isLong)
  IN IF id = HashZero THEN s
     ELSE [s EXCEPT ![key] = IF @ + delta < 0 THEN 0 ELSE @ + delta]

applyDeltaToPoolAmount(m, isLong, delta) ==
  applyDeltaToVirtualInventoryForSwaps(Plus(store, Pool(m, isLong), delta), m, isLong, delta)

applyDeltaToVirtualInventoryForPositions(s, m, delta) ==
  LET id == s[virtualTokenIdKey(m.tokens[1])]
  IN IF id = HashZero THEN s ELSE Plus(s, virtualInventoryForPositionsKey(id), delta)

\* With longs and shorts counted the same way:
applyDeltaToOpenInterest_SameSign(m, isLong, delta) ==
  applyDeltaToVirtualInventoryForPositions(
    Plus(store, openInterestKey(m.tokens, isLong), delta), m, delta)

applyDeltaToOpenInterest(m, isLong, delta) ==
  applyDeltaToVirtualInventoryForPositions(
    Plus(store, openInterestKey(m.tokens, isLong), delta), m, IF isLong THEN -delta ELSE delta)

Trade(changed) == store' = changed /\ UNCHANGED <<network, edition, created, job, settled, unusual, untracked>>

\* validatePoolAmount and validatePoolAmountForDeposit
Deposit(m, isLong) ==
  /\ IsEnabled(m)
  /\ Units < MaxUnits
  /\ store[Pool(m, isLong)] + 1 <= store[maxPoolAmountKey(m.tokens, tokenOf(m, isLong))]
  /\ store[Pool(m, isLong)] + 1 <= store[maxPoolAmountForDepositKey(m.tokens, tokenOf(m, isLong))]
  /\ Trade(applyDeltaToPoolAmount(m, isLong, 1))

\* validateReserve: what is left has to cover the positions of its side.
Withdraw(m, isLong) ==
  /\ IsEnabled(m)
  /\ store[Pool(m, isLong)] - 1 >= store[openInterestKey(m.tokens, isLong)]
  /\ Trade(applyDeltaToPoolAmount(m, isLong, -1))

\* validateOpenInterest, validateReserve and validateOpenInterestReserve
Increase(m, isLong) ==
  /\ IsEnabled(m)
  /\ ~m.swapOnly
  /\ store[openInterestKey(m.tokens, isLong)] + 1 <= store[maxOpenInterestKey(m.tokens, isLong)]
  /\ store[openInterestKey(m.tokens, isLong)] + 1 <= store[Pool(m, isLong)]
  /\ 0 \notin {store[reserveFactorKey(m.tokens, isLong)],
               store[openInterestReserveFactorKey(m.tokens, isLong)]}
  /\ Trade(applyDeltaToOpenInterest(m, isLong, 1))

Decrease(m, isLong) ==
  /\ IsEnabled(m)
  /\ store[openInterestKey(m.tokens, isLong)] > 0
  /\ Trade(applyDeltaToOpenInterest(m, isLong, -1))

(***************************************************************************)
(* The specification.  Each task of a script takes some time and is done;  *)
(* the deployer tries again until the list is deployed.                    *)
(***************************************************************************)
Next ==
  \/ \E script \in Deployments, dry, skipNew \in BOOLEAN : Deploy(script, dry, skipNew)
  \/ CreateMarkets \/ SetValues \/ Crash
  \/ \E script \in Updates : ReadForUpdate(script)
  \/ SendUpdate
  \/ EditList
  \/ \E m \in Listed, isLong \in BOOLEAN :
       \/ CloseByHand(m, isLong)
       \/ Deposit(m, isLong) \/ Withdraw(m, isLong)
       \/ Increase(m, isLong) \/ Decrease(m, isLong)
  \/ \E m \in Listed : setPositionImpactDistributionRate(m)
  \/ VirtualsByHand(network)

Spec == Init /\ [][Next]_vars

Fairness ==
  /\ WF_vars(CreateMarkets) /\ WF_vars(SetValues) /\ WF_vars(SendUpdate)
  /\ SF_vars(Deploy("Markets", FALSE, FALSE))

FairSpec == Spec /\ Fairness
=============================================================================
