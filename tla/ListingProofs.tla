--------------------------- MODULE ListingProofs ---------------------------
(***************************************************************************)
(* The listing of markets is safe for any networks, any part of their      *)
(* lists and any number of trades and accidents, as long as the tables     *)
(* satisfy the facts that ListingInvariant names.                          *)
(***************************************************************************)
EXTENDS ListingInvariant, SumsProofs

----------------------------------------------------------------------------
(* Keys *)

\* Keys of different names are different.
LEMMA KeyNames ==
  \A x, y :
    /\ isMarketDisabledKey(x)[1] = "IS_MARKET_DISABLED"
    /\ virtualMarketIdKey(x)[1] = "VIRTUAL_MARKET_ID"
    /\ virtualTokenIdKey(x)[1] = "VIRTUAL_TOKEN_ID"
    /\ virtualInventoryForSwapsKey(x, y)[1] = "VIRTUAL_INVENTORY_FOR_SWAPS"
    /\ virtualInventoryForPositionsKey(x)[1] = "VIRTUAL_INVENTORY_FOR_POSITIONS"
    /\ poolAmountKey(x, y)[1] = "POOL_AMOUNT"
    /\ maxPoolAmountKey(x, y)[1] = "MAX_POOL_AMOUNT"
    /\ openInterestKey(x, y)[1] = "OPEN_INTEREST"
    /\ maxOpenInterestKey(x, y)[1] = "MAX_OPEN_INTEREST"
    /\ minCollateralFactorKey(x)[1] = "MIN_COLLATERAL_FACTOR"
    /\ positionImpactPoolDistributionRateKey(x)[1] = "POSITION_IMPACT_POOL_DISTRIBUTION_RATE"
    /\ minPositionImpactPoolAmountKey(x)[1] = "MIN_POSITION_IMPACT_POOL_AMOUNT"
BY DEF isMarketDisabledKey, virtualMarketIdKey, virtualTokenIdKey, virtualInventoryForSwapsKey,
       virtualInventoryForPositionsKey, poolAmountKey, maxPoolAmountKey, openInterestKey,
       maxOpenInterestKey, minCollateralFactorKey, positionImpactPoolDistributionRateKey,
       minPositionImpactPoolAmountKey

\* A key tells what it is the key of.
LEMMA KeyParts ==
  \A x, y, u, v :
    /\ virtualMarketIdKey(x) = virtualMarketIdKey(u) => x = u
    /\ virtualTokenIdKey(x) = virtualTokenIdKey(u) => x = u
    /\ virtualInventoryForSwapsKey(x, y) = virtualInventoryForSwapsKey(u, v) => x = u /\ y = v
    /\ virtualInventoryForPositionsKey(x) = virtualInventoryForPositionsKey(u) => x = u
    /\ poolAmountKey(x, y) = poolAmountKey(u, v) => x = u /\ y = v
    /\ maxPoolAmountKey(x, y) = maxPoolAmountKey(u, v) => x = u /\ y = v
    /\ openInterestKey(x, y) = openInterestKey(u, v) => x = u /\ y = v
    /\ maxOpenInterestKey(x, y) = maxOpenInterestKey(u, v) => x = u /\ y = v
    /\ minCollateralFactorKey(x) = minCollateralFactorKey(u) => x = u
BY DEF virtualMarketIdKey, virtualTokenIdKey, virtualInventoryForSwapsKey,
       virtualInventoryForPositionsKey, poolAmountKey, maxPoolAmountKey, openInterestKey,
       maxOpenInterestKey, minCollateralFactorKey

\* The store has the keys of its markets.
LEMMA MarketKeysStored ==
  ASSUME NEW n \in Networks, NEW m \in AllMarkets[n], NEW isLong \in BOOLEAN
  PROVE  /\ {Pool(m, isLong), openInterestKey(m.tokens, isLong),
             maxPoolAmountKey(m.tokens, tokenOf(m, isLong)), maxOpenInterestKey(m.tokens, isLong),
             minCollateralFactorKey(m.tokens)} \subseteq KeysOf[n]
         /\ IdKeys(m) \subseteq KeysOf[n]
<1>1. MarketKeys(m) \subseteq KeysOf[n]
  BY DEF KeysOf
<1>2. {Pool(m, isLong), openInterestKey(m.tokens, isLong),
       maxPoolAmountKey(m.tokens, tokenOf(m, isLong)), maxOpenInterestKey(m.tokens, isLong),
       minCollateralFactorKey(m.tokens)} \subseteq MarketKeys(m)
  BY DEF MarketKeys
<1>3. IdKeys(m) \subseteq MarketKeys(m)
  BY DEF MarketKeys, IdKeys
<1> QED BY <1>1, <1>2, <1>3

LEMMA InventoryKeysStored ==
  ASSUME NEW n \in Networks
  PROVE  /\ \A id \in SwapIds[n], isLong \in BOOLEAN :
              virtualInventoryForSwapsKey(id, isLong) \in KeysOf[n]
         /\ \A id \in PositionIds[n] : virtualInventoryForPositionsKey(id) \in KeysOf[n]
<1>1. \A m \in AllMarkets[n] : MarketKeys(m) \subseteq KeysOf[n]
  BY DEF KeysOf
<1>2. ASSUME NEW id \in SwapIds[n], NEW isLong \in BOOLEAN
      PROVE  virtualInventoryForSwapsKey(id, isLong) \in KeysOf[n]
  <2>1. PICK m \in AllMarkets[n] : id \in IdsOf(m, "virtualMarketId")
    BY DEF SwapIds
  <2>2. virtualInventoryForSwapsKey(id, isLong) \in MarketKeys(m)
    BY <2>1 DEF MarketKeys
  <2> QED BY <1>1, <2>2
<1>3. ASSUME NEW id \in PositionIds[n]
      PROVE  virtualInventoryForPositionsKey(id) \in KeysOf[n]
  <2>1. PICK m \in AllMarkets[n] : id \in IdsOf(m, "virtualTokenIdForIndexToken")
    BY DEF PositionIds
  <2>2. virtualInventoryForPositionsKey(id) \in MarketKeys(m)
    BY <2>1 DEF MarketKeys
  <2> QED BY <1>1, <2>2
<1> QED BY <1>2, <1>3

\* What a script sets is one of the settings of its network.
LEMMA TasksAreSettings ==
  ASSUME NEW n \in Networks, NEW e \in DOMAIN Editions[n], NEW s \in Scripts,
         NEW i \in DOMAIN Plan[n][e][s], Plan[n][e][s][i].kind = "set"
  PROVE  <<Plan[n][e][s][i].key, Stored(Plan[n][e][s][i].value)>> \in Settings[n]
<1>1. <<Plan[n][e][s][i].key, Stored(Plan[n][e][s][i].value)>> \in SettingsOf(Plan[n][e][s])
  BY DEF SettingsOf
<1>2. SettingsOf(Plan[n][e][s]) \subseteq Settings[n]
  BY DEF Settings, Scripts
<1> QED BY <1>1, <1>2

LEMMA SettingsStored ==
  ASSUME NEW n \in Networks, NEW w \in Settings[n]
  PROVE  w[1] \in KeysOf[n]
BY DEF KeysOf

\* The tokens of a market are those of no other.
LEMMA TokensTellMarkets ==
  ASSUME NEW n \in Networks, NEW a \in AllMarkets[n], NEW b \in AllMarkets[n], a.tokens = b.tokens
  PROVE  a = b
BY MarketsDiffer DEF AllMarkets

----------------------------------------------------------------------------
(* The sums over the markets *)

\* The part of each market in the inventories of an id, in a store.
SwapShares(values, list, id, isLong) ==
  [i \in 1 .. Len(list) |->
     IF values[virtualMarketIdKey(list[i].tokens)] = id THEN values[Pool(list[i], isLong)] ELSE 0]
PositionShares(values, list, id) ==
  [i \in 1 .. Len(list) |->
     IF values[virtualTokenIdKey(list[i].tokens[1])] # id THEN 0
     ELSE values[openInterestKey(list[i].tokens, FALSE)] - values[openInterestKey(list[i].tokens, TRUE)]]

LEMMA Inventories ==
  ASSUME NEW id, NEW isLong, network \in Networks, network' = network
  PROVE  LET list == MarketList[network]
         IN /\ SwapInventory(id, isLong) = Total(SwapShares(store, list, id, isLong), Len(list))
            /\ SwapInventory(id, isLong)' = Total(SwapShares(store', list, id, isLong), Len(list))
            /\ PositionInventory(id) = Total(PositionShares(store, list, id), Len(list))
            /\ PositionInventory(id)' = Total(PositionShares(store', list, id), Len(list))
BY ListsAreSequences
   DEF SwapInventory, PositionInventory, SumOver, SwapShares, PositionShares

\* Two sums whose terms differ in one place.
DifferAt(k, f, g, n) == \A i \in (1 .. n) \ {k} : g[i] = f[i]

LEMMA ShareChange ==
  ASSUME NEW n \in Nat, NEW f \in [1 .. n -> Int], NEW g \in [1 .. n -> Int], NEW k \in 1 .. n,
         DifferAt(k, f, g, n)
  PROVE  Total(g, n) = Total(f, n) + g[k] - f[k]
BY TotalChange DEF DifferAt

LEMMA SharesTyped ==
  ASSUME TypeInvariant, NEW id, NEW isLong \in BOOLEAN
  PROVE  LET list == MarketList[network]
         IN /\ Len(list) \in Nat
            /\ SwapShares(store, list, id, isLong) \in [1 .. Len(list) -> Nat]
            /\ PositionShares(store, list, id) \in [1 .. Len(list) -> Int]
<1> DEFINE list == MarketList[network]
<1>1. network \in Networks /\ Len(list) \in Nat /\ \A i \in 1 .. Len(list) : list[i] \in AllMarkets[network]
  BY ListsAreSequences DEF TypeInvariant, AllMarkets
<1>2. ASSUME NEW i \in 1 .. Len(list)
      PROVE  /\ \A side \in BOOLEAN : store[Pool(list[i], side)] \in Nat
             /\ store[openInterestKey(list[i].tokens, TRUE)] \in Nat
             /\ store[openInterestKey(list[i].tokens, FALSE)] \in Nat
  BY <1>1 DEF TypeInvariant, StoreTyped
<1> HIDE DEF list
<1>5. ASSUME NEW i \in 1 .. Len(list)
      PROVE  store[openInterestKey(list[i].tokens, FALSE)] - store[openInterestKey(list[i].tokens, TRUE)] \in Int
  <2> DEFINE short == store[openInterestKey(list[i].tokens, FALSE)]
             long == store[openInterestKey(list[i].tokens, TRUE)]
  <2>1. short \in Nat /\ long \in Nat
    BY <1>2
  <2> HIDE DEF short, long
  <2>2. short - long \in Int
    BY <2>1
  <2> QED BY <2>2 DEF short, long
<1>3. SwapShares(store, list, id, isLong) \in [1 .. Len(list) -> Nat]
  BY <1>2 DEF SwapShares
<1>4. PositionShares(store, list, id) \in [1 .. Len(list) -> Int]
  <2> SUFFICES ASSUME NEW i \in 1 .. Len(list)
               PROVE  PositionShares(store, list, id)[i] \in Int
    BY DEF PositionShares
  <2> DEFINE net == store[openInterestKey(list[i].tokens, FALSE)] - store[openInterestKey(list[i].tokens, TRUE)]
  <2>1. net \in Int
    BY <1>5
  <2>2. PositionShares(store, list, id)[i] = IF store[virtualTokenIdKey(list[i].tokens[1])] # id THEN 0 ELSE net
    BY DEF PositionShares
  <2> HIDE DEF net
  <2> QED BY <2>1, <2>2
<1> QED BY <1>1, <1>3, <1>4 DEF list

----------------------------------------------------------------------------
(* Steps that write settings *)

\* Some settings get their values, and no other value changes.
Writes(W) ==
  /\ W \subseteq Settings[network]
  /\ untracked \subseteq untracked'
  /\ DOMAIN store' = DOMAIN store
  /\ \A w \in W : store'[w[1]] = w[2]
  /\ \A k \in DOMAIN store : (\A w \in W : w[1] # k) => store'[k] = store[k]

\* What is in place stays in place: each setting has one value.
LEMMA WritesKeep ==
  ASSUME TypeInvariant, NEW W, Writes(W), NEW w \in Settings[network], Holds(w)
  PROVE  store'[w[1]] = w[2]
<1>1. network \in Networks
  BY DEF TypeInvariant
<1>2. w[1] \in DOMAIN store
  BY <1>1, SettingsStored DEF TypeInvariant, StoreTyped
<1>3. CASE \E v \in W : v[1] = w[1]
  <2>1. PICK v \in W : v[1] = w[1]
    BY <1>3
  <2>2. v[2] = w[2]
    BY <1>1, <2>1, OneValue DEF Writes
  <2> QED BY <2>1, <2>2 DEF Writes
<1>4. CASE \A v \in W : v[1] # w[1]
  BY <1>2, <1>4 DEF Writes, Holds
<1> QED BY <1>3, <1>4

\* Names that no setting has.
LEMMA WritesLeave ==
  ASSUME TypeInvariant, NEW W, Writes(W), NEW k \in DOMAIN store,
         k[1] \in {"POOL_AMOUNT", "OPEN_INTEREST", "VIRTUAL_INVENTORY_FOR_SWAPS",
                   "VIRTUAL_INVENTORY_FOR_POSITIONS"}
  PROVE  store'[k] = store[k]
<1>1. \A w \in W : w[1] # k
  BY TradesCount DEF Writes, TypeInvariant
<1> QED BY <1>1 DEF Writes

LEMMA WritesLeaveTrades ==
  ASSUME TypeInvariant, NEW W, Writes(W)
  PROVE  /\ \A m \in AllMarkets[network], isLong \in BOOLEAN :
              /\ store'[Pool(m, isLong)] = store[Pool(m, isLong)]
              /\ store'[openInterestKey(m.tokens, isLong)] = store[openInterestKey(m.tokens, isLong)]
         /\ \A id \in SwapIds[network], isLong \in BOOLEAN :
              LET key == virtualInventoryForSwapsKey(id, isLong) IN store'[key] = store[key]
         /\ \A id \in PositionIds[network] :
              LET key == virtualInventoryForPositionsKey(id) IN store'[key] = store[key]
<1>1. network \in Networks /\ DOMAIN store = KeysOf[network]
  BY DEF TypeInvariant, StoreTyped
<1>2. ASSUME NEW m \in AllMarkets[network], NEW isLong \in BOOLEAN
      PROVE  /\ store'[Pool(m, isLong)] = store[Pool(m, isLong)]
             /\ store'[openInterestKey(m.tokens, isLong)] = store[openInterestKey(m.tokens, isLong)]
  <2>1. Pool(m, isLong) \in DOMAIN store /\ openInterestKey(m.tokens, isLong) \in DOMAIN store
    BY <1>1, MarketKeysStored
  <2>2. Pool(m, isLong)[1] = "POOL_AMOUNT" /\ openInterestKey(m.tokens, isLong)[1] = "OPEN_INTEREST"
    BY KeyNames DEF Pool
  <2> QED BY <2>1, <2>2, WritesLeave
<1>3. ASSUME NEW id \in SwapIds[network], NEW isLong \in BOOLEAN
      PROVE  LET key == virtualInventoryForSwapsKey(id, isLong) IN store'[key] = store[key]
  <2>1. virtualInventoryForSwapsKey(id, isLong) \in DOMAIN store
    BY <1>1, InventoryKeysStored
  <2> QED BY <2>1, KeyNames, WritesLeave
<1>4. ASSUME NEW id \in PositionIds[network]
      PROVE  LET key == virtualInventoryForPositionsKey(id) IN store'[key] = store[key]
  <2>1. virtualInventoryForPositionsKey(id) \in DOMAIN store
    BY <1>1, InventoryKeysStored
  <2> QED BY <2>1, KeyNames, WritesLeave
<1> QED BY <1>2, <1>3, <1>4

\* A key has its value, or the value of a setting that did not hold.
LEMMA WritesChange ==
  ASSUME TypeInvariant, NEW W, Writes(W), NEW k \in DOMAIN store, store'[k] # store[k]
  PROVE  \E w \in Settings[network] : w \in W /\ w[1] = k /\ store'[k] = w[2] /\ ~Holds(w)
<1>1. PICK w \in W : w[1] = k
  BY DEF Writes
<1>2. w \in Settings[network] /\ store'[k] = w[2]
  BY <1>1 DEF Writes
<1> QED BY <1>1, <1>2 DEF Holds

LEMMA WritesTyped ==
  ASSUME TypeInvariant, NEW W, Writes(W), network' = network
  PROVE  StoreTyped'
<1>1. network \in Networks /\ DOMAIN store = KeysOf[network] /\ DOMAIN store' = DOMAIN store
  BY DEF TypeInvariant, StoreTyped, Writes
<1>2. ASSUME NEW m \in AllMarkets[network], NEW isLong \in BOOLEAN
      PROVE  store'[Pool(m, isLong)] \in Nat /\ store'[openInterestKey(m.tokens, isLong)] \in Nat
  BY WritesLeaveTrades DEF TypeInvariant, StoreTyped
<1>3. ASSUME NEW m \in AllMarkets[network]
      PROVE  /\ store'[virtualMarketIdKey(m.tokens)] \in SwapIds[network] \union {HashZero}
             /\ store'[virtualTokenIdKey(m.tokens[1])] \in PositionIds[network] \union {HashZero}
  <2>1. virtualMarketIdKey(m.tokens) \in DOMAIN store /\ virtualTokenIdKey(m.tokens[1]) \in DOMAIN store
    BY <1>1, MarketKeysStored DEF IdKeys
  <2>2. store'[virtualMarketIdKey(m.tokens)] \in SwapIds[network] \union {HashZero}
    <3>1. CASE store'[virtualMarketIdKey(m.tokens)] = store[virtualMarketIdKey(m.tokens)]
      BY <3>1 DEF TypeInvariant, StoreTyped
    <3>2. CASE store'[virtualMarketIdKey(m.tokens)] # store[virtualMarketIdKey(m.tokens)]
      <4>1. PICK w \in Settings[network] :
              w[1] = virtualMarketIdKey(m.tokens) /\ store'[virtualMarketIdKey(m.tokens)] = w[2]
        BY <2>1, <3>2, WritesChange
      <4> QED BY <1>1, <4>1, KeyNames, IdsAreListed
    <3> QED BY <3>1, <3>2
  <2>3. store'[virtualTokenIdKey(m.tokens[1])] \in PositionIds[network] \union {HashZero}
    <3>1. CASE store'[virtualTokenIdKey(m.tokens[1])] = store[virtualTokenIdKey(m.tokens[1])]
      BY <3>1 DEF TypeInvariant, StoreTyped
    <3>2. CASE store'[virtualTokenIdKey(m.tokens[1])] # store[virtualTokenIdKey(m.tokens[1])]
      <4>1. PICK w \in Settings[network] :
              w[1] = virtualTokenIdKey(m.tokens[1]) /\ store'[virtualTokenIdKey(m.tokens[1])] = w[2]
        BY <2>1, <3>2, WritesChange
      <4> QED BY <1>1, <4>1, KeyNames, IdsAreListed
    <3> QED BY <3>1, <3>2
  <2> QED BY <2>2, <2>3
<1> QED BY <1>1, <1>2, <1>3 DEF StoreTyped

LEMMA WritesTwoTokens ==
  ASSUME TypeInvariant, IdsHaveTwoTokens, NEW W, Writes(W), network' = network
  PROVE  IdsHaveTwoTokens'
<1>1. network \in Networks /\ DOMAIN store = KeysOf[network] /\ untracked \subseteq untracked'
  BY DEF TypeInvariant, StoreTyped, Writes
<1>2. ASSUME NEW m \in AllMarkets[network],
             store'[virtualMarketIdKey(m.tokens)] \notin untracked' \union {HashZero}
      PROVE  longOf(m) # shortOf(m)
  <2>1. virtualMarketIdKey(m.tokens) \in DOMAIN store
    BY <1>1, MarketKeysStored DEF IdKeys
  <2>2. CASE store'[virtualMarketIdKey(m.tokens)] = store[virtualMarketIdKey(m.tokens)]
    BY <1>1, <1>2, <2>2 DEF IdsHaveTwoTokens
  <2>3. CASE store'[virtualMarketIdKey(m.tokens)] # store[virtualMarketIdKey(m.tokens)]
    <3>1. PICK w \in Settings[network] :
            w[1] = virtualMarketIdKey(m.tokens) /\ store'[virtualMarketIdKey(m.tokens)] = w[2]
      BY <2>1, <2>3, WritesChange
    <3> QED BY <1>1, <1>2, <3>1, IdsNeedTwoTokens
  <2> QED BY <2>2, <2>3
<1> QED BY <1>2 DEF IdsHaveTwoTokens

\* A key that a script writes has the configured id.
LEMMA WritesSettle ==
  ASSUME TypeInvariant, IdsSettled, NEW W, Writes(W), network' = network
  PROVE  IdsSettled'
<1> SUFFICES ASSUME NEW w \in Settings[network], w[1][1] \in IdNames
             PROVE  store'[w[1]] = w[2] \/ store'[w[1]] \in untracked' \union {HashZero}
  BY DEF IdsSettled, Holds
<1>1. network \in Networks /\ w[1] \in DOMAIN store
  BY SettingsStored DEF TypeInvariant, StoreTyped
<1>2. CASE Holds(w)
  BY <1>2, WritesKeep
<1>3. CASE store[w[1]] \in untracked \union {HashZero}
  <2>1. CASE store'[w[1]] = store[w[1]]
    BY <1>3, <2>1 DEF Writes
  <2>2. CASE store'[w[1]] # store[w[1]]
    <3>1. PICK v \in Settings[network] : v[1] = w[1] /\ store'[w[1]] = v[2]
      BY <1>1, <2>2, WritesChange
    <3> QED BY <1>1, <3>1, OneValue
  <2> QED BY <2>1, <2>2
<1> QED BY <1>2, <1>3 DEF IdsSettled

\* Where a market's ids change that somebody keeps track of, the market is empty.
IdsMove ==
  \A m \in AllMarkets[network] : \A k \in IdKeys(m) : store'[k] # store[k] =>
    \A id \in {store[k], store'[k]} : id \notin untracked' \union {HashZero} => ~Opened(m)

\* A step of no trader, by which no such inventory is written.
NoTrade ==
  /\ \A m \in AllMarkets[network], isLong \in BOOLEAN :
       /\ store'[Pool(m, isLong)] = store[Pool(m, isLong)]
       /\ store'[openInterestKey(m.tokens, isLong)] = store[openInterestKey(m.tokens, isLong)]
  /\ \A id \in SwapIds[network], isLong \in BOOLEAN : id \notin untracked' =>
       LET key == virtualInventoryForSwapsKey(id, isLong) IN store'[key] = store[key]
  /\ \A id \in PositionIds[network] : id \notin untracked' =>
       LET key == virtualInventoryForPositionsKey(id) IN store'[key] = store[key]

\* Then the inventories stay what they are.
LEMMA NoTradeTracks ==
  ASSUME TypeInvariant, SwapsTracked, PositionsTracked, network' = network,
         untracked \subseteq untracked', IdsMove, NoTrade
  PROVE  SwapsTracked' /\ PositionsTracked'
<1> DEFINE list == MarketList[network]
<1>1. network \in Networks /\ DOMAIN store = KeysOf[network]
  BY DEF TypeInvariant, StoreTyped
<1>2. \A i \in 1 .. Len(list) : list[i] \in AllMarkets[network]
  BY <1>1, ListsAreSequences DEF AllMarkets
<1>4. ASSUME NEW id, NEW isLong \in BOOLEAN, id \notin untracked' \union {HashZero}
      PROVE  SwapShares(store', list, id, isLong) = SwapShares(store, list, id, isLong)
  <2>1. ASSUME NEW i \in 1 .. Len(list)
        PROVE  (IF store'[virtualMarketIdKey(list[i].tokens)] = id THEN store'[Pool(list[i], isLong)] ELSE 0)
                 = (IF store[virtualMarketIdKey(list[i].tokens)] = id THEN store[Pool(list[i], isLong)] ELSE 0)
    <3> DEFINE m == list[i]
    <3>1. m \in AllMarkets[network] /\ virtualMarketIdKey(m.tokens) \in IdKeys(m)
      BY <1>2 DEF IdKeys
    <3> HIDE DEF m
    <3>2. store'[Pool(m, isLong)] = store[Pool(m, isLong)]
      BY <3>1 DEF NoTrade
    <3>3. CASE store'[virtualMarketIdKey(m.tokens)] = store[virtualMarketIdKey(m.tokens)]
      BY <3>2, <3>3 DEF m
    <3>4. CASE store'[virtualMarketIdKey(m.tokens)] # store[virtualMarketIdKey(m.tokens)]
      <4>1. id \in {store[virtualMarketIdKey(m.tokens)], store'[virtualMarketIdKey(m.tokens)]} => ~Opened(m)
        BY <1>4, <3>1, <3>4 DEF IdsMove
      <4>2. ~Opened(m) => store[Pool(m, isLong)] = 0
        BY DEF Opened
      <4> QED BY <3>2, <4>1, <4>2 DEF m
    <3> QED BY <3>3, <3>4
  <2> HIDE DEF list
  <2> QED BY <2>1, Zenon DEF SwapShares
<1>5. ASSUME NEW id, id \notin untracked' \union {HashZero}
      PROVE  PositionShares(store', list, id) = PositionShares(store, list, id)
  <2>1. ASSUME NEW i \in 1 .. Len(list)
        PROVE  (IF store'[virtualTokenIdKey(list[i].tokens[1])] # id THEN 0
                ELSE store'[openInterestKey(list[i].tokens, FALSE)] - store'[openInterestKey(list[i].tokens, TRUE)])
             = (IF store[virtualTokenIdKey(list[i].tokens[1])] # id THEN 0
                ELSE store[openInterestKey(list[i].tokens, FALSE)] - store[openInterestKey(list[i].tokens, TRUE)])
    <3> DEFINE m == list[i]
               k == virtualTokenIdKey(m.tokens[1])
               oldShort == store[openInterestKey(m.tokens, FALSE)]
               oldLong == store[openInterestKey(m.tokens, TRUE)]
               newShort == store'[openInterestKey(m.tokens, FALSE)]
               newLong == store'[openInterestKey(m.tokens, TRUE)]
    <3>1. m \in AllMarkets[network] /\ k \in IdKeys(m)
      BY <1>2 DEF IdKeys
    <3>2. newShort = oldShort /\ newLong = oldLong
      BY <3>1 DEF NoTrade
    <3>3. ~Opened(m) => oldShort = 0 /\ oldLong = 0
      BY DEF Opened
    <3> HIDE DEF m
    <3>4. store'[k] # store[k] /\ id \in {store[k], store'[k]} => ~Opened(m)
      BY <1>5, <3>1 DEF IdsMove
    <3> HIDE DEF k, oldShort, oldLong, newShort, newLong
    <3>5. CASE store'[k] = store[k]
      BY <3>2, <3>5, Zenon DEF m, k, oldShort, oldLong, newShort, newLong
    <3>6. CASE store'[k] # store[k] /\ id \in {store[k], store'[k]}
      <4>0. 0 - 0 = 0
        OBVIOUS
      <4>1. oldShort - oldLong = 0 /\ newShort - newLong = 0
        BY <3>2, <3>3, <3>4, <3>6, <4>0, Zenon
      <4> QED BY <4>1 DEF m, oldShort, oldLong, newShort, newLong
    <3>7. CASE id \notin {store[k], store'[k]}
      BY <3>7 DEF m, k
    <3> QED BY <3>5, <3>6, <3>7
  <2> HIDE DEF list
  <2> QED BY <2>1, Zenon DEF PositionShares
<1> HIDE DEF list
<1>6. ASSUME NEW id \in SwapIds[network], NEW isLong \in BOOLEAN, id \notin untracked' \union {HashZero}
      PROVE  store'[virtualInventoryForSwapsKey(id, isLong)] = SwapInventory(id, isLong)'
  <2>1. store'[virtualInventoryForSwapsKey(id, isLong)] = SwapInventory(id, isLong)
    BY <1>6 DEF SwapsTracked, NoTrade
  <2>2. SwapInventory(id, isLong)' = SwapInventory(id, isLong)
    BY <1>1, <1>4, <1>6, Inventories DEF list
  <2> QED BY <2>1, <2>2
<1>7. ASSUME NEW id \in PositionIds[network], id \notin untracked' \union {HashZero}
      PROVE  store'[virtualInventoryForPositionsKey(id)] = PositionInventory(id)'
  <2>1. store'[virtualInventoryForPositionsKey(id)] = PositionInventory(id)
    BY <1>7 DEF PositionsTracked, NoTrade
  <2>2. PositionInventory(id)' = PositionInventory(id)
    BY <1>1, <1>5, <1>7, Inventories DEF list
  <2> QED BY <2>1, <2>2
<1> QED BY <1>6, <1>7 DEF SwapsTracked, PositionsTracked

\* A market whose ids a script changes is empty, or the ids are out of order already.
LEMMA WritesTrack ==
  ASSUME TypeInvariant, ClosedUntilIds, IdsSettled, SwapsTracked, PositionsTracked,
         NEW W, Writes(W), network' = network
  PROVE  SwapsTracked' /\ PositionsTracked'
<1>1. network \in Networks /\ DOMAIN store = KeysOf[network] /\ untracked \subseteq untracked'
  BY DEF TypeInvariant, StoreTyped, Writes
<1>2. IdsMove
  <2> SUFFICES ASSUME NEW m \in AllMarkets[network], NEW k \in IdKeys(m), store'[k] # store[k],
                      NEW id \in {store[k], store'[k]}, id \notin untracked' \union {HashZero}
               PROVE  ~Opened(m)
    BY DEF IdsMove
  <2>1. k \in DOMAIN store /\ k[1] \in IdNames
    BY <1>1, MarketKeysStored, KeyNames DEF IdKeys, IdNames
  <2>2. PICK w \in Settings[network] : w[1] = k /\ store'[k] = w[2] /\ ~Holds(w)
    BY <2>1, WritesChange
  <2>3. store[k] \in untracked \union {HashZero}
    BY <2>1, <2>2 DEF IdsSettled
  <2>4. w[2] \notin untracked
    BY <1>1, <2>2, <2>3
  <2> QED BY <2>2, <2>4 DEF ClosedUntilIds
<1>3. NoTrade
  BY WritesLeaveTrades DEF NoTrade
<1> QED BY <1>1, <1>2, <1>3, NoTradeTracks

IdsHold(m) ==
  \A w \in Settings[network] : w[1] \in IdKeys(m) => Holds(w) \/ w[2] \in untracked'

\* A limit of the pool is written only where the ids are set.
LEMMA WritesClose ==
  ASSUME TypeInvariant, ClosedUntilIds, NEW W, Writes(W), network' = network,
         \A m \in AllMarkets[network] : (\E w \in W : w[1] \in CapKeys(m)) => IdsHold(m)
  PROVE  ClosedUntilIds'
<1> SUFFICES ASSUME NEW m \in AllMarkets[network], Opened(m)',
                    NEW w \in Settings[network], w[1] \in IdKeys(m)
             PROVE  store'[w[1]] = w[2] \/ w[2] \in untracked'
  BY DEF ClosedUntilIds, Holds
<1>1. network \in Networks /\ DOMAIN store = KeysOf[network]
  BY DEF TypeInvariant, StoreTyped
<1>2. IdsHold(m)
  <2>1. CASE Opened(m)
    BY <2>1 DEF ClosedUntilIds, IdsHold, Writes
  <2>2. CASE ~Opened(m)
    <3>1. PICK isLong \in BOOLEAN :
            LET key == maxPoolAmountKey(m.tokens, tokenOf(m, isLong)) IN store'[key] # store[key]
      BY <2>2, WritesLeaveTrades DEF Opened
    <3> DEFINE key == maxPoolAmountKey(m.tokens, tokenOf(m, isLong))
    <3>2. key \in DOMAIN store
      BY <1>1, MarketKeysStored
    <3>3. key \in CapKeys(m)
      BY DEF CapKeys
    <3> HIDE DEF key
    <3>4. store'[key] # store[key]
      BY <3>1 DEF key
    <3>5. \E v \in W : v[1] = key
      BY <3>2, <3>4, WritesChange
    <3> QED BY <3>3, <3>5
  <2> QED BY <2>1, <2>2
<1> QED BY <1>2, WritesKeep DEF IdsHold

\* A limit of the open interest is written only with a minimum of collateral.
LEMMA WritesNeedCollateral ==
  ASSUME TypeInvariant, LimitsNeedCollateral, NEW W, Writes(W), network' = network,
         \A m \in AllMarkets[network] :
           (\E w \in W : w[1] \in LimitKeys(m)) => store'[minCollateralFactorKey(m.tokens)] # 0
  PROVE  LimitsNeedCollateral'
<1> SUFFICES ASSUME NEW m \in AllMarkets[network], store'[minCollateralFactorKey(m.tokens)] = 0,
                    NEW isLong \in BOOLEAN
             PROVE  /\ store'[openInterestKey(m.tokens, isLong)] = 0
                    /\ store'[maxOpenInterestKey(m.tokens, isLong)] = 0
  BY DEF LimitsNeedCollateral
<1>1. network \in Networks /\ DOMAIN store = KeysOf[network]
  BY DEF TypeInvariant, StoreTyped
<1>2. minCollateralFactorKey(m.tokens) \in DOMAIN store /\ maxOpenInterestKey(m.tokens, isLong) \in DOMAIN store
  BY <1>1, MarketKeysStored
<1>3. store[minCollateralFactorKey(m.tokens)] = 0
  <2>1. SUFFICES ASSUME store[minCollateralFactorKey(m.tokens)] # 0 PROVE FALSE
    OBVIOUS
  <2>2. store'[minCollateralFactorKey(m.tokens)] # store[minCollateralFactorKey(m.tokens)]
    BY <2>1
  <2>3. PICK w \in Settings[network] : w[1] = minCollateralFactorKey(m.tokens) /\ w[2] = 0
    BY <1>2, <2>2, WritesChange
  <2> QED BY <1>1, <2>3, KeyNames, CollateralIsPositive
<1>4. /\ store[openInterestKey(m.tokens, isLong)] = 0
      /\ store[maxOpenInterestKey(m.tokens, isLong)] = 0
  BY <1>3 DEF LimitsNeedCollateral
<1>5. store'[openInterestKey(m.tokens, isLong)] = 0
  BY <1>4, WritesLeaveTrades
<1>6. store'[maxOpenInterestKey(m.tokens, isLong)] = 0
  <2>1. SUFFICES ASSUME store'[maxOpenInterestKey(m.tokens, isLong)] # store[maxOpenInterestKey(m.tokens, isLong)]
                 PROVE  FALSE
    BY <1>4
  <2>2. \E w \in W : w[1] = maxOpenInterestKey(m.tokens, isLong)
    BY <1>2, <2>1, WritesChange
  <2>3. \E w \in W : w[1] \in LimitKeys(m)
    BY <2>2 DEF LimitKeys
  <2> QED BY <2>3
<1> QED BY <1>5, <1>6

LEMMA TasksTyped ==
  ASSUME TypeInvariant, NEW s \in Scripts
  PROVE  /\ Len(Tasks(s)) \in Nat
         /\ DOMAIN Tasks(s) = 1 .. Len(Tasks(s))
         /\ \A i \in DOMAIN Tasks(s) :
              Tasks(s)[i].kind = "set" => <<Tasks(s)[i].key, Stored(Tasks(s)[i].value)>> \in Settings[network]
BY ListsAreSequences, TasksAreSettings DEF TypeInvariant, Tasks

\* What a script found or put in place stays there.
LEMMA WritesKeepTasks ==
  ASSUME TypeInvariant, NEW W, Writes(W), NEW s \in Scripts, NEW i \in DOMAIN Tasks(s),
         Tasks(s)[i].kind = "set", InPlace(Tasks(s)[i])
  PROVE  store'[Tasks(s)[i].key] = Stored(Tasks(s)[i].value)
<1> DEFINE t == Tasks(s)[i]
           w == <<t.key, Stored(t.value)>>
<1>1. w \in Settings[network]
  BY TasksTyped
<1>2. w[1] = t.key /\ w[2] = Stored(t.value)
  OBVIOUS
<1>3. Holds(w)
  BY <1>2 DEF Holds, InPlace
<1> HIDE DEF w
<1>4. store'[w[1]] = w[2]
  BY <1>1, <1>3, WritesKeep
<1> QED BY <1>2, <1>4

\* The facts of the tables for the script that runs.
LEMMA DeploymentTask ==
  ASSUME TypeInvariant, NEW s \in Deployments, NEW i \in DOMAIN Tasks(s), NEW m \in AllMarkets[network],
         \A k \in 1 .. i : Given(Tasks(s)[k])
  PROVE  /\ (\E key \in CapKeys(m) : Sets(Tasks(s)[i], key))
              => \A w \in Settings[network] : w[1] \in IdKeys(m) =>
                   \E k \in 1 .. i - 1 : Sets(Tasks(s)[k], w[1])
         /\ (\E key \in LimitKeys(m) : Sets(Tasks(s)[i], key))
              => \E k \in 1 .. i - 1 : Sets(Tasks(s)[k], minCollateralFactorKey(m.tokens))
BY DeploymentsAreOrdered DEF TypeInvariant, Tasks, IsOrdered

LEMMA UpdateTask ==
  ASSUME TypeInvariant, NEW s \in Updates, NEW i \in DOMAIN Tasks(s)
  PROVE  /\ Tasks(s)[i].kind = "set"
         /\ (\A k \in DOMAIN Tasks(s) : Given(Tasks(s)[k])) => \A m \in AllMarkets[network] :
              (\E key \in LimitKeys(m) : Sets(Tasks(s)[i], key))
                => \E k \in DOMAIN Tasks(s) : Sets(Tasks(s)[k], minCollateralFactorKey(m.tokens))
BY UpdatesAreComplete DEF TypeInvariant, Tasks, IsComplete

----------------------------------------------------------------------------
(* Steps of the scripts *)

\* What is asked of the store alone.
StoreInvariant ==
  /\ StoreTyped /\ ClosedUntilIds /\ IdsSettled /\ IdsHaveTwoTokens
  /\ SwapsTracked /\ PositionsTracked /\ LimitsNeedCollateral

LEMMA WriteStep ==
  ASSUME InductiveInvariant, NEW W, Writes(W), network' = network,
         \A m \in AllMarkets[network] : (\E w \in W : w[1] \in CapKeys(m)) => IdsHold(m),
         \A m \in AllMarkets[network] :
           (\E w \in W : w[1] \in LimitKeys(m)) => store'[minCollateralFactorKey(m.tokens)] # 0
  PROVE  StoreInvariant'
<1>1. StoreTyped'
  BY WritesTyped DEF InductiveInvariant
<1>2. ClosedUntilIds'
  BY WritesClose DEF InductiveInvariant
<1>3. IdsHaveTwoTokens' /\ IdsSettled'
  BY WritesTwoTokens, WritesSettle DEF InductiveInvariant
<1>4. SwapsTracked' /\ PositionsTracked'
  BY WritesTrack DEF InductiveInvariant
<1>5. LimitsNeedCollateral'
  BY WritesNeedCollateral DEF InductiveInvariant
<1> QED BY <1>1, <1>2, <1>3, <1>4, <1>5 DEF StoreInvariant

LEMMA WritesNothing ==
  ASSUME UNCHANGED <<store, untracked>>
  PROVE  Writes({})
BY DEF Writes

LEMMA IdleStep ==
  ASSUME InductiveInvariant, UNCHANGED <<network, store, untracked>>
  PROVE  StoreInvariant' /\ Writes({})
<1>1. Writes({})
  BY WritesNothing
<1> QED BY <1>1, WriteStep

\* The script that settled last stays settled.
LEMMA SettledStays ==
  ASSUME TypeInvariant, SettledInPlace, NEW W, Writes(W), UNCHANGED <<network, edition, settled>>
  PROVE  SettledInPlace'
<1> SUFFICES ASSUME settled # "none", NEW k \in DOMAIN Tasks(settled), Tasks(settled)[k].kind = "set"
             PROVE  store'[Tasks(settled)[k].key] = Stored(Tasks(settled)[k].value)
  BY DEF SettledInPlace, Tasks, InPlace
<1>1. settled \in Scripts
  BY DEF TypeInvariant, JobTyped
<1>2. InPlace(Tasks(settled)[k])
  BY DEF SettledInPlace
<1> HIDE DEF Tasks
<1> QED BY <1>1, <1>2, WritesKeepTasks

LEMMA JobEnds ==
  ASSUME job' = NoJob, settled' \in Scripts \union {"none"}
  PROVE  JobTyped' /\ Done' /\ Prepared'
BY DEF JobTyped, Done, Prepared, NoJob, Scripts, Deployments, Updates

LEMMA ThrowStep ==
  ASSUME InductiveInvariant, NEW W, Writes(W), UNCHANGED <<network, edition>>, Throw
  PROVE  JobTyped' /\ Done' /\ Prepared' /\ SettledInPlace'
<1>1. SettledInPlace'
  BY SettledStays DEF InductiveInvariant, Throw
<1>2. JobTyped' /\ Done' /\ Prepared'
  BY JobEnds DEF InductiveInvariant, TypeInvariant, JobTyped, Throw
<1> QED BY <1>1, <1>2

\* A value that will count as kept.
StaysKept(t) ==
  \/ store'[t.key] = Stored(t.value)
  \/ ~job.clean /\ t.key[1] \in HandNames
  \/ ~job.clean /\ t.key[1] \in IdNames /\ Stored(t.value) \in untracked'

\* The tasks that a deployment leaves behind, the present one included.
LEMMA DoneSoFar ==
  ASSUME InductiveInvariant, NEW W, Writes(W), job.script \in Deployments, ~job.dry,
         Task.kind = "set" => Task.value # Undefined /\ store'[Task.key] = Stored(Task.value),
         NEW k \in 1 .. job.at, Tasks(job.script)[k].kind = "set"
  PROVE  LET t == Tasks(job.script)[k]
         IN t.value # Undefined /\ StaysKept(t)
<1>1. job.script \in Scripts /\ job.at \in DOMAIN Tasks(job.script)
  BY DEF InductiveInvariant, TypeInvariant, JobTyped, Scripts
<1>2. Len(Tasks(job.script)) \in Nat /\ DOMAIN Tasks(job.script) = 1 .. Len(Tasks(job.script))
  BY <1>1, TasksTyped DEF InductiveInvariant
<1>3. k \in DOMAIN Tasks(job.script) /\ (k = job.at \/ k \in 1 .. job.at - 1)
  BY <1>1, <1>2
<1>4. CASE k = job.at
  BY <1>4 DEF Task, StaysKept
<1>5. CASE k \in 1 .. job.at - 1
  <2>1. Kept(Tasks(job.script)[k]) /\ Tasks(job.script)[k].value # Undefined
    BY <1>5 DEF InductiveInvariant, Done
  <2>2. InPlace(Tasks(job.script)[k])
          => store'[Tasks(job.script)[k].key] = Stored(Tasks(job.script)[k].value)
    BY <1>1, <1>3, WritesKeepTasks DEF InductiveInvariant
  <2> QED BY <2>1, <2>2 DEF Kept, StaysKept, Writes
<1> QED BY <1>3, <1>4, <1>5

LEMMA AdvanceStep ==
  ASSUME InductiveInvariant, NEW W, Writes(W), UNCHANGED <<network, edition>>, Advance,
         job.script \in Deployments,
         ~job.dry /\ Task.kind = "set" => Task.value # Undefined /\ store'[Task.key] = Stored(Task.value)
  PROVE  JobTyped' /\ Done' /\ Prepared' /\ SettledInPlace'
<1>1. job.script \in Scripts /\ job.at \in DOMAIN Tasks(job.script) /\ job.script \notin Updates
  BY DEF InductiveInvariant, TypeInvariant, JobTyped, Scripts, Deployments, Updates
<1>2. Len(Tasks(job.script)) \in Nat /\ DOMAIN Tasks(job.script) = 1 .. Len(Tasks(job.script))
  BY <1>1, TasksTyped DEF InductiveInvariant
<1>3. \A s : Tasks(s)' = Tasks(s)
  BY DEF Tasks
<1>4. CASE job.at < Len(Tasks(job.script))
  <2>1. UNCHANGED settled
    BY <1>4 DEF Advance
  <2>2. /\ job' = [job EXCEPT !.at = job.at + 1]
        /\ job.at + 1 \in Nat /\ job.at + 1 \in DOMAIN Tasks(job.script) /\ (job.at + 1) - 1 = job.at
    BY <1>1, <1>2, <1>4 DEF Advance
  <2>3. /\ job'.script = job.script /\ job'.at = job.at + 1 /\ job'.dry = job.dry /\ job'.clean = job.clean
    BY <2>2 DEF InductiveInvariant, TypeInvariant, JobTyped
  <2>4. JobTyped'
    <3>1. job' \in [script : Scripts \union {"none"}, at : Nat, todo : SUBSET Nat,
                    dry : BOOLEAN, skipNew : BOOLEAN, clean : BOOLEAN]
      BY <2>2 DEF InductiveInvariant, TypeInvariant, JobTyped
    <3> QED BY <1>1, <1>3, <2>1, <2>2, <2>3, <3>1
            DEF InductiveInvariant, TypeInvariant, JobTyped, Scripts, Deployments, Updates
  <2>5. Done'
    <3> SUFFICES ASSUME ~job.dry, NEW k \in 1 .. job.at, Tasks(job.script)[k].kind = "set"
                 PROVE  LET t == Tasks(job.script)[k] IN t.value # Undefined /\ StaysKept(t)
      BY <1>3, <2>2, <2>3 DEF Done, Kept, InPlace, StaysKept
    <3> QED BY DoneSoFar
  <2>6. Prepared'
    BY <1>1, <2>3 DEF Prepared
  <2>7. SettledInPlace'
    BY <2>1, SettledStays DEF InductiveInvariant
  <2> QED BY <2>4, <2>5, <2>6, <2>7
<1>5. CASE ~(job.at < Len(Tasks(job.script)))
  <2>1. job' = NoJob /\ settled' = IF job.clean /\ ~job.dry THEN job.script ELSE settled
    BY <1>5 DEF Advance
  <2>2. job.at = Len(Tasks(job.script))
    BY <1>1, <1>2, <1>5
  <2>3. settled' \in Scripts \union {"none"}
    BY <1>1, <2>1 DEF InductiveInvariant, TypeInvariant, JobTyped
  <2>4. SettledInPlace'
    <3>1. CASE ~(job.clean /\ ~job.dry)
      BY <2>1, <3>1, SettledStays DEF InductiveInvariant
    <3>2. CASE job.clean /\ ~job.dry
      <4> SUFFICES ASSUME NEW k \in DOMAIN Tasks(job.script), Tasks(job.script)[k].kind = "set"
                   PROVE  store'[Tasks(job.script)[k].key] = Stored(Tasks(job.script)[k].value)
        BY <1>3, <2>1, <3>2 DEF SettledInPlace, InPlace
      <4>1. k \in 1 .. job.at
        BY <1>2, <2>2
      <4> QED BY <3>2, <4>1, DoneSoFar DEF StaysKept
    <3> QED BY <3>1, <3>2
  <2> QED BY <2>1, <2>3, <2>4, JobEnds
<1> QED BY <1>4, <1>5

LEMMA Assemble ==
  ASSUME TypeInvariant, StoreInvariant', JobTyped', Done', Prepared', SettledInPlace',
         network' = network, edition' \in DOMAIN Editions[network]
  PROVE  InductiveInvariant'
BY DEF InductiveInvariant, TypeInvariant, StoreInvariant

LEMMA DeployStep ==
  ASSUME InductiveInvariant, NEW s \in Deployments, NEW dry \in BOOLEAN, NEW skipNew \in BOOLEAN,
         Deploy(s, dry, skipNew)
  PROVE  InductiveInvariant'
<1>1. UNCHANGED <<network, edition, store, settled, untracked>> /\ Len(Tasks(s)) > 0
  BY DEF Deploy
<1>2. StoreInvariant' /\ Writes({})
  BY <1>1, IdleStep
<1>3. /\ job' \in [script : Scripts \union {"none"}, at : Nat, todo : SUBSET Nat,
                    dry : BOOLEAN, skipNew : BOOLEAN, clean : BOOLEAN]
      /\ job'.script = s /\ job'.at = 1 /\ job'.todo = {} /\ s \in Scripts
      /\ s \notin Updates /\ s # "none"
  BY DEF Deploy, NoJob, Scripts, Deployments, Updates
<1>4. 1 \in DOMAIN Tasks(s)
  <2>1. Len(Tasks(s)) \in Nat /\ DOMAIN Tasks(s) = 1 .. Len(Tasks(s))
    BY <1>3, TasksTyped DEF InductiveInvariant
  <2> QED BY <1>1, <2>1
<1>5. JobTyped'
  BY <1>1, <1>3, <1>4 DEF JobTyped, Tasks, InductiveInvariant, TypeInvariant
<1>6. Done'
  BY <1>3 DEF Done
<1>7. Prepared'
  BY <1>3 DEF Prepared
<1>8. SettledInPlace'
  BY <1>1, <1>2, SettledStays DEF InductiveInvariant
<1> QED BY <1>1, <1>2, <1>5, <1>6, <1>7, <1>8, Assemble DEF InductiveInvariant, TypeInvariant

LEMMA CreateMarketsStep ==
  ASSUME InductiveInvariant, CreateMarkets
  PROVE  InductiveInvariant'
<1>1. UNCHANGED <<network, edition, store, untracked>> /\ job.script \in Deployments /\ Task.kind = "create"
  BY DEF CreateMarkets
<1>2. StoreInvariant' /\ Writes({})
  BY <1>1, IdleStep
<1>3. CASE Advance
  <2>1. Task.kind # "set"
    BY <1>1
  <2> QED BY <1>1, <1>2, <1>3, <2>1, AdvanceStep, Assemble DEF InductiveInvariant, TypeInvariant
<1>4. CASE Throw
  BY <1>1, <1>2, <1>4, ThrowStep, Assemble DEF InductiveInvariant, TypeInvariant
<1> QED BY <1>3, <1>4 DEF CreateMarkets, createMarket

\* A value that a deployment has set before its present task holds, unless keepers write its key
\* or have taken the id out of order.
LEMMA DoneHolds ==
  ASSUME InductiveInvariant, job.script \in Deployments, ~job.dry, NEW k \in 1 .. job.at - 1,
         NEW key, Sets(Tasks(job.script)[k], key), key[1] \notin HandNames
  PROVE  \A w \in Settings[network] :
           w[1] = key => Holds(w) \/ (key[1] \in IdNames /\ w[2] \in untracked)
<1>1. job.script \in Scripts /\ job.at \in DOMAIN Tasks(job.script)
  BY DEF InductiveInvariant, TypeInvariant, JobTyped, Scripts
<1>2. Len(Tasks(job.script)) \in Nat /\ DOMAIN Tasks(job.script) = 1 .. Len(Tasks(job.script))
  BY <1>1, TasksTyped DEF InductiveInvariant
<1>3. k \in DOMAIN Tasks(job.script)
  BY <1>1, <1>2
<1>4. LET t == Tasks(job.script)[k]
      IN InPlace(t) \/ (key[1] \in IdNames /\ Stored(t.value) \in untracked)
  BY DEF InductiveInvariant, Done, Kept, Sets
<1>5. ASSUME NEW w \in Settings[network], w[1] = key
      PROVE  Holds(w) \/ (key[1] \in IdNames /\ w[2] \in untracked)
  <2> DEFINE v == <<Tasks(job.script)[k].key, Stored(Tasks(job.script)[k].value)>>
  <2>1. v \in Settings[network] /\ v[1] = key /\ v[2] = Stored(Tasks(job.script)[k].value)
    BY <1>1, <1>3, TasksTyped DEF InductiveInvariant, Sets
  <2>2. store[key] = v[2] \/ (key[1] \in IdNames /\ v[2] \in untracked)
    BY <1>4, <2>1 DEF InPlace, Sets
  <2> HIDE DEF v
  <2>3. w[2] = v[2]
    BY <1>5, <2>1, OneValue DEF InductiveInvariant, TypeInvariant
  <2> QED BY <1>5, <2>2, <2>3 DEF Holds
<1> QED BY <1>5

LEMMA SetValuesStep ==
  ASSUME InductiveInvariant, SetValues
  PROVE  InductiveInvariant'
<1>1. UNCHANGED <<network, edition, untracked>> /\ job.script \in Deployments /\ Task.kind = "set"
  BY DEF SetValues
<1>2. /\ TypeInvariant /\ network \in Networks /\ DOMAIN store = KeysOf[network]
      /\ job.script \in Scripts /\ job.at \in DOMAIN Tasks(job.script)
      /\ edition' \in DOMAIN Editions[network]
  BY <1>1 DEF InductiveInvariant, TypeInvariant, StoreTyped, JobTyped, Scripts
<1>3. CASE UNCHANGED store /\ Throw
  <2>1. StoreInvariant' /\ Writes({})
    BY <1>1, <1>3, IdleStep
  <2> QED BY <1>1, <1>2, <1>3, <2>1, ThrowStep, Assemble
<1>4. CASE UNCHANGED store /\ Advance /\ job.dry
  <2>1. StoreInvariant' /\ Writes({})
    BY <1>1, <1>4, IdleStep
  <2> QED BY <1>1, <1>2, <1>4, <2>1, AdvanceStep, Assemble
<1>5. CASE Advance /\ ~job.dry /\ Task.value # Undefined /\ store' = [store EXCEPT ![Task.key] = Stored(Task.value)]
  <2> DEFINE w == <<Task.key, Stored(Task.value)>>
  <2>1. w \in Settings[network] /\ w[1] = Task.key /\ w[2] = Stored(Task.value)
    BY <1>1, <1>2, TasksTyped DEF Task
  <2> HIDE DEF w
  <2>2. w[1] \in DOMAIN store
    BY <1>2, <2>1, SettingsStored
  <2>3. store' = [store EXCEPT ![w[1]] = w[2]]
    BY <1>5, <2>1
  <2>4. Writes({w})
    BY <1>1, <2>1, <2>2, <2>3 DEF Writes
  <2>9. PICK at \in DOMAIN Tasks(job.script) : at = job.at
    BY <1>2
  <2>10. \A k \in 1 .. at : Given(Tasks(job.script)[k])
    <3> SUFFICES ASSUME NEW k \in 1 .. at PROVE Given(Tasks(job.script)[k])
      OBVIOUS
    <3>1. job.at \in Nat /\ (k = job.at \/ k \in 1 .. job.at - 1)
      BY <1>2, <2>9 DEF TypeInvariant, JobTyped
    <3>2. CASE k = job.at
      BY <1>5, <3>2 DEF Task, Given
    <3>3. CASE k \in 1 .. job.at - 1
      BY <1>1, <1>5, <3>3 DEF InductiveInvariant, Done, Given
    <3> QED BY <3>1, <3>2, <3>3
  <2>5. ASSUME NEW m \in AllMarkets[network], w[1] \in CapKeys(m)
        PROVE  IdsHold(m)
    <3>1. \E key \in CapKeys(m) : Sets(Tasks(job.script)[at], key)
      BY <1>1, <2>1, <2>5, <2>9 DEF Sets, Task
    <3>2. \A v \in Settings[network] : v[1] \in IdKeys(m) =>
            \E k \in 1 .. job.at - 1 : Sets(Tasks(job.script)[k], v[1])
      BY <1>1, <1>2, <2>9, <2>10, <3>1, DeploymentTask
    <3>3. \A key \in IdKeys(m) : key[1] \notin HandNames
      BY KeyNames DEF IdKeys, HandNames
    <3> QED BY <1>1, <1>5, <3>2, <3>3, DoneHolds DEF IdsHold
  <2>6. ASSUME NEW m \in AllMarkets[network], w[1] \in LimitKeys(m)
        PROVE  store'[minCollateralFactorKey(m.tokens)] # 0
    <3> DEFINE key == minCollateralFactorKey(m.tokens)
    <3>1. \E other \in LimitKeys(m) : Sets(Tasks(job.script)[at], other)
      BY <1>1, <2>1, <2>6, <2>9 DEF Sets, Task
    <3>2. PICK k \in 1 .. job.at - 1 : Sets(Tasks(job.script)[k], key)
      BY <1>1, <1>2, <2>9, <2>10, <3>1, DeploymentTask
    <3>3. key[1] = "MIN_COLLATERAL_FACTOR" /\ key[1] \notin HandNames /\ key[1] \notin IdNames
      BY KeyNames DEF HandNames, IdNames
    <3>4. k \in DOMAIN Tasks(job.script)
      <4>1. Len(Tasks(job.script)) \in Nat /\ DOMAIN Tasks(job.script) = 1 .. Len(Tasks(job.script))
        BY <1>2, TasksTyped
      <4> QED BY <1>2, <4>1
    <3> HIDE DEF key
    <3>5. PICK v \in Settings[network] : v[1] = key
      BY <1>2, <3>2, <3>4, TasksTyped DEF Sets
    <3>6. Holds(v)
      BY <1>1, <1>5, <3>2, <3>3, <3>5, DoneHolds
    <3>7. store'[v[1]] = v[2]
      BY <1>2, <2>4, <3>6, WritesKeep
    <3>8. v[2] # 0
      BY <1>2, <3>3, <3>5, CollateralIsPositive
    <3> QED BY <3>5, <3>7, <3>8 DEF key
  <2>7. StoreInvariant'
    BY <1>1, <2>4, <2>5, <2>6, WriteStep
  <2>8. store'[Task.key] = Stored(Task.value)
    BY <2>1, <2>4 DEF Writes
  <2> QED BY <1>1, <1>2, <1>5, <2>4, <2>7, <2>8, AdvanceStep, Assemble
<1> QED BY <1>3, <1>4, <1>5 DEF SetValues, setIfDifferent

LEMMA CrashStep ==
  ASSUME InductiveInvariant, Crash
  PROVE  InductiveInvariant'
<1>1. UNCHANGED <<network, edition, store, untracked>> /\ Throw
  BY DEF Crash
<1>2. StoreInvariant' /\ Writes({})
  BY <1>1, IdleStep
<1> QED BY <1>1, <1>2, ThrowStep, Assemble DEF InductiveInvariant, TypeInvariant

LEMMA ReadForUpdateStep ==
  ASSUME InductiveInvariant, NEW s \in Updates, ReadForUpdate(s)
  PROVE  InductiveInvariant'
<1>1. UNCHANGED <<network, edition, store, settled, untracked>> /\ Runs(s)
  BY DEF ReadForUpdate
<1>2. StoreInvariant' /\ Writes({})
  BY <1>1, IdleStep
<1>3. s \in Scripts /\ s \notin Deployments /\ s # "none"
  BY DEF Scripts, Deployments, Updates
<1>4. WithPairs(s, Changes(s)) \subseteq DOMAIN Tasks(s) /\ Changes(s) \subseteq WithPairs(s, Changes(s))
  BY DEF WithPairs, Changes
<1>5. DOMAIN Tasks(s) \subseteq Nat
  BY <1>3, TasksTyped DEF InductiveInvariant
<1>6. /\ job' \in [script : Scripts \union {"none"}, at : Nat, todo : SUBSET Nat,
                    dry : BOOLEAN, skipNew : BOOLEAN, clean : BOOLEAN]
      /\ job'.script = s /\ job'.todo = WithPairs(s, Changes(s))
  BY <1>3, <1>4, <1>5 DEF ReadForUpdate, NoJob
<1>7. JobTyped'
  BY <1>1, <1>3, <1>4, <1>6 DEF JobTyped, Tasks, InductiveInvariant, TypeInvariant
<1>8. Done'
  BY <1>3, <1>6 DEF Done
<1>9. Prepared'
  <2>1. ASSUME NEW k \in DOMAIN Tasks(s)
        PROVE  Tasks(s)[k].value # Undefined /\ (k \in job'.todo \/ InPlace(Tasks(s)[k]))
    <3>1. Tasks(s)[k].value # Undefined
      BY <1>1 DEF Runs, EachTask
    <3>2. k \in Changes(s) \/ InPlace(Tasks(s)[k])
      BY DEF Changes
    <3> QED BY <1>4, <1>6, <3>1, <3>2
  <2> QED BY <1>1, <1>6, <2>1 DEF Prepared, Kept, Tasks, InPlace
<1>10. SettledInPlace'
  BY <1>1, <1>2, SettledStays DEF InductiveInvariant
<1> QED BY <1>1, <1>2, <1>7, <1>8, <1>9, <1>10, Assemble DEF InductiveInvariant, TypeInvariant

LEMMA SendUpdateStep ==
  ASSUME InductiveInvariant, SendUpdate
  PROVE  InductiveInvariant'
<1> DEFINE tasks == Tasks(job.script)
           Setting(i) == <<tasks[i].key, Stored(tasks[i].value)>>
           W == {Setting(i) : i \in job.todo}
           early == OpenedWithout({tasks[i].key : i \in job.todo})
<1>1. UNCHANGED <<network, edition>> /\ job.script \in Updates /\ job' = NoJob
  BY DEF SendUpdate
<1>2. /\ TypeInvariant /\ network \in Networks /\ DOMAIN store = KeysOf[network]
      /\ job.script \in Scripts /\ edition' \in DOMAIN Editions[network]
      /\ job.todo \subseteq DOMAIN tasks
  BY <1>1 DEF InductiveInvariant, TypeInvariant, StoreTyped, JobTyped, Scripts
<1>3. \A i \in DOMAIN tasks : tasks[i].kind = "set"
  BY <1>1, <1>2, UpdateTask
<1>4. \A i \in DOMAIN tasks : /\ Setting(i) \in Settings[network]
                             /\ Setting(i)[1] = tasks[i].key /\ Setting(i)[2] = Stored(tasks[i].value)
  BY <1>2, <1>3, TasksTyped
<1>5. store' = [k \in DOMAIN store |->
                  IF \E i \in job.todo : tasks[i].key = k
                  THEN Stored(tasks[CHOOSE i \in job.todo : tasks[i].key = k].value) ELSE store[k]]
  BY DEF SendUpdate
<1>13. untracked' = untracked \union early
  BY DEF SendUpdate
<1> HIDE DEF tasks, early
<1>6. ASSUME NEW i \in job.todo
      PROVE  store'[tasks[i].key] = Stored(tasks[i].value)
  <2> DEFINE j == CHOOSE j \in job.todo : tasks[j].key = tasks[i].key
  <2>1. j \in job.todo /\ tasks[j].key = tasks[i].key
    OBVIOUS
  <2>2. tasks[i].key \in DOMAIN store
    BY <1>2, <1>4, SettingsStored
  <2>3. store'[tasks[i].key] = Stored(tasks[j].value)
    BY <1>5, <2>2
  <2> HIDE DEF j
  <2>4. Setting(j)[2] = Setting(i)[2]
    BY <1>2, <1>4, <2>1, OneValue
  <2> QED BY <1>2, <1>4, <2>1, <2>3, <2>4
<1>7. Writes(W)
  <2>1. W \subseteq Settings[network]
    BY <1>2, <1>4
  <2>2. DOMAIN store' = DOMAIN store
    BY <1>5
  <2>3. \A w \in W : store'[w[1]] = w[2]
    BY <1>6
  <2>4. ASSUME NEW k \in DOMAIN store, \A w \in W : w[1] # k
        PROVE  store'[k] = store[k]
    <3>1. \A i \in job.todo : tasks[i].key # k
      BY <1>2, <1>4, <2>4
    <3> QED BY <1>5, <3>1
  <2> QED BY <1>13, <2>1, <2>2, <2>3, <2>4 DEF Writes
<1>8. \A k \in DOMAIN tasks : Given(tasks[k]) /\ StaysKept(tasks[k])
  <2> SUFFICES ASSUME NEW k \in DOMAIN tasks
               PROVE  Given(tasks[k]) /\ StaysKept(tasks[k])
    OBVIOUS
  <2>1. tasks[k].value # Undefined /\ (k \in job.todo \/ Kept(tasks[k]))
    BY <1>1 DEF InductiveInvariant, Prepared, tasks
  <2>2. InPlace(tasks[k]) => store'[tasks[k].key] = Stored(tasks[k].value)
    BY <1>2, <1>3, <1>7, WritesKeepTasks DEF tasks
  <2> QED BY <1>6, <1>13, <2>1, <2>2 DEF Given, Kept, StaysKept
<1>9. ASSUME NEW m \in AllMarkets[network], NEW w \in W, w[1] \in CapKeys(m)
      PROVE  IdsHold(m)
  <2>1. CapKeys(m) \intersect {tasks[i].key : i \in job.todo} # {}
    BY <1>2, <1>4, <1>9
  <2>2. ASSUME NEW v \in Settings[network], v[1] \in IdKeys(m)
        PROVE  Holds(v) \/ v[2] \in untracked'
    BY <1>13, <2>1, <2>2 DEF Holds, OpenedWithout, early
  <2> QED BY <2>2 DEF IdsHold
<1>10. ASSUME NEW m \in AllMarkets[network], NEW w \in W, w[1] \in LimitKeys(m)
       PROVE  store'[minCollateralFactorKey(m.tokens)] # 0
  <2>1. PICK i \in DOMAIN tasks : Sets(tasks[i], w[1])
    BY <1>2, <1>3, <1>4 DEF Sets
  <2>2. PICK k \in DOMAIN tasks : Sets(tasks[k], minCollateralFactorKey(m.tokens))
    BY <1>1, <1>2, <1>8, <1>10, <2>1, UpdateTask DEF tasks
  <2>3. tasks[k].key[1] = "MIN_COLLATERAL_FACTOR" /\ tasks[k].key[1] \notin HandNames \union IdNames
    BY <2>2, KeyNames DEF Sets, HandNames, IdNames
  <2>4. Setting(k)[2] # 0
    BY <1>2, <1>4, <2>3, CollateralIsPositive
  <2> QED BY <1>4, <1>8, <2>2, <2>3, <2>4 DEF Sets, StaysKept
<1> HIDE DEF W, Setting
<1>11. StoreInvariant'
  BY <1>1, <1>7, <1>9, <1>10, WriteStep
<1>12. SettledInPlace' /\ settled' \in Scripts \union {"none"}
  <2>1. CASE ~job.clean
    BY <1>1, <1>2, <1>7, <2>1, SettledStays DEF InductiveInvariant, SendUpdate, TypeInvariant, JobTyped
  <2>2. CASE job.clean
    <3>1. settled' = job.script
      BY <2>2 DEF SendUpdate
    <3>3. \A k \in DOMAIN tasks : store'[tasks[k].key] = Stored(tasks[k].value)
      BY <1>8, <2>2 DEF StaysKept
    <3>4. Tasks(settled)' = tasks
      BY <1>1, <3>1 DEF Tasks, tasks
    <3> QED BY <1>2, <3>1, <3>3, <3>4 DEF SettledInPlace, InPlace
  <2> QED BY <2>1, <2>2
<1> QED BY <1>1, <1>2, <1>11, <1>12, JobEnds, Assemble

LEMMA EditListStep ==
  ASSUME InductiveInvariant, EditList
  PROVE  InductiveInvariant'
<1>1. UNCHANGED <<network, store, job, untracked>> /\ settled' = "none" /\ job = NoJob
  BY DEF EditList, Idle, InductiveInvariant, TypeInvariant, JobTyped
<1>2. StoreInvariant'
  BY <1>1, IdleStep
<1>3. edition' \in DOMAIN Editions[network]
  <2>1. network \in Networks /\ edition \in 1 .. Final - First + 1 /\ edition < Final - First + 1
    BY DEF EditList, InductiveInvariant, TypeInvariant, Editions
  <2>2. Final - First + 1 \in Int
    BY BoundsAssumption
  <2>3. edition + 1 \in 1 .. Final - First + 1
    BY <2>1, <2>2
  <2> QED BY <2>1, <2>3 DEF EditList, Editions
<1>4. JobTyped' /\ Done' /\ Prepared'
  BY <1>1, JobEnds
<1>5. SettledInPlace'
  BY <1>1 DEF SettledInPlace
<1> QED BY <1>1, <1>2, <1>3, <1>4, <1>5, Assemble DEF InductiveInvariant

----------------------------------------------------------------------------
(* Keepers *)

InventoryNames ==
  {"POOL_AMOUNT", "OPEN_INTEREST", "VIRTUAL_INVENTORY_FOR_SWAPS", "VIRTUAL_INVENTORY_FOR_POSITIONS"}

\* Keepers write a few keys: they close pools, and take virtual ids out of order.
HandWrites(ids) ==
  /\ DOMAIN store' = DOMAIN store
  /\ untracked' = untracked \union ids
  /\ \A k \in DOMAIN store : store'[k] # store[k] =>
       k[1] \in HandNames \union IdNames
                \union {"VIRTUAL_INVENTORY_FOR_SWAPS", "VIRTUAL_INVENTORY_FOR_POSITIONS"}
  /\ \A k \in DOMAIN store : k[1] = "MAX_POOL_AMOUNT" => store'[k] \in {store[k], 0}
  /\ \A k \in DOMAIN store : k[1] \in IdNames /\ store'[k] # store[k] => {store[k], store'[k]} \subseteq ids
  /\ \A k \in DOMAIN store :
       /\ k[1] = "VIRTUAL_MARKET_ID" => store'[k] \in {store[k], HashZero} \union SwapIds[network]
       /\ k[1] = "VIRTUAL_TOKEN_ID" => store'[k] \in {store[k], HashZero} \union PositionIds[network]
  /\ \A id \in SwapIds[network], isLong \in BOOLEAN : id \notin ids =>
       LET key == virtualInventoryForSwapsKey(id, isLong) IN store'[key] = store[key]
  /\ \A id \in PositionIds[network] : id \notin ids =>
       LET key == virtualInventoryForPositionsKey(id) IN store'[key] = store[key]

LEMMA HandWritesLeave ==
  ASSUME TypeInvariant, NEW ids, HandWrites(ids), NEW m \in AllMarkets[network], NEW isLong \in BOOLEAN
  PROVE  /\ store'[Pool(m, isLong)] = store[Pool(m, isLong)]
         /\ store'[openInterestKey(m.tokens, isLong)] = store[openInterestKey(m.tokens, isLong)]
         /\ store'[maxOpenInterestKey(m.tokens, isLong)] = store[maxOpenInterestKey(m.tokens, isLong)]
         /\ store'[minCollateralFactorKey(m.tokens)] = store[minCollateralFactorKey(m.tokens)]
         /\ LET key == maxPoolAmountKey(m.tokens, tokenOf(m, isLong))
            IN store'[key] = store[key] \/ store'[key] = 0
<1> DEFINE Written == HandNames \union IdNames
                      \union {"VIRTUAL_INVENTORY_FOR_SWAPS", "VIRTUAL_INVENTORY_FOR_POSITIONS"}
<1>1. network \in Networks /\ DOMAIN store = KeysOf[network]
  BY DEF TypeInvariant, StoreTyped
<1>2. /\ Pool(m, isLong)[1] \notin Written
      /\ openInterestKey(m.tokens, isLong)[1] \notin Written
      /\ maxOpenInterestKey(m.tokens, isLong)[1] \notin Written
      /\ minCollateralFactorKey(m.tokens)[1] \notin Written
      /\ maxPoolAmountKey(m.tokens, tokenOf(m, isLong))[1] = "MAX_POOL_AMOUNT"
  BY KeyNames DEF HandNames, IdNames, Pool
<1>3. /\ \A k \in DOMAIN store : k[1] \notin Written => store'[k] = store[k]
      /\ \A k \in DOMAIN store : k[1] = "MAX_POOL_AMOUNT" => store'[k] \in {store[k], 0}
  BY DEF HandWrites
<1> HIDE DEF Written
<1> QED BY <1>1, <1>2, <1>3, MarketKeysStored

\* An id changes by hand only to one, and from one, that nobody keeps track of afterwards.
LEMMA HandWritesIds ==
  ASSUME TypeInvariant, NEW ids, HandWrites(ids), NEW k \in DOMAIN store, k[1] \in IdNames
  PROVE  store'[k] = store[k] \/ (store[k] \in untracked' /\ store'[k] \in untracked')
BY DEF HandWrites

LEMMA HandStore ==
  ASSUME InductiveInvariant, NEW ids, HandWrites(ids), network' = network
  PROVE  StoreInvariant'
<1>1. /\ TypeInvariant /\ network \in Networks /\ DOMAIN store = KeysOf[network]
      /\ DOMAIN store' = DOMAIN store /\ untracked \subseteq untracked'
  BY DEF InductiveInvariant, TypeInvariant, StoreTyped, HandWrites
<1>2. ASSUME NEW m \in AllMarkets[network]
      PROVE  /\ virtualMarketIdKey(m.tokens) \in DOMAIN store /\ virtualTokenIdKey(m.tokens[1]) \in DOMAIN store
             /\ virtualMarketIdKey(m.tokens)[1] = "VIRTUAL_MARKET_ID"
             /\ virtualTokenIdKey(m.tokens[1])[1] = "VIRTUAL_TOKEN_ID"
             /\ IdKeys(m) = {virtualMarketIdKey(m.tokens), virtualTokenIdKey(m.tokens[1])}
  <2>1. IdKeys(m) \subseteq DOMAIN store
    BY <1>1, MarketKeysStored
  <2> QED BY <2>1, KeyNames DEF IdKeys
<1>3. StoreTyped'
  <2>1. ASSUME NEW m \in AllMarkets[network]
        PROVE  /\ store'[virtualMarketIdKey(m.tokens)] \in SwapIds[network] \union {HashZero}
               /\ store'[virtualTokenIdKey(m.tokens[1])] \in PositionIds[network] \union {HashZero}
    <3>1. /\ store[virtualMarketIdKey(m.tokens)] \in SwapIds[network] \union {HashZero}
          /\ store[virtualTokenIdKey(m.tokens[1])] \in PositionIds[network] \union {HashZero}
      BY <1>1 DEF TypeInvariant, StoreTyped
    <3> QED BY <1>2, <3>1 DEF HandWrites
  <2> QED BY <1>1, <2>1, HandWritesLeave DEF TypeInvariant, StoreTyped
<1>4. ClosedUntilIds'
  <2> SUFFICES ASSUME NEW m \in AllMarkets[network], Opened(m)',
                      NEW w \in Settings[network], w[1] \in IdKeys(m)
               PROVE  store'[w[1]] = w[2] \/ w[2] \in untracked'
    BY <1>1 DEF ClosedUntilIds, Holds
  <2>1. Opened(m)
    BY <1>1, HandWritesLeave DEF Opened
  <2>2. Holds(w) \/ w[2] \in untracked
    BY <2>1 DEF InductiveInvariant, ClosedUntilIds
  <2>3. w[1] \in DOMAIN store /\ w[1][1] \in IdNames
    BY <1>2 DEF IdNames
  <2> QED BY <1>1, <2>2, <2>3, HandWritesIds DEF Holds
<1>5. IdsSettled'
  <2> SUFFICES ASSUME NEW w \in Settings[network], w[1][1] \in IdNames
               PROVE  store'[w[1]] = w[2] \/ store'[w[1]] \in untracked' \union {HashZero}
    BY <1>1 DEF IdsSettled, Holds
  <2>1. Holds(w) \/ store[w[1]] \in untracked \union {HashZero}
    BY DEF InductiveInvariant, IdsSettled
  <2>2. w[1] \in DOMAIN store
    BY <1>1, SettingsStored
  <2> QED BY <1>1, <2>1, <2>2, HandWritesIds DEF Holds
<1>6. IdsHaveTwoTokens'
  <2> SUFFICES ASSUME NEW m \in AllMarkets[network],
                      store'[virtualMarketIdKey(m.tokens)] \notin untracked' \union {HashZero}
               PROVE  longOf(m) # shortOf(m)
    BY <1>1 DEF IdsHaveTwoTokens
  <2>1. store'[virtualMarketIdKey(m.tokens)] = store[virtualMarketIdKey(m.tokens)]
    BY <1>1, <1>2, HandWritesIds DEF IdNames
  <2> QED BY <1>1, <2>1 DEF InductiveInvariant, IdsHaveTwoTokens
<1>7. LimitsNeedCollateral'
  BY <1>1, HandWritesLeave DEF InductiveInvariant, LimitsNeedCollateral
<1>8. IdsMove
  <2> SUFFICES ASSUME NEW m \in AllMarkets[network], NEW k \in IdKeys(m), store'[k] # store[k]
               PROVE  {store[k], store'[k]} \subseteq untracked'
    BY DEF IdsMove
  <2>1. k \in DOMAIN store /\ k[1] \in IdNames
    BY <1>2 DEF IdNames
  <2> QED BY <1>1, <2>1, HandWritesIds
<1>9. NoTrade
  BY <1>1, HandWritesLeave DEF NoTrade, HandWrites
<1>10. SwapsTracked' /\ PositionsTracked'
  BY <1>1, <1>8, <1>9, NoTradeTracks DEF InductiveInvariant
<1> QED BY <1>3, <1>4, <1>5, <1>6, <1>7, <1>10 DEF StoreInvariant

LEMMA ByHandStep ==
  ASSUME InductiveInvariant, NEW changed, NEW ids, ByHand(changed, ids), HandWrites(ids)
  PROVE  InductiveInvariant'
<1>1. /\ UNCHANGED <<network, edition>> /\ settled' = "none"
      /\ job' = [job EXCEPT !.clean = (job.script = "none")]
  BY DEF ByHand, Idle
<1>2. /\ TypeInvariant /\ network \in Networks /\ edition' \in DOMAIN Editions[network]
      /\ DOMAIN store = KeysOf[network]
      /\ job \in [script : Scripts \union {"none"}, at : Nat, todo : SUBSET Nat,
                   dry : BOOLEAN, skipNew : BOOLEAN, clean : BOOLEAN]
  BY <1>1 DEF InductiveInvariant, TypeInvariant, StoreTyped, JobTyped
<1>3. StoreInvariant'
  BY <1>1, HandStore
<1>4. /\ job'.script = job.script /\ job'.at = job.at /\ job'.todo = job.todo /\ job'.dry = job.dry
      /\ job'.clean = (job.script = "none")
  BY <1>1, <1>2
<1>5. \A s : Tasks(s)' = Tasks(s)
  BY <1>1 DEF Tasks
<1>6. "none" \notin Deployments \union Updates
  BY DEF Deployments, Updates
<1>7. JobTyped'
  <2>1. job' \in [script : Scripts \union {"none"}, at : Nat, todo : SUBSET Nat,
                  dry : BOOLEAN, skipNew : BOOLEAN, clean : BOOLEAN]
    BY <1>1, <1>2
  <2>2. ASSUME job.script = "none" PROVE job' = NoJob
    <3>1. job = NoJob
      BY <1>2, <2>2 DEF TypeInvariant, JobTyped
    <3>2. job' = [NoJob EXCEPT !.clean = TRUE]
      BY <1>1, <2>2, <3>1
    <3> QED BY <3>2 DEF NoJob
  <2> QED BY <1>1, <1>2, <1>4, <1>5, <2>1, <2>2 DEF TypeInvariant, JobTyped
<1>12. job.script # "none" => job'.clean = FALSE
  BY <1>4
\* What was kept is kept: a script runs, so that the value counts as changed by hand.
<1>8. ASSUME NEW s \in Scripts, s = job.script, NEW k \in DOMAIN Tasks(s), Tasks(s)[k].kind = "set",
             Kept(Tasks(s)[k])
      PROVE  Kept(Tasks(s)[k])'
  <2> DEFINE t == Tasks(s)[k]
             w == <<t.key, Stored(t.value)>>
  <2>1. w \in Settings[network] /\ w[1] = t.key
    BY <1>2, <1>8, TasksTyped
  <2> HIDE DEF w
  <2>2. t.key \in DOMAIN store
    BY <1>2, <2>1, SettingsStored
  <2>3. job'.clean = FALSE
    BY <1>6, <1>8, <1>12 DEF Scripts
  <2>4. t' = t
    BY <1>5
  <2>5. untracked \subseteq untracked'
    BY DEF HandWrites
  <2>6. t.key[1] \notin {"VIRTUAL_INVENTORY_FOR_SWAPS", "VIRTUAL_INVENTORY_FOR_POSITIONS"}
    BY <1>2, <2>1, TradesCount
  <2>7. InPlace(t) \/ t.key[1] \in HandNames \/ (t.key[1] \in IdNames /\ Stored(t.value) \in untracked)
    BY <1>8 DEF Kept
  <2> SUFFICES \/ store'[t.key] = Stored(t.value)
               \/ ~job'.clean /\ t.key[1] \in HandNames
               \/ ~job'.clean /\ t.key[1] \in IdNames /\ Stored(t.value) \in untracked'
    BY <2>4 DEF Kept, InPlace
  <2> HIDE DEF t
  <2>9. CASE store'[t.key] = store[t.key]
    BY <2>3, <2>5, <2>7, <2>9 DEF InPlace
  <2>10. CASE store'[t.key] # store[t.key]
    <3>1. t.key[1] \in HandNames \union IdNames
      BY <2>2, <2>6, <2>10 DEF HandWrites
    <3>2. t.key[1] \in IdNames => store[t.key] \in untracked'
      BY <1>2, <2>2, <2>10, HandWritesIds
    <3> QED BY <2>3, <2>5, <2>7, <3>1, <3>2 DEF InPlace
  <2> QED BY <2>9, <2>10
<1>9. Done'
  <2> SUFFICES ASSUME job.script \in Deployments, ~job.dry, NEW k \in 1 .. job.at - 1,
                      Tasks(job.script)[k].kind = "set"
               PROVE  Tasks(job.script)[k].value # Undefined /\ Kept(Tasks(job.script)[k])'
    BY <1>4, <1>5 DEF Done
  <2>1. job.script \in Scripts /\ job.at \in DOMAIN Tasks(job.script)
    BY <1>2 DEF TypeInvariant, JobTyped, Scripts
  <2>2. Len(Tasks(job.script)) \in Nat /\ DOMAIN Tasks(job.script) = 1 .. Len(Tasks(job.script))
    BY <1>2, <2>1, TasksTyped
  <2>3. k \in DOMAIN Tasks(job.script)
    BY <2>1, <2>2
  <2>4. PICK s \in Scripts : s = job.script
    BY <2>1
  <2>5. Tasks(s)[k].value # Undefined /\ Kept(Tasks(s)[k])
    BY <2>4 DEF InductiveInvariant, Done
  <2>6. Kept(Tasks(s)[k])'
    BY <1>8, <2>3, <2>4, <2>5
  <2>7. Tasks(job.script)' = Tasks(s)'
    BY <1>4, <2>4 DEF Tasks
  <2> QED BY <2>4, <2>5, <2>6, <2>7 DEF Kept, InPlace
<1>10. Prepared'
  <2> SUFFICES ASSUME job.script \in Updates, NEW k \in DOMAIN Tasks(job.script)
               PROVE  /\ Tasks(job.script)[k].value # Undefined
                      /\ k \in job.todo \/ Kept(Tasks(job.script)[k])'
    BY <1>4, <1>5 DEF Prepared
  <2>1. PICK s \in Scripts : s = job.script
    BY DEF Scripts
  <2>2. Tasks(s)[k].value # Undefined /\ (k \in job.todo \/ Kept(Tasks(s)[k]))
    BY <2>1 DEF InductiveInvariant, Prepared
  <2>3. Tasks(s)[k].kind = "set"
    BY <1>2, <2>1, UpdateTask
  <2>4. k \in job.todo \/ Kept(Tasks(s)[k])'
    BY <1>8, <2>1, <2>2, <2>3
  <2>5. Tasks(job.script)' = Tasks(s)'
    BY <1>4, <2>1 DEF Tasks
  <2> QED BY <2>1, <2>2, <2>4, <2>5 DEF Kept, InPlace
<1>11. SettledInPlace'
  BY <1>1 DEF SettledInPlace
<1> QED BY <1>1, <1>2, <1>3, <1>7, <1>9, <1>10, <1>11, Assemble

LEMMA InventoriesInStore ==
  InductiveInvariant =>
    /\ \A id \in SwapIds[network], isLong \in BOOLEAN :
         virtualInventoryForSwapsKey(id, isLong) \in DOMAIN store
    /\ \A id \in PositionIds[network] : virtualInventoryForPositionsKey(id) \in DOMAIN store
BY InventoryKeysStored DEF InductiveInvariant, TypeInvariant, StoreTyped

LEMMA CloseByHandStep ==
  ASSUME InductiveInvariant, NEW m \in AllMarkets[network], NEW isLong \in BOOLEAN, CloseByHand(m, isLong)
  PROVE  InductiveInvariant'
<1> DEFINE key == maxPoolAmountKey(m.tokens, tokenOf(m, isLong))
<1>1. key[1] = "MAX_POOL_AMOUNT"
  BY KeyNames
<1>2. ByHand([store EXCEPT ![key] = 0], {})
  BY DEF CloseByHand
<1> HIDE DEF key
<1>3. /\ DOMAIN store' = DOMAIN store /\ untracked' = untracked \union {}
      /\ \A k \in DOMAIN store : store'[k] # store[k] => k = key /\ store'[k] = 0
  BY <1>2 DEF ByHand
<1>4. HandWrites({})
  BY <1>1, <1>3, KeyNames, InventoriesInStore DEF HandWrites, HandNames, IdNames
<1> QED BY <1>2, <1>4, ByHandStep

LEMMA SetDistributionStep ==
  ASSUME InductiveInvariant, NEW m, setPositionImpactDistributionRate(m)
  PROVE  InductiveInvariant'
<1> DEFINE rate == positionImpactPoolDistributionRateKey(m.tokens)
           floor == minPositionImpactPoolAmountKey(m.tokens)
<1>1. rate[1] = "POSITION_IMPACT_POOL_DISTRIBUTION_RATE" /\ floor[1] = "MIN_POSITION_IMPACT_POOL_AMOUNT"
  BY KeyNames
<1>2. ByHand([store EXCEPT ![rate] = 2, ![floor] = 2], {})
  BY DEF setPositionImpactDistributionRate
<1> HIDE DEF rate, floor
<1>3. /\ DOMAIN store' = DOMAIN store /\ untracked' = untracked \union {}
      /\ \A k \in DOMAIN store : store'[k] # store[k] => k \in {rate, floor}
  BY <1>2 DEF ByHand
<1>4. HandWrites({})
  BY <1>1, <1>3, KeyNames, InventoriesInStore DEF HandWrites, HandNames, IdNames
<1> QED BY <1>2, <1>4, ByHandStep

\* Of the virtual ids, one key is written at a time.
LEMMA SetIdStep ==
  ASSUME InductiveInvariant, NEW key, NEW id, SetIdByHand(key, id),
         \/ key[1] = "VIRTUAL_MARKET_ID" /\ id \in SwapIds[network] \union {HashZero}
         \/ key[1] = "VIRTUAL_TOKEN_ID" /\ id \in PositionIds[network] \union {HashZero}
  PROVE  InductiveInvariant'
<1> DEFINE ids == {store[key], id}
<1>1. ByHand([store EXCEPT ![key] = id], ids)
  BY DEF SetIdByHand
<1>2. /\ DOMAIN store' = DOMAIN store
      /\ \A k \in DOMAIN store : store'[k] # store[k] => k = key /\ store'[k] = id
      /\ untracked' = untracked \union ids
  BY <1>1 DEF ByHand
<1>3. \A k \in DOMAIN store : k[1] \in InventoryNames => store'[k] = store[k]
  BY <1>2 DEF InventoryNames
<1>4. HandWrites(ids)
  BY <1>2, <1>3, KeyNames, InventoriesInStore DEF HandWrites, HandNames, IdNames, InventoryNames
<1> HIDE DEF ids
<1> QED BY <1>1, <1>4, ByHandStep

LEMMA ResetSwapsStep ==
  ASSUME InductiveInvariant, NEW id \in SwapIds[network], NEW isLong \in BOOLEAN,
         ResetInventoryByHand(virtualInventoryForSwapsKey(id, isLong), id)
  PROVE  InductiveInvariant'
<1> DEFINE key == virtualInventoryForSwapsKey(id, isLong)
<1>1. ByHand([store EXCEPT ![key] = 0], {id})
  BY DEF ResetInventoryByHand
<1>2. /\ DOMAIN store' = DOMAIN store /\ untracked' = untracked \union {id}
      /\ \A k \in DOMAIN store : store'[k] # store[k] => k = key
  BY <1>1 DEF ByHand
<1>3. key[1] = "VIRTUAL_INVENTORY_FOR_SWAPS"
  BY KeyNames
<1>4. \A other, side : virtualInventoryForSwapsKey(other, side) = key => other = id
  BY KeyParts
<1> HIDE DEF key
<1>5. HandWrites({id})
  BY <1>2, <1>3, <1>4, KeyNames, InventoriesInStore DEF HandWrites, HandNames, IdNames
<1> QED BY <1>1, <1>5, ByHandStep

LEMMA ResetPositionsStep ==
  ASSUME InductiveInvariant, NEW id \in PositionIds[network],
         ResetInventoryByHand(virtualInventoryForPositionsKey(id), id)
  PROVE  InductiveInvariant'
<1> DEFINE key == virtualInventoryForPositionsKey(id)
<1>1. ByHand([store EXCEPT ![key] = 0], {id})
  BY DEF ResetInventoryByHand
<1>2. /\ DOMAIN store' = DOMAIN store /\ untracked' = untracked \union {id}
      /\ \A k \in DOMAIN store : store'[k] # store[k] => k = key
  BY <1>1 DEF ByHand
<1>3. key[1] = "VIRTUAL_INVENTORY_FOR_POSITIONS"
  BY KeyNames
<1>4. \A other : virtualInventoryForPositionsKey(other) = key => other = id
  BY KeyParts
<1> HIDE DEF key
<1>5. HandWrites({id})
  BY <1>2, <1>3, <1>4, KeyNames, InventoriesInStore DEF HandWrites, HandNames, IdNames
<1> QED BY <1>1, <1>5, ByHandStep

LEMMA VirtualsByHandStep ==
  ASSUME InductiveInvariant, VirtualsByHand(network)
  PROVE  InductiveInvariant'
<1>1. ASSUME NEW m \in Listed, NEW id \in SwapIds[network] \union {HashZero},
             SetIdByHand(virtualMarketIdKey(m.tokens), id)
      PROVE  InductiveInvariant'
  BY <1>1, SetIdStep, KeyNames
<1>2. ASSUME NEW m \in Listed, NEW id \in PositionIds[network] \union {HashZero},
             SetIdByHand(virtualTokenIdKey(m.tokens[1]), id)
      PROVE  InductiveInvariant'
  BY <1>2, SetIdStep, KeyNames
<1>3. ASSUME NEW id \in SwapIds[network], NEW isLong \in BOOLEAN,
             ResetInventoryByHand(virtualInventoryForSwapsKey(id, isLong), id)
      PROVE  InductiveInvariant'
  BY <1>3, ResetSwapsStep
<1>4. ASSUME NEW id \in PositionIds[network],
             ResetInventoryByHand(virtualInventoryForPositionsKey(id), id)
      PROVE  InductiveInvariant'
  BY <1>4, ResetPositionsStep
<1> QED BY <1>1, <1>2, <1>3, <1>4 DEF VirtualsByHand

----------------------------------------------------------------------------
(* Traders *)

\* A step that writes no setting leaves the scripts where they are.
LEMMA TradeJobs ==
  ASSUME InductiveInvariant, UNCHANGED <<network, edition, job, settled, untracked>>,
         \A w \in Settings[network] : store'[w[1]] = store[w[1]]
  PROVE  JobTyped' /\ Done' /\ Prepared' /\ SettledInPlace'
<1>1. \A s : Tasks(s)' = Tasks(s)
  BY DEF Tasks
<1>2. ASSUME NEW s \in Scripts, NEW k \in DOMAIN Tasks(s), Tasks(s)[k].kind = "set"
      PROVE  InPlace(Tasks(s)[k])' <=> InPlace(Tasks(s)[k])
  <2> DEFINE w == <<Tasks(s)[k].key, Stored(Tasks(s)[k].value)>>
  <2>1. w \in Settings[network] /\ w[1] = Tasks(s)[k].key
    BY <1>2, TasksTyped DEF InductiveInvariant
  <2> HIDE DEF w
  <2>2. store'[Tasks(s)[k].key] = store[Tasks(s)[k].key]
    BY <2>1
  <2> QED BY <1>1, <2>2 DEF InPlace
<1>3. JobTyped'
  BY <1>1 DEF InductiveInvariant, TypeInvariant, JobTyped
<1>4. Done'
  <2> SUFFICES ASSUME job.script \in Deployments, ~job.dry, NEW k \in 1 .. job.at - 1,
                      Tasks(job.script)[k].kind = "set"
               PROVE  Tasks(job.script)[k].value # Undefined /\ Kept(Tasks(job.script)[k])'
    BY <1>1 DEF Done
  <2>1. job.script \in Scripts /\ job.at \in DOMAIN Tasks(job.script)
    BY DEF InductiveInvariant, TypeInvariant, JobTyped, Scripts
  <2>2. Len(Tasks(job.script)) \in Nat /\ DOMAIN Tasks(job.script) = 1 .. Len(Tasks(job.script))
    BY <2>1, TasksTyped DEF InductiveInvariant
  <2>3. k \in DOMAIN Tasks(job.script)
    BY <2>1, <2>2
  <2>4. Tasks(job.script)[k].value # Undefined /\ Kept(Tasks(job.script)[k])
    BY DEF InductiveInvariant, Done
  <2>5. PICK s \in Scripts : s = job.script
    BY <2>1
  <2>6. InPlace(Tasks(s)[k])' <=> InPlace(Tasks(s)[k])
    BY <1>2, <2>3, <2>5
  <2>7. job'.script = s /\ Tasks(job.script)' = Tasks(s)'
    BY <2>5 DEF Tasks
  <2> QED BY <1>1, <2>4, <2>5, <2>6, <2>7 DEF Kept, InPlace
<1>6. Prepared'
  <2> SUFFICES ASSUME job.script \in Updates, NEW k \in DOMAIN Tasks(job.script)
               PROVE  /\ Tasks(job.script)[k].value # Undefined
                      /\ k \in job.todo \/ Kept(Tasks(job.script)[k])'
    BY <1>1 DEF Prepared
  <2>1. PICK s \in Scripts : s = job.script
    BY DEF Scripts
  <2>2. Tasks(s)[k].value # Undefined /\ (k \in job.todo \/ Kept(Tasks(s)[k]))
    BY <2>1 DEF InductiveInvariant, Prepared
  <2>3. Tasks(s)[k].kind = "set"
    BY <2>1, UpdateTask DEF InductiveInvariant
  <2>4. k \in job.todo \/ Kept(Tasks(s)[k])'
    BY <1>1, <1>2, <2>1, <2>2, <2>3 DEF Kept
  <2> QED BY <2>1, <2>2, <2>4 DEF Kept, InPlace, Tasks
<1>7. SettledInPlace'
  <2> SUFFICES ASSUME settled # "none", NEW k \in DOMAIN Tasks(settled), Tasks(settled)[k].kind = "set"
               PROVE  store'[Tasks(settled)[k].key] = Stored(Tasks(settled)[k].value)
    BY <1>1 DEF SettledInPlace, InPlace
  <2>1. PICK s \in Scripts : s = settled
    BY DEF InductiveInvariant, TypeInvariant, JobTyped
  <2>2. InPlace(Tasks(s)[k])
    BY <2>1 DEF InductiveInvariant, SettledInPlace
  <2>3. InPlace(Tasks(s)[k])'
    BY <1>2, <2>1, <2>2
  <2> QED BY <1>1, <2>1, <2>3 DEF InPlace
<1> QED BY <1>3, <1>4, <1>6, <1>7

\* What a trade leaves alone.
LEMMA TradesLeave ==
  ASSUME TypeInvariant, \A k \in DOMAIN store : k[1] \notin InventoryNames => store'[k] = store[k]
  PROVE  /\ \A w \in Settings[network] : store'[w[1]] = store[w[1]]
         /\ \A m \in AllMarkets[network], isLong \in BOOLEAN :
              /\ \A k \in IdKeys(m) : store'[k] = store[k]
              /\ store'[minCollateralFactorKey(m.tokens)] = store[minCollateralFactorKey(m.tokens)]
              /\ store'[maxOpenInterestKey(m.tokens, isLong)] = store[maxOpenInterestKey(m.tokens, isLong)]
              /\ LET key == maxPoolAmountKey(m.tokens, tokenOf(m, isLong)) IN store'[key] = store[key]
<1>1. network \in Networks /\ DOMAIN store = KeysOf[network]
  BY DEF TypeInvariant, StoreTyped
<1>2. ASSUME NEW w \in Settings[network]
      PROVE  store'[w[1]] = store[w[1]]
  BY <1>1, SettingsStored, TradesCount DEF InventoryNames
<1>3. ASSUME NEW m \in AllMarkets[network], NEW isLong \in BOOLEAN
      PROVE  /\ \A k \in IdKeys(m) : store'[k] = store[k]
             /\ store'[minCollateralFactorKey(m.tokens)] = store[minCollateralFactorKey(m.tokens)]
             /\ store'[maxOpenInterestKey(m.tokens, isLong)] = store[maxOpenInterestKey(m.tokens, isLong)]
             /\ LET key == maxPoolAmountKey(m.tokens, tokenOf(m, isLong)) IN store'[key] = store[key]
  <2>1. /\ minCollateralFactorKey(m.tokens)[1] \notin InventoryNames
        /\ maxOpenInterestKey(m.tokens, isLong)[1] \notin InventoryNames
        /\ maxPoolAmountKey(m.tokens, tokenOf(m, isLong))[1] \notin InventoryNames
        /\ \A k \in IdKeys(m) : k[1] \notin InventoryNames
    BY KeyNames DEF InventoryNames, IdKeys
  <2> QED BY <1>1, <2>1, MarketKeysStored
<1> QED BY <1>2, <1>3

\* The virtual inventory of the market's id moves with its pool; the
\* contracts' lower bound of 0 is never needed, but that needs the invariant.
PoolMoves(m, isLong, delta) ==
  LET id == store[virtualMarketIdKey(m.tokens)]
      key == virtualInventoryForSwapsKey(id, isLong)
  IN /\ DOMAIN store' = DOMAIN store
     /\ store'[Pool(m, isLong)] = store[Pool(m, isLong)] + delta
     /\ id # HashZero => store'[key] = IF store[key] + delta < 0 THEN 0 ELSE store[key] + delta
     /\ \A k \in DOMAIN store :
          k # Pool(m, isLong) /\ (id = HashZero \/ k # key) => store'[k] = store[k]

LEMMA PoolMovement ==
  ASSUME TypeInvariant, NEW m \in AllMarkets[network], NEW isLong \in BOOLEAN, NEW delta \in Int,
         store' = applyDeltaToPoolAmount(m, isLong, delta)
  PROVE  PoolMoves(m, isLong, delta)
<1> DEFINE pool == Pool(m, isLong)
           idKey == virtualMarketIdKey(m.tokens)
           id == store[idKey]
           key == virtualInventoryForSwapsKey(id, isLong)
           moved == [store EXCEPT ![pool] = store[pool] + delta]
<1>1. network \in Networks /\ DOMAIN store = KeysOf[network] /\ id \in SwapIds[network] \union {HashZero}
  BY DEF TypeInvariant, StoreTyped
<1>2. pool \in DOMAIN store
  BY <1>1, MarketKeysStored
<1>3. id # HashZero => key \in DOMAIN store
  BY <1>1, InventoryKeysStored
<1>4. pool # idKey /\ pool # key
  BY KeyNames DEF Pool
<1>5. moved[idKey] = id
  BY <1>4
<1>6. store' = IF id = HashZero THEN moved
               ELSE [moved EXCEPT ![key] = IF moved[key] + delta < 0 THEN 0 ELSE moved[key] + delta]
  <2> DEFINE key2 == virtualInventoryForSwapsKey(moved[idKey], isLong)
  <2>1. store' = IF moved[idKey] = HashZero THEN moved
                 ELSE [moved EXCEPT ![key2] = IF moved[key2] + delta < 0 THEN 0 ELSE moved[key2] + delta]
    BY Zenon DEF applyDeltaToPoolAmount, applyDeltaToVirtualInventoryForSwaps, Plus
  <2>2. key2 = key
    BY <1>5
  <2> HIDE DEF key2, moved, key, id, idKey
  <2> QED BY <1>5, <2>1, <2>2, Zenon
<1> HIDE DEF pool, idKey, id, key
<1>7. CASE id = HashZero
  BY <1>2, <1>6, <1>7 DEF PoolMoves, pool, idKey, id, key
<1>8. CASE id # HashZero
  <2>1. moved[key] = store[key] /\ moved[pool] = store[pool] + delta /\ DOMAIN moved = DOMAIN store
    BY <1>2, <1>4
  <2>2. store' = [moved EXCEPT ![key] = IF store[key] + delta < 0 THEN 0 ELSE store[key] + delta]
    BY <1>6, <1>8, <2>1
  <2>3. /\ DOMAIN store' = DOMAIN store
        /\ store'[key] = IF store[key] + delta < 0 THEN 0 ELSE store[key] + delta
        /\ store'[pool] = store[pool] + delta
        /\ \A k \in DOMAIN store : k # pool /\ k # key => store'[k] = store[k]
    BY <1>2, <1>3, <1>4, <1>8, <2>1, <2>2
  <2> QED BY <1>8, <2>3 DEF PoolMoves, pool, idKey, id, key
<1> QED BY <1>7, <1>8

LEMMA OtherPools ==
  ASSUME TypeInvariant, NEW m \in AllMarkets[network], NEW isLong \in BOOLEAN, NEW delta \in Int,
         PoolMoves(m, isLong, delta)
  PROVE  /\ \A k \in DOMAIN store : k[1] \notin InventoryNames => store'[k] = store[k]
         /\ \A k \in DOMAIN store :
              k[1] \in {"OPEN_INTEREST", "VIRTUAL_INVENTORY_FOR_POSITIONS"} => store'[k] = store[k]
         /\ \A other \in AllMarkets[network], side \in BOOLEAN :
              Pool(other, side) # Pool(m, isLong)
                => store'[Pool(other, side)] = store[Pool(other, side)]
         /\ \A other \in AllMarkets[network], side \in BOOLEAN :
              Pool(other, side) = Pool(m, isLong) => other = m /\ tokenOf(m, side) = tokenOf(m, isLong)
<1> DEFINE pool == Pool(m, isLong)
           id == store[virtualMarketIdKey(m.tokens)]
           key == virtualInventoryForSwapsKey(id, isLong)
<1>1. network \in Networks /\ DOMAIN store = KeysOf[network]
  BY DEF TypeInvariant, StoreTyped
<1>2. pool[1] = "POOL_AMOUNT" /\ key[1] = "VIRTUAL_INVENTORY_FOR_SWAPS"
  BY KeyNames DEF Pool
<1>3. \A k \in DOMAIN store : k # pool /\ k # key => store'[k] = store[k]
  BY DEF PoolMoves
<1> HIDE DEF pool, key, id
<1>4. \A k \in DOMAIN store : k[1] \notin InventoryNames => store'[k] = store[k]
  BY <1>2, <1>3 DEF InventoryNames
<1>5. \A k \in DOMAIN store :
        k[1] \in {"OPEN_INTEREST", "VIRTUAL_INVENTORY_FOR_POSITIONS"} => store'[k] = store[k]
  BY <1>2, <1>3
<1>6. ASSUME NEW other \in AllMarkets[network], NEW side \in BOOLEAN, Pool(other, side) # Pool(m, isLong)
      PROVE  store'[Pool(other, side)] = store[Pool(other, side)]
  <2>1. Pool(other, side) \in DOMAIN store
    BY <1>1, MarketKeysStored
  <2>2. Pool(other, side)[1] = "POOL_AMOUNT"
    BY KeyNames DEF Pool
  <2>3. Pool(other, side) # key
    BY <1>2, <2>2
  <2> QED BY <1>3, <1>6, <2>1, <2>3 DEF pool
<1>7. ASSUME NEW other \in AllMarkets[network], NEW side \in BOOLEAN, Pool(other, side) = Pool(m, isLong)
      PROVE  other = m /\ tokenOf(m, side) = tokenOf(m, isLong)
  <2>1. other.tokens = m.tokens /\ tokenOf(other, side) = tokenOf(m, isLong)
    BY <1>7, KeyParts DEF Pool
  <2>2. other = m
    BY <1>1, <2>1, TokensTellMarkets
  <2> QED BY <2>1, <2>2
<1> QED BY <1>4, <1>5, <1>6, <1>7

LEMMA PoolTracks ==
  ASSUME InductiveInvariant, NEW m \in AllMarkets[network], NEW isLong \in BOOLEAN, NEW delta \in Int,
         PoolMoves(m, isLong, delta), store[Pool(m, isLong)] + delta \in Nat,
         network' = network, untracked' = untracked
  PROVE  SwapsTracked'
<1> SUFFICES ASSUME NEW id \in SwapIds[network], NEW side \in BOOLEAN, id \notin untracked, id # HashZero
             PROVE  store'[virtualInventoryForSwapsKey(id, side)] = SwapInventory(id, side)'
  BY DEF SwapsTracked
<1> DEFINE list == MarketList[network]
           n == Len(list)
           f == SwapShares(store, list, id, side)
           g == SwapShares(store', list, id, side)
           key == virtualInventoryForSwapsKey(id, side)
           own == store[virtualMarketIdKey(m.tokens)]
           pool == Pool(m, side)
<1>1. TypeInvariant /\ network \in Networks /\ DOMAIN store = KeysOf[network]
  BY DEF InductiveInvariant, TypeInvariant, StoreTyped
<1>2. \A i \in 1 .. n : list[i] \in AllMarkets[network]
  BY <1>1, ListsAreSequences DEF AllMarkets
<1>3. PICK k \in 1 .. n : list[k] = m
  BY <1>1, ListsAreSequences DEF AllMarkets
<1>4. n \in Nat /\ f \in [1 .. n -> Nat]
  BY <1>1, SharesTyped
<1>5. ASSUME NEW i \in 1 .. n
      PROVE  store'[virtualMarketIdKey(list[i].tokens)] = store[virtualMarketIdKey(list[i].tokens)]
  <2>1. virtualMarketIdKey(list[i].tokens) \in IdKeys(list[i])
    BY DEF IdKeys
  <2> QED BY <1>1, <1>2, <2>1, OtherPools, TradesLeave
<1>6. \A i \in (1 .. n) \ {k} : g[i] = f[i]
  <2> SUFFICES ASSUME NEW i \in (1 .. n) \ {k}
               PROVE  g[i] = f[i]
    OBVIOUS
  <2>1. list[i] # m
    BY <1>1, <1>3, MarketsDiffer, ListsAreSequences
  <2>2. Pool(list[i], side) # Pool(m, isLong)
    BY <1>1, <1>2, <2>1, OtherPools
  <2>3. store'[Pool(list[i], side)] = store[Pool(list[i], side)]
    BY <1>1, <1>2, <2>2, OtherPools
  <2> QED BY <1>5, <2>3 DEF SwapShares
<1>7. /\ f[k] = IF own = id THEN store[pool] ELSE 0
      /\ g[k] = IF own = id THEN store'[pool] ELSE 0
  BY <1>3, <1>5 DEF SwapShares
<1>8. store[pool] \in Nat
  BY <1>1 DEF TypeInvariant, StoreTyped
<1>9. key \in DOMAIN store
  BY <1>1, InventoryKeysStored
<1>10. store[key] = Total(f, n) /\ SwapInventory(id, side)' = Total(g, n)
  <2>1. store[key] = SwapInventory(id, side)
    BY DEF InductiveInvariant, SwapsTracked
  <2> QED BY <1>1, <2>1, Inventories
<1>11. DOMAIN g = 1 .. n
  BY DEF SwapShares
<1>12. g = [i \in 1 .. n |-> g[i]]
  BY DEF SwapShares
\* How the market's own share changes, and the inventory of the id.
<1>13. CASE own = id /\ side = isLong
  <2>1. store'[pool] = store[pool] + delta /\ store[pool] + delta \in Nat
    BY <1>13 DEF PoolMoves
  <2>2. store'[key] = IF store[key] + delta < 0 THEN 0 ELSE store[key] + delta
    BY <1>13 DEF PoolMoves
  <2> HIDE DEF f, g, key, own, pool, list, n
  <2>3. f[k] = store[pool] /\ g[k] = store[pool] + delta
    BY <1>7, <1>13, <2>1
  <2>4. g \in [1 .. n -> Int]
    BY <1>4, <1>6, <1>11, <1>12, <2>1, <2>3
  <2>5. Total(f, n) \in Nat /\ f[k] <= Total(f, n)
    BY <1>4, TotalNat, TotalBoundsTerm
  <2>6. Total(g, n) = Total(f, n) + g[k] - f[k]
    <3>1. n \in Nat /\ f \in [1 .. n -> Int]
      BY <1>4
    <3>2. DifferAt(k, f, g, n)
      BY <1>6 DEF DifferAt
    <3> QED BY <2>4, <3>1, <3>2, ShareChange
  <2> DEFINE total == Total(f, n)
             share == store[pool]
             after == Total(g, n)
  <2>7. /\ total \in Nat /\ share \in Nat /\ share + delta \in Nat /\ share <= total
        /\ after = total + (share + delta) - share
    BY <1>8, <2>1, <2>3, <2>5, <2>6
  <2> HIDE DEF total, share, after
  <2>8. ~(total + delta < 0) /\ after = total + delta
    BY <2>7
  <2>9. store'[key] = total + delta
    BY <1>10, <2>2, <2>8 DEF total
  <2> QED BY <1>10, <2>8, <2>9 DEF key, after
<1>14. CASE ~(own = id /\ side = isLong)
  <2>1. store'[key] = store[key]
    <3>1. key # Pool(m, isLong)
      BY KeyNames DEF Pool
    <3>2. own = HashZero \/ key # virtualInventoryForSwapsKey(own, isLong)
      <4> SUFFICES ASSUME key = virtualInventoryForSwapsKey(own, isLong) PROVE FALSE
        OBVIOUS
      <4>1. virtualInventoryForSwapsKey(id, side) = virtualInventoryForSwapsKey(own, isLong)
        OBVIOUS
      <4> HIDE DEF own
      <4>2. id = own /\ side = isLong
        BY <4>1 DEF virtualInventoryForSwapsKey
      <4> QED BY <1>14, <4>2
    <3> QED BY <1>9, <3>1, <3>2 DEF PoolMoves
  <2>2. g[k] = f[k]
    <3>1. CASE own # id
      BY <1>7, <3>1
    <3>2. CASE own = id
      <4>1. longOf(m) # shortOf(m)
        BY <3>2 DEF InductiveInvariant, IdsHaveTwoTokens
      <4>2. side # isLong
        BY <1>14, <3>2
      <4>3. tokenOf(m, side) # tokenOf(m, isLong)
        BY <4>1, <4>2 DEF tokenOf
      <4>4. pool # Pool(m, isLong)
        BY <1>1, <4>3, OtherPools
      <4>5. store'[pool] = store[pool]
        BY <1>1, <4>4, OtherPools
      <4> QED BY <1>7, <4>5
    <3> QED BY <3>1, <3>2
  <2> HIDE DEF f, g, key, own, pool, list, n
  <2>3. f = [i \in 1 .. n |-> f[i]]
    BY <1>4
  <2>4. \A i \in 1 .. n : g[i] = f[i]
    BY <1>6, <2>2
  <2>5. g = f
    BY <1>12, <2>3, <2>4, Zenon
  <2> QED BY <1>10, <2>1, <2>5 DEF key
<1> QED BY <1>13, <1>14

\* A trade in a market that is open leaves closed what is closed.
LEMMA TradesClose ==
  ASSUME InductiveInvariant, NEW m \in AllMarkets[network], Opened(m), UNCHANGED <<network, untracked>>,
         \A k \in DOMAIN store : k[1] \notin InventoryNames => store'[k] = store[k],
         \A other \in AllMarkets[network] \ {m}, side \in BOOLEAN :
           /\ store'[Pool(other, side)] = store[Pool(other, side)]
           /\ store'[openInterestKey(other.tokens, side)] = store[openInterestKey(other.tokens, side)]
  PROVE  ClosedUntilIds' /\ IdsSettled' /\ IdsHaveTwoTokens'
<1>1. TypeInvariant
  BY DEF InductiveInvariant
<1>2. ASSUME NEW other \in AllMarkets[network], Opened(other)',
             NEW w \in Settings[network], w[1] \in IdKeys(other)
      PROVE  store'[w[1]] = w[2] \/ w[2] \in untracked
  <2>1. Opened(other)
    <3>1. CASE other = m
      BY <3>1
    <3>2. CASE other # m
      BY <1>1, <1>2, <3>2, TradesLeave DEF Opened
    <3> QED BY <3>1, <3>2
  <2>2. Holds(w) \/ w[2] \in untracked
    BY <1>2, <2>1 DEF InductiveInvariant, ClosedUntilIds
  <2> QED BY <1>1, <2>2, TradesLeave DEF Holds
<1>3. ClosedUntilIds'
  BY <1>2 DEF ClosedUntilIds, Holds
<1>4. IdsHaveTwoTokens'
  <2>1. \A other \in AllMarkets[network] : virtualMarketIdKey(other.tokens) \in IdKeys(other)
    BY DEF IdKeys
  <2> QED BY <1>1, <2>1, TradesLeave DEF InductiveInvariant, IdsHaveTwoTokens
<1>5. IdsSettled'
  BY <1>1, TradesLeave DEF InductiveInvariant, IdsSettled, Holds
<1> QED BY <1>3, <1>4, <1>5

LEMMA PoolStep ==
  ASSUME InductiveInvariant, NEW m \in AllMarkets[network], NEW isLong \in BOOLEAN, NEW delta \in Int,
         Opened(m), store[Pool(m, isLong)] + delta \in Nat,
         Trade(applyDeltaToPoolAmount(m, isLong, delta))
  PROVE  InductiveInvariant'
<1>1. UNCHANGED <<network, edition, job, settled, untracked>>
  BY DEF Trade
<1>2. /\ TypeInvariant /\ network \in Networks /\ edition' \in DOMAIN Editions[network]
      /\ DOMAIN store = KeysOf[network]
  BY <1>1 DEF InductiveInvariant, TypeInvariant, StoreTyped
<1>3. PoolMoves(m, isLong, delta)
  BY <1>2, PoolMovement DEF Trade
<1>4. /\ DOMAIN store' = DOMAIN store
      /\ \A k \in DOMAIN store : k[1] \notin InventoryNames => store'[k] = store[k]
      /\ \A k \in DOMAIN store :
           k[1] \in {"OPEN_INTEREST", "VIRTUAL_INVENTORY_FOR_POSITIONS"} => store'[k] = store[k]
  BY <1>2, <1>3, OtherPools DEF PoolMoves
<1>5. \A w \in Settings[network] : store'[w[1]] = store[w[1]]
  BY <1>2, <1>4, TradesLeave
<1>6. JobTyped' /\ Done' /\ Prepared' /\ SettledInPlace'
  BY <1>1, <1>5, TradeJobs
<1>7. ASSUME NEW other \in AllMarkets[network], NEW side \in BOOLEAN
      PROVE  /\ store'[openInterestKey(other.tokens, side)] = store[openInterestKey(other.tokens, side)]
             /\ store'[Pool(other, side)] = store[Pool(other, side)] \/ store'[Pool(other, side)] \in Nat
             /\ other # m => store'[Pool(other, side)] = store[Pool(other, side)]
  <2>1. openInterestKey(other.tokens, side) \in DOMAIN store
    BY <1>2, MarketKeysStored
  <2>2. openInterestKey(other.tokens, side)[1] = "OPEN_INTEREST"
    BY KeyNames
  <2>3. store'[openInterestKey(other.tokens, side)] = store[openInterestKey(other.tokens, side)]
    BY <1>4, <2>1, <2>2
  <2>4. CASE Pool(other, side) = Pool(m, isLong)
    <3>1. other = m
      BY <1>2, <1>3, <2>4, OtherPools
    <3>2. store'[Pool(other, side)] \in Nat
      BY <1>3, <2>4 DEF PoolMoves
    <3> QED BY <2>3, <3>1, <3>2
  <2>5. CASE Pool(other, side) # Pool(m, isLong)
    BY <1>2, <1>3, <2>3, <2>5, OtherPools
  <2> QED BY <2>4, <2>5
<1>8. \A other \in AllMarkets[network] :
        /\ virtualMarketIdKey(other.tokens) \in IdKeys(other)
        /\ virtualTokenIdKey(other.tokens[1]) \in IdKeys(other)
  BY DEF IdKeys
<1>9. StoreTyped'
  BY <1>1, <1>2, <1>4, <1>7, <1>8, TradesLeave DEF TypeInvariant, StoreTyped
<1>10. ClosedUntilIds' /\ IdsSettled' /\ IdsHaveTwoTokens'
  BY <1>1, <1>4, <1>7, TradesClose
<1>11. LimitsNeedCollateral'
  BY <1>1, <1>2, <1>4, <1>7, TradesLeave DEF InductiveInvariant, LimitsNeedCollateral
<1>12. SwapsTracked'
  BY <1>1, <1>3, PoolTracks
<1>13. PositionsTracked'
  <2> DEFINE list == MarketList[network]
  <2>1. \A i \in 1 .. Len(list) : list[i] \in AllMarkets[network]
    BY <1>2, ListsAreSequences DEF AllMarkets
  <2> HIDE DEF list
  <2> SUFFICES ASSUME NEW id \in PositionIds[network], id \notin untracked, id # HashZero
               PROVE  store'[virtualInventoryForPositionsKey(id)] = PositionInventory(id)'
    BY <1>1 DEF PositionsTracked
  <2>2. \A i \in 1 .. Len(list) :
          /\ store'[virtualTokenIdKey(list[i].tokens[1])] = store[virtualTokenIdKey(list[i].tokens[1])]
          /\ store'[openInterestKey(list[i].tokens, TRUE)] = store[openInterestKey(list[i].tokens, TRUE)]
          /\ store'[openInterestKey(list[i].tokens, FALSE)] = store[openInterestKey(list[i].tokens, FALSE)]
    BY <1>2, <1>4, <1>7, <1>8, <2>1, TradesLeave
  <2>3. PositionShares(store', list, id) = PositionShares(store, list, id)
    BY <2>2, Zenon DEF PositionShares
  <2>4. PositionInventory(id)' = PositionInventory(id)
    BY <1>1, <1>2, <2>3, Inventories DEF list
  <2>5. store[virtualInventoryForPositionsKey(id)] = PositionInventory(id)
    BY DEF InductiveInvariant, PositionsTracked
  <2>6. store'[virtualInventoryForPositionsKey(id)] = store[virtualInventoryForPositionsKey(id)]
    <3>1. virtualInventoryForPositionsKey(id)[1] = "VIRTUAL_INVENTORY_FOR_POSITIONS"
      BY KeyNames
    <3> QED BY <1>2, <1>4, <3>1, InventoryKeysStored
  <2> QED BY <2>4, <2>5, <2>6
<1>14. StoreInvariant'
  BY <1>9, <1>10, <1>11, <1>12, <1>13 DEF StoreInvariant
<1> QED BY <1>1, <1>2, <1>6, <1>14, Assemble

\* Tokens come in only below the limit, and go out only where they are.
LEMMA DepositStep ==
  ASSUME InductiveInvariant, NEW m \in AllMarkets[network], NEW isLong \in BOOLEAN, Deposit(m, isLong)
  PROVE  InductiveInvariant'
<1>1. store[Pool(m, isLong)] \in Nat
  BY DEF InductiveInvariant, TypeInvariant, StoreTyped
<1>2. Opened(m)
  <2>1. store[maxPoolAmountKey(m.tokens, tokenOf(m, isLong))] # 0
    BY <1>1 DEF Deposit
  <2> QED BY <2>1 DEF Opened
<1>3. store[Pool(m, isLong)] + 1 \in Nat
  BY <1>1
<1> QED BY <1>2, <1>3, PoolStep DEF Deposit

LEMMA WithdrawStep ==
  ASSUME InductiveInvariant, NEW m \in AllMarkets[network], NEW isLong \in BOOLEAN, Withdraw(m, isLong)
  PROVE  InductiveInvariant'
<1>1. store[Pool(m, isLong)] \in Nat /\ store[openInterestKey(m.tokens, isLong)] \in Nat
  BY DEF InductiveInvariant, TypeInvariant, StoreTyped
<1> DEFINE pool == store[Pool(m, isLong)]
           interest == store[openInterestKey(m.tokens, isLong)]
<1>2. pool - 1 >= interest
  BY DEF Withdraw
<1> HIDE DEF pool, interest
<1>3. pool \in Nat /\ interest \in Nat
  BY <1>1 DEF pool, interest
<1>4. pool # 0 /\ pool + (-1) \in Nat
  BY <1>2, <1>3
<1>5. Opened(m)
  BY <1>4 DEF Opened, pool
<1>6. store[Pool(m, isLong)] + (-1) \in Nat /\ -1 \in Int
  BY <1>4 DEF pool
<1> QED BY <1>5, <1>6, PoolStep DEF Withdraw

\* The virtual inventory of the index token's id moves against the longs and with the shorts.
InterestMoves(m, isLong, delta) ==
  LET id == store[virtualTokenIdKey(m.tokens[1])]
      key == virtualInventoryForPositionsKey(id)
      interest == openInterestKey(m.tokens, isLong)
  IN /\ DOMAIN store' = DOMAIN store
     /\ store'[interest] = store[interest] + delta
     /\ id # HashZero => store'[key] = store[key] + (IF isLong THEN -delta ELSE delta)
     /\ \A k \in DOMAIN store : k # interest /\ (id = HashZero \/ k # key) => store'[k] = store[k]

LEMMA InterestMovement ==
  ASSUME TypeInvariant, NEW m \in AllMarkets[network], NEW isLong \in BOOLEAN, NEW delta \in Int,
         store' = applyDeltaToOpenInterest(m, isLong, delta)
  PROVE  InterestMoves(m, isLong, delta)
<1> DEFINE interest == openInterestKey(m.tokens, isLong)
           idKey == virtualTokenIdKey(m.tokens[1])
           id == store[idKey]
           key == virtualInventoryForPositionsKey(id)
           turn == IF isLong THEN -delta ELSE delta
           moved == [store EXCEPT ![interest] = store[interest] + delta]
<1>1. network \in Networks /\ DOMAIN store = KeysOf[network] /\ id \in PositionIds[network] \union {HashZero}
  BY DEF TypeInvariant, StoreTyped
<1>2. interest \in DOMAIN store
  BY <1>1, MarketKeysStored
<1>3. id # HashZero => key \in DOMAIN store
  BY <1>1, InventoryKeysStored
<1>4. interest # idKey /\ interest # key
  BY KeyNames
<1>5. moved[idKey] = id
  BY <1>4
<1>6. store' = IF id = HashZero THEN moved ELSE [moved EXCEPT ![key] = moved[key] + turn]
  <2> DEFINE key2 == virtualInventoryForPositionsKey(moved[idKey])
  <2>1. store' = IF moved[idKey] = HashZero THEN moved ELSE [moved EXCEPT ![key2] = moved[key2] + turn]
    BY Zenon DEF applyDeltaToOpenInterest, applyDeltaToVirtualInventoryForPositions, Plus
  <2>2. key2 = key
    BY <1>5
  <2> HIDE DEF key2, moved, key, id, idKey, turn
  <2> QED BY <1>5, <2>1, <2>2, Zenon
<1> HIDE DEF interest, idKey, id, key, turn
<1>7. CASE id = HashZero
  BY <1>2, <1>6, <1>7 DEF InterestMoves, interest, idKey, id, key
<1>8. CASE id # HashZero
  <2>1. moved[key] = store[key] /\ moved[interest] = store[interest] + delta /\ DOMAIN moved = DOMAIN store
    BY <1>2, <1>4
  <2>2. store' = [moved EXCEPT ![key] = store[key] + turn]
    BY <1>6, <1>8, <2>1
  <2>3. /\ DOMAIN store' = DOMAIN store
        /\ store'[key] = store[key] + turn
        /\ store'[interest] = store[interest] + delta
        /\ \A k \in DOMAIN store : k # interest /\ k # key => store'[k] = store[k]
    BY <1>2, <1>3, <1>4, <1>8, <2>1, <2>2
  <2> QED BY <1>8, <2>3 DEF InterestMoves, interest, idKey, id, key, turn
<1> QED BY <1>7, <1>8

LEMMA OtherInterests ==
  ASSUME TypeInvariant, NEW m \in AllMarkets[network], NEW isLong \in BOOLEAN, NEW delta \in Int,
         InterestMoves(m, isLong, delta)
  PROVE  /\ \A k \in DOMAIN store : k[1] \notin InventoryNames => store'[k] = store[k]
         /\ \A k \in DOMAIN store :
              k[1] \in {"POOL_AMOUNT", "VIRTUAL_INVENTORY_FOR_SWAPS"} => store'[k] = store[k]
         /\ \A other \in AllMarkets[network], side \in BOOLEAN :
              other # m \/ side # isLong =>
                store'[openInterestKey(other.tokens, side)] = store[openInterestKey(other.tokens, side)]
<1> DEFINE interest == openInterestKey(m.tokens, isLong)
           id == store[virtualTokenIdKey(m.tokens[1])]
           key == virtualInventoryForPositionsKey(id)
<1>1. network \in Networks /\ DOMAIN store = KeysOf[network]
  BY DEF TypeInvariant, StoreTyped
<1>2. interest[1] = "OPEN_INTEREST" /\ key[1] = "VIRTUAL_INVENTORY_FOR_POSITIONS"
  BY KeyNames
<1>3. \A k \in DOMAIN store : k # interest /\ k # key => store'[k] = store[k]
  BY DEF InterestMoves
<1> HIDE DEF interest, key, id
<1>4. \A k \in DOMAIN store : k[1] \notin InventoryNames => store'[k] = store[k]
  BY <1>2, <1>3 DEF InventoryNames
<1>5. \A k \in DOMAIN store :
        k[1] \in {"POOL_AMOUNT", "VIRTUAL_INVENTORY_FOR_SWAPS"} => store'[k] = store[k]
  BY <1>2, <1>3
<1>6. ASSUME NEW other \in AllMarkets[network], NEW side \in BOOLEAN, other # m \/ side # isLong
      PROVE  store'[openInterestKey(other.tokens, side)] = store[openInterestKey(other.tokens, side)]
  <2>1. openInterestKey(other.tokens, side) \in DOMAIN store
    BY <1>1, MarketKeysStored
  <2>2. openInterestKey(other.tokens, side) # key
    BY <1>2, KeyNames
  <2>3. openInterestKey(other.tokens, side) # interest
    <3> SUFFICES ASSUME openInterestKey(other.tokens, side) = openInterestKey(m.tokens, isLong)
                 PROVE  FALSE
      BY DEF interest
    <3>1. other.tokens = m.tokens /\ side = isLong
      BY DEF openInterestKey
    <3>2. other = m
      BY <1>1, <3>1, TokensTellMarkets
    <3> QED BY <1>6, <3>1, <3>2
  <2> QED BY <1>3, <2>1, <2>2, <2>3
<1> QED BY <1>4, <1>5, <1>6

LEMMA InterestTracks ==
  ASSUME InductiveInvariant, NEW m \in AllMarkets[network], NEW isLong \in BOOLEAN, NEW delta \in Int,
         InterestMoves(m, isLong, delta), store[openInterestKey(m.tokens, isLong)] + delta \in Nat,
         network' = network, untracked' = untracked
  PROVE  PositionsTracked'
<1> SUFFICES ASSUME NEW id \in PositionIds[network], id \notin untracked, id # HashZero
             PROVE  store'[virtualInventoryForPositionsKey(id)] = PositionInventory(id)'
  BY DEF PositionsTracked
<1> DEFINE list == MarketList[network]
           n == Len(list)
           f == PositionShares(store, list, id)
           g == PositionShares(store', list, id)
           key == virtualInventoryForPositionsKey(id)
           own == store[virtualTokenIdKey(m.tokens[1])]
           long == store[openInterestKey(m.tokens, TRUE)]
           short == store[openInterestKey(m.tokens, FALSE)]
           newLong == store'[openInterestKey(m.tokens, TRUE)]
           newShort == store'[openInterestKey(m.tokens, FALSE)]
           turn == IF isLong THEN -delta ELSE delta
<1>1. TypeInvariant /\ network \in Networks /\ DOMAIN store = KeysOf[network]
  BY DEF InductiveInvariant, TypeInvariant, StoreTyped
<1>2. \A i \in 1 .. n : list[i] \in AllMarkets[network]
  BY <1>1, ListsAreSequences DEF AllMarkets
<1>3. PICK k \in 1 .. n : list[k] = m
  BY <1>1, ListsAreSequences DEF AllMarkets
<1>4. n \in Nat /\ f \in [1 .. n -> Int]
  BY <1>1, SharesTyped
<1>5. ASSUME NEW i \in 1 .. n
      PROVE  store'[virtualTokenIdKey(list[i].tokens[1])] = store[virtualTokenIdKey(list[i].tokens[1])]
  <2>1. virtualTokenIdKey(list[i].tokens[1]) \in IdKeys(list[i])
    BY DEF IdKeys
  <2> QED BY <1>1, <1>2, <2>1, OtherInterests, TradesLeave
<1>6. \A i \in (1 .. n) \ {k} : g[i] = f[i]
  <2> SUFFICES ASSUME NEW i \in (1 .. n) \ {k}
               PROVE  g[i] = f[i]
    OBVIOUS
  <2>1. list[i] # m
    BY <1>1, <1>3, MarketsDiffer, ListsAreSequences
  <2>2. list[i] \in AllMarkets[network]
    BY <1>2
  <2>3. \A other \in AllMarkets[network], sd \in BOOLEAN :
          other # m =>
            store'[openInterestKey(other.tokens, sd)] = store[openInterestKey(other.tokens, sd)]
    BY <1>1, OtherInterests
  <2>4. /\ store'[openInterestKey(list[i].tokens, TRUE)] = store[openInterestKey(list[i].tokens, TRUE)]
        /\ store'[openInterestKey(list[i].tokens, FALSE)] = store[openInterestKey(list[i].tokens, FALSE)]
    BY <2>1, <2>2, <2>3, Zenon
  <2> QED BY <1>5, <2>4, Zenon DEF PositionShares
<1>7. /\ f[k] = IF own # id THEN 0 ELSE short - long
      /\ g[k] = IF own # id THEN 0 ELSE newShort - newLong
  <2>1. /\ f[k] = IF own # id THEN 0 ELSE short - long
        /\ g[k] = IF store'[virtualTokenIdKey(m.tokens[1])] # id THEN 0 ELSE newShort - newLong
    BY <1>3, Zenon DEF PositionShares
  <2> QED BY <1>3, <1>5, <2>1, Zenon
<1>8. long \in Nat /\ short \in Nat
  BY <1>1 DEF TypeInvariant, StoreTyped
<1>9. newShort - newLong = (short - long) + turn
  <2>1. CASE isLong
    <3>1. newLong = long + delta
      BY <2>1 DEF InterestMoves
    <3>2. newShort = short
      BY <1>1, <2>1, OtherInterests
    <3> HIDE DEF long, short, newLong, newShort
    <3> QED BY <1>8, <2>1, <3>1, <3>2
  <2>2. CASE ~isLong
    <3>1. newShort = short + delta
      BY <2>2 DEF InterestMoves
    <3>2. newLong = long
      BY <1>1, <2>2, OtherInterests
    <3> HIDE DEF long, short, newLong, newShort
    <3> QED BY <1>8, <2>2, <3>1, <3>2
  <2> QED BY <2>1, <2>2
<1>10. key \in DOMAIN store
  BY <1>1, InventoryKeysStored
<1>11. store[key] = Total(f, n) /\ PositionInventory(id)' = Total(g, n)
  <2>1. store[key] = PositionInventory(id)
    BY DEF InductiveInvariant, PositionsTracked
  <2> QED BY <1>1, <2>1, Inventories
<1>12. g = [i \in 1 .. n |-> g[i]]
  BY DEF PositionShares
<1>13. turn \in Int
  OBVIOUS
<1>14. CASE own = id
  <2>1. store'[key] = store[key] + turn
    BY <1>14 DEF InterestMoves
  <2> HIDE DEF f, g, key, own, list, n, long, short, newLong, newShort, turn
  <2>2. f[k] = short - long /\ g[k] = (short - long) + turn
    BY <1>7, <1>9, <1>14
  <2>3. f[k] \in Int /\ g[k] = f[k] + turn /\ g[k] \in Int
    BY <1>4, <1>13, <2>2
  <2>4. \A i \in 1 .. n : g[i] \in Int
    BY <1>4, <1>6, <2>3
  <2>5. g \in [1 .. n -> Int]
    BY <1>12, <2>4
  <2>9. n \in Nat /\ f \in [1 .. n -> Int] /\ DifferAt(k, f, g, n)
    BY <1>4, <1>6 DEF DifferAt
  <2>10. Total(g, n) = Total(f, n) + g[k] - f[k]
    BY <2>5, <2>9, ShareChange
  <2>6. Total(g, n) = Total(f, n) + g[k] - f[k] /\ Total(f, n) \in Int
    BY <2>9, <2>10, TotalInt
  <2> DEFINE total == Total(f, n)
             after == Total(g, n)
  <2>7. total \in Int /\ after = total + g[k] - f[k]
    BY <2>6
  <2> HIDE DEF total, after
  <2>8. after = total + turn
    BY <1>13, <2>3, <2>7
  <2> QED BY <1>11, <2>1, <2>8 DEF key, total, after
<1>15. CASE own # id
  <2>1. store'[key] = store[key]
    <3>1. key # openInterestKey(m.tokens, isLong)
      BY KeyNames
    <3>2. own = HashZero \/ key # virtualInventoryForPositionsKey(own)
      BY <1>15, KeyParts
    <3> QED BY <1>10, <3>1, <3>2 DEF InterestMoves
  <2> HIDE DEF f, g, key, own, list, n, long, short, newLong, newShort, turn
  <2>2. g[k] = f[k]
    BY <1>7, <1>15
  <2>3. f = [i \in 1 .. n |-> f[i]]
    BY <1>4
  <2>4. \A i \in 1 .. n : g[i] = f[i]
    BY <1>6, <2>2
  <2>5. g = f
    BY <1>12, <2>3, <2>4, Zenon
  <2> QED BY <1>11, <2>1, <2>5 DEF key
<1> QED BY <1>14, <1>15

\* A position opens or closes in a market that has tokens or positions, and a minimum of collateral.
LEMMA InterestStep ==
  ASSUME InductiveInvariant, NEW m \in AllMarkets[network], NEW isLong \in BOOLEAN, NEW delta \in Int,
         Opened(m), store[minCollateralFactorKey(m.tokens)] # 0,
         store[openInterestKey(m.tokens, isLong)] + delta \in Nat,
         Trade(applyDeltaToOpenInterest(m, isLong, delta))
  PROVE  InductiveInvariant'
<1>1. UNCHANGED <<network, edition, job, settled, untracked>>
  BY DEF Trade
<1>2. /\ TypeInvariant /\ network \in Networks /\ edition' \in DOMAIN Editions[network]
      /\ DOMAIN store = KeysOf[network]
  BY <1>1 DEF InductiveInvariant, TypeInvariant, StoreTyped
<1>3. InterestMoves(m, isLong, delta)
  BY <1>2, InterestMovement DEF Trade
<1>4. /\ DOMAIN store' = DOMAIN store
      /\ \A k \in DOMAIN store : k[1] \notin InventoryNames => store'[k] = store[k]
      /\ \A k \in DOMAIN store :
           k[1] \in {"POOL_AMOUNT", "VIRTUAL_INVENTORY_FOR_SWAPS"} => store'[k] = store[k]
  BY <1>2, <1>3, OtherInterests DEF InterestMoves
<1>5. \A w \in Settings[network] : store'[w[1]] = store[w[1]]
  BY <1>2, <1>4, TradesLeave
<1>6. JobTyped' /\ Done' /\ Prepared' /\ SettledInPlace'
  BY <1>1, <1>5, TradeJobs
<1>7. ASSUME NEW other \in AllMarkets[network], NEW side \in BOOLEAN
      PROVE  /\ store'[Pool(other, side)] = store[Pool(other, side)]
             /\ \/ store'[openInterestKey(other.tokens, side)] = store[openInterestKey(other.tokens, side)]
                \/ store'[openInterestKey(other.tokens, side)] \in Nat
             /\ other # m =>
                  store'[openInterestKey(other.tokens, side)] = store[openInterestKey(other.tokens, side)]
  <2>1. Pool(other, side) \in DOMAIN store
    BY <1>2, MarketKeysStored
  <2>2. Pool(other, side)[1] = "POOL_AMOUNT"
    BY KeyNames DEF Pool
  <2>3. store'[Pool(other, side)] = store[Pool(other, side)]
    BY <1>4, <2>1, <2>2
  <2>4. CASE other = m /\ side = isLong
    <3>1. store'[openInterestKey(other.tokens, side)] \in Nat
      BY <1>3, <2>4 DEF InterestMoves
    <3> QED BY <2>3, <2>4, <3>1
  <2>5. CASE other # m \/ side # isLong
    BY <1>2, <1>3, <2>3, <2>5, OtherInterests
  <2> QED BY <2>4, <2>5
<1>8. \A other \in AllMarkets[network] :
        /\ virtualMarketIdKey(other.tokens) \in IdKeys(other)
        /\ virtualTokenIdKey(other.tokens[1]) \in IdKeys(other)
  BY DEF IdKeys
<1>9. StoreTyped'
  BY <1>1, <1>2, <1>4, <1>7, <1>8, TradesLeave DEF TypeInvariant, StoreTyped
<1>10. ClosedUntilIds' /\ IdsSettled' /\ IdsHaveTwoTokens'
  BY <1>1, <1>4, <1>7, TradesClose
<1>11. LimitsNeedCollateral'
  <2> SUFFICES ASSUME NEW other \in AllMarkets[network],
                      store'[minCollateralFactorKey(other.tokens)] = 0, NEW side \in BOOLEAN
               PROVE  /\ store'[openInterestKey(other.tokens, side)] = 0
                      /\ store'[maxOpenInterestKey(other.tokens, side)] = 0
    BY <1>1 DEF LimitsNeedCollateral
  <2>1. /\ store'[minCollateralFactorKey(other.tokens)] = store[minCollateralFactorKey(other.tokens)]
        /\ store'[maxOpenInterestKey(other.tokens, side)] = store[maxOpenInterestKey(other.tokens, side)]
    BY <1>2, <1>4, TradesLeave
  <2>2. other # m
    BY <2>1
  <2>3. store'[openInterestKey(other.tokens, side)] = store[openInterestKey(other.tokens, side)]
    BY <1>7, <2>2
  <2> QED BY <2>1, <2>3 DEF InductiveInvariant, LimitsNeedCollateral
<1>12. PositionsTracked'
  BY <1>1, <1>3, InterestTracks
<1>13. SwapsTracked'
  <2> DEFINE list == MarketList[network]
  <2>1. \A i \in 1 .. Len(list) : list[i] \in AllMarkets[network]
    BY <1>2, ListsAreSequences DEF AllMarkets
  <2> HIDE DEF list
  <2> SUFFICES ASSUME NEW id \in SwapIds[network], NEW side \in BOOLEAN, id \notin untracked, id # HashZero
               PROVE  store'[virtualInventoryForSwapsKey(id, side)] = SwapInventory(id, side)'
    BY <1>1 DEF SwapsTracked
  <2>2. \A i \in 1 .. Len(list) :
          /\ store'[virtualMarketIdKey(list[i].tokens)] = store[virtualMarketIdKey(list[i].tokens)]
          /\ store'[Pool(list[i], side)] = store[Pool(list[i], side)]
    BY <1>2, <1>4, <1>7, <1>8, <2>1, TradesLeave
  <2>3. SwapShares(store', list, id, side) = SwapShares(store, list, id, side)
    BY <2>2, Zenon DEF SwapShares
  <2>4. SwapInventory(id, side)' = SwapInventory(id, side)
    BY <1>1, <1>2, <2>3, Inventories DEF list
  <2>5. store[virtualInventoryForSwapsKey(id, side)] = SwapInventory(id, side)
    BY DEF InductiveInvariant, SwapsTracked
  <2>6. store'[virtualInventoryForSwapsKey(id, side)] = store[virtualInventoryForSwapsKey(id, side)]
    <3>1. virtualInventoryForSwapsKey(id, side)[1] = "VIRTUAL_INVENTORY_FOR_SWAPS"
      BY KeyNames
    <3> QED BY <1>2, <1>4, <3>1, InventoryKeysStored
  <2> QED BY <2>4, <2>5, <2>6
<1>14. StoreInvariant'
  BY <1>9, <1>10, <1>11, <1>12, <1>13 DEF StoreInvariant
<1> QED BY <1>1, <1>2, <1>6, <1>14, Assemble

\* A position opens only below the limit, which needs the minimum of
\* collateral, and against tokens of the pool.
LEMMA IncreaseStep ==
  ASSUME InductiveInvariant, NEW m \in AllMarkets[network], NEW isLong \in BOOLEAN, Increase(m, isLong)
  PROVE  InductiveInvariant'
<1> DEFINE interest == store[openInterestKey(m.tokens, isLong)]
           limit == store[maxOpenInterestKey(m.tokens, isLong)]
           pool == store[Pool(m, isLong)]
<1>1. interest \in Nat /\ pool \in Nat
  BY DEF InductiveInvariant, TypeInvariant, StoreTyped
<1>2. interest + 1 <= limit /\ interest + 1 <= pool
  BY DEF Increase
<1> HIDE DEF interest, limit, pool
<1>3. interest + 1 \in Nat /\ limit # 0 /\ pool # 0
  BY <1>1, <1>2
<1>4. Opened(m)
  BY <1>3 DEF Opened, pool
<1>5. store[minCollateralFactorKey(m.tokens)] # 0
  BY <1>3 DEF InductiveInvariant, LimitsNeedCollateral, limit
<1>6. store[openInterestKey(m.tokens, isLong)] + 1 \in Nat
  BY <1>3 DEF interest
<1> QED BY <1>4, <1>5, <1>6, InterestStep DEF Increase

LEMMA DecreaseStep ==
  ASSUME InductiveInvariant, NEW m \in AllMarkets[network], NEW isLong \in BOOLEAN, Decrease(m, isLong)
  PROVE  InductiveInvariant'
<1> DEFINE interest == store[openInterestKey(m.tokens, isLong)]
<1>1. interest \in Nat
  BY DEF InductiveInvariant, TypeInvariant, StoreTyped
<1>2. interest > 0
  BY DEF Decrease
<1> HIDE DEF interest
<1>3. interest # 0 /\ interest + (-1) \in Nat
  BY <1>1, <1>2
<1>4. Opened(m)
  BY <1>3 DEF Opened, interest
<1>5. store[minCollateralFactorKey(m.tokens)] # 0
  BY <1>3 DEF InductiveInvariant, LimitsNeedCollateral, interest
<1>6. store[openInterestKey(m.tokens, isLong)] + (-1) \in Nat /\ -1 \in Int
  BY <1>3 DEF interest
<1> QED BY <1>4, <1>5, <1>6, InterestStep DEF Decrease

----------------------------------------------------------------------------
(* The theorems *)

\* Where every value is the default one, the inventories are empty.
LEMMA EmptyShares ==
  ASSUME NEW n \in Nat, NEW f \in [1 .. n -> {0}]
  PROVE  Total(f, n) = 0
<1>1. f \in [1 .. n -> Int] /\ \A i \in 1 .. n : f[i] = 0
  OBVIOUS
<1> QED BY <1>1, TotalZero

LEMMA Initially ==
  ASSUME Init
  PROVE  InductiveInvariant
<1>1. /\ network \in Networks /\ DOMAIN store = KeysOf[network]
      /\ \A k \in DOMAIN store : store[k] = Default(k)
      /\ job = NoJob /\ settled = "none"
  BY DEF Init
<1>2. edition \in DOMAIN Editions[network]
  <2>1. 1 \in 1 .. Final - First + 1
    BY BoundsAssumption
  <2> QED BY <1>1, <2>1 DEF Init, Editions
<1>3. \A k \in DOMAIN store :
        /\ k[1] \in {"VIRTUAL_MARKET_ID", "VIRTUAL_TOKEN_ID"} => store[k] = HashZero
        /\ k[1] \in {"POOL_AMOUNT", "OPEN_INTEREST", "VIRTUAL_INVENTORY_FOR_SWAPS",
                     "VIRTUAL_INVENTORY_FOR_POSITIONS", "MAX_POOL_AMOUNT", "MAX_OPEN_INTEREST"}
             => store[k] = 0
  BY <1>1 DEF Default
<1>4. ASSUME NEW m \in AllMarkets[network], NEW isLong \in BOOLEAN
      PROVE  /\ store[Pool(m, isLong)] = 0 /\ store[openInterestKey(m.tokens, isLong)] = 0
             /\ store[maxPoolAmountKey(m.tokens, tokenOf(m, isLong))] = 0
             /\ store[maxOpenInterestKey(m.tokens, isLong)] = 0
             /\ store[virtualMarketIdKey(m.tokens)] = HashZero
             /\ store[virtualTokenIdKey(m.tokens[1])] = HashZero
  <2>1. /\ Pool(m, isLong)[1] = "POOL_AMOUNT"
        /\ openInterestKey(m.tokens, isLong)[1] = "OPEN_INTEREST"
        /\ maxPoolAmountKey(m.tokens, tokenOf(m, isLong))[1] = "MAX_POOL_AMOUNT"
        /\ maxOpenInterestKey(m.tokens, isLong)[1] = "MAX_OPEN_INTEREST"
        /\ virtualMarketIdKey(m.tokens)[1] = "VIRTUAL_MARKET_ID"
        /\ virtualTokenIdKey(m.tokens[1])[1] = "VIRTUAL_TOKEN_ID"
    BY KeyNames DEF Pool
  <2>2. /\ {Pool(m, isLong), openInterestKey(m.tokens, isLong),
            maxPoolAmountKey(m.tokens, tokenOf(m, isLong)),
            maxOpenInterestKey(m.tokens, isLong)} \subseteq DOMAIN store
        /\ {virtualMarketIdKey(m.tokens), virtualTokenIdKey(m.tokens[1])} \subseteq DOMAIN store
    BY <1>1, MarketKeysStored DEF IdKeys
  <2> QED BY <1>3, <2>1, <2>2
<1>5. TypeInvariant
  <2>1. StoreTyped
    <3>1. \A m \in AllMarkets[network], isLong \in BOOLEAN :
            /\ store[Pool(m, isLong)] \in Nat /\ store[openInterestKey(m.tokens, isLong)] \in Nat
            /\ store[virtualMarketIdKey(m.tokens)] = HashZero
            /\ store[virtualTokenIdKey(m.tokens[1])] = HashZero
      BY <1>4
    <3>2. TRUE \in BOOLEAN
      OBVIOUS
    <3> QED BY <1>1, <3>1, <3>2 DEF StoreTyped
  <2>2. JobTyped
    BY <1>1 DEF JobTyped, NoJob, Scripts, Deployments, Updates
  <2> QED BY <1>1, <1>2, <2>1, <2>2 DEF TypeInvariant
<1>6. /\ ClosedUntilIds /\ IdsSettled /\ IdsHaveTwoTokens /\ LimitsNeedCollateral
  <2>1. ClosedUntilIds /\ IdsHaveTwoTokens /\ LimitsNeedCollateral
    BY <1>4 DEF ClosedUntilIds, Opened, IdsHaveTwoTokens, LimitsNeedCollateral
  <2>2. \A w \in Settings[network] : w[1] \in DOMAIN store
    BY <1>1, SettingsStored
  <2>3. IdsSettled
    BY <1>3, <2>2 DEF IdsSettled, IdNames
  <2> QED BY <2>1, <2>3
<1>7. Done /\ Prepared /\ SettledInPlace
  BY <1>1 DEF Done, Prepared, SettledInPlace, NoJob, Deployments, Updates
<1> DEFINE list == MarketList[network]
<1>8. Len(list) \in Nat /\ DOMAIN list = 1 .. Len(list)
  BY <1>1, ListsAreSequences
<1>9. \A i \in 1 .. Len(list) : list[i] \in AllMarkets[network]
  BY <1>1, <1>8 DEF AllMarkets
<1>10. ASSUME NEW id \in SwapIds[network], NEW isLong \in BOOLEAN, id # HashZero
       PROVE  store[virtualInventoryForSwapsKey(id, isLong)] = SwapInventory(id, isLong)
  <2>1. store[virtualInventoryForSwapsKey(id, isLong)] = 0
    BY <1>1, <1>3, InventoryKeysStored, KeyNames
  <2>2. SwapInventory(id, isLong) = Total(SwapShares(store, list, id, isLong), Len(list))
    BY <1>8 DEF SwapInventory, SumOver, SwapShares
  <2> HIDE DEF list
  <2>3. \A i \in 1 .. Len(list) : store[Pool(list[i], isLong)] = 0
    BY <1>4, <1>9
  <2>4. SwapShares(store, list, id, isLong) \in [1 .. Len(list) -> {0}]
    BY <2>3 DEF SwapShares
  <2> QED BY <1>8, <2>1, <2>2, <2>4, EmptyShares
<1>11. ASSUME NEW id \in PositionIds[network], id # HashZero
       PROVE  store[virtualInventoryForPositionsKey(id)] = PositionInventory(id)
  <2>1. store[virtualInventoryForPositionsKey(id)] = 0
    BY <1>1, <1>3, InventoryKeysStored, KeyNames
  <2>2. PositionInventory(id) = Total(PositionShares(store, list, id), Len(list))
    BY <1>8 DEF PositionInventory, SumOver, PositionShares
  <2> HIDE DEF list
  <2>3. \A i \in 1 .. Len(list) : store[virtualTokenIdKey(list[i].tokens[1])] # id
    BY <1>4, <1>9, <1>11
  <2>4. PositionShares(store, list, id) \in [1 .. Len(list) -> {0}]
    BY <2>3 DEF PositionShares
  <2> QED BY <1>8, <2>1, <2>2, <2>4, EmptyShares
<1>12. SwapsTracked /\ PositionsTracked
  BY <1>10, <1>11 DEF SwapsTracked, PositionsTracked
<1> QED BY <1>5, <1>6, <1>7, <1>12 DEF InductiveInvariant

LEMMA StutteringStep ==
  ASSUME InductiveInvariant, UNCHANGED vars
  PROVE  InductiveInvariant'
<1>1. UNCHANGED <<network, edition, store, job, settled, untracked>>
  BY DEF vars
<1>2. StoreInvariant'
  BY <1>1, IdleStep
<1>3. JobTyped' /\ Done' /\ Prepared' /\ SettledInPlace'
  BY <1>1, TradeJobs
<1> QED BY <1>1, <1>2, <1>3, Assemble DEF InductiveInvariant, TypeInvariant

LEMMA ListedMarkets ==
  ASSUME TypeInvariant
  PROVE  Listed \subseteq AllMarkets[network]
BY DEF TypeInvariant, Listed, MarketsOf

LEMMA NextStep ==
  ASSUME InductiveInvariant, Next
  PROVE  InductiveInvariant'
<1>1. \A m \in Listed : m \in AllMarkets[network]
  BY ListedMarkets DEF InductiveInvariant
<1>2. ASSUME NEW s \in Deployments, NEW dry \in BOOLEAN, NEW skipNew \in BOOLEAN, Deploy(s, dry, skipNew)
      PROVE  InductiveInvariant'
  BY <1>2, DeployStep
<1>3. CASE CreateMarkets
  BY <1>3, CreateMarketsStep
<1>4. CASE SetValues
  BY <1>4, SetValuesStep
<1>5. CASE Crash
  BY <1>5, CrashStep
<1>6. ASSUME NEW s \in Updates, ReadForUpdate(s)
      PROVE  InductiveInvariant'
  BY <1>6, ReadForUpdateStep
<1>7. CASE SendUpdate
  BY <1>7, SendUpdateStep
<1>8. CASE EditList
  BY <1>8, EditListStep
<1>9. ASSUME NEW m \in Listed, NEW isLong \in BOOLEAN,
             \/ CloseByHand(m, isLong)
             \/ Deposit(m, isLong) \/ Withdraw(m, isLong)
             \/ Increase(m, isLong) \/ Decrease(m, isLong)
      PROVE  InductiveInvariant'
  <2>1. m \in AllMarkets[network]
    BY <1>1
  <2>2. CASE CloseByHand(m, isLong)
    BY <2>1, <2>2, CloseByHandStep
  <2>3. CASE Deposit(m, isLong)
    BY <2>1, <2>3, DepositStep
  <2>4. CASE Withdraw(m, isLong)
    BY <2>1, <2>4, WithdrawStep
  <2>5. CASE Increase(m, isLong)
    BY <2>1, <2>5, IncreaseStep
  <2>6. CASE Decrease(m, isLong)
    BY <2>1, <2>6, DecreaseStep
  <2> QED BY <1>9, <2>2, <2>3, <2>4, <2>5, <2>6
<1>11. CASE VirtualsByHand(network)
  BY <1>11, VirtualsByHandStep
<1>10. ASSUME NEW m \in Listed, setPositionImpactDistributionRate(m)
       PROVE  InductiveInvariant'
  BY <1>10, SetDistributionStep
<1> QED BY <1>2, <1>3, <1>4, <1>5, <1>6, <1>7, <1>8, <1>9, <1>10, <1>11 DEF Next

\* Every state that the scripts, the keepers and the traders reach together
\* satisfies the inductive invariant of ListingInvariant.
THEOREM Invariance == Spec => []InductiveInvariant
<1>1. Init => InductiveInvariant
  BY Initially
<1>2. InductiveInvariant /\ [Next]_vars => InductiveInvariant'
  BY NextStep, StutteringStep
<1> QED BY <1>1, <1>2, PTL DEF Spec

\* A position is only ever open in a market that has a minimum of collateral,
\* whatever script crashed where and whichever value a keeper changed: the
\* check of the collateral in PositionUtils is never a check against 0.
THEOREM CollateralIsNeeded == Spec => []PositionsNeedCollateral
<1>1. InductiveInvariant => PositionsNeedCollateral
  <2> SUFFICES ASSUME InductiveInvariant, NEW m \in Listed, NEW isLong \in BOOLEAN,
                      store[openInterestKey(m.tokens, isLong)] > 0
               PROVE  store[minCollateralFactorKey(m.tokens)] # 0
    BY DEF PositionsNeedCollateral
  <2>1. m \in AllMarkets[network]
    BY ListedMarkets DEF InductiveInvariant
  <2>2. store[openInterestKey(m.tokens, isLong)] # 0
    OBVIOUS
  <2> QED BY <2>1, <2>2 DEF InductiveInvariant, LimitsNeedCollateral
<1> QED BY <1>1, Invariance, PTL

\* A script that has completed leaves nothing to set for the script that sets
\* the same values the other way, until a keeper or an edition changes one.
THEOREM ScriptsLeaveNothing == Spec => []ScriptsAgree
<1>1. ASSUME InductiveInvariant, NEW done \in Scripts, NEW left \in Scripts, settled = done,
             Covers(network, edition, done, left)
      PROVE  NothingLeft(left)
  <2> SUFFICES ASSUME NEW i \in DOMAIN Tasks(left), Tasks(left)[i].kind = "set",
                      ~(Tasks(left)[i].key[1] \in OnlyDeployed \/ OnlyUpdated(Tasks(left)[i]))
               PROVE  InPlace(Tasks(left)[i])
    BY DEF NothingLeft, EachTask
  <2> DEFINE t == Tasks(left)[i]
  <2>1. <<t.key, Stored(t.value)>> \in SettingsOf(Tasks(done))
    BY <1>1 DEF Covers, Tasks
  <2> HIDE DEF t
  <2>2. PICK k \in DOMAIN Tasks(done) :
          /\ Tasks(done)[k].kind = "set"
          /\ <<t.key, Stored(t.value)>> = <<Tasks(done)[k].key, Stored(Tasks(done)[k].value)>>
    BY <2>1 DEF SettingsOf
  <2>3. t.key = Tasks(done)[k].key /\ Stored(t.value) = Stored(Tasks(done)[k].value)
    BY <2>2
  <2>4. settled # "none"
    BY <1>1 DEF Scripts, Deployments, Updates
  <2>5. InPlace(Tasks(done)[k])
    BY <1>1, <2>2, <2>4 DEF InductiveInvariant, SettledInPlace
  <2>6. InPlace(t)
    BY <2>3, <2>5 DEF InPlace
  <2> QED BY <2>6 DEF t
<1>2. InductiveInvariant => ScriptsAgree
  <2> SUFFICES ASSUME InductiveInvariant
               PROVE  ScriptsAgree
    OBVIOUS
  <2>1. network \in Networks /\ edition \in DOMAIN Editions[network]
    BY DEF InductiveInvariant, TypeInvariant
  <2>2. {"Markets", "GeneralSettings", "updateMarketConfig", "updateGeneralConfig"} \subseteq Scripts
    BY DEF Scripts, Deployments, Updates
  <2> QED BY <1>1, <2>1, <2>2, ScriptsCover DEF ScriptsAgree
<1> QED BY <1>2, Invariance, PTL

\* Each virtual inventory is the sum of the inventories of the markets that have
\* its id, unless keepers have taken the id out of order: no deposit, withdrawal or
\* position of MarketUtils is counted in one and not in the other, wherever a
\* script of the deployer crashes.
THEOREM InventoriesAreTracked == Spec => []InventoriesTrackTheMarkets
<1>1. InductiveInvariant => InventoriesTrackTheMarkets
  <2> SUFFICES ASSUME InductiveInvariant, NEW m \in Listed
               PROVE  LET marketId == store[virtualMarketIdKey(m.tokens)]
                          tokenId == store[virtualTokenIdKey(m.tokens[1])]
                      IN /\ marketId \notin untracked \union {HashZero} =>
                              \A isLong \in BOOLEAN :
                                store[virtualInventoryForSwapsKey(marketId, isLong)]
                                  = SwapInventory(marketId, isLong)
                         /\ tokenId \notin untracked \union {HashZero} =>
                              store[virtualInventoryForPositionsKey(tokenId)] = PositionInventory(tokenId)
    BY DEF InventoriesTrackTheMarkets
  <2> DEFINE marketId == store[virtualMarketIdKey(m.tokens)]
             tokenId == store[virtualTokenIdKey(m.tokens[1])]
  <2>1. m \in AllMarkets[network]
    BY ListedMarkets DEF InductiveInvariant
  <2>2. /\ marketId \in SwapIds[network] \union {HashZero}
        /\ tokenId \in PositionIds[network] \union {HashZero}
    BY <2>1 DEF InductiveInvariant, TypeInvariant, StoreTyped
  <2> HIDE DEF marketId, tokenId
  <2>3. ASSUME marketId \notin untracked \union {HashZero}, NEW isLong \in BOOLEAN
        PROVE  store[virtualInventoryForSwapsKey(marketId, isLong)] = SwapInventory(marketId, isLong)
    BY <2>2, <2>3 DEF InductiveInvariant, SwapsTracked
  <2>4. ASSUME tokenId \notin untracked \union {HashZero}
        PROVE  store[virtualInventoryForPositionsKey(tokenId)] = PositionInventory(tokenId)
    BY <2>2, <2>4 DEF InductiveInvariant, PositionsTracked
  <2> QED BY <2>3, <2>4 DEF marketId, tokenId
<1> QED BY <1>1, Invariance, PTL
=============================================================================
