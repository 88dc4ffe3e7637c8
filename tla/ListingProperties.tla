------------------------- MODULE ListingProperties -------------------------
(***************************************************************************)
(* What the scripts that list markets promise.                             *)
(***************************************************************************)
EXTENDS Listing, Sums

\* The sum over the markets of a list.
SumOver(list, amount(_)) == Total([i \in DOMAIN list |-> amount(list[i])], Len(list))

(***************************************************************************)
(* The virtual inventory of an id is the inventory of the markets that     *)
(* have it: the pool amounts for swaps, the difference of the open         *)
(* interests for positions.  No trade counts in one and not in the other:  *)
(* deployAndConfigureMarkets sets the ids "before other market             *)
(* configurations", to "help to ensure that no trades can be done before   *)
(* virtual IDs are set".  That holds for every id but those that keepers   *)
(* have taken out of order, by an update sent before the ids are there or  *)
(* by hand: nothing in the scripts or in Config prevents either.           *)
(***************************************************************************)
SwapInventory(id, isLong) ==
  SumOver(MarketList[network], LAMBDA m :
    IF store[virtualMarketIdKey(m.tokens)] = id THEN store[Pool(m, isLong)] ELSE 0)
PositionInventory(id) ==
  SumOver(MarketList[network], LAMBDA m :
    IF store[virtualTokenIdKey(m.tokens[1])] # id THEN 0
    ELSE store[openInterestKey(m.tokens, FALSE)] - store[openInterestKey(m.tokens, TRUE)])

InventoriesTrackTheMarkets ==
  \A m \in Listed :
    LET marketId == store[virtualMarketIdKey(m.tokens)]
        tokenId == store[virtualTokenIdKey(m.tokens[1])]
    IN /\ marketId \notin untracked \union {HashZero} =>
            \A isLong \in BOOLEAN :
              store[virtualInventoryForSwapsKey(marketId, isLong)] = SwapInventory(marketId, isLong)
       /\ tokenId \notin untracked \union {HashZero} =>
            store[virtualInventoryForPositionsKey(tokenId)] = PositionInventory(tokenId)

\* A position is only ever open in a market that has a minimum of collateral:
\* the deployment sets it before the limits of the open interest, and an
\* update sets both at once.
PositionsNeedCollateral ==
  \A m \in Listed :
    (\E isLong \in BOOLEAN : store[openInterestKey(m.tokens, isLong)] > 0)
      => store[minCollateralFactorKey(m.tokens)] # 0

(***************************************************************************)
(* The two ways to set the values agree.  Where one script has completed   *)
(* and no keeper has changed a value by hand, the other has nothing left   *)
(* to set, but for what only one of them sets.                             *)
(***************************************************************************)
OnlyDeployed ==
  {"VIRTUAL_MARKET_ID", "VIRTUAL_TOKEN_ID", "IS_MARKET_DISABLED",
   "POSITION_IMPACT_POOL_DISTRIBUTION_RATE", "MIN_POSITION_IMPACT_POOL_AMOUNT",
   "FEE_RECEIVER", "HOLDING_ADDRESS", "BORROWING_FEE_RECEIVER_FACTOR",
   "CLAIMABLE_COLLATERAL_TIME_DIVISOR", "SKIP_BORROWING_FEE_FOR_SMALLER_SIDE"}

\* The deployment leaves out the gas limit of the tokens of swap-only markets.
OnlyUpdated(t) == t.key[1] = "TOKEN_TRANSFER_GAS_LIMIT" /\ Len(t.market) = 2

NothingLeft(script) ==
  EachTask(Tasks(script), LAMBDA t :
    t.kind = "set" => InPlace(t) \/ t.key[1] \in OnlyDeployed \/ OnlyUpdated(t))

ScriptsAgree ==
  /\ settled = "Markets" => NothingLeft("updateMarketConfig")
  /\ settled = "updateMarketConfig" => NothingLeft("Markets")
  /\ settled = "GeneralSettings" => NothingLeft("updateGeneralConfig")
  /\ settled = "updateGeneralConfig" => NothingLeft("GeneralSettings")

\* Whatever happens in between, a list that is complete is deployed in the
\* end: every market exists and has its ids and its minimum of collateral.
Complete == EachTask(Tasks("Markets"), LAMBDA t : t.value # Undefined)
EveryMarketIsListed ==
  <>[](Complete =>
        EachTask(Tasks("Markets"), LAMBDA t :
          IF t.kind = "create" THEN t.market \in created
          ELSE t.key[1] \in TradeKeys => InPlace(t)))

(***************************************************************************)
(* deployAndConfigureMarkets says of the settings it leaves out for a      *)
(* swap-only market that they "are not used".  The gas limit of the market *)
(* token is: a withdrawal that is cancelled sends the token back.          *)
(***************************************************************************)
WithdrawalsCanBeCancelled ==
  settled = "Markets" =>
    \A m \in Listed : m.tokens \in created => store[tokenTransferGasLimit(m.tokens)] # 0
=============================================================================
