----------------------------- MODULE OrderBook -----------------------------
(***************************************************************************)
(* The life of an order: ExchangeRouter and OrderHandler (create, update,  *)
(* cancel, execute), LiquidationHandler and AdlHandler (orders the         *)
(* protocol creates and executes in one transaction), the order store, the *)
(* OrderVault with its StrictBank accounting, the execution fee, the       *)
(* feature switches, the oracle prices a keeper brings along and the       *)
(* global reentrancy guard.                                                *)
(*                                                                         *)
(* An execution or a cancellation is one EVM transaction but several       *)
(* steps: the attempt runs in a `try' frame, the order's callback contract *)
(* runs inside it before the fee is paid, a failure unwinds the frame, and *)
(* the handler of the error then reverts everything, cancels the order or  *)
(* freezes it.  Between two steps foreign code (the callback) can act.     *)
(*                                                                         *)
(* What is left out of an order (prices, sizes, swap path, receiver, the   *)
(* callback's address) decides only WHETHER an attempt succeeds and with   *)
(* which error it fails, and both are left open here.  Tokens are counted  *)
(* in units of the smallest execution fee.                                 *)
(***************************************************************************)
EXTENDS Sums, FiniteSets

CONSTANTS
  Accounts,                   \* traders
  Nobody,                     \* the zero address
  OrderKeepers,               \* accounts with the role ORDER_KEEPER
  FrozenOrderKeepers,         \* accounts with the role FROZEN_ORDER_KEEPER
  Tokens,                     \* tokens that can be collateral
  Wnt,                        \* the wrapped native token
  CreatableTypes,             \* the order types the traders use
  ForcedTypes,                \* "Liquidation", "Adl": what the keepers force
  Switches,                   \* the feature flags that config keepers toggle
  MinExecutionFee,            \* the fee that covers the estimated gas
  RequestExpirationBlockAge,  \* the age at which a market order can be cancelled
  HeartbeatDuration,          \* the age at which a price feed is refused
  \* Bounds
  MaxOrders, MaxBlock, LastCreationBlock, MaxBalance, MaxObservations

OrderTypes ==
  {"MarketSwap", "LimitSwap", "MarketIncrease", "LimitIncrease",
   "MarketDecrease", "LimitDecrease", "StopLossDecrease", "Liquidation"}

ASSUME ConstantsAssumption ==
  /\ Nobody \notin Accounts
  /\ Wnt \in Tokens
  /\ CreatableTypes \subseteq OrderTypes \ {"Liquidation"}
  /\ ForcedTypes \subseteq {"Liquidation", "Adl"}
  /\ MinExecutionFee \in Nat \ {0}
  /\ RequestExpirationBlockAge \in Nat
  /\ HeartbeatDuration \in Nat
  /\ MaxOrders \in Nat
  /\ MaxBlock \in Nat \ {0}
  /\ LastCreationBlock \in Nat
  /\ MaxBalance \in Nat
  /\ MaxObservations \in Nat

Keys == 1..MaxOrders
NoTokens == [t \in Tokens |-> 0]
Blocks == 1..MaxBlock

VARIABLES
  \* The EVM state a revert restores
  orders,      \* orders[k]: the order under key k, EmptyOrder when there is none
  listed,      \* listed[a]: the keys in the order list of account a
  nonce,       \* the number of keys handed out
  balance,     \* balance[t]: the vault's balanceOf
  recorded,    \* recorded[t]: the vault's tokenBalances
  positions,   \* positions[a]: when the position of a was last changed
  outcome,     \* outcome[k]: the last event emitted for k
  \* The rest
  guard,       \* REENTRANCY_GUARD_STATUS = ENTERED
  prices,      \* the prices in the oracle
  tx,          \* the transaction in progress
  saved,       \* the state at the start of the transaction
  block,       \* the current block
  disabled,    \* the feature flags that are set
  \* History
  changedAt    \* changedAt[k]: when the owner last created or changed order k

state == <<orders, listed, nonce, balance, recorded, positions, outcome>>
vars == <<state, guard, prices, tx, saved, block, disabled, changedAt>>

----------------------------------------------------------------------------
(* Orders *)

Order == [account : Accounts \cup {Nobody}, orderType : OrderTypes,
          token : Tokens, amount : Nat, executionFee : Nat,
          isFrozen : BOOLEAN, updatedAtBlock : Nat]

\* What OrderStoreUtils.get returns for a key that is not listed.
EmptyOrder == [account |-> Nobody, orderType |-> "MarketSwap", token |-> Wnt,
               amount |-> 0, executionFee |-> 0, isFrozen |-> FALSE,
               updatedAtBlock |-> 0]

IsMarketOrder(type) == type \in {"MarketSwap", "MarketIncrease", "MarketDecrease"}
IsSwapOrder(type) == type \in {"MarketSwap", "LimitSwap"}
IsIncreaseOrder(type) == type \in {"MarketIncrease", "LimitIncrease"}
IsDecreaseOrder(type) ==
  type \in {"MarketDecrease", "LimitDecrease", "StopLossDecrease", "Liquidation"}
HasTriggerPrice(type) == type \in {"LimitIncrease", "LimitDecrease", "StopLossDecrease"}

Pending(k) == orders[k].account # Nobody

\* Only swaps and increases bring their collateral to the vault; the amount
\* of a decrease order is collateral of the position.
HoldsCollateral(o) == IsSwapOrder(o.orderType) \/ IsIncreaseOrder(o.orderType)

Collateral(o, t) == IF HoldsCollateral(o) /\ o.token = t THEN o.amount ELSE 0
Held(o, t) == Collateral(o, t) + (IF t = Wnt THEN o.executionFee ELSE 0)

----------------------------------------------------------------------------
(* Prices *)

\* A signed or realtime price covers a range of blocks; a price feed is only
\* known to be younger than its heartbeat.
Observation == [source : {"blocks", "feed"}, min : Blocks, max : Blocks]
BlockRanges(p) == {o \in p.observations : o.source = "blocks"}

NoPrices == [observations |-> {}, complete |-> FALSE]

\* The prices of one token that Oracle.setPrices accepts in this block.
ValidObservations ==
  {o \in Observation :
     /\ o.min <= o.max
     /\ o.source = "blocks" => o.max < block
     /\ o.source = "feed" => o.min = o.max /\ o.max \in (block - HeartbeatDuration)..block}

\* The prices of up to MaxObservations tokens; the block ranges must overlap.
PriceSets ==
  {p \in [observations : {{f[i] : i \in 1..MaxObservations} :
                           f \in [1..MaxObservations -> ValidObservations]},
          complete : BOOLEAN] :
     \A o, q \in BlockRanges(p) : o.min <= q.max}

NoPosition == [increasedAt |-> 0, decreasedAt |-> 0]
MaxOf(m, n) == IF m >= n THEN m ELSE n

\* The oldest block a limit order or a liquidation may be executed at.
EarliestBlock(o, pos) ==
  CASE o.orderType \in {"LimitDecrease", "StopLossDecrease"} ->
         MaxOf(o.updatedAtBlock, pos.increasedAt)
    [] o.orderType = "Liquidation" -> MaxOf(pos.increasedAt, pos.decreasedAt)
    [] OTHER -> o.updatedAtBlock

\* validateOracleBlockNumbers of the three order libraries.
OracleBlockNumbersValid(o, pos, p) ==
  \A r \in BlockRanges(p) :
    IF IsMarketOrder(o.orderType)
      THEN r.min <= o.updatedAtBlock /\ o.updatedAtBlock <= r.max
      ELSE r.min >= EarliestBlock(o, pos)

\* A swap of nothing returns before it asks for a price.
NeedsPrices(o) == ~ (IsSwapOrder(o.orderType) /\ o.amount = 0)

----------------------------------------------------------------------------
(* The vault and transactions *)

\* The tokens recordTransferIn would credit to its caller.
Credit(t) == balance[t] - recorded[t]

RecordTransferIn(S) == recorded' = [t \in Tokens |-> IF t \in S THEN balance[t] ELSE recorded[t]]

\* StrictBank.transferOut of n tokens t: the record follows the balance.
TransferOut(t, n) ==
  /\ n <= balance[t]
  /\ balance' = [balance EXCEPT ![t] = @ - n]
  /\ recorded' = [recorded EXCEPT ![t] = balance[t] - n]

SetOrder(k, o) ==
  /\ orders' = [orders EXCEPT ![k] = o]
  /\ listed' = [listed EXCEPT ![o.account] = @ \cup {k}]

RemoveOrder_KeepsListing(k) ==
  /\ orders' = [orders EXCEPT ![k] = EmptyOrder]
  /\ UNCHANGED listed

RemoveOrder(k) ==
  /\ orders' = [orders EXCEPT ![k] = EmptyOrder]
  /\ listed' = [listed EXCEPT ![orders[k].account] = @ \ {k}]

Snapshot == [orders |-> orders, listed |-> listed, nonce |-> nonce,
             balance |-> balance, recorded |-> recorded,
             positions |-> positions, outcome |-> outcome]

Restore ==
  /\ orders' = saved.orders
  /\ listed' = saved.listed
  /\ nonce' = saved.nonce
  /\ balance' = saved.balance
  /\ recorded' = saved.recorded
  /\ positions' = saved.positions
  /\ outcome' = saved.outcome

Blank == [orders |-> [k \in Keys |-> EmptyOrder], listed |-> [a \in Accounts |-> {}],
          nonce |-> 0, balance |-> NoTokens, recorded |-> NoTokens,
          positions |-> [a \in Accounts |-> NoPosition],
          outcome |-> [k \in Keys |-> "none"]]

\* phase: "run" (about to process the order), "handle" (an error was caught),
\*        "callback" (all done but the callback and the fee).
\* frame: "try" when a failure is caught by executeOrder, "main" when it
\*        reverts the transaction.
\* order: the copy in memory; due: the execution fee still to be paid.
\* received: what the vault was sent meanwhile (history: nothing reads it).
NoTx == [phase |-> "idle", frame |-> "main", key |-> 0, keeper |-> Nobody,
         order |-> EmptyOrder, adl |-> FALSE, due |-> 0, error |-> "none",
         received |-> NoTokens]

\* Foreign code runs between transactions and in callbacks.
ForeignCodeRuns == tx.phase \in {"idle", "callback"}

NonReentrant_Dropped == TRUE

\* The modifier globalNonReentrant.
NonReentrant == ~ guard

EndTransaction_KeepsPrices ==
  /\ guard' = FALSE
  /\ tx' = NoTx
  /\ saved' = Blank
  /\ UNCHANGED <<prices, block, disabled, changedAt>>

\* The end of the modifiers withOraclePrices and globalNonReentrant, which a
\* revert of the transaction also amounts to.
EndTransaction ==
  /\ guard' = FALSE
  /\ prices' = NoPrices
  /\ tx' = NoTx
  /\ saved' = Blank
  /\ UNCHANGED <<block, disabled, changedAt>>

----------------------------------------------------------------------------
Init ==
  /\ orders = Blank.orders
  /\ listed = Blank.listed
  /\ nonce = 0
  /\ balance = Blank.balance
  /\ recorded = Blank.recorded
  /\ positions = Blank.positions
  /\ outcome = Blank.outcome
  /\ guard = FALSE
  /\ prices = NoPrices
  /\ tx = NoTx
  /\ saved = Blank
  /\ block = 1
  /\ disabled = {}
  /\ changedAt = [k \in Keys |-> 0]

Tick ==
  /\ tx.phase = "idle"
  /\ block < MaxBlock
  /\ block' = block + 1
  /\ UNCHANGED <<state, guard, prices, tx, saved, disabled, changedAt>>

\* A config keeper sets or clears a feature flag.
ToggleFeature(f) ==
  /\ tx.phase = "idle"
  /\ disabled' = IF f \in disabled THEN disabled \ {f} ELSE disabled \cup {f}
  /\ UNCHANGED <<state, guard, prices, tx, saved, block, changedAt>>

AlsoReceived(t) == [tx.received EXCEPT ![t] = @ + 1]

\* Anyone sends a token to the vault: sendTokens or sendWnt in a multicall, a
\* plain transfer, or a transfer made by a callback.
SendTokens(t) ==
  /\ ForeignCodeRuns
  /\ balance[t] < MaxBalance
  /\ balance' = [balance EXCEPT ![t] = @ + 1]
  /\ tx' = IF tx.phase = "idle" THEN tx ELSE [tx EXCEPT !.received = AlsoReceived(t)]
  /\ UNCHANGED <<orders, listed, nonce, recorded, positions, outcome,
                 guard, prices, saved, block, disabled, changedAt>>

NewOrder(a, type, t, amount, fee) ==
  [account |-> a, orderType |-> type, token |-> t, amount |-> amount,
   executionFee |-> fee, isFrozen |-> FALSE, updatedAtBlock |-> block]

\* Whatever the vault holds unrecorded becomes the order's collateral and fee.
\* When the collateral is WNT the fee is the stated one, else it is all the
\* unrecorded WNT.  (The amount of a decrease order is free.)
FundedByCredit(o) ==
  IF ~ HoldsCollateral(o) THEN o.amount <= 1 /\ o.executionFee = Credit(Wnt)
  ELSE IF o.token = Wnt THEN o.amount + o.executionFee = Credit(Wnt)
  ELSE o.amount = Credit(o.token) /\ o.executionFee = Credit(Wnt)

FundingTokens(o) == IF HoldsCollateral(o) THEN {o.token, Wnt} ELSE {Wnt}

\* OrderHandler.createOrder and OrderUtils.createOrder.
CreateOrder(a, type, t) ==
  /\ ForeignCodeRuns
  /\ NonReentrant
  /\ nonce < MaxOrders
  /\ block <= LastCreationBlock
  /\ <<"createOrder", type>> \notin disabled
  /\ \E amount \in 0..MaxBalance, fee \in MinExecutionFee..MaxBalance :
       LET o == NewOrder(a, type, t, amount, fee)
       IN FundedByCredit(o) /\ RecordTransferIn(FundingTokens(o)) /\ SetOrder(nonce + 1, o)
  /\ nonce' = nonce + 1
  /\ outcome' = [outcome EXCEPT ![nonce + 1] = "open"]
  /\ changedAt' = [changedAt EXCEPT ![nonce + 1] = block]
  /\ UNCHANGED <<balance, positions, guard, prices, tx, saved, block, disabled>>

UpdatedOrder_NotTouched(o) ==
  [o EXCEPT !.isFrozen = FALSE, !.executionFee = @ + Credit(Wnt)]

UpdatedOrder(o) ==
  [o EXCEPT !.isFrozen = FALSE, !.executionFee = @ + Credit(Wnt), !.updatedAtBlock = block]

\* OrderHandler.updateOrder: the order is unfrozen, its fee topped up with the
\* unrecorded WNT, and its block renewed.
UpdateOrder(a, k) ==
  LET o == UpdatedOrder(orders[k])
  IN /\ ForeignCodeRuns
     /\ NonReentrant
     /\ orders[k].account = a
     /\ <<"updateOrder", orders[k].orderType>> \notin disabled
     /\ ~ IsMarketOrder(orders[k].orderType)
     /\ o.executionFee >= MinExecutionFee
     /\ RecordTransferIn({Wnt})
     /\ SetOrder(k, o)
     /\ changedAt' = [changedAt EXCEPT ![k] = block]
     /\ UNCHANGED <<nonce, balance, positions, outcome, guard, prices, tx, saved,
                    block, disabled>>

----------------------------------------------------------------------------
(* Cancellation *)

RemoveAndRefund_NoRefund(k) ==
  /\ RemoveOrder(k)
  /\ outcome' = [outcome EXCEPT ![k] = "cancelled"]
  /\ UNCHANGED <<nonce, balance, recorded, positions>>

\* OrderUtils.cancelOrder up to the callback: the order is removed and its
\* collateral sent back.
RemoveAndRefund(k) ==
  /\ RemoveOrder(k)
  /\ IF HoldsCollateral(orders[k]) /\ orders[k].amount > 0
       THEN TransferOut(orders[k].token, orders[k].amount)
       ELSE UNCHANGED <<balance, recorded>>
  /\ outcome' = [outcome EXCEPT ![k] = "cancelled"]
  /\ UNCHANGED <<nonce, positions>>

Cancellable_AtAnyAge(o) == TRUE
Cancellable_UnlessFrozen(o) == ~ o.isFrozen

\* validateRequestCancellation, asked of market orders only.
Cancellable(o) ==
  IsMarketOrder(o.orderType) => block - o.updatedAtBlock >= RequestExpirationBlockAge

\* OrderHandler.cancelOrder, called by the owner through ExchangeRouter.
CancelOrder(a, k) ==
  /\ ForeignCodeRuns
  /\ NonReentrant
  /\ orders[k].account = a
  /\ <<"cancelOrder", orders[k].orderType>> \notin disabled
  /\ Cancellable(orders[k])
  /\ RemoveAndRefund(k)
  /\ guard' = TRUE
  /\ saved' = Snapshot
  /\ tx' = [NoTx EXCEPT !.phase = "callback", !.key = k, !.keeper = a,
                        !.order = orders[k], !.due = orders[k].executionFee]
  /\ UNCHANGED <<prices, block, disabled, changedAt>>

----------------------------------------------------------------------------
(* Execution *)

\* A keeper's transaction starts with setPrices, which fails if the oracle
\* holds prices, under the global guard.
KeeperMayBegin == ForeignCodeRuns /\ NonReentrant /\ prices = NoPrices

\* OrderHandler.executeOrder up to the try.  (For a key that is not listed
\* every path reverts.)
BeginExecuteOrder(keeper, k) ==
  /\ KeeperMayBegin
  /\ Pending(k)
  /\ guard' = TRUE
  /\ prices' \in PriceSets
  /\ saved' = Snapshot
  /\ tx' = [NoTx EXCEPT !.phase = "run", !.frame = "try", !.key = k,
                        !.keeper = keeper, !.order = orders[k]]
  /\ UNCHANGED <<state, block, disabled, changedAt>>

\* The orders of LiquidationUtils and AdlUtils: no execution fee, no
\* collateral in the vault.  An ADL order carries the block of the first price.
LiquidationOrder(a) ==
  [EmptyOrder EXCEPT !.account = a, !.orderType = "Liquidation", !.updatedAtBlock = block]
AdlOrder(a, priceBlock) ==
  [EmptyOrder EXCEPT !.account = a, !.orderType = "MarketDecrease", !.updatedAtBlock = priceBlock]

\* The order is stored under a new key, to be executed in the same transaction.
BeginForcedOrder(o, isAdl) ==
  /\ nonce < MaxOrders
  /\ SetOrder(nonce + 1, o)
  /\ nonce' = nonce + 1
  /\ outcome' = [outcome EXCEPT ![nonce + 1] = "open"]
  /\ tx' = [NoTx EXCEPT !.phase = "run", !.key = nonce + 1, !.order = o, !.adl = isAdl]
  /\ guard' = TRUE
  /\ saved' = Snapshot
  /\ UNCHANGED <<balance, recorded, positions, block, disabled, changedAt>>

\* LiquidationHandler.executeLiquidation.
ExecuteLiquidation(a) ==
  /\ KeeperMayBegin
  /\ prices' \in PriceSets
  /\ BeginForcedOrder(LiquidationOrder(a), FALSE)

\* AdlHandler.executeAdl; it needs a price with a block.  (Whether ADL is due
\* and whether it went too far are among the reasons to revert.)
ExecuteAdl(a) ==
  /\ KeeperMayBegin
  /\ prices' \in PriceSets
  /\ \E r \in BlockRanges(prices') : BeginForcedOrder(AdlOrder(a, r.min), TRUE)

KeeperMayExecute_LimitSwapOnly ==
  tx.order.orderType = "LimitSwap" => tx.keeper \in FrozenOrderKeepers

\* The keeper check of _executeOrder, which liquidations and ADL do not have.
KeeperMayExecute ==
  (tx.order.isFrozen \/ tx.order.orderType = "LimitSwap")
    => tx.keeper \in FrozenOrderKeepers

ExecuteFeature ==
  IF tx.adl THEN <<"executeAdl", tx.order.orderType>>
  ELSE <<"executeOrder", tx.order.orderType>>

FeatureEnabled == ExecuteFeature \notin disabled

PositionOf(o) == positions[o.account]
PositionReady(o) == IsDecreaseOrder(o.orderType) => PositionOf(o) # NoPosition

\* Increases renew the position; a decrease renews or closes it, a
\* liquidation closes it.
ChangePosition(o) ==
  LET a == o.account IN
  \/ /\ IsIncreaseOrder(o.orderType)
     /\ positions' = [positions EXCEPT ![a].increasedAt = block]
  \/ /\ IsDecreaseOrder(o.orderType)
     /\ positions' = [positions EXCEPT ![a] = NoPosition]
  \/ /\ IsDecreaseOrder(o.orderType) /\ o.orderType # "Liquidation"
     /\ positions' = [positions EXCEPT ![a].decreasedAt = block]
  \/ /\ IsSwapOrder(o.orderType)
     /\ UNCHANGED positions

\* The collateral goes to a market, to the position or to the receiver; there
\* is none for a decrease or a swap of nothing.  back: it stays because the
\* swap has no path and the vault itself is its receiver.
MoveCollateral(o, back) ==
  IF HoldsCollateral(o) /\ o.amount > 0 /\ ~ back
    THEN TransferOut(o.token, o.amount)
    ELSE UNCHANGED <<balance, recorded>>

SentBack(o, back) ==
  [t \in Tokens |-> IF back THEN Collateral(o, t) ELSE 0]

\* OrderUtils.executeOrder up to the callback, when nothing fails.
ExecuteOrder ==
  LET o == tx.order IN
  /\ tx.phase = "run"
  /\ KeeperMayExecute
  /\ FeatureEnabled
  /\ Pending(tx.key)
  /\ NeedsPrices(o) => prices.complete
  /\ PositionReady(o)
  /\ OracleBlockNumbersValid(o, PositionOf(o), prices)
  /\ RemoveOrder(tx.key)
  /\ \E back \in {b \in BOOLEAN : b => IsSwapOrder(o.orderType)} :
       /\ MoveCollateral(o, back)
       /\ tx' = [tx EXCEPT !.phase = "callback", !.due = o.executionFee,
                           !.received = SentBack(o, back)]
  /\ ChangePosition(o)
  /\ outcome' = [outcome EXCEPT ![tx.key] = "executed"]
  /\ UNCHANGED <<nonce, guard, prices, saved, block, disabled, changedAt>>

PayExecutionFee_FullRefund ==
  /\ tx.phase = "callback"
  /\ balance' = [balance EXCEPT ![Wnt] = @ - 2 * tx.due]
  /\ recorded' = [recorded EXCEPT ![Wnt] = balance[Wnt] - 2 * tx.due]
  /\ EndTransaction
  /\ UNCHANGED <<orders, listed, nonce, positions, outcome>>

\* GasUtils.payExecutionFee: the keeper gets its gas cost, the account what is
\* left of the fee; all of it leaves the vault and the transaction ends.
PayExecutionFee ==
  /\ tx.phase = "callback"
  /\ TransferOut(Wnt, tx.due)
  /\ EndTransaction
  /\ UNCHANGED <<orders, listed, nonce, positions, outcome>>

----------------------------------------------------------------------------
(* Failure *)

\* The errors _handleOrderError tells apart.  "OracleError": blocks out of
\* range or a price missing; "InvalidPosition": InvalidPositionMarket,
\* InvalidCollateralTokenForMarket and InvalidPositionSizeValues; "Other":
\* every other revert, running out of gas included.
CanFailWith(e) ==
  LET o == tx.order
      admitted == KeeperMayExecute /\ FeatureEnabled IN
  CASE e = "Other" -> TRUE
    [] e = "InvalidKeeperForFrozenOrder" -> ~ KeeperMayExecute
    [] e = "DisabledFeature" -> KeeperMayExecute /\ ~ FeatureEnabled
    [] e = "InvalidOrderPrices" -> admitted /\ HasTriggerPrice(o.orderType) /\ prices.complete
    [] e = "EmptyPosition" ->
         admitted /\ ~ PositionReady(o)
    [] e = "OracleError" ->
         /\ admitted
         /\ \/ NeedsPrices(o) /\ ~ prices.complete /\ (HasTriggerPrice(o.orderType) \/ PositionReady(o))
            \/ ~ OracleBlockNumbersValid(o, PositionOf(o), prices) /\ PositionReady(o)
    [] e = "InvalidPosition" ->
         admitted /\ ~ IsSwapOrder(o.orderType)

Errors == {"Other", "InvalidKeeperForFrozenOrder", "DisabledFeature",
           "InvalidOrderPrices", "EmptyPosition", "OracleError", "InvalidPosition"}

\* The attempt reverts and executeOrder catches the error: everything since the
\* start of the attempt is undone, the guard and the prices stay.
FailExecution(e) ==
  /\ tx.frame = "try"
  /\ \/ tx.phase = "run" /\ CanFailWith(e)
     \/ tx.phase = "callback" /\ e = "Other"
  /\ Restore
  /\ tx' = [tx EXCEPT !.phase = "handle", !.due = 0, !.error = e,
                      !.received = NoTokens]
  /\ UNCHANGED <<guard, prices, saved, block, disabled, changedAt>>

RevertsOn_AnyEmptyPosition(o, e) ==
  \/ e \in {"OracleError", "DisabledFeature", "InvalidKeeperForFrozenOrder",
           "InvalidOrderPrices", "EmptyPosition"}
  \/ o.isFrozen

\* The errors that _handleOrderError raises again.
RevertsOn(o, e) ==
  \/ e \in {"OracleError", "DisabledFeature", "InvalidKeeperForFrozenOrder", "InvalidOrderPrices"}
  \/ o.isFrozen
  \/ e = "EmptyPosition" /\ ~ IsMarketOrder(o.orderType)

CancelsOn_InvalidPositionOnly(o, e) == e = "InvalidPosition"

\* The errors on which it cancels the order; on the rest it freezes it.
CancelsOn(o, e) == IsMarketOrder(o.orderType) \/ e = "InvalidPosition"

RevertOnError ==
  /\ tx.phase = "handle"
  /\ RevertsOn(orders[tx.key], tx.error)
  /\ EndTransaction
  /\ UNCHANGED state

CancelOnError ==
  LET o == orders[tx.key] IN
  /\ tx.phase = "handle"
  /\ ~ RevertsOn(o, tx.error)
  /\ CancelsOn(o, tx.error)
  /\ RemoveAndRefund(tx.key)
  /\ tx' = [tx EXCEPT !.phase = "callback", !.frame = "main", !.due = o.executionFee]
  /\ UNCHANGED <<guard, prices, saved, block, disabled, changedAt>>

FrozenOrder_KeepsFee(o) == [o EXCEPT !.isFrozen = TRUE]
FrozenOrder(o) == [o EXCEPT !.executionFee = 0, !.isFrozen = TRUE]

\* OrderUtils.freezeOrder: the order stays, without its fee.
FreezeOnError ==
  LET o == orders[tx.key] IN
  /\ tx.phase = "handle"
  /\ ~ RevertsOn(o, tx.error)
  /\ ~ CancelsOn(o, tx.error)
  /\ SetOrder(tx.key, FrozenOrder(o))
  /\ tx' = [tx EXCEPT !.phase = "callback", !.frame = "main", !.due = o.executionFee]
  /\ UNCHANGED <<nonce, balance, recorded, positions, outcome,
                 guard, prices, saved, block, disabled, changedAt>>

\* A failure that nothing catches: a liquidation or ADL that is refused, or a
\* transaction that runs out of gas.
RevertTransaction ==
  /\ tx.phase \in {"run", "callback"}
  /\ tx.frame = "main"
  /\ Restore
  /\ EndTransaction

----------------------------------------------------------------------------
TraderStep ==
  \E a \in Accounts :
    \/ \E type \in CreatableTypes, t \in Tokens : CreateOrder(a, type, t)
    \/ \E k \in Keys : UpdateOrder(a, k) \/ CancelOrder(a, k)

KeeperStep ==
  \/ \E keeper \in OrderKeepers, k \in Keys : BeginExecuteOrder(keeper, k)
  \/ \E a \in Accounts :
       \/ "Liquidation" \in ForcedTypes /\ ExecuteLiquidation(a)
       \/ "Adl" \in ForcedTypes /\ ExecuteAdl(a)

TransactionStep ==
  \/ ExecuteOrder \/ PayExecutionFee
  \/ \E e \in Errors : FailExecution(e)
  \/ RevertOnError \/ CancelOnError \/ FreezeOnError
  \/ RevertTransaction

EnvironmentStep ==
  \/ Tick
  \/ \E f \in Switches : ToggleFeature(f)
  \/ \E t \in Tokens : SendTokens(t)

Next == TraderStep \/ KeeperStep \/ TransactionStep \/ EnvironmentStep

Spec == Init /\ [][Next]_vars

(***************************************************************************)
(* Fairness.  A transaction that has begun ends (the EVM never waits).     *)
(* Blocks are produced.  For liveness the model also assumes:              *)
(*   - gas: whoever executes or cancels an order brings, again and again,  *)
(*     enough gas for the last step of the transaction;                    *)
(*   - the keepers: an order is executed again and again by a frozen order *)
(*     keeper with a complete set of prices in the right range of blocks,  *)
(*     which is the keepers' job off chain;                                *)
(*   - the owners: who wants to leave tries to cancel again and again.     *)
(* Each property names the part it needs.                                  *)
(***************************************************************************)
EnoughGas(k) == SF_vars(tx.key = k /\ PayExecutionFee)

ChainFairness ==
  /\ SF_vars(Tick)
  /\ WF_vars(TransactionStep)
  /\ \A k \in Keys : EnoughGas(k)

SuitablePrices(k) ==
  {p \in PriceSets : p.complete /\ OracleBlockNumbersValid(orders[k], PositionOf(orders[k]), p)}

KeeperFairness ==
  \A k \in Keys : SF_vars(\E keeper \in OrderKeepers \cap FrozenOrderKeepers :
                            BeginExecuteOrder(keeper, k) /\ prices' \in SuitablePrices(k))

OwnerFairness ==
  \A k \in Keys : SF_vars(\E a \in Accounts : CancelOrder(a, k))

KeptSpec == Spec /\ ChainFairness /\ KeeperFairness
AbandonedSpec == Spec /\ ChainFairness /\ OwnerFairness
=============================================================================
