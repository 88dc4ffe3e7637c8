------------------------ MODULE OrderBookProperties ------------------------
(***************************************************************************)
(* What the order book promises.                                           *)
(***************************************************************************)
EXTENDS OrderBook

SnapshotType ==
  [orders : [Keys -> Order], listed : [Accounts -> SUBSET Keys], nonce : 0..MaxOrders,
   balance : [Tokens -> Nat], recorded : [Tokens -> Nat],
   positions : [Accounts -> [increasedAt : Nat, decreasedAt : Nat]],
   outcome : [Keys -> {"none", "open", "executed", "cancelled"}]]

TxType ==
  [phase : {"idle", "run", "handle", "callback"}, frame : {"try", "main"},
   key : 0..MaxOrders, keeper : Accounts \cup OrderKeepers \cup {Nobody}, order : Order,
   adl : BOOLEAN, due : Nat, error : Errors \cup {"none"},
   received : [Tokens -> Nat]]

\* Every variable has its type; in particular the vault never pays out more
\* than it has.
TypeOK ==
  /\ Snapshot \in SnapshotType
  /\ saved \in SnapshotType
  /\ guard \in BOOLEAN
  /\ prices \in [observations : SUBSET Observation, complete : BOOLEAN]
  /\ tx \in TxType
  /\ tx.phase # "idle" => tx.key \in Keys
  /\ block \in Blocks
  /\ disabled \subseteq Switches
  /\ changedAt \in [Keys -> Nat]

----------------------------------------------------------------------------
(* Invariants *)

\* The collateral and the fees of the orders in a book.
Booked(book, t) == Total([k \in Keys |-> Held(book[k], t)], MaxOrders)

\* What the vault owes: also the fee that the transaction in progress has yet
\* to pay.
Owed(t) == Booked(orders, t) + (IF t = Wnt THEN tx.due ELSE 0)

\* At every step, also inside a transaction and while a callback runs, the
\* tokens on record cover what is owed, and the vault has what is on record.
\* So recordTransferIn, which credits the difference, never credits one
\* trader with the tokens of another, and never underflows.
VaultCoversBook ==
  \A t \in Tokens : Owed(t) <= recorded[t] /\ recorded[t] <= balance[t]

\* The order list of an account and the orders agree at every step, and a key
\* that was never handed out holds no order.
IndexesAgree ==
  /\ \A a \in Accounts : listed[a] = {k \in Keys : orders[k].account = a}
  /\ \A k \in Keys : Pending(k) => k <= nonce

\* Between transactions a pending order either is live, with a fee that covers
\* its execution, or frozen, with its fee spent: no order can be executed for
\* free or charged twice.  Only the types that updateOrder accepts are frozen,
\* or nobody could unfreeze the order; and an order that the protocol forced
\* is never left in the book.
RestingOrdersAreServable ==
  tx.phase = "idle" =>
    \A k \in Keys : Pending(k) =>
      /\ changedAt[k] > 0
      /\ IF orders[k].isFrozen
           THEN orders[k].executionFee = 0 /\ ~ IsMarketOrder(orders[k].orderType)
           ELSE orders[k].executionFee >= MinExecutionFee

\* The oracle holds prices only inside a keeper's transaction and the guard is
\* held exactly as long as a transaction lasts; else no setPrices could ever
\* succeed again, or no call be admitted.
NothingOutlivesTheTransaction ==
  /\ guard <=> tx.phase # "idle"
  /\ prices # NoPrices => guard
  /\ tx.phase = "handle" => Snapshot = saved

----------------------------------------------------------------------------
(* Action properties *)

\* While a transaction handles one order, no other order changes: not by the
\* callback, which may call any contract, and not by the unwinding of a frame.
OnlyTheHandledOrderMoves ==
  [][tx.phase # "idle" => \A k \in Keys \ {tx.key} : orders'[k] = orders[k]]_vars

\* A frozen order and a limit swap are executed only by a keeper with the role
\* FROZEN_ORDER_KEEPER.
FrozenOrdersAreReserved ==
  [][\A k \in Keys :
       /\ outcome[k] = "open" /\ outcome'[k] = "executed"
       /\ changedAt[k] > 0
       /\ orders[k].isFrozen \/ orders[k].orderType = "LimitSwap"
       => tx.keeper \in FrozenOrderKeepers]_vars

\* An order is never executed at prices from before its owner last changed it,
\* nor a limit decrease at prices from before the position was last increased;
\* a market order is executed at prices of the block it was created in.  (As
\* far as prices carry blocks, which those of price feeds do not.)
ExecutedAtFreshPrices ==
  [][\A k \in Keys :
       outcome[k] = "open" /\ outcome'[k] = "executed" /\ changedAt[k] > 0 =>
         \A r \in BlockRanges(prices) :
           IF IsMarketOrder(orders[k].orderType)
             THEN changedAt[k] \in r.min..r.max
             ELSE /\ r.min >= changedAt[k]
                  /\ IsDecreaseOrder(orders[k].orderType)
                       => r.min >= PositionOf(orders[k]).increasedAt]_vars

\* A trader cannot take a market order back before it has expired: until then
\* only a keeper's transaction removes it.
MarketOrdersBind ==
  [][\A k \in Keys :
       /\ IsMarketOrder(orders[k].orderType)
       /\ outcome[k] = "open" /\ outcome'[k] = "cancelled" /\ tx.phase = "idle"
       => block >= changedAt[k] + RequestExpirationBlockAge]_vars

----------------------------------------------------------------------------
(* Refinement *)

\* Seen from outside, a transaction happens when it ends.
Seen == IF tx.phase = "idle" THEN Snapshot ELSE saved

Vault == INSTANCE Escrow WITH
  MaxRequests <- MaxOrders,
  status <- Seen.outcome,
  held <- [k \in Keys |-> [t \in Tokens |-> Held(Seen.orders[k], t)]],
  vault <- Seen.balance,
  incoming <- tx.received

\* The order vault is an escrow: whatever the callbacks, failures and
\* rollbacks, every order takes its tokens from what nobody owns, and exactly
\* these leave the vault, once: the fee when the order is frozen, all that is
\* left when it is executed or cancelled.  A refund that is forgotten breaks
\* this as much as one that is paid twice.
ImplementsEscrow == Vault!Spec

----------------------------------------------------------------------------
(* Liveness *)

\* With keepers at work every market order is executed or cancelled, also when
\* its position has gone or its prices are unacceptable.
MarketOrdersAreServed ==
  \A k \in Keys :
    Pending(k) /\ IsMarketOrder(orders[k].orderType) ~> ~ Pending(k)

\* Without any keeper, an owner who tries gets every order cancelled: frozen or
\* not, and a market order once it has expired.
OwnersCanLeave == \A k \in Keys : Pending(k) ~> ~ Pending(k)
=============================================================================
