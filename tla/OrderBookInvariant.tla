------------------------- MODULE OrderBookInvariant -------------------------
(***************************************************************************)
(* The inductive invariant of the order book.  The invariants of           *)
(* OrderBookProperties are not inductive as they stand: a transaction may  *)
(* be undone, so what holds of the state must also hold of the saved one;  *)
(* the copy of the order in memory must be the one that was stored; and    *)
(* the fee a transaction still has to pay must have left the book.         *)
(***************************************************************************)
EXTENDS OrderBookProperties

\* The lists of a book name its orders, and its keys were handed out.
BookAgrees(book, lists, n) ==
  \A k \in Keys :
    /\ book[k].account = Nobody => book[k] = EmptyOrder
    /\ book[k].account # Nobody => k <= n
    /\ \A a \in Accounts : k \in lists[a] <=> book[k].account = a

Indexed ==
  /\ BookAgrees(orders, listed, nonce)
  /\ BookAgrees(saved.orders, saved.listed, saved.nonce)

Solvent ==
  /\ VaultCoversBook
  /\ \A t \in Tokens : /\ Booked(saved.orders, t) <= saved.recorded[t]
                       /\ saved.recorded[t] <= saved.balance[t]

\* What the transaction in progress handles is one order, and it is pending
\* until the attempt has got as far as the callback.
Transacting ==
  /\ NothingOutlivesTheTransaction
  /\ tx.phase # "callback" => tx.due = 0
  /\ tx.phase # "idle" => \A k \in Keys \ {tx.key} : saved.orders[k] = orders[k]
  /\ tx.phase = "run" => orders[tx.key] = tx.order /\ tx.order.account \in Accounts
  /\ tx.phase # "idle" /\ tx.frame = "try" =>
       saved.orders[tx.key] = tx.order /\ tx.order.account \in Accounts
  /\ tx.phase = "handle" => tx.frame = "try"

\* An order that keepers and its owner can go on with.
Servable(k, o) ==
  o.account # Nobody =>
    /\ changedAt[k] > 0
    /\ IF o.isFrozen THEN o.executionFee = 0 /\ ~ IsMarketOrder(o.orderType)
       ELSE o.executionFee >= MinExecutionFee

Servables ==
  /\ tx.phase = "idle" => \A k \in Keys : Servable(k, orders[k])
  /\ tx.phase # "idle" => \A k \in Keys : Servable(k, saved.orders[k])
  /\ tx.phase = "callback" => Servable(tx.key, orders[tx.key])

InductiveInvariant == TypeOK /\ Indexed /\ Solvent /\ Transacting /\ Servables

----------------------------------------------------------------------------
(* What a transaction may have done so far *)

\* What the events and the blocks tell of a book: a key that was not handed
\* out has no history, a pending order was opened and not closed, and what an
\* owner created or changed carries the block of that change.
Chronicle(book, events, n) ==
  \A k \in Keys :
    /\ k > n => events[k] = "none" /\ changedAt[k] = 0
    /\ book[k].account # Nobody => events[k] = "open"
    /\ book[k].account # Nobody /\ changedAt[k] > 0 =>
         book[k].updatedAtBlock = changedAt[k] /\ book[k].orderType # "Liquidation"

Chronicled ==
  /\ Chronicle(orders, outcome, nonce)
  /\ tx.phase # "idle" => Chronicle(saved.orders, saved.outcome, saved.nonce)

\* The three ends a transaction can come to: the order was executed or
\* cancelled; the protocol forced an order that was not there before; or the
\* order was frozen.
Settled(k) ==
  /\ saved.outcome[k] = "open" /\ outcome[k] \in {"executed", "cancelled"}
  /\ orders[k] = EmptyOrder
Forced(k) ==
  /\ saved.outcome[k] = "none" /\ outcome[k] = "executed"
  /\ orders[k] = EmptyOrder /\ saved.orders[k] = EmptyOrder
Frozen(k) ==
  /\ saved.outcome[k] = "open" /\ outcome[k] = "open"
  /\ orders[k] = FrozenOrder(saved.orders[k])

\* No order but the one in progress has an event; before the attempt nothing
\* has left the vault; and after it what has left, or will leave with the fee,
\* is what was held for the order and is not any more.
Settling ==
  /\ tx.phase # "callback" => tx.received = NoTokens
  /\ tx.phase # "idle" =>
       /\ \A k \in Keys \ {tx.key} : outcome[k] = saved.outcome[k]
       /\ saved.outcome[tx.key] \in {"none", "open"}
  /\ tx.phase = "run" => balance = saved.balance
  /\ tx.phase = "run" /\ tx.frame = "main" =>
       /\ saved.outcome[tx.key] = "none" /\ saved.orders[tx.key] = EmptyOrder
       /\ tx.order.amount = 0 /\ tx.order.executionFee = 0
  /\ tx.phase = "callback" =>
       /\ Settled(tx.key) \/ Forced(tx.key) \/ Frozen(tx.key)
       /\ \A t \in Tokens :
            balance[t] - (IF t = Wnt THEN tx.due ELSE 0)
              = saved.balance[t] + tx.received[t]
                  - (Held(saved.orders[tx.key], t) - Held(orders[tx.key], t))

HistoryInvariant == InductiveInvariant /\ Chronicled /\ Settling
=============================================================================
