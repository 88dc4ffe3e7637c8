-------------------------- MODULE OrderBookProofs --------------------------
(***************************************************************************)
(* The proofs about OrderBook, for all values of the constants: its type   *)
(* invariant, its inductive invariant and what follows, then its action    *)
(* properties, and that it implements the escrow.                          *)
(***************************************************************************)
EXTENDS OrderBookInvariant, SumsProofs

USE ConstantsAssumption DEF Keys, Blocks

----------------------------------------------------------------------------
(* Types *)

Book == [Keys -> Order]
Lists == [Accounts -> SUBSET Keys]
Outcomes == [Keys -> {"none", "open", "executed", "cancelled"}]
Positions == [Accounts -> [increasedAt : Nat, decreasedAt : Nat]]

LEMMA EmptyOrderType == EmptyOrder \in Order
BY DEF EmptyOrder, Order, OrderTypes

LEMMA NoTokensType == NoTokens \in [Tokens -> Nat] /\ \A t \in Tokens : NoTokens[t] = 0
BY DEF NoTokens

LEMMA BlankType == Blank \in SnapshotType
BY EmptyOrderType, NoTokensType DEF Blank, SnapshotType, NoPosition

LEMMA NoTxType == NoTx \in TxType
BY EmptyOrderType, NoTokensType DEF NoTx, TxType

LEMMA PricesType ==
  ASSUME prices' \in PriceSets
  PROVE  prices' \in [observations : SUBSET Observation, complete : BOOLEAN]
BY DEF PriceSets, ValidObservations

\* Typed, variable by variable.
StateTyped ==
  /\ orders \in Book /\ listed \in Lists /\ nonce \in 0..MaxOrders
  /\ balance \in [Tokens -> Nat] /\ recorded \in [Tokens -> Nat]
  /\ positions \in Positions /\ outcome \in Outcomes

LEMMA SnapshotTyped == Snapshot \in SnapshotType <=> StateTyped
BY DEF Snapshot, SnapshotType, StateTyped, Book, Lists, Outcomes, Positions

LEMMA SnapshotTypedNext == Snapshot' \in SnapshotType <=> StateTyped'
BY DEF Snapshot, SnapshotType, StateTyped, Book, Lists, Outcomes, Positions

LEMMA RestoreType ==
  ASSUME saved \in SnapshotType, Restore
  PROVE  StateTyped'
BY DEF SnapshotType, StateTyped, Restore, Book, Lists, Outcomes, Positions

LEMMA SetOrderType ==
  ASSUME StateTyped, NEW k \in Keys, NEW o \in Order, SetOrder(k, o)
  PROVE  orders' \in Book /\ listed' \in Lists
BY DEF SetOrder, StateTyped, Book, Lists

LEMMA RemoveOrderType ==
  ASSUME StateTyped, NEW k \in Keys, RemoveOrder(k)
  PROVE  orders' \in Book /\ listed' \in Lists
BY EmptyOrderType DEF RemoveOrder, StateTyped, Book, Lists

LEMMA TransferOutType ==
  ASSUME StateTyped, NEW t \in Tokens, NEW n \in Nat, TransferOut(t, n)
  PROVE  balance' \in [Tokens -> Nat] /\ recorded' \in [Tokens -> Nat]
BY DEF TransferOut, StateTyped

LEMMA RecordTransferInType ==
  ASSUME StateTyped, NEW S, RecordTransferIn(S)
  PROVE  recorded' \in [Tokens -> Nat]
BY DEF RecordTransferIn, StateTyped

\* The variables that are not restored.
RestTyped ==
  /\ saved \in SnapshotType
  /\ guard \in BOOLEAN
  /\ prices \in [observations : SUBSET Observation, complete : BOOLEAN]
  /\ tx \in TxType
  /\ tx.phase # "idle" => tx.key \in Keys
  /\ block \in Blocks
  /\ disabled \subseteq Switches
  /\ changedAt \in [Keys -> Nat]

LEMMA TypeOKParts == TypeOK <=> StateTyped /\ RestTyped
BY SnapshotTyped DEF TypeOK, RestTyped

LEMMA TypeOKPartsNext == TypeOK' <=> StateTyped' /\ RestTyped'
BY SnapshotTypedNext DEF TypeOK, RestTyped

LEMMA SnapshotType1 == StateTyped => Snapshot \in SnapshotType
BY SnapshotTyped

LEMMA EndTransactionType ==
  ASSUME RestTyped, EndTransaction
  PROVE  RestTyped'
BY BlankType, NoTxType DEF RestTyped, EndTransaction, NoPrices, NoTx

LEMMA OrderFieldTypes ==
  ASSUME NEW o \in Order
  PROVE  /\ o.account \in Accounts \cup {Nobody} /\ o.token \in Tokens
         /\ o.amount \in Nat /\ o.executionFee \in Nat /\ o.updatedAtBlock \in Nat
         /\ o.orderType \in OrderTypes /\ o.isFrozen \in BOOLEAN
BY DEF Order

LEMMA CreateOrderTyped ==
  ASSUME TypeOK, NEW a \in Accounts, NEW type \in CreatableTypes, NEW t \in Tokens,
         CreateOrder(a, type, t)
  PROVE  TypeOK'
<1> USE TypeOKParts, TypeOKPartsNext
<1>1. nonce + 1 \in Keys
  BY DEF CreateOrder, StateTyped
<1>2. PICK amount \in 0..MaxBalance, fee \in MinExecutionFee..MaxBalance :
        LET o == NewOrder(a, type, t, amount, fee)
        IN RecordTransferIn(FundingTokens(o)) /\ SetOrder(nonce + 1, o)
  BY DEF CreateOrder
<1>3. NewOrder(a, type, t, amount, fee) \in Order
  BY DEF Order, RestTyped, NewOrder
<1>4. orders' \in Book /\ listed' \in Lists
  BY <1>1, <1>2, <1>3, SetOrderType
<1>5. recorded' \in [Tokens -> Nat]
  BY <1>2, RecordTransferInType
<1>6. StateTyped'
  <2>1. /\ nonce' = nonce + 1 /\ outcome' = [outcome EXCEPT ![nonce + 1] = "open"]
        /\ balance' = balance /\ positions' = positions
    BY DEF CreateOrder
  <2>2. nonce' \in 0..MaxOrders /\ outcome' \in Outcomes
    BY <1>1, <2>1 DEF StateTyped, Outcomes
  <2> QED BY <1>4, <1>5, <2>1, <2>2 DEF StateTyped
<1>7. RestTyped'
  BY <1>1 DEF CreateOrder, RestTyped
<1> QED BY <1>6, <1>7

LEMMA UpdateOrderTyped ==
  ASSUME TypeOK, NEW a \in Accounts, NEW k \in Keys, UpdateOrder(a, k)
  PROVE  TypeOK'
<1> USE TypeOKParts, TypeOKPartsNext
<1>1. UpdatedOrder(orders[k]) \in Order
  <2>1. orders[k] \in Order
    BY DEF StateTyped, Book
  <2>2. Credit(Wnt) \in Int
    BY DEF Credit, StateTyped
  <2>3. UpdatedOrder(orders[k]).executionFee = orders[k].executionFee + Credit(Wnt)
    BY <2>1 DEF UpdatedOrder, Order
  <2>4. UpdatedOrder(orders[k]).executionFee >= MinExecutionFee
    BY DEF UpdateOrder
  <2>5. orders[k].executionFee + Credit(Wnt) \in Nat
    BY <2>1, <2>2, <2>3, <2>4, OrderFieldTypes
  <2>6. block \in Nat
    BY DEF RestTyped
  <2> QED BY <2>1, <2>5, <2>6 DEF UpdatedOrder, Order
<1>2. orders' \in Book /\ listed' \in Lists
  BY <1>1, SetOrderType DEF UpdateOrder
<1>3. recorded' \in [Tokens -> Nat]
  BY RecordTransferInType DEF UpdateOrder
<1>4. StateTyped' /\ RestTyped'
  BY <1>2, <1>3 DEF UpdateOrder, StateTyped, RestTyped
<1> QED BY <1>4

\* What RemoveAndRefund leaves behind is well typed.
LEMMA RemoveAndRefundTyped ==
  ASSUME StateTyped, NEW k \in Keys, RemoveAndRefund(k)
  PROVE  StateTyped'
<1>1. orders' \in Book /\ listed' \in Lists
  BY RemoveOrderType DEF RemoveAndRefund
<1>2. orders[k] \in Order
  BY DEF StateTyped, Book
<1>3. balance' \in [Tokens -> Nat] /\ recorded' \in [Tokens -> Nat]
  BY <1>2, OrderFieldTypes, TransferOutType DEF RemoveAndRefund, StateTyped
<1> QED BY <1>1, <1>3 DEF RemoveAndRefund, StateTyped, Outcomes

LEMMA CancelOrderTyped ==
  ASSUME TypeOK, NEW a \in Accounts, NEW k \in Keys, CancelOrder(a, k)
  PROVE  TypeOK'
<1> USE TypeOKParts, TypeOKPartsNext
<1>1. StateTyped'
  BY RemoveAndRefundTyped DEF CancelOrder
<1>2. orders[k] \in Order /\ orders[k].executionFee \in Nat
  BY OrderFieldTypes DEF StateTyped, Book
<1>3. tx' \in TxType /\ tx'.key \in Keys
  <2>1. tx' = [phase |-> "callback", frame |-> "main", key |-> k, keeper |-> a,
               order |-> orders[k], adl |-> FALSE, due |-> orders[k].executionFee,
               error |-> "none", received |-> NoTokens]
    BY DEF CancelOrder, NoTx
  <2>2. k \in 0..MaxOrders
    OBVIOUS
  <2> QED BY <1>2, <2>1, <2>2, NoTokensType DEF TxType
<1>4. RestTyped'
  BY <1>3, SnapshotType1 DEF CancelOrder, RestTyped
<1> QED BY <1>1, <1>4

LEMMA BeginExecuteOrderTyped ==
  ASSUME TypeOK, NEW keeper \in OrderKeepers, NEW k \in Keys, BeginExecuteOrder(keeper, k)
  PROVE  TypeOK'
<1> USE TypeOKParts, TypeOKPartsNext
<1>1. StateTyped'
  BY DEF BeginExecuteOrder, StateTyped, state
<1>2. tx' \in TxType /\ tx'.key \in Keys
  <2>1. tx' = [phase |-> "run", frame |-> "try", key |-> k, keeper |-> keeper,
               order |-> orders[k], adl |-> FALSE, due |-> 0, error |-> "none",
               received |-> NoTokens]
    BY DEF BeginExecuteOrder, NoTx
  <2>2. k \in 0..MaxOrders /\ orders[k] \in Order
    BY DEF StateTyped, Book
  <2> QED BY <2>1, <2>2, NoTokensType DEF TxType
<1>3. RestTyped'
  BY <1>2, SnapshotType1, PricesType DEF BeginExecuteOrder, RestTyped
<1> QED BY <1>1, <1>3

LEMMA BeginForcedOrderTyped ==
  ASSUME TypeOK, prices' \in PriceSets, NEW o \in Order, NEW isAdl \in BOOLEAN,
         BeginForcedOrder(o, isAdl)
  PROVE  TypeOK'
<1> USE TypeOKParts, TypeOKPartsNext
<1>1. nonce + 1 \in Keys
  BY DEF BeginForcedOrder, StateTyped
<1>2. orders' \in Book /\ listed' \in Lists
  BY <1>1, SetOrderType DEF BeginForcedOrder
<1>3. StateTyped'
  BY <1>1, <1>2 DEF BeginForcedOrder, StateTyped, Outcomes
<1>4. tx' \in TxType /\ tx'.key \in Keys
  <2>1. tx' = [phase |-> "run", frame |-> "main", key |-> nonce + 1, keeper |-> Nobody,
               order |-> o, adl |-> isAdl, due |-> 0, error |-> "none",
               received |-> NoTokens]
    BY DEF BeginForcedOrder, NoTx
  <2>2. nonce + 1 \in 0..MaxOrders
    BY <1>1
  <2> QED BY <1>1, <2>1, <2>2, NoTokensType DEF TxType
<1>5. RestTyped'
  BY <1>4, SnapshotType1, PricesType DEF BeginForcedOrder, RestTyped
<1> QED BY <1>3, <1>5

LEMMA KeeperStepTyped == ASSUME TypeOK, KeeperStep PROVE TypeOK'
<1>1. ASSUME NEW keeper \in OrderKeepers, NEW k \in Keys, BeginExecuteOrder(keeper, k)
      PROVE  TypeOK'
  BY <1>1, BeginExecuteOrderTyped
<1>2. ASSUME NEW a \in Accounts, ExecuteLiquidation(a)
      PROVE  TypeOK'
  <2>1. block \in Nat
    BY DEF TypeOK
  <2>2. LiquidationOrder(a) \in Order
    BY <2>1, EmptyOrderType DEF LiquidationOrder, Order, OrderTypes
  <2> QED BY <1>2, <2>2, BeginForcedOrderTyped DEF ExecuteLiquidation
<1>3. ASSUME NEW a \in Accounts, ExecuteAdl(a)
      PROVE  TypeOK'
  <2>1. PICK r \in BlockRanges(prices') : BeginForcedOrder(AdlOrder(a, r.min), TRUE)
    BY <1>3 DEF ExecuteAdl
  <2>2. r.min \in Nat
    BY <1>3, PricesType DEF ExecuteAdl, BlockRanges, Observation
  <2>3. AdlOrder(a, r.min) \in Order
    BY <2>2, EmptyOrderType DEF AdlOrder, Order, OrderTypes
  <2> QED BY <1>3, <2>1, <2>3, BeginForcedOrderTyped DEF ExecuteAdl
<1> QED BY <1>1, <1>2, <1>3 DEF KeeperStep

\* What a successful attempt makes of the transaction.
LEMMA SentBackType ==
  ASSUME NEW o \in Order, NEW back \in BOOLEAN
  PROVE  SentBack(o, back) \in [Tokens -> Nat]
BY OrderFieldTypes DEF SentBack, Collateral

LEMMA ExecuteOrderTx ==
  ASSUME RestTyped, ExecuteOrder
  PROVE  \E back \in BOOLEAN :
           /\ MoveCollateral(tx.order, back)
           /\ tx' \in TxType
           /\ tx'.phase = "callback" /\ tx'.frame = tx.frame /\ tx'.key = tx.key
           /\ tx'.order = tx.order /\ tx'.due = tx.order.executionFee
           /\ tx'.received = SentBack(tx.order, back)
<1>1. PICK back \in BOOLEAN :
        /\ MoveCollateral(tx.order, back)
        /\ tx' = [tx EXCEPT !.phase = "callback", !.due = tx.order.executionFee,
                            !.received = SentBack(tx.order, back)]
  BY DEF ExecuteOrder
<1>2. tx \in TxType /\ tx.order \in Order
  BY DEF RestTyped, TxType
<1>3. SentBack(tx.order, back) \in [Tokens -> Nat] /\ tx.order.executionFee \in Nat
  BY <1>2, SentBackType, OrderFieldTypes
<1> QED BY <1>1, <1>2, <1>3 DEF TxType

LEMMA ExecuteOrderTyped == ASSUME TypeOK, ExecuteOrder PROVE TypeOK'
<1> USE TypeOKParts, TypeOKPartsNext
<1>1. tx.key \in Keys /\ tx.order \in Order
  BY DEF ExecuteOrder, RestTyped, TxType
<1>2. orders' \in Book /\ listed' \in Lists
  BY <1>1, RemoveOrderType DEF ExecuteOrder
<1>3. balance' \in [Tokens -> Nat] /\ recorded' \in [Tokens -> Nat]
  BY <1>1, OrderFieldTypes, TransferOutType DEF ExecuteOrder, MoveCollateral, StateTyped
<1>4. positions' \in Positions
  <2> DEFINE a == tx.order.account
  <2>1. positions \in Positions /\ block \in Nat
    BY DEF StateTyped, RestTyped
  <2>2. NoPosition \in [increasedAt : Nat, decreasedAt : Nat]
    BY DEF NoPosition
  <2>3. \/ positions' = [positions EXCEPT ![a].increasedAt = block]
        \/ positions' = [positions EXCEPT ![a] = NoPosition]
        \/ positions' = [positions EXCEPT ![a].decreasedAt = block]
        \/ positions' = positions
    BY DEF ExecuteOrder, ChangePosition
  <2> HIDE DEF a
  <2> QED BY <2>1, <2>2, <2>3 DEF Positions
<1>5. StateTyped'
  BY <1>2, <1>3, <1>4 DEF ExecuteOrder, StateTyped, Outcomes
<1>6. RestTyped'
  BY <1>1, ExecuteOrderTx DEF ExecuteOrder, RestTyped
<1> QED BY <1>5, <1>6

LEMMA PayExecutionFeeTyped == ASSUME TypeOK, PayExecutionFee PROVE TypeOK'
<1> USE TypeOKParts, TypeOKPartsNext
<1>1. tx.due \in Nat
  BY DEF RestTyped, TxType
<1>2. balance' \in [Tokens -> Nat] /\ recorded' \in [Tokens -> Nat]
  BY <1>1, TransferOutType DEF PayExecutionFee
<1>3. StateTyped'
  BY <1>2 DEF PayExecutionFee, StateTyped
<1> QED BY <1>3, EndTransactionType DEF PayExecutionFee

LEMMA FailureTyped ==
  ASSUME TypeOK,
         \/ \E e \in Errors : FailExecution(e)
         \/ RevertOnError \/ CancelOnError \/ FreezeOnError \/ RevertTransaction
  PROVE  TypeOK'
<1> USE TypeOKParts, TypeOKPartsNext
<1>1. ASSUME NEW e \in Errors, FailExecution(e) PROVE TypeOK'
  <2>1. StateTyped'
    BY <1>1, RestoreType DEF FailExecution, RestTyped
  <2>2. RestTyped'
    BY <1>1, NoTokensType DEF FailExecution, RestTyped, TxType
  <2> QED BY <2>1, <2>2
<1>2. CASE RevertOnError
  BY <1>2, EndTransactionType DEF RevertOnError, StateTyped, state
<1>3. CASE CancelOnError
  <2>1. tx.key \in Keys
    BY <1>3 DEF CancelOnError, RestTyped
  <2>2. orders[tx.key] \in Order
    BY <2>1 DEF StateTyped, Book
  <2>3. StateTyped'
    BY <1>3, <2>1, RemoveAndRefundTyped DEF CancelOnError
  <2>4. RestTyped'
    BY <1>3, <2>1, <2>2, OrderFieldTypes DEF CancelOnError, RestTyped, TxType
  <2> QED BY <2>3, <2>4
<1>4. CASE FreezeOnError
  <2>1. tx.key \in Keys
    BY <1>4 DEF FreezeOnError, RestTyped
  <2>2. orders[tx.key] \in Order
    BY <2>1 DEF StateTyped, Book
  <2>3. FrozenOrder(orders[tx.key]) \in Order
    BY <2>2 DEF FrozenOrder, Order
  <2>4. StateTyped'
    BY <1>4, <2>1, <2>3, SetOrderType DEF FreezeOnError, StateTyped
  <2>5. RestTyped'
    BY <1>4, <2>1, <2>2, OrderFieldTypes DEF FreezeOnError, RestTyped, TxType
  <2> QED BY <2>4, <2>5
<1>5. CASE RevertTransaction
  BY <1>5, RestoreType, EndTransactionType DEF RevertTransaction, RestTyped
<1> QED BY <1>1, <1>2, <1>3, <1>4, <1>5

\* What is sent to the vault in the middle of a transaction is noted.
LEMMA SendTokensTx ==
  ASSUME RestTyped, NEW t \in Tokens, SendTokens(t)
  PROVE  /\ tx' \in TxType /\ tx'.phase = tx.phase /\ tx'.key = tx.key /\ tx'.due = tx.due
         /\ tx'.order = tx.order /\ tx'.frame = tx.frame
         /\ tx.phase = "idle" => tx' = tx
         /\ tx.phase # "idle" =>
              \A u \in Tokens : tx'.received[u] = tx.received[u] + (IF t = u THEN 1 ELSE 0)
<1>1. CASE tx.phase = "idle"
  BY <1>1 DEF SendTokens, RestTyped
<1>2. CASE tx.phase # "idle"
  <2>1. tx \in TxType /\ tx.received \in [Tokens -> Nat]
    BY DEF RestTyped, TxType
  <2>2. /\ AlsoReceived(t) \in [Tokens -> Nat]
        /\ \A u \in Tokens : AlsoReceived(t)[u] = tx.received[u] + (IF t = u THEN 1 ELSE 0)
    BY <2>1 DEF AlsoReceived
  <2>3. tx' = [tx EXCEPT !.received = AlsoReceived(t)]
    BY <1>2 DEF SendTokens
  <2>4. /\ tx'.received = AlsoReceived(t) /\ tx'.phase = tx.phase /\ tx'.key = tx.key /\ tx'.due = tx.due
        /\ tx'.order = tx.order /\ tx'.frame = tx.frame /\ tx' \in TxType
    BY <2>1, <2>2, <2>3 DEF TxType
  <2> QED BY <1>2, <2>2, <2>4
<1> QED BY <1>1, <1>2

LEMMA EnvironmentTyped == ASSUME TypeOK, EnvironmentStep PROVE TypeOK'
<1> USE TypeOKParts, TypeOKPartsNext
<1>1. CASE Tick
  BY <1>1 DEF Tick, StateTyped, RestTyped, state
<1>2. ASSUME NEW f \in Switches, ToggleFeature(f) PROVE TypeOK'
  BY <1>2 DEF ToggleFeature, StateTyped, RestTyped, state
<1>3. ASSUME NEW t \in Tokens, SendTokens(t) PROVE TypeOK'
  <2>1. StateTyped'
    BY <1>3 DEF SendTokens, StateTyped
  <2>2. tx' \in TxType /\ tx'.phase = tx.phase /\ tx'.key = tx.key
    BY <1>3, SendTokensTx
  <2> QED BY <1>3, <2>1, <2>2 DEF SendTokens, RestTyped
<1> QED BY <1>1, <1>2, <1>3 DEF EnvironmentStep

LEMMA StutterTyped == ASSUME TypeOK, UNCHANGED vars PROVE TypeOK'
BY TypeOKParts, TypeOKPartsNext DEF vars, state, StateTyped, RestTyped

LEMMA NextTyped == ASSUME TypeOK, [Next]_vars PROVE TypeOK'
<1>1. CASE TraderStep
  BY <1>1, CreateOrderTyped, UpdateOrderTyped, CancelOrderTyped DEF TraderStep
<1>2. CASE TransactionStep
  BY <1>2, ExecuteOrderTyped, PayExecutionFeeTyped, FailureTyped DEF TransactionStep
<1> QED BY <1>1, <1>2, KeeperStepTyped, EnvironmentTyped, StutterTyped DEF Next

LEMMA InitTyped == Init => TypeOK
<1> SUFFICES ASSUME Init PROVE TypeOK
  OBVIOUS
<1>1. Snapshot \in SnapshotType
  BY BlankType DEF Init, Snapshot, SnapshotType, Blank
<1>2. tx = NoTx /\ NoTx.phase = "idle"
  BY DEF Init, NoTx
<1>3. block \in Blocks /\ changedAt \in [Keys -> Nat]
  BY DEF Init
<1>4. prices \in [observations : SUBSET Observation, complete : BOOLEAN]
  BY DEF Init, NoPrices
<1>5. saved \in SnapshotType /\ guard \in BOOLEAN /\ disabled \subseteq Switches
  BY BlankType DEF Init
<1> QED BY <1>1, <1>2, <1>3, <1>4, <1>5, NoTxType DEF TypeOK

\* All variables keep their types, for any number of traders, orders, tokens
\* and blocks: the vault never pays out more than it has.
THEOREM Typed == Spec => []TypeOK
BY InitTyped, NextTyped, PTL DEF Spec

----------------------------------------------------------------------------
(* What a book holds *)

LEMMA HeldNat ==
  ASSUME NEW o \in Order, NEW t \in Tokens
  PROVE  Held(o, t) \in Nat /\ Collateral(o, t) \in Nat
BY OrderFieldTypes DEF Held, Collateral

LEMMA HeldEmpty ==
  ASSUME NEW t \in Tokens
  PROVE  Held(EmptyOrder, t) = 0
BY DEF Held, Collateral, EmptyOrder

LEMMA BookedNat ==
  ASSUME NEW book \in Book, NEW t \in Tokens
  PROVE  Booked(book, t) \in Nat
<1>1. [k \in Keys |-> Held(book[k], t)] \in [1..MaxOrders -> Nat]
  BY HeldNat DEF Book
<1> QED BY <1>1, TotalNat DEF Booked

\* One order changes: the book holds as much more as that order does.
LEMMA BookedChange ==
  ASSUME NEW book \in Book, NEW book2 \in Book, NEW k \in Keys, NEW t \in Tokens,
         \A i \in Keys \ {k} : book2[i] = book[i]
  PROVE  Booked(book2, t) = Booked(book, t) + Held(book2[k], t) - Held(book[k], t)
<1> DEFINE f == [i \in 1..MaxOrders |-> Held(book[i], t)]
           g == [i \in 1..MaxOrders |-> Held(book2[i], t)]
<1>1. f \in [1..MaxOrders -> Int] /\ g \in [1..MaxOrders -> Int]
  BY HeldNat DEF Book
<1>2. \A i \in (1..MaxOrders) \ {k} : g[i] = f[i]
  OBVIOUS
<1>3. Booked(book, t) = Total(f, MaxOrders) /\ Booked(book2, t) = Total(g, MaxOrders)
  BY DEF Booked
<1>4. f[k] = Held(book[k], t) /\ g[k] = Held(book2[k], t)
  OBVIOUS
<1> HIDE DEF f, g
<1>5. Total(g, MaxOrders) = Total(f, MaxOrders) + g[k] - f[k]
  BY <1>1, <1>2, TotalChange
<1> QED BY <1>3, <1>4, <1>5

\* An order never holds more than its book.
LEMMA BookedBounds ==
  ASSUME NEW book \in Book, NEW k \in Keys, NEW t \in Tokens
  PROVE  Held(book[k], t) <= Booked(book, t)
<1> DEFINE f == [i \in 1..MaxOrders |-> Held(book[i], t)]
<1>1. f \in [1..MaxOrders -> Nat]
  BY HeldNat DEF Book
<1>2. f[k] = Held(book[k], t) /\ Booked(book, t) = Total(f, MaxOrders)
  BY DEF Booked
<1> HIDE DEF f
<1> QED BY <1>1, <1>2, TotalBoundsTerm

LEMMA BookedBlank ==
  ASSUME NEW t \in Tokens
  PROVE  Booked(Blank.orders, t) = 0
<1> DEFINE f == [i \in 1..MaxOrders |-> Held(Blank.orders[i], t)]
<1>1. \A i \in 1..MaxOrders : f[i] = 0
  BY HeldEmpty DEF Blank
<1>2. f \in [1..MaxOrders -> Int]
  BY <1>1
<1>3. Booked(Blank.orders, t) = Total(f, MaxOrders)
  BY DEF Booked
<1> HIDE DEF f
<1> QED BY <1>1, <1>2, <1>3, TotalZero

LEMMA BlankAgrees == BookAgrees(Blank.orders, Blank.listed, Blank.nonce)
BY DEF BookAgrees, Blank, EmptyOrder

LEMMA BlankSolvent ==
  ASSUME NEW t \in Tokens
  PROVE  Booked(Blank.orders, t) <= Blank.recorded[t] /\ Blank.recorded[t] <= Blank.balance[t]
BY BookedBlank, NoTokensType DEF Blank

----------------------------------------------------------------------------
(* The lists of a book *)

LEMMA SetOrderAgrees ==
  ASSUME StateTyped, NEW k \in Keys, NEW o \in Order, SetOrder(k, o),
         BookAgrees(orders, listed, nonce), o.account \in Accounts,
         orders[k].account \in {o.account, Nobody},
         nonce' \in 0..MaxOrders, nonce <= nonce', k <= nonce'
  PROVE  BookAgrees(orders', listed', nonce')
BY DEF SetOrder, BookAgrees, StateTyped, Book, Lists

LEMMA RemoveOrderAgrees ==
  ASSUME StateTyped, NEW k \in Keys, RemoveOrder(k),
         BookAgrees(orders, listed, nonce), nonce' = nonce
  PROVE  BookAgrees(orders', listed', nonce')
BY DEF RemoveOrder, BookAgrees, StateTyped, Book, Lists, EmptyOrder

----------------------------------------------------------------------------
(* The balance of the vault *)

\* The vault covers the books of a state.
Covered(book, due) ==
  \A t \in Tokens : /\ Booked(book, t) + (IF t = Wnt THEN due ELSE 0) <= recorded[t]
                    /\ recorded[t] <= balance[t]

LEMMA VaultCoversBookIsCovered == VaultCoversBook <=> Covered(orders, tx.due)
BY DEF VaultCoversBook, Covered, Owed

\* A transfer of what a book no longer holds.
LEMMA TransferOutCovers ==
  ASSUME StateTyped, NEW book \in Book, NEW book2 \in Book, NEW due \in Nat, NEW due2 \in Nat,
         Covered(book, due), NEW u \in Tokens, NEW n \in Nat, TransferOut(u, n),
         \A t \in Tokens :
           Booked(book2, t) + (IF t = Wnt THEN due2 ELSE 0) + (IF t = u THEN n ELSE 0)
             <= Booked(book, t) + (IF t = Wnt THEN due ELSE 0)
  PROVE  \A t \in Tokens :
           /\ Booked(book2, t) + (IF t = Wnt THEN due2 ELSE 0) <= recorded'[t]
           /\ recorded'[t] <= balance'[t]
<1> SUFFICES ASSUME NEW t \in Tokens
             PROVE  /\ Booked(book2, t) + (IF t = Wnt THEN due2 ELSE 0) <= recorded'[t]
                    /\ recorded'[t] <= balance'[t]
  OBVIOUS
<1> DEFINE x == Booked(book, t) + (IF t = Wnt THEN due ELSE 0)
           y == Booked(book2, t) + (IF t = Wnt THEN due2 ELSE 0)
<1>1. x \in Int /\ y \in Int
  BY BookedNat
<1>2. x <= recorded[t] /\ recorded[t] <= balance[t] /\ recorded[t] \in Nat /\ balance[t] \in Nat
  BY DEF Covered, StateTyped
<1>3. y + (IF t = u THEN n ELSE 0) <= x
  OBVIOUS
<1>4. recorded'[t] = (IF t = u THEN balance[t] - n ELSE recorded[t])
      /\ balance'[t] = (IF t = u THEN balance[t] - n ELSE balance[t])
  BY DEF TransferOut, StateTyped
<1> HIDE DEF x, y
<1>5. y <= recorded'[t] /\ recorded'[t] <= balance'[t]
  BY <1>1, <1>2, <1>3, <1>4
<1> QED BY <1>5 DEF y

----------------------------------------------------------------------------
(* The traders' steps *)

\* What the steps that need the guard start from.
LEMMA NonReentrantIsIdle ==
  ASSUME InductiveInvariant, NonReentrant
  PROVE  tx.phase = "idle" /\ tx.due = 0
BY DEF InductiveInvariant, Transacting, NothingOutlivesTheTransaction, NonReentrant

LEMMA InvTypes == InductiveInvariant => StateTyped /\ RestTyped
BY TypeOKParts DEF InductiveInvariant

\* A key that was not handed out is empty.
LEMMA FreshKey ==
  ASSUME InductiveInvariant, nonce < MaxOrders
  PROVE  nonce + 1 \in Keys /\ orders[nonce + 1] = EmptyOrder
<1>1. nonce + 1 \in Keys /\ nonce \in Nat
  BY InvTypes DEF StateTyped
<1>2. ~ (nonce + 1 <= nonce)
  BY <1>1
<1> QED BY <1>1, <1>2 DEF InductiveInvariant, Indexed, BookAgrees

\* Storing an order changes what the book holds by what the order holds.
LEMMA SetOrderBooked ==
  ASSUME StateTyped, NEW k \in Keys, NEW o \in Order, SetOrder(k, o), NEW t \in Tokens
  PROVE  Booked(orders', t) = Booked(orders, t) + Held(o, t) - Held(orders[k], t)
<1>1. orders \in Book /\ orders' \in Book
  BY SetOrderType DEF StateTyped
<1>2. orders'[k] = o /\ \A i \in Keys \ {k} : orders'[i] = orders[i]
  BY <1>1 DEF SetOrder, Book
<1> QED BY <1>1, <1>2, BookedChange

LEMMA RemoveOrderBooked ==
  ASSUME StateTyped, NEW k \in Keys, RemoveOrder(k), NEW t \in Tokens
  PROVE  Booked(orders', t) = Booked(orders, t) - Held(orders[k], t)
<1>1. orders \in Book /\ orders' \in Book
  BY RemoveOrderType DEF StateTyped
<1>2. orders'[k] = EmptyOrder /\ \A i \in Keys \ {k} : orders'[i] = orders[i]
  BY <1>1 DEF RemoveOrder, Book
<1>3. Held(orders[k], t) \in Nat /\ Booked(orders, t) \in Nat
  BY <1>1, HeldNat, BookedNat DEF Book
<1> QED BY <1>1, <1>2, <1>3, BookedChange, HeldEmpty

\* What an order takes when it is created is unrecorded before, recorded after.
LEMMA FundedByCreditCovers ==
  ASSUME StateTyped, NEW o \in Order, FundedByCredit(o), RecordTransferIn(FundingTokens(o)),
         NEW t \in Tokens, recorded[t] <= balance[t]
  PROVE  recorded[t] + Held(o, t) <= recorded'[t] /\ recorded'[t] <= balance[t]
<1>1. recorded'[t] = IF t \in FundingTokens(o) THEN balance[t] ELSE recorded[t]
  BY DEF RecordTransferIn, StateTyped
<1>2. recorded[t] \in Nat /\ balance[t] \in Nat /\ o.amount \in Nat /\ o.executionFee \in Nat
  BY OrderFieldTypes DEF StateTyped
<1>3. CASE ~ HoldsCollateral(o)
  BY <1>1, <1>2, <1>3 DEF FundedByCredit, FundingTokens, Credit, Held, Collateral
<1>4. CASE HoldsCollateral(o) /\ o.token = Wnt
  BY <1>1, <1>2, <1>4 DEF FundedByCredit, FundingTokens, Credit, Held, Collateral
<1>5. CASE HoldsCollateral(o) /\ o.token # Wnt
  BY <1>1, <1>2, <1>5 DEF FundedByCredit, FundingTokens, Credit, Held, Collateral
<1> QED BY <1>3, <1>4, <1>5

LEMMA CreateOrderSafe ==
  ASSUME InductiveInvariant, NEW a \in Accounts, NEW type \in CreatableTypes,
         NEW t \in Tokens, CreateOrder(a, type, t)
  PROVE  InductiveInvariant'
<1> DEFINE key == nonce + 1
<1>1. key \in Keys /\ orders[key] = EmptyOrder /\ tx.phase = "idle" /\ tx.due = 0
  BY FreshKey, NonReentrantIsIdle DEF CreateOrder
<1>2. StateTyped /\ RestTyped /\ TypeOK'
  BY InvTypes, CreateOrderTyped DEF InductiveInvariant
<1>3. PICK amount \in 0..MaxBalance, fee \in MinExecutionFee..MaxBalance :
        LET o == NewOrder(a, type, t, amount, fee)
        IN FundedByCredit(o) /\ RecordTransferIn(FundingTokens(o)) /\ SetOrder(key, o)
  BY DEF CreateOrder
<1> DEFINE o == NewOrder(a, type, t, amount, fee)
<1>4. o \in Order /\ o.account = a /\ o.isFrozen = FALSE /\ o.executionFee = fee
  BY <1>2 DEF Order, RestTyped, NewOrder
<1>5. UNCHANGED <<balance, tx, saved, guard, prices>> /\ nonce' = key
      /\ changedAt' = [changedAt EXCEPT ![key] = block]
  BY DEF CreateOrder
<1> HIDE DEF o
<1>6. Indexed'
  <2>1. orders[key].account \in {o.account, Nobody}
    BY <1>1 DEF EmptyOrder
  <2>2. BookAgrees(orders', listed', nonce')
    BY <1>1, <1>2, <1>3, <1>4, <1>5, <2>1, SetOrderAgrees
       DEF o, InductiveInvariant, Indexed, StateTyped
  <2> QED BY <1>5, <2>2 DEF InductiveInvariant, Indexed
<1>7. Solvent'
  <2>1. ASSUME NEW u \in Tokens
        PROVE  Booked(orders', u) <= recorded'[u] /\ recorded'[u] <= balance'[u]
    <3>1. Booked(orders, u) <= recorded[u] /\ recorded[u] <= balance[u]
      BY <1>1, <1>2, BookedNat DEF InductiveInvariant, Solvent, VaultCoversBook, Owed, StateTyped
    <3>2. recorded[u] + Held(o, u) <= recorded'[u] /\ recorded'[u] <= balance[u]
      BY <1>2, <1>3, <1>4, <3>1, FundedByCreditCovers DEF o
    <3>3. Booked(orders', u) = Booked(orders, u) + Held(o, u) - Held(orders[key], u)
      BY <1>1, <1>2, <1>3, <1>4, SetOrderBooked DEF o
    <3>4. /\ Booked(orders, u) \in Nat /\ Held(o, u) \in Nat /\ Held(orders[key], u) = 0
          /\ recorded[u] \in Nat /\ recorded'[u] \in Nat
      BY <1>1, <1>2, <1>4, BookedNat, HeldNat, HeldEmpty, TypeOKPartsNext DEF StateTyped
    <3> QED BY <1>5, <3>1, <3>2, <3>3, <3>4
  <2>2. tx'.due = 0
    BY <1>1, <1>5
  <2>3. ASSUME NEW u \in Tokens
        PROVE  Booked(orders', u) \in Nat
    BY <1>2, BookedNat, TypeOKPartsNext DEF StateTyped
  <2> QED BY <1>5, <2>1, <2>2, <2>3 DEF InductiveInvariant, Solvent, VaultCoversBook, Owed
<1>8. Transacting'
  BY <1>1, <1>5 DEF InductiveInvariant, Transacting, NothingOutlivesTheTransaction
<1>9. Servables'
  <2>1. ASSUME NEW k \in Keys
        PROVE  Servable(k, orders[k])'
    <3>1. CASE k = key
      BY <1>2, <1>3, <1>4, <1>5, <3>1 DEF SetOrder, o, Servable, StateTyped, RestTyped, Book
    <3>2. CASE k # key
      BY <1>1, <1>2, <1>3, <1>5, <3>2
         DEF InductiveInvariant, Servables, SetOrder, Servable, StateTyped, RestTyped, Book
    <3> QED BY <3>1, <3>2
  <2> QED BY <1>1, <1>5, <2>1 DEF Servables
<1> QED BY <1>2, <1>6, <1>7, <1>8, <1>9 DEF InductiveInvariant

LEMMA UpdateOrderSafe ==
  ASSUME InductiveInvariant, NEW a \in Accounts, NEW k \in Keys, UpdateOrder(a, k)
  PROVE  InductiveInvariant'
<1> DEFINE o == UpdatedOrder(orders[k])
<1>1. tx.phase = "idle" /\ tx.due = 0
  BY NonReentrantIsIdle DEF UpdateOrder
<1>2. StateTyped /\ RestTyped /\ TypeOK' /\ StateTyped'
  BY InvTypes, UpdateOrderTyped, TypeOKPartsNext DEF InductiveInvariant
<1>3. orders[k] \in Order /\ orders[k].account = a /\ Credit(Wnt) \in Int
  BY <1>2 DEF UpdateOrder, StateTyped, Book, Credit
<1>4. /\ o = orders'[k] /\ o \in Order
      /\ \A i \in Keys \ {k} : orders'[i] = orders[i]
  BY <1>2 DEF UpdateOrder, SetOrder, StateTyped, Book
<1>5. /\ o.account = a /\ o.orderType = orders[k].orderType /\ o.token = orders[k].token
      /\ o.amount = orders[k].amount /\ o.isFrozen = FALSE
      /\ o.executionFee = orders[k].executionFee + Credit(Wnt)
  BY <1>3 DEF UpdatedOrder, Order
<1>6. /\ UNCHANGED <<balance, tx, saved, guard, prices, nonce>>
      /\ changedAt' = [changedAt EXCEPT ![k] = block]
      /\ o.executionFee >= MinExecutionFee
      /\ RecordTransferIn({Wnt}) /\ SetOrder(k, o)
  BY DEF UpdateOrder
<1> HIDE DEF o
<1>7. Indexed'
  <2>1. BookAgrees(orders', listed', nonce')
    <3>1. BookAgrees(orders, listed, nonce) /\ nonce' \in 0..MaxOrders
      BY <1>2 DEF InductiveInvariant, Indexed, StateTyped
    <3>2. k <= nonce
      BY <1>3, <3>1 DEF BookAgrees
    <3> QED BY <1>2, <1>3, <1>4, <1>5, <1>6, <3>1, <3>2, SetOrderAgrees DEF StateTyped
  <2> QED BY <1>6, <2>1 DEF InductiveInvariant, Indexed
<1>8. Solvent'
  <2>1. ASSUME NEW t \in Tokens
        PROVE  Booked(orders', t) <= recorded'[t] /\ recorded'[t] <= balance'[t]
    <3>1. Booked(orders, t) <= recorded[t] /\ recorded[t] <= balance[t]
      BY <1>1, <1>2, BookedNat DEF InductiveInvariant, Solvent, VaultCoversBook, Owed, StateTyped
    <3>2. Booked(orders', t) = Booked(orders, t) + Held(o, t) - Held(orders[k], t)
      BY <1>2, <1>4, <1>6, SetOrderBooked
    <3>3. Held(o, t) = Held(orders[k], t) + (IF t = Wnt THEN Credit(Wnt) ELSE 0)
      BY <1>3, <1>4, <1>5, OrderFieldTypes DEF Held, Collateral, HoldsCollateral
    <3>4. /\ Booked(orders, t) \in Nat /\ Held(o, t) \in Nat /\ Held(orders[k], t) \in Nat
          /\ recorded[t] \in Nat /\ balance[t] \in Nat
      BY <1>2, <1>3, <1>4, BookedNat, HeldNat DEF StateTyped
    <3>5. recorded'[t] = IF t = Wnt THEN balance[t] ELSE recorded[t]
      BY <1>6 DEF RecordTransferIn
    <3>6. t = Wnt => Credit(Wnt) = balance[t] - recorded[t]
      BY DEF Credit
    <3> QED BY <1>6, <3>1, <3>2, <3>3, <3>4, <3>5, <3>6
  <2>2. tx'.due = 0
    BY <1>1, <1>6
  <2>3. ASSUME NEW u \in Tokens
        PROVE  Booked(orders', u) \in Nat
    BY <1>2, BookedNat DEF StateTyped
  <2> QED BY <1>6, <2>1, <2>2, <2>3 DEF InductiveInvariant, Solvent, VaultCoversBook, Owed
<1>9. Transacting'
  BY <1>1, <1>6 DEF InductiveInvariant, Transacting, NothingOutlivesTheTransaction
<1>10. Servables'
  <2>1. ASSUME NEW i \in Keys
        PROVE  Servable(i, orders[i])'
    <3>1. CASE i = k
      BY <1>2, <1>4, <1>5, <1>6, <3>1 DEF Servable, RestTyped
    <3>2. CASE i # k
      BY <1>1, <1>2, <1>4, <1>6, <3>2
         DEF InductiveInvariant, Servables, Servable, RestTyped
    <3> QED BY <3>1, <3>2
  <2> QED BY <1>1, <1>6, <2>1 DEF Servables
<1> QED BY <1>2, <1>7, <1>8, <1>9, <1>10 DEF InductiveInvariant

----------------------------------------------------------------------------
(* The beginning of a transaction *)

\* What holds of the state of a vault at rest holds of the copy that is saved.
LEMMA SavedIsSafe ==
  ASSUME InductiveInvariant, tx.phase = "idle", saved' = Snapshot
  PROVE  /\ BookAgrees(saved'.orders, saved'.listed, saved'.nonce)
         /\ \A t \in Tokens : /\ Booked(saved'.orders, t) <= saved'.recorded[t]
                              /\ saved'.recorded[t] <= saved'.balance[t]
         /\ \A k \in Keys : Servable(k, saved'.orders[k])
         /\ saved'.orders = orders
<1>1. /\ saved'.orders = orders /\ saved'.listed = listed /\ saved'.nonce = nonce
      /\ saved'.recorded = recorded /\ saved'.balance = balance
  BY DEF Snapshot
<1>2. tx.due = 0
  BY DEF InductiveInvariant, Transacting
<1>3. ASSUME NEW t \in Tokens
      PROVE  Booked(orders, t) <= recorded[t] /\ recorded[t] <= balance[t]
  BY <1>2, InvTypes, BookedNat DEF InductiveInvariant, Solvent, VaultCoversBook, Owed, StateTyped
<1> QED BY <1>1, <1>3 DEF InductiveInvariant, Indexed, Servables

\* An order leaves the book, its collateral leaves the vault or stays as
\* tokens of nobody, and its fee remains to be paid.
LEMMA RemovalCovers ==
  ASSUME StateTyped, Covered(orders, 0), NEW k \in Keys, RemoveOrder(k),
         \/ HoldsCollateral(orders[k]) /\ TransferOut(orders[k].token, orders[k].amount)
         \/ UNCHANGED <<balance, recorded>>
  PROVE  \A t \in Tokens :
           /\ Booked(orders', t) + (IF t = Wnt THEN orders[k].executionFee ELSE 0) <= recorded'[t]
           /\ recorded'[t] <= balance'[t]
<1> DEFINE o == orders[k]
<1>1. orders \in Book /\ orders' \in Book /\ o \in Order
  BY RemoveOrderType DEF StateTyped, Book
<1>2. o.token \in Tokens /\ o.amount \in Nat /\ o.executionFee \in Nat
  BY <1>1, OrderFieldTypes
<1>3. \A t \in Tokens : Booked(orders', t) = Booked(orders, t) - Held(o, t)
  BY RemoveOrderBooked
<1>4. \A t \in Tokens : /\ Booked(orders, t) \in Nat /\ Booked(orders', t) \in Nat
                        /\ Held(o, t) \in Nat /\ Collateral(o, t) \in Nat
  BY <1>1, BookedNat, HeldNat
<1>5. \A t \in Tokens : Held(o, t) = Collateral(o, t) + (IF t = Wnt THEN o.executionFee ELSE 0)
  BY DEF Held
<1> HIDE DEF o
<1>6. CASE HoldsCollateral(o) /\ TransferOut(o.token, o.amount)
  <2>1. \A t \in Tokens : Collateral(o, t) = IF t = o.token THEN o.amount ELSE 0
    BY <1>6 DEF Collateral
  <2>2. \A t \in Tokens :
          Booked(orders', t) + (IF t = Wnt THEN o.executionFee ELSE 0)
              + (IF t = o.token THEN o.amount ELSE 0)
            <= Booked(orders, t) + (IF t = Wnt THEN 0 ELSE 0)
    BY <1>2, <1>3, <1>4, <1>5, <2>1
  <2> QED BY <1>1, <1>2, <1>6, <2>2, TransferOutCovers DEF o
<1>7. CASE UNCHANGED <<balance, recorded>>
  BY <1>2, <1>3, <1>4, <1>5, <1>7 DEF Covered, StateTyped, o
<1> QED BY <1>6, <1>7 DEF o

LEMMA AtRestIsCovered ==
  ASSUME InductiveInvariant, tx.phase # "callback"
  PROVE  Covered(orders, 0)
<1>1. tx.due = 0
  BY DEF InductiveInvariant, Transacting
<1> QED BY <1>1, VaultCoversBookIsCovered DEF InductiveInvariant, Solvent

\* When an order is removed and refunded, what is owed is covered and the book
\* is in order.
LEMMA RemoveAndRefundSafe ==
  ASSUME InductiveInvariant, tx.phase # "callback", NEW k \in Keys, RemoveAndRefund(k)
  PROVE  /\ \A t \in Tokens :
              /\ Booked(orders', t) + (IF t = Wnt THEN orders[k].executionFee ELSE 0) <= recorded'[t]
              /\ recorded'[t] <= balance'[t]
         /\ BookAgrees(orders', listed', nonce')
         /\ orders'[k] = EmptyOrder
         /\ \A i \in Keys \ {k} : orders'[i] = orders[i]
<1>1. RemoveOrder(k) /\ nonce' = nonce
  BY DEF RemoveAndRefund
<1>2. \/ HoldsCollateral(orders[k]) /\ TransferOut(orders[k].token, orders[k].amount)
      \/ UNCHANGED <<balance, recorded>>
  BY DEF RemoveAndRefund
<1>3. StateTyped /\ Covered(orders, 0) /\ BookAgrees(orders, listed, nonce)
  BY InvTypes, AtRestIsCovered DEF InductiveInvariant, Indexed
<1>4. orders'[k] = EmptyOrder /\ \A i \in Keys \ {k} : orders'[i] = orders[i]
  BY <1>1, <1>3 DEF RemoveOrder, StateTyped, Book
<1> QED BY <1>1, <1>2, <1>3, <1>4, RemovalCovers, RemoveOrderAgrees

LEMMA CancelOrderSafe ==
  ASSUME InductiveInvariant, NEW a \in Accounts, NEW k \in Keys, CancelOrder(a, k)
  PROVE  InductiveInvariant'
<1>1. tx.phase = "idle" /\ saved' = Snapshot /\ RemoveAndRefund(k)
  BY NonReentrantIsIdle DEF CancelOrder
<1>2. /\ tx'.phase = "callback" /\ tx'.frame = "main" /\ tx'.key = k
      /\ tx'.due = orders[k].executionFee /\ guard' = TRUE /\ changedAt' = changedAt
  BY DEF CancelOrder, NoTx
<1>3. TypeOK'
  BY CancelOrderTyped DEF InductiveInvariant
<1>4. Indexed'
  BY <1>1, SavedIsSafe, RemoveAndRefundSafe DEF Indexed
<1>5. Solvent'
  BY <1>1, <1>2, SavedIsSafe, RemoveAndRefundSafe DEF Solvent, VaultCoversBook, Owed
<1>6. Transacting'
  BY <1>1, <1>2, SavedIsSafe, RemoveAndRefundSafe DEF Transacting, NothingOutlivesTheTransaction
<1>7. Servables'
  BY <1>1, <1>2, SavedIsSafe, RemoveAndRefundSafe DEF Servables, Servable, EmptyOrder
<1> QED BY <1>3, <1>4, <1>5, <1>6, <1>7 DEF InductiveInvariant

LEMMA BeginExecuteOrderSafe ==
  ASSUME InductiveInvariant, NEW keeper \in OrderKeepers, NEW k \in Keys,
         BeginExecuteOrder(keeper, k)
  PROVE  InductiveInvariant'
<1>1. tx.phase = "idle" /\ saved' = Snapshot /\ tx.due = 0
  BY NonReentrantIsIdle DEF BeginExecuteOrder, KeeperMayBegin
<1>2. /\ tx'.phase = "run" /\ tx'.frame = "try" /\ tx'.key = k /\ tx'.order = orders[k]
      /\ tx'.due = 0 /\ guard' = TRUE /\ changedAt' = changedAt
  BY DEF BeginExecuteOrder, NoTx
<1>3. UNCHANGED <<orders, listed, nonce, balance, recorded>>
  BY DEF BeginExecuteOrder, state
<1>4. TypeOK'
  BY BeginExecuteOrderTyped DEF InductiveInvariant
<1>5. orders[k].account \in Accounts
  BY InvTypes, OrderFieldTypes DEF BeginExecuteOrder, Pending, StateTyped, Book
<1>6. Indexed'
  BY <1>1, <1>3, SavedIsSafe DEF InductiveInvariant, Indexed
<1>7. Solvent'
  BY <1>1, <1>2, <1>3, SavedIsSafe DEF InductiveInvariant, Solvent, VaultCoversBook, Owed
<1>8. Transacting'
  BY <1>1, <1>2, <1>3, <1>5, SavedIsSafe DEF Transacting, NothingOutlivesTheTransaction
<1>9. Servables'
  BY <1>1, <1>2, SavedIsSafe DEF Servables, Servable
<1> QED BY <1>4, <1>6, <1>7, <1>8, <1>9 DEF InductiveInvariant

\* A forced order holds nothing.
LEMMA BeginForcedOrderSafe ==
  ASSUME InductiveInvariant, KeeperMayBegin, prices' \in PriceSets, NEW isAdl \in BOOLEAN,
         NEW o \in Order, o.account \in Accounts, o.executionFee = 0,
         ~ HoldsCollateral(o), BeginForcedOrder(o, isAdl)
  PROVE  InductiveInvariant'
<1> DEFINE key == nonce + 1
<1>1. tx.phase = "idle" /\ saved' = Snapshot /\ tx.due = 0
  BY NonReentrantIsIdle DEF BeginForcedOrder, KeeperMayBegin
<1>2. /\ tx'.phase = "run" /\ tx'.frame = "main" /\ tx'.key = key /\ tx'.order = o
      /\ tx'.due = 0 /\ guard' = TRUE /\ changedAt' = changedAt
  BY DEF BeginForcedOrder, NoTx
<1>3. UNCHANGED <<balance, recorded>> /\ nonce' = key /\ SetOrder(key, o)
  BY DEF BeginForcedOrder
<1>4. TypeOK' /\ StateTyped /\ StateTyped'
  BY InvTypes, BeginForcedOrderTyped, TypeOKPartsNext DEF InductiveInvariant
<1>5. key \in Keys /\ orders[key] = EmptyOrder
  BY FreshKey DEF BeginForcedOrder
<1>6. orders'[key] = o /\ \A i \in Keys \ {key} : orders'[i] = orders[i]
  BY <1>3, <1>4, <1>5 DEF SetOrder, StateTyped, Book
<1>7. Indexed'
  <2>1. orders[key].account \in {o.account, Nobody}
    BY <1>5 DEF EmptyOrder
  <2>2. BookAgrees(orders', listed', nonce')
    BY <1>3, <1>4, <1>5, <2>1, SetOrderAgrees DEF InductiveInvariant, Indexed, StateTyped
  <2> QED BY <1>1, <2>2, SavedIsSafe DEF Indexed
<1>8. Solvent'
  <2>1. ASSUME NEW t \in Tokens
        PROVE  Booked(orders', t) = Booked(orders, t)
    <3>1. Held(o, t) = 0 /\ Held(orders[key], t) = 0
      BY <1>5, HeldEmpty DEF Held, Collateral
    <3>2. Booked(orders, t) \in Nat
      BY <1>4, BookedNat DEF StateTyped
    <3> QED BY <1>3, <1>4, <1>5, <3>1, <3>2, SetOrderBooked
  <2> QED BY <1>1, <1>2, <1>3, <2>1, SavedIsSafe DEF InductiveInvariant, Solvent, VaultCoversBook, Owed
<1>9. Transacting'
  BY <1>1, <1>2, <1>6, SavedIsSafe DEF Transacting, NothingOutlivesTheTransaction
<1>10. Servables'
  BY <1>1, <1>2, SavedIsSafe DEF Servables, Servable
<1> QED BY <1>4, <1>7, <1>8, <1>9, <1>10 DEF InductiveInvariant

LEMMA KeeperStepSafe == ASSUME InductiveInvariant, KeeperStep PROVE InductiveInvariant'
<1>1. block \in Nat
  BY InvTypes DEF RestTyped
<1>2. ASSUME NEW a \in Accounts, ExecuteLiquidation(a)
      PROVE  InductiveInvariant'
  <2> DEFINE o == LiquidationOrder(a)
  <2>1. o \in Order
    BY <1>1, EmptyOrderType DEF LiquidationOrder, Order, OrderTypes
  <2>2. o.account = a /\ o.executionFee = 0 /\ ~ HoldsCollateral(o)
    BY DEF LiquidationOrder, EmptyOrder, HoldsCollateral, IsSwapOrder, IsIncreaseOrder
  <2> QED BY <1>2, <2>1, <2>2, BeginForcedOrderSafe DEF ExecuteLiquidation
<1>3. ASSUME NEW a \in Accounts, ExecuteAdl(a)
      PROVE  InductiveInvariant'
  <2>1. PICK r \in BlockRanges(prices') : BeginForcedOrder(AdlOrder(a, r.min), TRUE)
    BY <1>3 DEF ExecuteAdl
  <2> DEFINE o == AdlOrder(a, r.min)
  <2>2. r.min \in Nat
    BY <1>3, PricesType DEF ExecuteAdl, BlockRanges, Observation
  <2>3. o \in Order
    BY <2>2, EmptyOrderType DEF AdlOrder, Order, OrderTypes
  <2>4. o.account = a /\ o.executionFee = 0 /\ ~ HoldsCollateral(o)
    BY DEF AdlOrder, EmptyOrder, HoldsCollateral, IsSwapOrder, IsIncreaseOrder
  <2> QED BY <1>3, <2>1, <2>3, <2>4, BeginForcedOrderSafe DEF ExecuteAdl
<1> QED BY <1>2, <1>3, BeginExecuteOrderSafe DEF KeeperStep

----------------------------------------------------------------------------
(* The steps of a transaction *)

LEMMA ExecuteOrderSafe == ASSUME InductiveInvariant, ExecuteOrder PROVE InductiveInvariant'
<1> DEFINE k == tx.key
<1>1. /\ tx.phase = "run" /\ k \in Keys /\ orders[k] = tx.order
      /\ StateTyped /\ RestTyped /\ TypeOK'
  BY InvTypes, ExecuteOrderTyped DEF ExecuteOrder, InductiveInvariant, Transacting, RestTyped
<1>2. UNCHANGED <<nonce, guard, prices, saved, changedAt>> /\ RemoveOrder(k)
  BY <1>1 DEF ExecuteOrder
<1>3. PICK back \in BOOLEAN :
        /\ tx'.phase = "callback" /\ tx'.due = orders[k].executionFee
        /\ tx'.key = k /\ tx'.frame = tx.frame /\ tx'.order = tx.order
        /\ MoveCollateral(orders[k], back)
  BY <1>1, ExecuteOrderTx
<1>4. orders'[k] = EmptyOrder /\ \A i \in Keys \ {k} : orders'[i] = orders[i]
  BY <1>1, <1>2 DEF RemoveOrder, StateTyped, Book
<1>5. Indexed'
  BY <1>1, <1>2, RemoveOrderAgrees DEF InductiveInvariant, Indexed
<1>6. Solvent'
  <2>1. Covered(orders, 0)
    BY <1>1, AtRestIsCovered
  <2>2. \/ HoldsCollateral(orders[k]) /\ TransferOut(orders[k].token, orders[k].amount)
        \/ UNCHANGED <<balance, recorded>>
    BY <1>3 DEF MoveCollateral
  <2>3. \A t \in Tokens :
          /\ Booked(orders', t) + (IF t = Wnt THEN orders[k].executionFee ELSE 0) <= recorded'[t]
          /\ recorded'[t] <= balance'[t]
    BY <1>1, <1>2, <2>1, <2>2, RemovalCovers
  <2> QED BY <1>2, <1>3, <2>3 DEF InductiveInvariant, Solvent, VaultCoversBook, Owed
<1>7. Transacting'
  BY <1>1, <1>2, <1>3, <1>4 DEF InductiveInvariant, Transacting, NothingOutlivesTheTransaction
<1>8. Servables'
  BY <1>1, <1>2, <1>3, <1>4 DEF InductiveInvariant, Servables, Servable, EmptyOrder
<1> QED BY <1>1, <1>5, <1>6, <1>7, <1>8 DEF InductiveInvariant

\* At the end of a transaction: nothing is saved, no fee is due.
LEMMA EndTransactionSafe ==
  ASSUME InductiveInvariant, EndTransaction, TypeOK',
         BookAgrees(orders', listed', nonce'),
         \A t \in Tokens : Booked(orders', t) <= recorded'[t] /\ recorded'[t] <= balance'[t],
         \A k \in Keys : Servable(k, orders'[k])
  PROVE  InductiveInvariant'
<1>1. /\ saved' = Blank /\ guard' = FALSE /\ prices' = NoPrices /\ changedAt' = changedAt
      /\ tx'.phase = "idle" /\ tx'.frame = "main" /\ tx'.due = 0
  BY DEF EndTransaction, NoTx
<1>2. Indexed'
  BY <1>1, BlankAgrees DEF Indexed
<1>3. Solvent'
  <2>1. \A t \in Tokens : Booked(orders', t) \in Nat
    BY BookedNat, TypeOKPartsNext DEF StateTyped
  <2> QED BY <1>1, <2>1, BlankSolvent DEF Solvent, VaultCoversBook, Owed
<1>4. Transacting'
  BY <1>1 DEF Transacting, NothingOutlivesTheTransaction
<1>5. Servables'
  BY <1>1 DEF Servables, Servable
<1> QED BY <1>2, <1>3, <1>4, <1>5 DEF InductiveInvariant

LEMMA PayExecutionFeeSafe == ASSUME InductiveInvariant, PayExecutionFee PROVE InductiveInvariant'
<1>1. /\ tx.phase = "callback" /\ TransferOut(Wnt, tx.due) /\ EndTransaction
      /\ UNCHANGED <<orders, listed, nonce>>
  BY DEF PayExecutionFee
<1>2. /\ StateTyped /\ orders \in Book /\ tx.due \in Nat /\ tx.key \in Keys
      /\ Covered(orders, tx.due) /\ TypeOK'
  BY <1>1, InvTypes, VaultCoversBookIsCovered, PayExecutionFeeTyped
     DEF InductiveInvariant, Solvent, StateTyped, RestTyped, TxType
<1>3. \A t \in Tokens : Booked(orders, t) \in Nat
  BY <1>2, BookedNat
<1>4. \A t \in Tokens :
        Booked(orders, t) + (IF t = Wnt THEN 0 ELSE 0) + (IF t = Wnt THEN tx.due ELSE 0)
          <= Booked(orders, t) + (IF t = Wnt THEN tx.due ELSE 0)
  BY <1>2, <1>3
<1>5. \A t \in Tokens :
        Booked(orders, t) + (IF t = Wnt THEN 0 ELSE 0) <= recorded'[t] /\ recorded'[t] <= balance'[t]
  BY <1>1, <1>2, <1>4, TransferOutCovers
<1>6. \A t \in Tokens : Booked(orders', t) <= recorded'[t] /\ recorded'[t] <= balance'[t]
  BY <1>1, <1>3, <1>5
<1>7. \A k \in Keys : Servable(k, orders'[k])
  BY <1>1, <1>2 DEF InductiveInvariant, Transacting, Servables
<1>8. BookAgrees(orders', listed', nonce')
  BY <1>1 DEF InductiveInvariant, Indexed
<1> QED BY <1>1, <1>2, <1>6, <1>7, <1>8, EndTransactionSafe

\* What Restore brings back.
LEMMA RestoreBringsBack ==
  ASSUME InductiveInvariant, Restore
  PROVE  /\ BookAgrees(orders', listed', nonce') /\ orders' = saved.orders
         /\ \A t \in Tokens : Booked(orders', t) <= recorded'[t] /\ recorded'[t] <= balance'[t]
         /\ Snapshot' = saved
<1>1. saved \in SnapshotType
  BY InvTypes DEF RestTyped
<1>2. Snapshot' = saved
  BY <1>1 DEF Restore, Snapshot, SnapshotType
<1> QED BY <1>2 DEF Restore, InductiveInvariant, Indexed, Solvent

LEMMA FailExecutionSafe ==
  ASSUME InductiveInvariant, NEW e \in Errors, FailExecution(e)
  PROVE  InductiveInvariant'
<1>1. /\ Restore /\ tx.frame = "try" /\ tx.phase # "idle"
      /\ tx' = [tx EXCEPT !.phase = "handle", !.due = 0, !.error = e,
                          !.received = NoTokens]
      /\ UNCHANGED <<guard, prices, saved, changedAt>>
  BY DEF FailExecution
<1>2. RestTyped /\ TypeOK'
  BY InvTypes, FailureTyped DEF InductiveInvariant
<1>3. /\ tx'.phase = "handle" /\ tx'.frame = "try" /\ tx'.due = 0
      /\ tx'.key = tx.key /\ tx'.order = tx.order
  BY <1>1, <1>2 DEF RestTyped, TxType
<1>4. Indexed'
  BY <1>1, RestoreBringsBack DEF InductiveInvariant, Indexed
<1>5. Solvent'
  <2>1. \A t \in Tokens : Booked(orders', t) \in Nat
    BY <1>2, BookedNat, TypeOKPartsNext DEF StateTyped
  <2> QED BY <1>1, <1>3, <2>1, RestoreBringsBack
          DEF InductiveInvariant, Solvent, VaultCoversBook, Owed
<1>6. Transacting'
  BY <1>1, <1>3, RestoreBringsBack
     DEF InductiveInvariant, Transacting, NothingOutlivesTheTransaction
<1>7. Servables'
  BY <1>1, <1>3 DEF InductiveInvariant, Servables, Servable
<1> QED BY <1>2, <1>4, <1>5, <1>6, <1>7 DEF InductiveInvariant

\* While an error is handled the state is the one the transaction began with.
LEMMA HandlingFromSaved ==
  ASSUME InductiveInvariant, tx.phase = "handle"
  PROVE  /\ saved.orders = orders /\ tx.key \in Keys
         /\ orders[tx.key] = tx.order /\ tx.order.account \in Accounts
         /\ \A k \in Keys : Servable(k, orders[k])
<1>1. saved.orders = orders
  BY DEF InductiveInvariant, Transacting, NothingOutlivesTheTransaction, Snapshot
<1>2. tx.key \in Keys
  BY InvTypes DEF RestTyped
<1> QED BY <1>1, <1>2 DEF InductiveInvariant, Transacting, Servables

LEMMA RevertOnErrorSafe == ASSUME InductiveInvariant, RevertOnError PROVE InductiveInvariant'
<1>1. /\ tx.phase = "handle" /\ EndTransaction
      /\ UNCHANGED <<orders, listed, nonce, balance, recorded>>
  BY DEF RevertOnError, state
<1>2. TypeOK'
  BY FailureTyped DEF InductiveInvariant
<1>3. \A t \in Tokens : Booked(orders, t) <= recorded[t] /\ recorded[t] <= balance[t]
  <2>1. Covered(orders, 0)
    BY <1>1, AtRestIsCovered
  <2>2. \A t \in Tokens : Booked(orders, t) \in Nat
    BY InvTypes, BookedNat DEF StateTyped
  <2> QED BY <2>1, <2>2 DEF Covered
<1>4. BookAgrees(orders', listed', nonce')
  BY <1>1 DEF InductiveInvariant, Indexed
<1> QED BY <1>1, <1>2, <1>3, <1>4, HandlingFromSaved, EndTransactionSafe

LEMMA CancelOnErrorSafe == ASSUME InductiveInvariant, CancelOnError PROVE InductiveInvariant'
<1> DEFINE k == tx.key
<1>1. /\ tx.phase = "handle" /\ RemoveAndRefund(k)
      /\ tx' = [tx EXCEPT !.phase = "callback", !.frame = "main", !.due = orders[k].executionFee]
      /\ UNCHANGED <<guard, prices, saved, changedAt>>
  BY DEF CancelOnError
<1>2. k \in Keys /\ RestTyped /\ TypeOK'
  BY <1>1, InvTypes, FailureTyped DEF InductiveInvariant, RestTyped
<1>3. /\ tx'.phase = "callback" /\ tx'.frame = "main" /\ tx'.key = k
      /\ tx'.due = orders[k].executionFee
  BY <1>1, <1>2 DEF RestTyped, TxType
<1>4. Indexed'
  BY <1>1, <1>2, RemoveAndRefundSafe DEF InductiveInvariant, Indexed
<1>5. Solvent'
  BY <1>1, <1>2, <1>3, RemoveAndRefundSafe DEF InductiveInvariant, Solvent, VaultCoversBook, Owed
<1>6. Transacting'
  BY <1>1, <1>2, <1>3, RemoveAndRefundSafe
     DEF InductiveInvariant, Transacting, NothingOutlivesTheTransaction
<1>7. Servables'
  BY <1>1, <1>2, <1>3, RemoveAndRefundSafe DEF InductiveInvariant, Servables, Servable, EmptyOrder
<1> QED BY <1>2, <1>4, <1>5, <1>6, <1>7 DEF InductiveInvariant

LEMMA FreezeOnErrorSafe == ASSUME InductiveInvariant, FreezeOnError PROVE InductiveInvariant'
<1> DEFINE k == tx.key
           o == FrozenOrder(orders[k])
<1>1. /\ tx.phase = "handle" /\ SetOrder(k, o) /\ ~ IsMarketOrder(orders[k].orderType)
      /\ tx' = [tx EXCEPT !.phase = "callback", !.frame = "main", !.due = orders[k].executionFee]
      /\ UNCHANGED <<nonce, balance, recorded, guard, prices, saved, changedAt>>
  BY DEF FreezeOnError, CancelsOn
<1>2. k \in Keys /\ StateTyped /\ RestTyped /\ TypeOK' /\ StateTyped'
  BY <1>1, InvTypes, FailureTyped, TypeOKPartsNext DEF InductiveInvariant, RestTyped
<1>3. /\ tx'.phase = "callback" /\ tx'.frame = "main" /\ tx'.key = k
      /\ tx'.due = orders[k].executionFee
  BY <1>1, <1>2 DEF RestTyped, TxType
<1>4. /\ orders[k] \in Order /\ o = [orders[k] EXCEPT !.executionFee = 0, !.isFrozen = TRUE]
      /\ orders[k].account \in Accounts
  BY <1>1, <1>2, HandlingFromSaved DEF FrozenOrder, StateTyped, Book
<1> HIDE DEF o
<1>5. /\ o.account = orders[k].account /\ o.orderType = orders[k].orderType
      /\ o.token = orders[k].token /\ o.amount = orders[k].amount
      /\ o.executionFee = 0 /\ o.isFrozen = TRUE /\ o \in Order
  BY <1>4 DEF Order
<1>6. orders'[k] = o /\ \A i \in Keys \ {k} : orders'[i] = orders[i]
  BY <1>1, <1>2 DEF SetOrder, StateTyped, Book
<1>7. Indexed'
  <2>1. nonce' \in 0..MaxOrders /\ BookAgrees(orders, listed, nonce)
    BY <1>1, <1>2 DEF InductiveInvariant, Indexed, StateTyped
  <2>2. k <= nonce
    <3>1. orders[k].account # Nobody
      BY <1>4
    <3>2. \A i \in Keys : orders[i].account # Nobody => i <= nonce
      BY <2>1 DEF BookAgrees
    <3> QED BY <1>2, <3>1, <3>2
  <2>3. nonce <= nonce' /\ k <= nonce'
    BY <1>1, <1>2, <2>2 DEF StateTyped
  <2>4. SetOrder(k, o) /\ o \in Order /\ o.account \in Accounts
        /\ orders[k].account \in {o.account, Nobody}
    BY <1>1, <1>4, <1>5
  <2>5. BookAgrees(orders', listed', nonce')
    <3> HIDE DEF k
    <3> QED BY <1>2, <2>1, <2>3, <2>4, SetOrderAgrees
  <2> QED BY <1>1, <2>5 DEF InductiveInvariant, Indexed
<1>8. Solvent'
  <2>1. Covered(orders, 0)
    BY <1>1, AtRestIsCovered
  <2>2. ASSUME NEW t \in Tokens
        PROVE  /\ Booked(orders', t) + (IF t = Wnt THEN orders[k].executionFee ELSE 0) <= recorded[t]
               /\ recorded[t] <= balance[t]
    <3>1. Booked(orders', t) = Booked(orders, t) + Held(o, t) - Held(orders[k], t)
      BY <1>1, <1>2, <1>5, SetOrderBooked
    <3>2. Held(orders[k], t) = Held(o, t) + (IF t = Wnt THEN orders[k].executionFee ELSE 0)
      BY <1>4, <1>5, OrderFieldTypes DEF Held, Collateral, HoldsCollateral
    <3>3. /\ Booked(orders, t) \in Nat /\ Held(o, t) \in Nat /\ orders[k].executionFee \in Nat
      BY <1>2, <1>4, <1>5, BookedNat, HeldNat, OrderFieldTypes DEF StateTyped
    <3>4. Booked(orders, t) <= recorded[t] /\ recorded[t] <= balance[t]
      BY <2>1, <3>3 DEF Covered
    <3> QED BY <3>1, <3>2, <3>3, <3>4
  <2> QED BY <1>1, <1>3, <2>2 DEF InductiveInvariant, Solvent, VaultCoversBook, Owed
<1>9. Transacting'
  BY <1>1, <1>2, <1>3, <1>6 DEF InductiveInvariant, Transacting, NothingOutlivesTheTransaction
<1>10. Servables'
  <2>1. Servable(k, orders'[k])
    BY <1>1, <1>2, <1>4, <1>5, <1>6, HandlingFromSaved DEF Servable
  <2> QED BY <1>1, <1>3, <2>1 DEF InductiveInvariant, Servables, Servable
<1> QED BY <1>2, <1>7, <1>8, <1>9, <1>10 DEF InductiveInvariant

LEMMA RevertTransactionSafe ==
  ASSUME InductiveInvariant, RevertTransaction PROVE InductiveInvariant'
<1>1. Restore /\ EndTransaction /\ tx.phase # "idle"
  BY DEF RevertTransaction
<1>2. TypeOK'
  BY FailureTyped DEF InductiveInvariant
<1>3. \A k \in Keys : Servable(k, saved.orders[k])
  BY <1>1 DEF InductiveInvariant, Servables
<1> QED BY <1>1, <1>2, <1>3, RestoreBringsBack, EndTransactionSafe

----------------------------------------------------------------------------
(* The environment *)

LEMMA EnvironmentSafe == ASSUME InductiveInvariant, EnvironmentStep PROVE InductiveInvariant'
<1>1. TypeOK' /\ StateTyped
  BY InvTypes, EnvironmentTyped DEF InductiveInvariant
<1>2. ASSUME UNCHANGED <<state, guard, prices, tx, saved, changedAt>>
      PROVE  InductiveInvariant'
  BY <1>1, <1>2 DEF InductiveInvariant, Indexed, Solvent, VaultCoversBook, Owed, Transacting,
                    NothingOutlivesTheTransaction, Snapshot, Servables, Servable, state
<1>3. ASSUME NEW t \in Tokens, SendTokens(t)
      PROVE  InductiveInvariant'
  <2>1. /\ balance' = [balance EXCEPT ![t] = @ + 1] /\ tx.phase # "handle"
        /\ UNCHANGED <<orders, listed, nonce, recorded, guard, prices, saved, changedAt>>
        /\ tx'.phase = tx.phase /\ tx'.key = tx.key /\ tx'.due = tx.due
        /\ tx'.order = tx.order /\ tx'.frame = tx.frame
    BY <1>3, InvTypes, SendTokensTx DEF SendTokens, ForeignCodeRuns
  <2>2. \A u \in Tokens : balance[u] <= balance'[u] /\ balance[u] \in Nat /\ balance'[u] \in Nat
                           /\ recorded[u] \in Nat
    BY <1>1, <2>1 DEF StateTyped
  <2>3. Solvent'
    BY <2>1, <2>2 DEF InductiveInvariant, Solvent, VaultCoversBook, Owed
  <2> QED BY <1>1, <2>1, <2>3 DEF InductiveInvariant, Indexed, Transacting,
                                  NothingOutlivesTheTransaction, Servables, Servable
<1>4. CASE Tick
  BY <1>2, <1>4 DEF Tick
<1>5. ASSUME NEW f \in Switches, ToggleFeature(f)
      PROVE  InductiveInvariant'
  BY <1>2, <1>5 DEF ToggleFeature
<1> QED BY <1>3, <1>4, <1>5 DEF EnvironmentStep

LEMMA StutterSafe == ASSUME InductiveInvariant, UNCHANGED vars PROVE InductiveInvariant'
BY StutterTyped DEF InductiveInvariant, Indexed, Solvent, VaultCoversBook, Owed, Transacting,
   NothingOutlivesTheTransaction, Snapshot, Servables, Servable, state, vars

LEMMA NextSafe == ASSUME InductiveInvariant, [Next]_vars PROVE InductiveInvariant'
<1>1. CASE TraderStep
  BY <1>1, CreateOrderSafe, UpdateOrderSafe, CancelOrderSafe DEF TraderStep
<1>2. CASE TransactionStep
  BY <1>2, ExecuteOrderSafe, PayExecutionFeeSafe, FailExecutionSafe, RevertOnErrorSafe,
     CancelOnErrorSafe, FreezeOnErrorSafe, RevertTransactionSafe DEF TransactionStep
<1> QED BY <1>1, <1>2, KeeperStepSafe, EnvironmentSafe, StutterSafe DEF Next

LEMMA InitSafe == ASSUME Init, TypeOK PROVE InductiveInvariant
<1>1. /\ orders = Blank.orders /\ listed = Blank.listed /\ nonce = Blank.nonce
      /\ balance = Blank.balance /\ recorded = Blank.recorded /\ saved = Blank
      /\ guard = FALSE /\ prices = NoPrices
      /\ tx.phase = "idle" /\ tx.frame = "main" /\ tx.due = 0
  BY DEF Init, Blank, NoTx
<1>2. Indexed
  BY <1>1, BlankAgrees DEF Indexed
<1>3. Solvent
  BY <1>1, BlankSolvent, BookedBlank DEF Solvent, VaultCoversBook, Owed
<1>4. Transacting
  BY <1>1 DEF Transacting, NothingOutlivesTheTransaction
<1>5. Servables
  BY <1>1 DEF Servables, Servable, Blank, EmptyOrder
<1> QED BY <1>2, <1>3, <1>4, <1>5 DEF InductiveInvariant

----------------------------------------------------------------------------
(* The results *)

LEMMA Invariance == Spec => []InductiveInvariant
<1>1. Init => TypeOK
  BY InitTyped
<1>2. Init => InductiveInvariant
  BY <1>1, InitSafe
<1> QED BY <1>2, NextSafe, PTL DEF Spec

\* For any number of traders, orders, tokens and blocks: what the vault has on
\* record covers every order in the book and the fee still to be paid.
THEOREM Solvency == Spec => []VaultCoversBook
<1>1. InductiveInvariant => VaultCoversBook
  BY DEF InductiveInvariant, Solvent
<1> QED BY <1>1, Invariance, PTL

\* The order lists and the orders agree.
THEOREM Indexing == Spec => []IndexesAgree
<1>1. ASSUME InductiveInvariant PROVE IndexesAgree
  BY <1>1, InvTypes DEF InductiveInvariant, Indexed, BookAgrees, IndexesAgree, Pending, StateTyped, Lists
<1> QED BY <1>1, Invariance, PTL

\* Between transactions every order in the book can be served or recovered.
THEOREM Servability == Spec => []RestingOrdersAreServable
<1>1. ASSUME InductiveInvariant PROVE RestingOrdersAreServable
  BY <1>1 DEF InductiveInvariant, Servables, Servable, RestingOrdersAreServable, Pending
<1> QED BY <1>1, Invariance, PTL

\* Prices and the guard live as long as a transaction.
THEOREM Containment == Spec => []NothingOutlivesTheTransaction
<1>1. InductiveInvariant => NothingOutlivesTheTransaction
  BY DEF InductiveInvariant, Transacting
<1> QED BY <1>1, Invariance, PTL

----------------------------------------------------------------------------
(* What the steps may do.  This rests on HistoryInvariant, which relates the *)
(* state in the middle of a transaction to the one it began in.             *)

LEMMA HistoryTypes ==
  ASSUME HistoryInvariant
  PROVE  /\ InductiveInvariant /\ StateTyped /\ RestTyped
         /\ saved.orders \in Book /\ saved.balance \in [Tokens -> Nat]
         /\ saved.outcome \in Outcomes
BY InvTypes DEF HistoryInvariant, RestTyped, SnapshotType, Book, Outcomes

\* Between transactions nothing is on its way to the vault.
LEMMA IdleSettling ==
  ASSUME HistoryInvariant, tx.phase = "idle"
  PROVE  tx.received = NoTokens
BY DEF HistoryInvariant, Settling

\* What is sent along or refunded is the collateral, all of it: but for what
\* comes back to the vault.
LEMMA TransfersCollateral ==
  ASSUME StateTyped, NEW o \in Order, NEW back \in BOOLEAN, MoveCollateral(o, back),
         NEW t \in Tokens
  PROVE  balance'[t] = balance[t] + SentBack(o, back)[t] - Collateral(o, t)
BY OrderFieldTypes DEF MoveCollateral, SentBack, TransferOut, Collateral, StateTyped

LEMMA RefundsCollateral ==
  ASSUME StateTyped, NEW k \in Keys, RemoveAndRefund(k), NEW t \in Tokens
  PROVE  balance'[t] = balance[t] - Collateral(orders[k], t)
<1>1. orders[k] \in Order
  BY DEF StateTyped, Book
<1> QED BY <1>1, OrderFieldTypes DEF RemoveAndRefund, TransferOut, Collateral, StateTyped

----------------------------------------------------------------------------
(* The traders' steps *)

LEMMA CreateOrderHistory ==
  ASSUME HistoryInvariant, NEW a \in Accounts, NEW type \in CreatableTypes,
         NEW t \in Tokens, CreateOrder(a, type, t)
  PROVE  Chronicled' /\ Settling'
<1> DEFINE key == nonce + 1
<1>1. /\ key \in Keys /\ tx.phase = "idle" /\ tx' = tx /\ nonce' = key
      /\ outcome' = [outcome EXCEPT ![key] = "open"]
      /\ changedAt' = [changedAt EXCEPT ![key] = block]
  BY FreshKey, NonReentrantIsIdle, HistoryTypes DEF CreateOrder
<1>2. PICK amount \in 0..MaxBalance, fee \in MinExecutionFee..MaxBalance :
        SetOrder(key, NewOrder(a, type, t, amount, fee))
  BY DEF CreateOrder
<1>3. /\ orders'[key].updatedAtBlock = block /\ orders'[key].orderType # "Liquidation"
      /\ \A k \in Keys \ {key} : orders'[k] = orders[k]
  BY <1>1, <1>2, HistoryTypes DEF SetOrder, NewOrder, StateTyped, Book
<1>4. Chronicle(orders, outcome, nonce)
  BY DEF HistoryInvariant, Chronicled
<1>5. Chronicle(orders, outcome, nonce)'
  <2> SUFFICES ASSUME NEW k \in Keys
               PROVE  /\ k > nonce' => outcome'[k] = "none" /\ changedAt'[k] = 0
                      /\ orders'[k].account # Nobody => outcome'[k] = "open"
                      /\ orders'[k].account # Nobody /\ changedAt'[k] > 0 =>
                           orders'[k].updatedAtBlock = changedAt'[k]
                             /\ orders'[k].orderType # "Liquidation"
    BY DEF Chronicle
  <2>1. outcome \in Outcomes /\ changedAt \in [Keys -> Nat] /\ nonce \in Nat
    BY HistoryTypes DEF StateTyped, RestTyped
  <2>2. CASE k = key
    BY <1>1, <1>3, <2>1, <2>2 DEF Outcomes
  <2>3. CASE k # key
    <3>1. outcome'[k] = outcome[k] /\ changedAt'[k] = changedAt[k] /\ orders'[k] = orders[k]
      BY <1>1, <1>3, <2>1, <2>3 DEF Outcomes
    <3>2. k > nonce' => k > nonce
      BY <1>1, <2>1
    <3> QED BY <1>4, <3>1, <3>2 DEF Chronicle
  <2> QED BY <2>2, <2>3
<1>6. Settling'
  BY <1>1, IdleSettling DEF Settling
<1> QED BY <1>1, <1>5, <1>6 DEF Chronicled

LEMMA UpdateOrderHistory ==
  ASSUME HistoryInvariant, NEW a \in Accounts, NEW k \in Keys, UpdateOrder(a, k)
  PROVE  Chronicled' /\ Settling'
<1>1. /\ tx.phase = "idle" /\ tx' = tx /\ nonce' = nonce /\ outcome' = outcome
      /\ changedAt' = [changedAt EXCEPT ![k] = block] /\ orders[k].account = a
      /\ SetOrder(k, UpdatedOrder(orders[k]))
  BY NonReentrantIsIdle, HistoryTypes DEF UpdateOrder
<1>2. /\ orders[k] \in Order /\ orders'[k] = UpdatedOrder(orders[k])
      /\ \A i \in Keys \ {k} : orders'[i] = orders[i]
      /\ changedAt \in [Keys -> Nat]
  BY <1>1, HistoryTypes DEF SetOrder, StateTyped, RestTyped, Book
<1>3. /\ orders'[k].updatedAtBlock = block /\ orders'[k].orderType = orders[k].orderType
  BY <1>2 DEF UpdatedOrder, Order
<1>4. Chronicle(orders, outcome, nonce) /\ Servable(k, orders[k])
  BY <1>1 DEF HistoryInvariant, Chronicled, InductiveInvariant, Servables
<1>5. orders[k].account # Nobody /\ changedAt[k] > 0
  BY <1>1, <1>4 DEF Servable
<1>6. Chronicle(orders, outcome, nonce)'
  BY <1>1, <1>2, <1>3, <1>4, <1>5 DEF Chronicle
<1>7. Settling'
  BY <1>1, IdleSettling DEF Settling
<1> QED BY <1>1, <1>6, <1>7 DEF Chronicled

----------------------------------------------------------------------------
(* Orders that leave the book *)

\* An order that leaves the book leaves an event that says so.
LEMMA RemovalIsChronicled ==
  ASSUME StateTyped, Chronicle(orders, outcome, nonce), BookAgrees(orders, listed, nonce),
         NEW k \in Keys, orders[k].account # Nobody, RemoveOrder(k),
         NEW how \in {"executed", "cancelled"}, outcome' = [outcome EXCEPT ![k] = how],
         nonce' = nonce, changedAt' = changedAt
  PROVE  /\ Chronicle(orders, outcome, nonce)'
         /\ orders'[k] = EmptyOrder /\ outcome'[k] = how
         /\ \A i \in Keys \ {k} : orders'[i] = orders[i] /\ outcome'[i] = outcome[i]
<1>1. /\ orders'[k] = EmptyOrder /\ outcome'[k] = how
      /\ \A i \in Keys \ {k} : orders'[i] = orders[i] /\ outcome'[i] = outcome[i]
  BY DEF RemoveOrder, StateTyped, Book, Outcomes
<1>2. ~ (k > nonce)
  BY DEF BookAgrees, StateTyped
<1> QED BY <1>1, <1>2 DEF Chronicle, EmptyOrder

\* A cancellation, by its owner or for an error, settles the order.
LEMMA RemoveAndRefundSettles ==
  ASSUME HistoryInvariant, NEW k \in Keys, orders[k].account # Nobody, RemoveAndRefund(k),
         changedAt' = changedAt, saved'.orders[k] = orders[k], saved'.balance = balance,
         saved'.outcome[k] = "open", tx'.key = k, tx'.due = orders[k].executionFee,
         tx'.received = NoTokens
  PROVE  /\ Chronicle(orders, outcome, nonce)'
         /\ Settled(k)'
         /\ \A i \in Keys \ {k} : outcome'[i] = outcome[i]
         /\ \A t \in Tokens :
              balance'[t] - (IF t = Wnt THEN tx'.due ELSE 0)
                = saved'.balance[t] + tx'.received[t]
                    - (Held(saved'.orders[k], t) - Held(orders'[k], t))
<1>1. /\ StateTyped /\ orders[k] \in Order /\ BookAgrees(orders, listed, nonce)
      /\ Chronicle(orders, outcome, nonce)
  BY HistoryTypes DEF StateTyped, Book, HistoryInvariant, Chronicled, InductiveInvariant, Indexed
<1>2. /\ Chronicle(orders, outcome, nonce)' /\ orders'[k] = EmptyOrder
      /\ outcome'[k] = "cancelled"
      /\ \A i \in Keys \ {k} : outcome'[i] = outcome[i]
  BY <1>1, RemovalIsChronicled DEF RemoveAndRefund
<1>3. ASSUME NEW t \in Tokens
      PROVE  balance'[t] - (IF t = Wnt THEN tx'.due ELSE 0)
               = saved'.balance[t] + tx'.received[t]
                   - (Held(saved'.orders[k], t) - Held(orders'[k], t))
  <2>1. balance'[t] = balance[t] - Collateral(orders[k], t)
    BY <1>1, RefundsCollateral
  <2>2. Held(orders[k], t) = Collateral(orders[k], t) + (IF t = Wnt THEN tx'.due ELSE 0)
    BY DEF Held
  <2>3. /\ balance'[t] \in Nat /\ balance[t] \in Nat /\ Collateral(orders[k], t) \in Nat
        /\ tx'.due \in Nat /\ Held(orders'[k], t) = 0 /\ tx'.received[t] = 0
    BY <1>1, <1>2, HeldNat, HeldEmpty, OrderFieldTypes, RemoveAndRefundTyped, NoTokensType
       DEF StateTyped
  <2> QED BY <2>1, <2>2, <2>3
<1> QED BY <1>2, <1>3 DEF Settled

LEMMA CancelOrderHistory ==
  ASSUME HistoryInvariant, NEW a \in Accounts, NEW k \in Keys, CancelOrder(a, k)
  PROVE  Chronicled' /\ Settling'
<1>1. /\ tx.phase = "idle" /\ RemoveAndRefund(k) /\ saved' = Snapshot /\ changedAt' = changedAt
      /\ orders[k].account = a
  BY NonReentrantIsIdle, HistoryTypes DEF CancelOrder
<1>2. /\ tx'.phase = "callback" /\ tx'.key = k /\ tx'.due = orders[k].executionFee
      /\ tx'.received = NoTokens
  BY DEF CancelOrder, NoTx
<1>3. /\ saved'.orders = orders /\ saved'.balance = balance /\ saved'.outcome = outcome
      /\ saved'.nonce = nonce
  BY <1>1 DEF Snapshot
<1>4. Chronicle(orders, outcome, nonce) /\ outcome[k] = "open"
  BY <1>1 DEF HistoryInvariant, Chronicled, Chronicle
<1>5. /\ Chronicle(orders, outcome, nonce)' /\ Settled(k)'
      /\ \A i \in Keys \ {k} : outcome'[i] = outcome[i]
      /\ \A t \in Tokens :
           balance'[t] - (IF t = Wnt THEN tx'.due ELSE 0)
             = saved'.balance[t] + tx'.received[t]
                 - (Held(saved'.orders[k], t) - Held(orders'[k], t))
  BY <1>1, <1>2, <1>3, <1>4, RemoveAndRefundSettles
<1>6. Chronicled'
  BY <1>1, <1>3, <1>4, <1>5 DEF Chronicled, Chronicle
<1>7. Settling'
  BY <1>2, <1>3, <1>4, <1>5 DEF Settling
<1> QED BY <1>6, <1>7

LEMMA CancelOnErrorHistory ==
  ASSUME HistoryInvariant, CancelOnError
  PROVE  Chronicled' /\ Settling'
<1>1. PICK k \in Keys : k = tx.key
  BY HistoryTypes DEF CancelOnError, RestTyped
<1>2. /\ tx.phase = "handle" /\ RemoveAndRefund(k) /\ saved' = saved /\ changedAt' = changedAt
  BY <1>1 DEF CancelOnError
<1>3. /\ tx'.phase = "callback" /\ tx'.key = k /\ tx'.due = orders[k].executionFee
      /\ tx'.received = NoTokens
  <2>1. tx.received = NoTokens
    BY <1>2 DEF HistoryInvariant, Settling
  <2> QED BY <1>1, <2>1, HistoryTypes DEF CancelOnError, RestTyped, TxType
<1>4. /\ saved.orders = orders /\ orders[k].account # Nobody
  BY <1>1, <1>2, HandlingFromSaved, HistoryTypes
<1>5. Snapshot = saved
  BY <1>2, HistoryTypes DEF InductiveInvariant, Transacting, NothingOutlivesTheTransaction
<1>6. saved.balance = balance /\ saved.outcome = outcome /\ saved.nonce = nonce
  BY <1>5 DEF Snapshot
<1>7. Chronicle(orders, outcome, nonce) /\ outcome[k] = "open"
  BY <1>4 DEF HistoryInvariant, Chronicled, Chronicle
<1>8. /\ Chronicle(orders, outcome, nonce)' /\ Settled(k)'
      /\ \A i \in Keys \ {k} : outcome'[i] = outcome[i]
      /\ \A t \in Tokens :
           balance'[t] - (IF t = Wnt THEN tx'.due ELSE 0)
             = saved'.balance[t] + tx'.received[t]
                 - (Held(saved'.orders[k], t) - Held(orders'[k], t))
  BY <1>2, <1>3, <1>4, <1>6, <1>7, RemoveAndRefundSettles
<1>9. Chronicled'
  BY <1>2, <1>4, <1>6, <1>7, <1>8 DEF Chronicled, Chronicle
<1>10. Settling'
  BY <1>2, <1>3, <1>6, <1>7, <1>8 DEF Settling
<1> QED BY <1>9, <1>10

LEMMA FreezeOnErrorHistory ==
  ASSUME HistoryInvariant, FreezeOnError
  PROVE  Chronicled' /\ Settling'
<1>1. PICK k \in Keys : k = tx.key
  BY HistoryTypes DEF FreezeOnError, RestTyped
<1>2. /\ tx.phase = "handle" /\ SetOrder(k, FrozenOrder(orders[k]))
      /\ UNCHANGED <<saved, changedAt, nonce, outcome, balance>>
  BY <1>1 DEF FreezeOnError
<1>3. /\ tx'.phase = "callback" /\ tx'.key = k /\ tx'.due = orders[k].executionFee
      /\ tx'.received = NoTokens
  <2>1. tx.received = NoTokens
    BY <1>2 DEF HistoryInvariant, Settling
  <2> QED BY <1>1, <2>1, HistoryTypes DEF FreezeOnError, RestTyped, TxType
<1>4. /\ saved.orders = orders /\ orders[k].account # Nobody /\ orders[k] \in Order
  BY <1>1, <1>2, HandlingFromSaved, HistoryTypes DEF StateTyped, Book
<1>5. Snapshot = saved
  BY <1>2, HistoryTypes DEF InductiveInvariant, Transacting, NothingOutlivesTheTransaction
<1>6. saved.balance = balance /\ saved.outcome = outcome /\ saved.nonce = nonce
  BY <1>5 DEF Snapshot
<1>7. Chronicle(orders, outcome, nonce) /\ outcome[k] = "open"
  BY <1>4 DEF HistoryInvariant, Chronicled, Chronicle
<1>8. /\ orders'[k] = FrozenOrder(orders[k])
      /\ \A i \in Keys \ {k} : orders'[i] = orders[i]
  BY <1>2, HistoryTypes DEF SetOrder, StateTyped, Book
<1>9. /\ orders'[k].orderType = orders[k].orderType /\ orders'[k].token = orders[k].token
      /\ orders'[k].amount = orders[k].amount /\ orders'[k].executionFee = 0
      /\ orders'[k].updatedAtBlock = orders[k].updatedAtBlock
  BY <1>4, <1>8 DEF FrozenOrder, Order
<1>10. Chronicle(orders, outcome, nonce)'
  BY <1>2, <1>4, <1>7, <1>8, <1>9 DEF Chronicle
<1>11. Chronicled'
  BY <1>2, <1>4, <1>6, <1>7, <1>10 DEF Chronicled, Chronicle
<1>12. ASSUME NEW t \in Tokens
       PROVE  balance'[t] - (IF t = Wnt THEN tx'.due ELSE 0)
                = saved'.balance[t] + tx'.received[t]
                    - (Held(saved'.orders[k], t) - Held(orders'[k], t))
  <2>1. Held(orders[k], t) = Held(orders'[k], t) + (IF t = Wnt THEN tx'.due ELSE 0)
    BY <1>3, <1>4, <1>9, OrderFieldTypes DEF Held, Collateral, HoldsCollateral
  <2>2. /\ balance'[t] = balance[t] /\ saved'.balance[t] = balance[t] /\ balance[t] \in Nat
        /\ saved'.orders[k] = orders[k] /\ Held(orders[k], t) \in Nat
    BY <1>2, <1>4, <1>6, HistoryTypes, HeldNat DEF StateTyped
  <2>3. tx'.due \in Nat
    BY <1>3, <1>4, OrderFieldTypes
  <2>4. (IF t = Wnt THEN tx'.due ELSE 0) \in Nat
    BY <2>3
  <2>5. Held(orders'[k], t) = Held(orders[k], t) - (IF t = Wnt THEN tx'.due ELSE 0)
    BY <2>1, <2>2, <2>4, <1>4, <1>9, OrderFieldTypes DEF Held, Collateral, HoldsCollateral
  <2>6. tx'.received[t] = 0
    BY <1>3, NoTokensType
  <2> QED BY <2>2, <2>4, <2>5, <2>6
<1>13. Frozen(k)'
  BY <1>2, <1>4, <1>6, <1>7, <1>8 DEF Frozen
<1>14. Settling'
  BY <1>2, <1>3, <1>6, <1>7, <1>12, <1>13 DEF Settling
<1> QED BY <1>11, <1>14

----------------------------------------------------------------------------
(* The keepers' steps *)

LEMMA BeginExecuteOrderHistory ==
  ASSUME HistoryInvariant, NEW keeper \in OrderKeepers, NEW k \in Keys,
         BeginExecuteOrder(keeper, k)
  PROVE  Chronicled' /\ Settling'
<1>1. /\ saved' = Snapshot /\ Pending(k)
      /\ UNCHANGED <<orders, nonce, balance, outcome, changedAt>>
  BY DEF BeginExecuteOrder, state
<1>2. tx'.phase = "run" /\ tx'.frame = "try" /\ tx'.key = k /\ tx'.received = NoTokens
  BY DEF BeginExecuteOrder, NoTx
<1>3. /\ saved'.orders = orders /\ saved'.balance = balance /\ saved'.outcome = outcome
      /\ saved'.nonce = nonce
  BY <1>1 DEF Snapshot
<1>4. Chronicle(orders, outcome, nonce) /\ outcome[k] = "open"
  BY <1>1 DEF HistoryInvariant, Chronicled, Chronicle, Pending
<1>5. Chronicled'
  BY <1>1, <1>3, <1>4 DEF Chronicled, Chronicle
<1>6. Settling'
  BY <1>1, <1>2, <1>3, <1>4 DEF Settling
<1> QED BY <1>5, <1>6

\* An order that the protocol forces holds nothing, and its key has no history.
LEMMA BeginForcedOrderHistory ==
  ASSUME HistoryInvariant, NEW o \in Order, NEW isAdl \in BOOLEAN, BeginForcedOrder(o, isAdl),
         o.amount = 0, o.executionFee = 0
  PROVE  Chronicled' /\ Settling'
<1> DEFINE key == nonce + 1
<1>1. /\ saved' = Snapshot /\ SetOrder(key, o) /\ nonce' = key
      /\ outcome' = [outcome EXCEPT ![key] = "open"] /\ UNCHANGED <<balance, changedAt>>
  BY DEF BeginForcedOrder
<1>2. /\ tx'.phase = "run" /\ tx'.frame = "main" /\ tx'.key = key /\ tx'.order = o
      /\ tx'.received = NoTokens
  BY DEF BeginForcedOrder, NoTx
<1>3. /\ saved'.orders = orders /\ saved'.balance = balance /\ saved'.outcome = outcome
      /\ saved'.nonce = nonce
  BY <1>1 DEF Snapshot
<1>4. key \in Keys /\ orders[key] = EmptyOrder /\ key > nonce /\ nonce \in Nat
  BY FreshKey, HistoryTypes DEF BeginForcedOrder, StateTyped
<1>5. Chronicle(orders, outcome, nonce) /\ outcome[key] = "none" /\ changedAt[key] = 0
  BY <1>4 DEF HistoryInvariant, Chronicled, Chronicle
<1>6. /\ outcome'[key] = "open"
      /\ \A k \in Keys \ {key} : orders'[k] = orders[k] /\ outcome'[k] = outcome[k]
  BY <1>1, <1>4, HistoryTypes DEF SetOrder, StateTyped, Book, Outcomes
<1> HIDE DEF key
<1>7. \A k \in Keys : k > key => k > nonce /\ k # key
  BY <1>4 DEF key
<1>8. Chronicle(orders, outcome, nonce)'
  BY <1>1, <1>4, <1>5, <1>6, <1>7 DEF Chronicle
<1>9. Chronicled'
  BY <1>1, <1>3, <1>5, <1>8 DEF Chronicled, Chronicle
<1>10. Settling'
  BY <1>1, <1>2, <1>3, <1>4, <1>5, <1>6 DEF Settling
<1> QED BY <1>9, <1>10

LEMMA KeeperStepHistory ==
  ASSUME HistoryInvariant, KeeperStep
  PROVE  Chronicled' /\ Settling'
<1>1. ASSUME NEW keeper \in OrderKeepers, NEW k \in Keys, BeginExecuteOrder(keeper, k)
      PROVE  Chronicled' /\ Settling'
  BY <1>1, BeginExecuteOrderHistory
<1>2. ASSUME NEW a \in Accounts, ExecuteLiquidation(a)
      PROVE  Chronicled' /\ Settling'
  <2> DEFINE o == LiquidationOrder(a)
  <2>1. block \in Nat
    BY HistoryTypes DEF RestTyped
  <2>2. o \in Order /\ o.amount = 0 /\ o.executionFee = 0
    BY <2>1, EmptyOrderType DEF LiquidationOrder, EmptyOrder, Order, OrderTypes
  <2>3. BeginForcedOrder(o, FALSE)
    BY <1>2 DEF ExecuteLiquidation
  <2> QED BY <2>2, <2>3, BeginForcedOrderHistory
<1>3. ASSUME NEW a \in Accounts, ExecuteAdl(a)
      PROVE  Chronicled' /\ Settling'
  <2>1. PICK r \in BlockRanges(prices') : BeginForcedOrder(AdlOrder(a, r.min), TRUE)
    BY <1>3 DEF ExecuteAdl
  <2>2. r.min \in Nat
    BY <1>3, PricesType DEF ExecuteAdl, BlockRanges, Observation
  <2> DEFINE o == AdlOrder(a, r.min)
  <2>3. o \in Order /\ o.amount = 0 /\ o.executionFee = 0
    BY <2>2, EmptyOrderType DEF AdlOrder, EmptyOrder, Order, OrderTypes
  <2>4. BeginForcedOrder(o, TRUE)
    BY <2>1
  <2> HIDE DEF o
  <2> QED BY <2>3, <2>4, BeginForcedOrderHistory
<1> QED BY <1>1, <1>2, <1>3 DEF KeeperStep

LEMMA ExecuteOrderHistory ==
  ASSUME HistoryInvariant, ExecuteOrder
  PROVE  Chronicled' /\ Settling'
<1>1. PICK k \in Keys : k = tx.key
  BY HistoryTypes DEF ExecuteOrder, RestTyped
<1>2. PICK o \in Order : o = tx.order
  BY HistoryTypes DEF RestTyped, TxType
<1>3. /\ tx.phase = "run" /\ RemoveOrder(k)
      /\ outcome' = [outcome EXCEPT ![k] = "executed"]
      /\ UNCHANGED <<saved, changedAt, nonce>>
  BY <1>1, <1>2 DEF ExecuteOrder
<1>4. PICK back \in BOOLEAN :
        /\ MoveCollateral(o, back) /\ tx'.received = SentBack(o, back)
        /\ tx'.phase = "callback" /\ tx'.key = k /\ tx'.due = o.executionFee
  BY <1>1, <1>2, HistoryTypes, ExecuteOrderTx
<1>5. orders[k] = o /\ o.account # Nobody /\ tx.frame \in {"try", "main"}
  BY <1>1, <1>2, <1>3, HistoryTypes DEF InductiveInvariant, Transacting, RestTyped, TxType
<1>6. /\ Chronicle(orders, outcome, nonce) /\ BookAgrees(orders, listed, nonce)
      /\ Chronicle(saved.orders, saved.outcome, saved.nonce) /\ saved.balance = balance
      /\ \A i \in Keys \ {k} : outcome[i] = saved.outcome[i]
  BY <1>1, <1>3, HistoryTypes
     DEF HistoryInvariant, Chronicled, InductiveInvariant, Indexed, Settling
<1>7. /\ Chronicle(orders, outcome, nonce)' /\ orders'[k] = EmptyOrder
      /\ outcome'[k] = "executed" /\ \A i \in Keys \ {k} : outcome'[i] = saved.outcome[i]
  BY <1>3, <1>5, <1>6, HistoryTypes, RemovalIsChronicled
<1>8. Chronicled'
  BY <1>3, <1>6, <1>7 DEF Chronicled, Chronicle
<1>9. \/ /\ saved.outcome[k] = "open" /\ saved.orders[k] = o
      \/ /\ saved.outcome[k] = "none" /\ saved.orders[k] = EmptyOrder
         /\ o.amount = 0 /\ o.executionFee = 0
  <2>1. CASE tx.frame = "try"
    <3>1. saved.orders[k] = o
      BY <1>1, <1>2, <1>3, <2>1, HistoryTypes DEF InductiveInvariant, Transacting
    <3> QED BY <1>5, <1>6, <3>1 DEF Chronicle
  <2>2. CASE tx.frame = "main"
    BY <1>1, <1>2, <1>3, <2>2 DEF HistoryInvariant, Settling
  <2> QED BY <1>5, <2>1, <2>2
<1>10. ASSUME NEW t \in Tokens
       PROVE  balance'[t] - (IF t = Wnt THEN tx'.due ELSE 0)
                = saved'.balance[t] + tx'.received[t]
                    - (Held(saved'.orders[k], t) - Held(orders'[k], t))
  <2>1. balance'[t] = balance[t] + tx'.received[t] - Collateral(o, t)
    BY <1>4, HistoryTypes, TransfersCollateral
  <2>2. Held(o, t) = Collateral(o, t) + (IF t = Wnt THEN tx'.due ELSE 0)
    BY <1>4 DEF Held
  <2>3. /\ balance'[t] \in Nat /\ balance[t] \in Nat /\ Collateral(o, t) \in Nat
        /\ tx'.due \in Nat /\ Held(orders'[k], t) = 0 /\ Held(EmptyOrder, t) = 0
        /\ tx'.received[t] \in Nat
    BY <1>4, <1>7, HistoryTypes, HeldNat, HeldEmpty, OrderFieldTypes, ExecuteOrderTyped,
       TypeOKPartsNext, SentBackType DEF StateTyped, InductiveInvariant
  <2>4. CASE saved.orders[k] = o
    BY <1>3, <1>6, <2>1, <2>2, <2>3, <2>4
  <2>5. CASE saved.orders[k] = EmptyOrder /\ o.amount = 0 /\ o.executionFee = 0
    <3>1. Collateral(o, t) = 0 /\ tx'.due = 0
      BY <1>4, <2>5 DEF Collateral
    <3> QED BY <1>3, <1>6, <2>1, <2>3, <2>5, <3>1
  <2> QED BY <1>9, <2>4, <2>5
<1>11. Settled(k)' \/ Forced(k)'
  BY <1>3, <1>7, <1>9 DEF Settled, Forced
<1>12. Settling'
  BY <1>3, <1>4, <1>7, <1>9, <1>10, <1>11 DEF Settling
<1> QED BY <1>8, <1>12

----------------------------------------------------------------------------
(* The end of a transaction, failures, the environment *)

LEMMA RestoreHistory ==
  ASSUME HistoryInvariant, tx.phase # "idle", Restore, changedAt' = changedAt
  PROVE  Chronicle(orders, outcome, nonce)'
BY DEF HistoryInvariant, Chronicled, Restore, Chronicle

LEMMA FailExecutionHistory ==
  ASSUME HistoryInvariant, NEW e \in Errors, FailExecution(e)
  PROVE  Chronicled' /\ Settling'
<1>1. /\ tx.phase # "idle" /\ Restore /\ saved' = saved /\ changedAt' = changedAt
  BY DEF FailExecution
<1>2. tx'.phase = "handle" /\ tx'.key = tx.key /\ tx'.received = NoTokens
  BY HistoryTypes DEF FailExecution, RestTyped, TxType
<1>3. Chronicled'
  BY <1>1, RestoreHistory DEF HistoryInvariant, Chronicled, Chronicle
<1>4. Settling'
  BY <1>1, <1>2 DEF HistoryInvariant, Settling, Restore
<1> QED BY <1>3, <1>4

\* At the end of a transaction only the orders and their events count.
LEMMA EndTransactionHistory ==
  ASSUME EndTransaction, Chronicle(orders, outcome, nonce)'
  PROVE  Chronicled' /\ Settling'
<1>1. tx'.phase = "idle" /\ tx'.received = NoTokens
  BY DEF EndTransaction, NoTx
<1> QED BY <1>1 DEF Chronicled, Settling

LEMMA TransactionStepHistory ==
  ASSUME HistoryInvariant, TransactionStep
  PROVE  Chronicled' /\ Settling'
<1>1. ASSUME EndTransaction, UNCHANGED <<orders, outcome, nonce>>
      PROVE  Chronicled' /\ Settling'
  <2>1. changedAt' = changedAt /\ Chronicle(orders, outcome, nonce)
    BY <1>1 DEF EndTransaction, HistoryInvariant, Chronicled
  <2> QED BY <1>1, <2>1, EndTransactionHistory DEF Chronicle
<1>2. CASE PayExecutionFee
  BY <1>1, <1>2 DEF PayExecutionFee
<1>3. CASE RevertOnError
  BY <1>1, <1>3 DEF RevertOnError, state
<1>4. CASE RevertTransaction
  <2>1. tx.phase # "idle" /\ Restore /\ EndTransaction
    BY <1>4 DEF RevertTransaction
  <2>2. changedAt' = changedAt
    BY <2>1 DEF EndTransaction
  <2> QED BY <2>1, <2>2, RestoreHistory, EndTransactionHistory
<1> QED BY <1>2, <1>3, <1>4, ExecuteOrderHistory, FailExecutionHistory, CancelOnErrorHistory,
           FreezeOnErrorHistory DEF TransactionStep

\* What arrives in the vault while a callback runs is on top of what it had.
LEMMA SendTokensHistory ==
  ASSUME HistoryInvariant, NEW u \in Tokens, SendTokens(u)
  PROVE  Chronicled' /\ Settling'
<1>1. /\ balance' = [balance EXCEPT ![u] = @ + 1] /\ tx.phase \in {"idle", "callback"}
      /\ UNCHANGED <<orders, nonce, outcome, saved, changedAt>>
  BY DEF SendTokens, ForeignCodeRuns
<1>2. /\ tx'.phase = tx.phase /\ tx'.key = tx.key /\ tx'.due = tx.due
      /\ tx.phase = "idle" => tx'.received = tx.received
      /\ tx.phase = "callback" =>
           \A t \in Tokens : tx'.received[t] = tx.received[t] + (IF u = t THEN 1 ELSE 0)
  BY <1>1, HistoryTypes, SendTokensTx
<1>3. Chronicled'
  BY <1>1, <1>2 DEF HistoryInvariant, Chronicled, Chronicle
<1>4. /\ Settled(tx.key)' <=> Settled(tx.key)
      /\ Forced(tx.key)' <=> Forced(tx.key)
      /\ Frozen(tx.key)' <=> Frozen(tx.key)
  BY <1>1, <1>2 DEF Settled, Forced, Frozen
<1>5. ASSUME tx.phase = "callback", NEW t \in Tokens
      PROVE  balance'[t] - (IF t = Wnt THEN tx.due ELSE 0)
               = saved.balance[t] + tx'.received[t]
                   - (Held(saved.orders[tx.key], t) - Held(orders[tx.key], t))
  <2> DEFINE due == IF t = Wnt THEN tx.due ELSE 0
             gone == Held(saved.orders[tx.key], t) - Held(orders[tx.key], t)
             more == IF u = t THEN 1 ELSE 0
             before == balance[t]
             start == saved.balance[t]
             received == tx.received[t]
  <2>1. /\ balance'[t] = before + more /\ before \in Nat
        /\ tx'.received[t] = received + more /\ received \in Nat
    <3>1. balance \in [Tokens -> Nat] /\ tx.received \in [Tokens -> Nat]
      BY HistoryTypes DEF StateTyped, RestTyped, TxType
    <3> QED BY <1>1, <1>2, <1>5, <3>1
  <2>2. before - due = start + received - gone
    BY <1>5 DEF HistoryInvariant, Settling
  <2>3. due \in Nat /\ more \in Nat
    BY HistoryTypes DEF RestTyped, TxType
  <2>4. /\ tx.key \in Keys /\ start \in Nat
        /\ saved.orders[tx.key] \in Order /\ orders[tx.key] \in Order
    BY <1>5, HistoryTypes DEF RestTyped, StateTyped, Book
  <2>5. gone \in Int /\ start \in Nat
    BY <2>4, HeldNat
  <2> HIDE DEF due, gone, more, before, start, received
  <2>6. (before + more) - due = start + (received + more) - gone
    BY <2>1, <2>2, <2>3, <2>5
  <2>7. balance'[t] - due = start + tx'.received[t] - gone
    BY <2>1, <2>6
  <2> QED BY <2>7 DEF due, gone, start
<1>6. Settling'
  <2>1. CASE tx.phase = "idle"
    BY <1>2, <2>1 DEF HistoryInvariant, Settling
  <2>2. CASE tx.phase = "callback"
    BY <1>1, <1>2, <1>4, <1>5, <2>2 DEF HistoryInvariant, Settling
  <2> QED BY <1>1, <2>1, <2>2
<1> QED BY <1>3, <1>6

LEMMA HistoryNext ==
  ASSUME HistoryInvariant, [Next]_vars
  PROVE  HistoryInvariant'
<1> SUFFICES Chronicled' /\ Settling'
  BY NextSafe, HistoryTypes DEF HistoryInvariant
<1>1. ASSUME UNCHANGED <<orders, nonce, balance, outcome, tx, saved, changedAt>>
      PROVE  Chronicled' /\ Settling'
  BY <1>1 DEF HistoryInvariant, Chronicled, Chronicle, Settling, Settled, Forced, Frozen
<1>2. CASE Tick
  BY <1>1, <1>2 DEF Tick, state
<1>3. ASSUME NEW f \in Switches, ToggleFeature(f)
      PROVE  Chronicled' /\ Settling'
  BY <1>1, <1>3 DEF ToggleFeature, state
<1>4. CASE UNCHANGED vars
  BY <1>1, <1>4 DEF vars, state
<1>5. CASE EnvironmentStep
  BY <1>2, <1>3, <1>5, SendTokensHistory DEF EnvironmentStep
<1>6. CASE TraderStep
  BY <1>6, CreateOrderHistory, UpdateOrderHistory, CancelOrderHistory DEF TraderStep
<1> QED BY <1>4, <1>5, <1>6, KeeperStepHistory, TransactionStepHistory DEF Next

LEMMA HistoryInit == Init => HistoryInvariant
<1> SUFFICES ASSUME Init PROVE HistoryInvariant
  OBVIOUS
<1>1. InductiveInvariant
  BY InitTyped, InitSafe
<1>2. tx.phase = "idle" /\ tx.received = NoTokens
  BY DEF Init, NoTx
<1>3. Chronicle(orders, outcome, nonce)
  BY DEF Init, Blank, Chronicle, EmptyOrder
<1> QED BY <1>1, <1>2, <1>3 DEF HistoryInvariant, Chronicled, Settling

\* What the state in the middle of a transaction has to do with its beginning.
LEMMA History == Spec => []HistoryInvariant
BY HistoryInit, HistoryNext, PTL DEF Spec

----------------------------------------------------------------------------
(* Action properties *)

LEMMA OthersDoNotMove ==
  ASSUME HistoryInvariant, [Next]_vars, tx.phase # "idle", NEW k \in Keys \ {tx.key}
  PROVE  orders'[k] = orders[k]
<1>1. ~ NonReentrant
  BY NonReentrantIsIdle, HistoryTypes
<1>2. orders \in Book /\ saved.orders[k] = orders[k]
  BY HistoryTypes DEF StateTyped, InductiveInvariant, Transacting
<1>3. CASE TransactionStep
  <2>1. CASE ExecuteOrder \/ CancelOnError
    BY <1>2, <2>1 DEF ExecuteOrder, CancelOnError, RemoveAndRefund, RemoveOrder, Book
  <2>2. CASE FreezeOnError
    BY <1>2, <2>2 DEF FreezeOnError, SetOrder, Book
  <2>3. CASE RevertTransaction \/ \E e \in Errors : FailExecution(e)
    BY <1>2, <2>3 DEF RevertTransaction, FailExecution, Restore
  <2>4. CASE PayExecutionFee \/ RevertOnError
    BY <2>4 DEF PayExecutionFee, RevertOnError, state
  <2> QED BY <1>3, <2>1, <2>2, <2>3, <2>4 DEF TransactionStep
<1>4. CASE EnvironmentStep
  BY <1>4 DEF EnvironmentStep, Tick, ToggleFeature, SendTokens, state
<1>5. CASE UNCHANGED vars
  BY <1>5 DEF vars, state
<1>6. ~ TraderStep /\ ~ KeeperStep
  BY <1>1 DEF TraderStep, CreateOrder, UpdateOrder, CancelOrder, KeeperStep, BeginExecuteOrder,
              ExecuteLiquidation, ExecuteAdl, KeeperMayBegin
<1> QED BY <1>3, <1>4, <1>5, <1>6 DEF Next

\* While a transaction handles one order no other order moves, whatever the
\* callback does and whatever is rolled back.
THEOREM HandledAlone == Spec => OnlyTheHandledOrderMoves
<1>1. HistoryInvariant /\ [Next]_vars =>
        [tx.phase # "idle" => \A k \in Keys \ {tx.key} : orders'[k] = orders[k]]_vars
  BY OthersDoNotMove
<1> QED BY <1>1, History, PTL DEF Spec, OnlyTheHandledOrderMoves

\* An order is executed by ExecuteOrder alone, and cancelled by its owner or
\* for an error: rolling back never does either.
LEMMA Closings ==
  ASSUME HistoryInvariant, [Next]_vars, NEW k \in Keys, outcome[k] = "open",
         outcome'[k] \in {"executed", "cancelled"}
  PROVE  \/ ExecuteOrder /\ k = tx.key /\ outcome'[k] = "executed"
         \/ CancelOnError /\ k = tx.key /\ outcome'[k] = "cancelled"
         \/ outcome'[k] = "cancelled" /\ \E a \in Accounts : CancelOrder(a, k)
<1>1. outcome \in Outcomes
  BY HistoryTypes DEF StateTyped
<1>2. /\ tx.phase # "idle" => /\ \A i \in Keys \ {tx.key} : outcome[i] = saved.outcome[i]
                              /\ saved.outcome[tx.key] \in {"none", "open"}
  BY DEF HistoryInvariant, Settling
<1>3. CASE TransactionStep
  <2>1. CASE ExecuteOrder
    BY <1>1, <2>1 DEF ExecuteOrder, Outcomes
  <2>2. CASE CancelOnError
    BY <1>1, <2>2 DEF CancelOnError, RemoveAndRefund, Outcomes
  <2>3. CASE RevertTransaction \/ \E e \in Errors : FailExecution(e)
    <3>1. outcome'[k] = saved.outcome[k] /\ tx.phase # "idle"
      BY <2>3 DEF RevertTransaction, FailExecution, Restore
    <3> QED BY <1>2, <3>1
  <2>4. CASE PayExecutionFee \/ RevertOnError \/ FreezeOnError
    BY <2>4 DEF PayExecutionFee, RevertOnError, FreezeOnError, state
  <2> QED BY <1>3, <2>1, <2>2, <2>3, <2>4 DEF TransactionStep
<1>4. CASE EnvironmentStep \/ UNCHANGED vars
  BY <1>4 DEF EnvironmentStep, Tick, ToggleFeature, SendTokens, state, vars
<1>5. CASE KeeperStep
  BY <1>1, <1>5 DEF KeeperStep, BeginExecuteOrder, ExecuteLiquidation, ExecuteAdl,
                    BeginForcedOrder, state, Outcomes
<1>6. CASE TraderStep
  <2>1. ASSUME NEW a \in Accounts, NEW type \in CreatableTypes, NEW t \in Tokens,
               CreateOrder(a, type, t)
        PROVE  FALSE
    BY <1>1, <2>1 DEF CreateOrder, Outcomes
  <2>2. ASSUME NEW a \in Accounts, NEW i \in Keys, UpdateOrder(a, i)
        PROVE  FALSE
    BY <2>2 DEF UpdateOrder
  <2>3. ASSUME NEW a \in Accounts, NEW i \in Keys, CancelOrder(a, i)
        PROVE  i = k /\ outcome'[k] = "cancelled"
    BY <1>1, <2>3 DEF CancelOrder, RemoveAndRefund, Outcomes
  <2> QED BY <1>6, <2>1, <2>2, <2>3 DEF TraderStep
<1> QED BY <1>3, <1>4, <1>5, <1>6 DEF Next

\* What ExecuteOrder executes is the order in the book.
LEMMA ExecutedIsStored ==
  ASSUME HistoryInvariant, ExecuteOrder
  PROVE  /\ orders[tx.key] = tx.order /\ tx.order.account # Nobody /\ tx.key \in Keys
         /\ changedAt[tx.key] > 0 => /\ tx.order.updatedAtBlock = changedAt[tx.key]
                                     /\ tx.order.orderType # "Liquidation"
<1>1. tx.phase = "run" /\ tx.key \in Keys
  BY HistoryTypes DEF ExecuteOrder, RestTyped
<1>2. orders[tx.key] = tx.order /\ tx.order.account # Nobody
  BY <1>1, HistoryTypes DEF InductiveInvariant, Transacting
<1> QED BY <1>1, <1>2 DEF HistoryInvariant, Chronicled, Chronicle

\* Nobody but a frozen order keeper executes a frozen order or a limit swap.
THEOREM Reserved == Spec => FrozenOrdersAreReserved
<1>1. ASSUME HistoryInvariant, [Next]_vars, NEW k \in Keys,
             outcome[k] = "open", outcome'[k] = "executed",
             orders[k].isFrozen \/ orders[k].orderType = "LimitSwap"
      PROVE  tx.keeper \in FrozenOrderKeepers
  <2>1. ExecuteOrder /\ k = tx.key
    BY <1>1, Closings
  <2> QED BY <1>1, <2>1, ExecutedIsStored DEF ExecuteOrder, KeeperMayExecute
<1>2. HistoryInvariant /\ [Next]_vars =>
        [\A k \in Keys :
           /\ outcome[k] = "open" /\ outcome'[k] = "executed"
           /\ changedAt[k] > 0
           /\ orders[k].isFrozen \/ orders[k].orderType = "LimitSwap"
           => tx.keeper \in FrozenOrderKeepers]_vars
  BY <1>1
<1> QED BY <1>2, History, PTL DEF Spec, FrozenOrdersAreReserved

\* The prices an order is executed at are not older than the order.
LEMMA PricesAreFresh ==
  ASSUME HistoryInvariant, [Next]_vars, NEW k \in Keys,
         outcome[k] = "open", outcome'[k] = "executed", changedAt[k] > 0,
         NEW r \in BlockRanges(prices)
  PROVE  IF IsMarketOrder(orders[k].orderType)
           THEN changedAt[k] \in r.min..r.max
           ELSE /\ r.min >= changedAt[k]
                /\ IsDecreaseOrder(orders[k].orderType)
                     => r.min >= PositionOf(orders[k]).increasedAt
<1> DEFINE o == orders[k]
           pos == PositionOf(o)
<1>1. ExecuteOrder /\ k = tx.key
  BY Closings
<1>2. /\ o = tx.order /\ o.account # Nobody
      /\ o.updatedAtBlock = changedAt[k] /\ o.orderType # "Liquidation"
  BY <1>1, ExecutedIsStored
<1>3. OracleBlockNumbersValid(o, pos, prices)
  BY <1>1, <1>2 DEF ExecuteOrder
<1>4. /\ changedAt[k] \in Nat /\ o \in Order
      /\ r.min \in Nat /\ r.max \in Nat
  BY HistoryTypes DEF RestTyped, StateTyped, Book, BlockRanges, Observation
<1>5. pos.increasedAt \in Nat
  <2>1. o.account \in Accounts
    BY <1>2, <1>4, OrderFieldTypes
  <2> QED BY <2>1, HistoryTypes DEF StateTyped, Positions, PositionOf
<1> HIDE DEF o, pos
<1>6. CASE IsMarketOrder(o.orderType)
  BY <1>2, <1>3, <1>4, <1>6 DEF OracleBlockNumbersValid, o
<1>7. CASE ~ IsMarketOrder(o.orderType)
  <2>1. r.min >= EarliestBlock(o, pos)
    BY <1>3, <1>7 DEF OracleBlockNumbersValid
  <2>2. EarliestBlock(o, pos) =
          IF IsDecreaseOrder(o.orderType) THEN MaxOf(changedAt[k], pos.increasedAt)
          ELSE changedAt[k]
    BY <1>2, <1>4, <1>7, OrderFieldTypes
       DEF EarliestBlock, IsMarketOrder, IsDecreaseOrder, OrderTypes
  <2>3. /\ MaxOf(changedAt[k], pos.increasedAt) >= changedAt[k]
        /\ MaxOf(changedAt[k], pos.increasedAt) >= pos.increasedAt
        /\ MaxOf(changedAt[k], pos.increasedAt) \in Nat
    BY <1>4, <1>5 DEF MaxOf
  <2>4. /\ r.min >= changedAt[k]
        /\ IsDecreaseOrder(o.orderType) => r.min >= pos.increasedAt
    BY <1>4, <1>5, <2>1, <2>2, <2>3
  <2> QED BY <1>7, <2>4 DEF o, pos
<1> QED BY <1>6, <1>7 DEF o

\* An order is executed at the prices of its own time, or later.
THEOREM Fresh == Spec => ExecutedAtFreshPrices
<1>1. HistoryInvariant /\ [Next]_vars =>
        [\A k \in Keys :
           outcome[k] = "open" /\ outcome'[k] = "executed" /\ changedAt[k] > 0 =>
             \A r \in BlockRanges(prices) :
               IF IsMarketOrder(orders[k].orderType)
                 THEN changedAt[k] \in r.min..r.max
                 ELSE /\ r.min >= changedAt[k]
                      /\ IsDecreaseOrder(orders[k].orderType)
                           => r.min >= PositionOf(orders[k]).increasedAt]_vars
  BY PricesAreFresh
<1> QED BY <1>1, History, PTL DEF Spec, ExecutedAtFreshPrices

\* A market order cannot be taken back before it expires.
THEOREM Binding == Spec => MarketOrdersBind
<1>1. ASSUME HistoryInvariant, [Next]_vars, NEW k \in Keys,
             IsMarketOrder(orders[k].orderType), tx.phase = "idle",
             outcome[k] = "open", outcome'[k] = "cancelled"
      PROVE  block >= changedAt[k] + RequestExpirationBlockAge
  <2>1. PICK a \in Accounts : CancelOrder(a, k)
    BY <1>1, Closings DEF CancelOnError
  <2>2. Cancellable(orders[k]) /\ orders[k].account = a
    BY <2>1 DEF CancelOrder
  <2>3. changedAt[k] > 0
    BY <1>1, <2>2 DEF HistoryInvariant, InductiveInvariant, Servables, Servable
  <2>4. orders[k].updatedAtBlock = changedAt[k]
    BY <2>2, <2>3, <1>1 DEF HistoryInvariant, Chronicled, Chronicle
  <2>5. block \in Nat /\ changedAt[k] \in Nat
    BY <1>1, HistoryTypes DEF RestTyped
  <2> QED BY <1>1, <2>2, <2>4, <2>5 DEF Cancellable
<1>2. HistoryInvariant /\ [Next]_vars =>
        [\A k \in Keys :
           /\ IsMarketOrder(orders[k].orderType)
           /\ outcome[k] = "open" /\ outcome'[k] = "cancelled" /\ tx.phase = "idle"
           => block >= changedAt[k] + RequestExpirationBlockAge]_vars
  BY <1>1
<1> QED BY <1>2, History, PTL DEF Spec, MarketOrdersBind

----------------------------------------------------------------------------
(* Refinement *)

\* What the escrow holds for the orders of a book.
HeldFor(book) == [k \in Keys |-> [t \in Tokens |-> Held(book[k], t)]]

\* The escrow counts what it holds as the order book does.
LEMMA VaultHolds ==
  ASSUME NEW t \in Tokens
  PROVE  Vault!HeldOf(t) = Booked(Seen.orders, t)
<1> DEFINE f == [k \in Keys |-> HeldFor(Seen.orders)[k][t]]
<1>1. f = [k \in Keys |-> Held(Seen.orders[k], t)]
  BY DEF HeldFor
<1>2. Vault!HeldOf(t) = Vault!Total(f, MaxOrders)
  BY DEF Vault!HeldOf, Vault!Requests, HeldFor
<1>3. Booked(Seen.orders, t) = Total(f, MaxOrders)
  BY <1>1 DEF Booked
<1> HIDE DEF f
<1> QED BY <1>2, <1>3 DEF Total, PrefixSums, Vault!Total, Vault!PrefixSums

LEMMA SeenAtRest ==
  /\ tx.phase = "idle" => /\ Seen.orders = orders /\ Seen.balance = balance
                          /\ Seen.outcome = outcome
  /\ tx.phase # "idle" => Seen = saved
BY DEF Seen, Snapshot

LEMMA SeenAtRestNext ==
  /\ tx'.phase = "idle" => /\ Seen'.orders = orders' /\ Seen'.balance = balance'
                           /\ Seen'.outcome = outcome'
  /\ tx'.phase # "idle" => Seen' = saved'
BY DEF Seen, Snapshot

LEMMA VaultStutters ==
  ASSUME Seen'.orders = Seen.orders, Seen'.balance = Seen.balance, Seen'.outcome = Seen.outcome,
         tx'.received = tx.received
  PROVE  UNCHANGED Vault!vars
BY DEF Vault!vars

LEMMA VaultUndoes ==
  ASSUME Seen'.orders = Seen.orders, Seen'.balance = Seen.balance, Seen'.outcome = Seen.outcome,
         tx'.received = NoTokens
  PROVE  Vault!Undo
BY DEF Vault!Undo, Vault!Nothing, NoTokens

LEMMA VaultBrings ==
  ASSUME Seen'.orders = Seen.orders, Seen'.balance = Seen.balance, Seen'.outcome = Seen.outcome,
         \A t \in Tokens : tx'.received[t] >= tx.received[t]
  PROVE  Vault!Bring
BY DEF Vault!Bring

\* A step of the escrow that completes what was in progress.
LEMMA VaultCompletes ==
  ASSUME NEW paid,
         \A t \in Tokens : Seen'.balance[t] = Seen.balance[t] + tx.received[t] - paid[t],
         tx'.received = NoTokens
  PROVE  Vault!Complete(paid)
BY DEF Vault!Complete, Vault!Nothing, NoTokens

LEMMA VaultInit == Init => Vault!Init
<1> SUFFICES ASSUME Init PROVE Vault!Init
  OBVIOUS
<1>1. /\ Seen.orders = Blank.orders /\ Seen.balance = Blank.balance
      /\ Seen.outcome = Blank.outcome /\ tx.received = NoTokens
  BY SeenAtRest DEF Init, NoTx, Blank
<1>2. \A k \in Keys : \A t \in Tokens : Held(Blank.orders[k], t) = 0
  BY HeldEmpty DEF Blank
<1> QED BY <1>1, <1>2 DEF Vault!Init, Vault!Nothing, Vault!Requests, Blank, NoTokens

\* When one order of the book changes, what is held for the others stays.
LEMMA HeldForOne ==
  ASSUME NEW book, NEW book2, NEW k \in Keys, \A i \in Keys \ {k} : book2[i] = book[i]
  PROVE  HeldFor(book2) = [HeldFor(book) EXCEPT ![k] = HeldFor(book2)[k]]
BY DEF HeldFor

\* Between transactions what is unrecorded is owned by nobody.
LEMMA CreditIsUnowned ==
  ASSUME HistoryInvariant, tx.phase = "idle", NEW t \in Tokens
  PROVE  /\ Credit(t) \in Nat /\ Vault!Unowned(t) \in Nat
         /\ Credit(t) <= Vault!Unowned(t)
<1>1. Vault!Unowned(t) = balance[t] - Booked(orders, t)
  BY VaultHolds, SeenAtRest DEF Vault!Unowned
<1>2. /\ Booked(orders, t) \in Nat /\ balance[t] \in Nat /\ recorded[t] \in Nat
  BY HistoryTypes, BookedNat DEF StateTyped
<1>3. Booked(orders, t) <= recorded[t] /\ recorded[t] <= balance[t]
  BY <1>2, HistoryTypes
     DEF InductiveInvariant, Solvent, Transacting, VaultCoversBook, Owed
<1> QED BY <1>1, <1>2, <1>3 DEF Credit

\* An order that is created opens a request with what is unrecorded.
LEMMA CreateOpens ==
  ASSUME HistoryInvariant, NEW a \in Accounts, NEW type \in CreatableTypes,
         NEW t \in Tokens, CreateOrder(a, type, t)
  PROVE  Vault!Open(nonce + 1)
<1> DEFINE key == nonce + 1
<1>1. /\ key \in Keys /\ tx.phase = "idle" /\ tx' = tx /\ balance' = balance
      /\ outcome' = [outcome EXCEPT ![key] = "open"] /\ key > nonce
  BY FreshKey, NonReentrantIsIdle, HistoryTypes DEF CreateOrder, StateTyped
<1>2. PICK amount \in 0..MaxBalance, fee \in MinExecutionFee..MaxBalance :
        LET o == NewOrder(a, type, t, amount, fee)
        IN FundedByCredit(o) /\ SetOrder(key, o)
  BY DEF CreateOrder
<1> DEFINE o == NewOrder(a, type, t, amount, fee)
<1>3. o \in Order
  BY HistoryTypes DEF NewOrder, Order, RestTyped
<1>4. FundedByCredit(o) /\ SetOrder(key, o)
  BY <1>2
<1>5. outcome[key] = "none"
  BY <1>1 DEF HistoryInvariant, Chronicled, Chronicle
<1> HIDE DEF o, key
<1>6. /\ orders'[key] = o /\ \A i \in Keys \ {key} : orders'[i] = orders[i]
  BY <1>1, <1>3, <1>4, HistoryTypes DEF SetOrder, StateTyped, Book
<1>7. ASSUME NEW u \in Tokens
      PROVE  Held(o, u) \in 0..Vault!Unowned(u)
  <2>1. Held(o, u) <= Credit(u)
    <3>1. /\ o.amount \in Nat /\ o.executionFee \in Nat
          /\ Credit(u) \in Nat /\ Credit(Wnt) \in Nat
      BY <1>1, <1>3, OrderFieldTypes, CreditIsUnowned
    <3> QED BY <1>4, <3>1 DEF FundedByCredit, Held, Collateral
  <2> QED BY <1>1, <1>3, <2>1, CreditIsUnowned, HeldNat
<1>8. HeldFor(orders') = [HeldFor(orders) EXCEPT ![key] = HeldFor(orders')[key]]
  BY <1>1, <1>6, HeldForOne
<1>9. \A u \in Tokens : HeldFor(orders')[key][u] = Held(o, u)
  BY <1>1, <1>6 DEF HeldFor
<1>10. /\ Seen.orders = orders /\ Seen.balance = balance /\ Seen.outcome = outcome
      /\ Seen'.orders = orders' /\ Seen'.balance = balance' /\ Seen'.outcome = outcome'
  BY <1>1, SeenAtRest, SeenAtRestNext
<1>11. Vault!Open(key)
  BY <1>1, <1>5, <1>7, <1>8, <1>9, <1>10 DEF Vault!Open, HeldFor
<1> QED BY <1>11 DEF key

\* An update adds what is unrecorded to the fee of an open request.
LEMMA UpdateTopsUp ==
  ASSUME HistoryInvariant, NEW a \in Accounts, NEW k \in Keys, UpdateOrder(a, k)
  PROVE  Vault!TopUp(k)
<1> DEFINE o == UpdatedOrder(orders[k])
<1>1. /\ tx.phase = "idle" /\ tx' = tx /\ UNCHANGED <<balance, outcome>>
      /\ orders[k].account = a /\ SetOrder(k, o)
  BY NonReentrantIsIdle, HistoryTypes DEF UpdateOrder
<1>2. /\ orders'[k] = o /\ orders[k] \in Order
      /\ \A i \in Keys \ {k} : orders'[i] = orders[i]
  BY <1>1, HistoryTypes DEF SetOrder, StateTyped, Book
<1>3. /\ o.orderType = orders[k].orderType /\ o.token = orders[k].token
      /\ o.amount = orders[k].amount
      /\ o.executionFee = orders[k].executionFee + Credit(Wnt)
  BY <1>2 DEF UpdatedOrder, Order
<1> HIDE DEF o
<1>4. outcome[k] = "open"
  BY <1>1 DEF HistoryInvariant, Chronicled, Chronicle
<1>5. /\ Credit(Wnt) \in Nat /\ Vault!Unowned(Wnt) \in Nat
      /\ Credit(Wnt) <= Vault!Unowned(Wnt)
  BY <1>1, CreditIsUnowned
<1>6. /\ \A t \in Tokens : t # Wnt => Held(o, t) = Held(orders[k], t)
      /\ Held(o, Wnt) - Held(orders[k], Wnt) = Credit(Wnt)
      /\ Held(orders[k], Wnt) \in Nat
  BY <1>2, <1>3, <1>5, HeldNat, OrderFieldTypes DEF Held, Collateral, HoldsCollateral
<1>7. HeldFor(orders') = [HeldFor(orders) EXCEPT ![k][Wnt] = HeldFor(orders')[k][Wnt]]
  BY <1>2, <1>6 DEF HeldFor
<1>8. HeldFor(orders')[k][Wnt] - HeldFor(orders)[k][Wnt] = Credit(Wnt)
  BY <1>2, <1>6 DEF HeldFor
<1>9. /\ Seen.orders = orders /\ Seen.balance = balance /\ Seen.outcome = outcome
      /\ Seen'.orders = orders' /\ Seen'.balance = balance' /\ Seen'.outcome = outcome'
  BY <1>1, SeenAtRest, SeenAtRestNext
<1> QED BY <1>1, <1>4, <1>5, <1>7, <1>8, <1>9 DEF Vault!TopUp, HeldFor

\* The last step of a transaction makes what it did visible, in one step of
\* the escrow: the request is settled, or forced, or charged for the attempt.
LEMMA PaymentCloses ==
  ASSUME HistoryInvariant, PayExecutionFee
  PROVE  \E k \in Keys : \/ Vault!Force(k) \/ Vault!Charge(k)
                         \/ \E how \in {"executed", "cancelled"} : Vault!Settle(k, how)
<1>1. PICK k \in Keys : k = tx.key /\ tx.phase = "callback"
  BY HistoryTypes DEF PayExecutionFee, RestTyped
<1>2. /\ TransferOut(Wnt, tx.due) /\ UNCHANGED <<orders, outcome>>
      /\ tx'.phase = "idle" /\ tx'.received = NoTokens
  BY DEF PayExecutionFee, EndTransaction, NoTx
<1>3. /\ Seen.orders = saved.orders /\ Seen.balance = saved.balance
      /\ Seen.outcome = saved.outcome
      /\ Seen'.orders = orders /\ Seen'.balance = balance' /\ Seen'.outcome = outcome
  BY <1>1, <1>2, SeenAtRest, SeenAtRestNext
<1>4. /\ \A i \in Keys \ {k} : orders[i] = saved.orders[i] /\ outcome[i] = saved.outcome[i]
      /\ Settled(k) \/ Forced(k) \/ Frozen(k)
      /\ \A t \in Tokens :
           balance[t] - (IF t = Wnt THEN tx.due ELSE 0)
             = saved.balance[t] + tx.received[t]
                 - (Held(saved.orders[k], t) - Held(orders[k], t))
  BY <1>1 DEF HistoryInvariant, InductiveInvariant, Transacting, Settling
<1>5. /\ outcome \in Outcomes /\ saved.outcome \in Outcomes /\ orders[k] \in Order
      /\ saved.orders[k] \in Order /\ saved.balance \in [Tokens -> Nat]
      /\ tx.received \in [Tokens -> Nat]
  BY HistoryTypes DEF StateTyped, Book, RestTyped, TxType
<1>6. \A t \in Tokens : balance'[t] = saved.balance[t] + tx.received[t]
                          - (Held(saved.orders[k], t) - Held(orders[k], t))
  <2>1. \A t \in Tokens : balance'[t] = balance[t] - (IF t = Wnt THEN tx.due ELSE 0)
    BY <1>2, HistoryTypes DEF TransferOut, StateTyped, RestTyped, TxType
  <2> QED BY <1>4, <2>1
<1>7. /\ HeldFor(orders) = [HeldFor(saved.orders) EXCEPT ![k] = HeldFor(orders)[k]]
      /\ outcome = [saved.outcome EXCEPT ![k] = outcome[k]]
  <2>1. \A i \in Keys \ {k} : orders[i] = saved.orders[i]
    BY <1>4
  <2>2. HeldFor(orders) = [HeldFor(saved.orders) EXCEPT ![k] = HeldFor(orders)[k]]
    BY <2>1, HeldForOne DEF HeldFor
  <2>3. outcome = [saved.outcome EXCEPT ![k] = outcome[k]]
    BY <1>4, <1>5 DEF Outcomes
  <2> QED BY <2>2, <2>3
<1>8. /\ \A t \in Tokens : /\ HeldFor(orders)[k][t] = Held(orders[k], t)
                           /\ HeldFor(saved.orders)[k][t] = Held(saved.orders[k], t)
                           /\ Held(orders[k], t) \in Nat /\ Held(saved.orders[k], t) \in Nat
                           /\ saved.balance[t] \in Nat /\ tx.received[t] \in Nat
  BY <1>5, HeldNat DEF HeldFor
<1>9. CASE Settled(k)
  <2>1. \A t \in Tokens : Held(orders[k], t) = 0
    BY <1>9, HeldEmpty DEF Settled
  <2>2. HeldFor(orders)[k] = Vault!Nothing
    BY <2>1 DEF HeldFor, Vault!Nothing
  <2>3. Vault!Complete(HeldFor(saved.orders)[k])
    <3>1. \A t \in Tokens : balance'[t] = saved.balance[t] + tx.received[t]
                                             - HeldFor(saved.orders)[k][t]
      BY <1>6, <1>8, <2>1
    <3> QED BY <1>2, <1>3, <3>1, VaultCompletes
  <2>4. PICK how \in {"executed", "cancelled"} : how = outcome[k]
    BY <1>9 DEF Settled
  <2>5. HeldFor(orders) = [HeldFor(saved.orders) EXCEPT ![k] = Vault!Nothing]
    BY <1>7, <2>2
  <2>6. saved.outcome[k] = "open" /\ outcome = [saved.outcome EXCEPT ![k] = how]
    BY <1>7, <1>9, <2>4 DEF Settled
  <2>7. Vault!Settle(k, how)
    BY <1>3, <2>3, <2>5, <2>6 DEF Vault!Settle, HeldFor
  <2> QED BY <2>7
<1>10. CASE Forced(k)
  <2>1. HeldFor(orders) = HeldFor(saved.orders)
    BY <1>4, <1>10 DEF Forced, HeldFor
  <2>2. Vault!Complete(Vault!Nothing)
    <3>1. \A t \in Tokens : balance'[t] = saved.balance[t] + tx.received[t] - Vault!Nothing[t]
      BY <1>6, <1>8, <1>10 DEF Forced, Vault!Nothing
    <3> QED BY <1>2, <1>3, <3>1, VaultCompletes
  <2>3. Vault!Force(k)
    BY <1>3, <1>7, <1>10, <2>1, <2>2 DEF Forced, Vault!Force, HeldFor
  <2> QED BY <2>3
<1>11. CASE Frozen(k)
  <2>1. /\ orders[k].orderType = saved.orders[k].orderType
        /\ orders[k].token = saved.orders[k].token
        /\ orders[k].amount = saved.orders[k].amount /\ orders[k].executionFee = 0
    BY <1>5, <1>11 DEF Frozen, FrozenOrder, Order
  <2>2. /\ \A t \in Tokens : t # Wnt => Held(orders[k], t) = Held(saved.orders[k], t)
        /\ Held(orders[k], Wnt) <= Held(saved.orders[k], Wnt)
    BY <1>5, <2>1, OrderFieldTypes, HeldNat DEF Held, Collateral, HoldsCollateral
  <2>3. HeldFor(orders) = [HeldFor(saved.orders) EXCEPT ![k][Wnt] = HeldFor(orders)[k][Wnt]]
    <3>1. HeldFor(orders)[k] = [HeldFor(saved.orders)[k] EXCEPT ![Wnt] = HeldFor(orders)[k][Wnt]]
      BY <2>2 DEF HeldFor
    <3> QED BY <1>7, <3>1
  <2>4. HeldFor(orders)[k][Wnt] \in 0..HeldFor(saved.orders)[k][Wnt]
    BY <1>8, <2>2
  <2>5. Vault!Complete([t \in Tokens |-> HeldFor(saved.orders)[k][t] - HeldFor(orders)[k][t]])
    <3> DEFINE paid == [t \in Tokens |-> HeldFor(saved.orders)[k][t] - HeldFor(orders)[k][t]]
    <3>1. \A t \in Tokens : balance'[t] = saved.balance[t] + tx.received[t] - paid[t]
      BY <1>6, <1>8
    <3> HIDE DEF paid
    <3>2. Vault!Complete(paid)
      BY <1>2, <1>3, <3>1, VaultCompletes
    <3> QED BY <3>2 DEF paid
  <2>6. outcome = saved.outcome
    BY <1>7, <1>11, <1>5 DEF Frozen, Outcomes
  <2>7. Vault!Charge(k)
    BY <1>3, <1>11, <2>3, <2>4, <2>5, <2>6 DEF Frozen, Vault!Charge, HeldFor
  <2> QED BY <2>7
<1> QED BY <1>4, <1>9, <1>10, <1>11

\* Every step of the order book is a step of the escrow, or nothing happens to
\* the escrow.
LEMMA StepImplementsEscrow ==
  ASSUME HistoryInvariant, [Next]_vars
  PROVE  [Vault!Next]_Vault!vars
<1>1. ASSUME tx.phase = "idle", tx'.phase # "idle", saved' = Snapshot, tx'.received = NoTokens
      PROVE  Vault!Undo
  BY <1>1, SeenAtRest, SeenAtRestNext, VaultUndoes DEF Snapshot
<1>2. ASSUME tx.phase # "idle", tx'.phase # "idle", saved' = saved
      PROVE  /\ tx'.received = NoTokens => Vault!Undo
             /\ (\A t \in Tokens : tx'.received[t] >= tx.received[t]) => Vault!Bring
  BY <1>2, SeenAtRest, SeenAtRestNext, VaultUndoes, VaultBrings
<1>3. ASSUME UNCHANGED <<state, tx, saved>>
      PROVE  UNCHANGED Vault!vars
  BY <1>3, VaultStutters DEF Seen, Snapshot, state
<1>4. ASSUME tx.phase # "idle", EndTransaction, Snapshot' = saved
      PROVE  Vault!Undo
  <2>1. tx'.phase = "idle" /\ tx'.received = NoTokens
    BY <1>4 DEF EndTransaction, NoTx
  <2> QED BY <1>4, <2>1, SeenAtRest, SeenAtRestNext, VaultUndoes DEF Snapshot
<1>5. CASE TraderStep
  <2>1. ASSUME NEW a \in Accounts, NEW type \in CreatableTypes, NEW t \in Tokens,
               CreateOrder(a, type, t)
        PROVE  Vault!Next
    <3>1. nonce + 1 \in 1..MaxOrders /\ Vault!Open(nonce + 1)
      BY <2>1, CreateOpens, HistoryTypes, FreshKey DEF CreateOrder
    <3> QED BY <3>1 DEF Vault!Next, Vault!Requests
  <2>2. ASSUME NEW a \in Accounts, NEW k \in Keys, UpdateOrder(a, k)
        PROVE  Vault!Next
    BY <2>2, UpdateTopsUp DEF Vault!Next, Vault!Requests
  <2>3. ASSUME NEW a \in Accounts, NEW k \in Keys, CancelOrder(a, k)
        PROVE  Vault!Undo
    BY <1>1, <2>3, NonReentrantIsIdle, HistoryTypes DEF CancelOrder, NoTx
  <2> QED BY <1>5, <2>1, <2>2, <2>3 DEF TraderStep, Vault!Next
<1>6. CASE KeeperStep
  <2>1. tx.phase = "idle"
    BY <1>6, NonReentrantIsIdle, HistoryTypes
       DEF KeeperStep, BeginExecuteOrder, ExecuteLiquidation, ExecuteAdl, KeeperMayBegin
  <2>2. tx'.phase = "run" /\ saved' = Snapshot /\ tx'.received = NoTokens
    BY <1>6 DEF KeeperStep, BeginExecuteOrder, ExecuteLiquidation, ExecuteAdl,
                BeginForcedOrder, NoTx
  <2> QED BY <1>1, <2>1, <2>2 DEF Vault!Next
<1>7. CASE TransactionStep
  <2>1. tx \in TxType
    BY HistoryTypes DEF RestTyped
  <2>2. CASE ExecuteOrder
    <3>1. tx.phase = "run" /\ saved' = saved /\ tx'.phase = "callback"
          /\ tx'.received \in [Tokens -> Nat] /\ tx.received = NoTokens
      BY <2>2, HistoryTypes, ExecuteOrderTx DEF ExecuteOrder, TxType, HistoryInvariant, Settling
    <3>2. \A t \in Tokens : tx'.received[t] >= tx.received[t]
      BY <3>1, NoTokensType
    <3> QED BY <1>2, <3>1, <3>2 DEF Vault!Next
  <2>6. CASE CancelOnError \/ FreezeOnError \/ \E e \in Errors : FailExecution(e)
    <3>1. tx.phase # "idle" /\ saved' = saved /\ tx'.phase \in {"callback", "handle"}
      BY <2>1, <2>6 DEF CancelOnError, FreezeOnError, FailExecution, TxType
    <3>2. tx'.received = NoTokens
      BY <2>1, <2>6
         DEF CancelOnError, FreezeOnError, FailExecution, TxType, HistoryInvariant, Settling
    <3> QED BY <1>2, <3>1, <3>2 DEF Vault!Next
  <2>3. CASE RevertOnError
    <3>1. tx.phase = "handle" /\ EndTransaction /\ UNCHANGED state
      BY <2>3 DEF RevertOnError
    <3>2. Snapshot' = Snapshot /\ Snapshot = saved
      BY <3>1, HistoryTypes
         DEF Snapshot, state, InductiveInvariant, Transacting, NothingOutlivesTheTransaction
    <3> QED BY <1>4, <3>1, <3>2 DEF Vault!Next
  <2>4. CASE RevertTransaction
    <3>1. tx.phase # "idle" /\ EndTransaction /\ Restore
      BY <2>4 DEF RevertTransaction
    <3> QED BY <1>4, <3>1, RestoreBringsBack, HistoryTypes DEF Vault!Next
  <2>5. CASE PayExecutionFee
    BY <2>5, PaymentCloses DEF Vault!Next, Vault!Requests
  <2> QED BY <1>7, <2>2, <2>3, <2>4, <2>5, <2>6 DEF TransactionStep
<1>8. CASE EnvironmentStep
  <2>1. CASE Tick \/ \E f \in Switches : ToggleFeature(f)
    BY <1>3, <2>1 DEF Tick, ToggleFeature
  <2>2. ASSUME NEW u \in Tokens, SendTokens(u), tx.phase = "idle"
        PROVE  Vault!Receive
    <3>1. /\ balance' = [balance EXCEPT ![u] = @ + 1]
          /\ UNCHANGED <<orders, outcome, tx>>
      BY <2>2 DEF SendTokens
    <3>2. \A t \in Tokens : balance'[t] >= balance[t]
      BY <3>1, HistoryTypes DEF StateTyped
    <3>3. /\ Seen.orders = orders /\ Seen.balance = balance /\ Seen.outcome = outcome
          /\ Seen'.orders = orders /\ Seen'.balance = balance' /\ Seen'.outcome = outcome
      BY <2>2, <3>1, SeenAtRest, SeenAtRestNext
    <3> QED BY <3>1, <3>2, <3>3 DEF Vault!Receive
  <2>3. ASSUME NEW u \in Tokens, SendTokens(u), tx.phase # "idle"
        PROVE  Vault!Bring
    <3>1. tx.received \in [Tokens -> Nat]
      BY HistoryTypes DEF RestTyped, TxType
    <3>2. /\ saved' = saved /\ tx'.phase = tx.phase
          /\ \A t \in Tokens : tx'.received[t] >= tx.received[t]
      <4>1. RestTyped
        BY HistoryTypes
      <4>2. /\ tx'.phase = tx.phase
            /\ \A t \in Tokens : tx'.received[t] = tx.received[t] + (IF u = t THEN 1 ELSE 0)
        BY <2>3, <4>1, SendTokensTx
      <4>3. \A t \in Tokens : tx.received[t] \in Nat
        BY <3>1
      <4>4. \A t \in Tokens : tx'.received[t] >= tx.received[t]
        BY <4>2, <4>3
      <4> QED BY <2>3, <4>2, <4>4 DEF SendTokens
    <3> QED BY <1>2, <2>3, <3>2
  <2> QED BY <1>8, <2>1, <2>2, <2>3 DEF EnvironmentStep, Vault!Next
<1>9. CASE UNCHANGED vars
  BY <1>3, <1>9 DEF vars
<1> QED BY <1>5, <1>6, <1>7, <1>8, <1>9 DEF Next

\* The order vault is an escrow, for any number of traders, orders and tokens
\* and whatever callbacks, failures and rollbacks come between: what is held
\* for an order came from what nobody owned, and exactly that leaves the vault,
\* once.
THEOREM EscrowOfOrders == Spec => ImplementsEscrow
<1>1. HistoryInvariant /\ [Next]_vars => [Vault!Next]_Vault!vars
  BY StepImplementsEscrow
<1> QED BY <1>1, VaultInit, History, PTL DEF Spec, ImplementsEscrow, Vault!Spec
=============================================================================
