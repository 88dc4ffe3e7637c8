--------------------------- MODULE LiquidityPool ---------------------------
(***************************************************************************)
(* The liquidity of one market: deposits and withdrawals (DepositHandler,  *)
(* WithdrawalHandler and their libraries) with their two vaults, the swaps *)
(* through the market (SwapUtils), the accounts MarketUtils keeps of its   *)
(* tokens, the market token's supply, and the claiming of fees.            *)
(*                                                                         *)
(* An execution or a cancellation is one step.  The reentrancy guard keeps *)
(* every other handler out of its callback (OrderBook has the callbacks);  *)
(* foreign code can only send tokens to a vault meanwhile or claim fees,   *)
(* which it may as well do before or after.                                *)
(*                                                                         *)
(* The positions of the market enter an execution through its Conditions:  *)
(* open interest, pending borrowing fees and the position impact pool are  *)
(* any the instance lists.  So does the size of the price impact, whose    *)
(* formula only decides how much moves to or from the swap impact pool.    *)
(* The market has two different tokens, the index token is the long token, *)
(* and a deposit or a withdrawal swaps through no other market.            *)
(***************************************************************************)
EXTENDS Sums, FiniteSets

CONSTANTS
  Long, Short,                \* the tokens of the market
  Wnt,                        \* the wrapped native token
  MarketToken,                \* the market token
  Precision,                  \* the denominator of all factors
  FloatToWeiDivisor,          \* the units of USD to the unit of market tokens
  SwapFeeFactor,              \* SwapFeeFactor[forPositiveImpact]
  SwapFeeReceiverFactor,      \* the fee receiver's share of a fee
  UiFeeFactor,                \* the ui fee receiver's fee
  MaxPnlFactor,               \* MaxPnlFactor[pnlFactorType]
  ReserveFactor,              \* the share of the pool that may be reserved
  MaxPoolAmount, MaxPoolAmountForDeposit,
  MinMarketTokensForFirstDeposit,
  MinExecutionFee,            \* the fee that covers the estimated gas
  Conditions,                 \* the conditions an execution may meet
  PriceImpacts,               \* the price impacts, in USD
  Minimums,                   \* the minimum outputs that requests ask for
  SwapAmounts,                \* the amounts that are swapped
  InitialMarkets,             \* what trading may have made of the market before
  \* Bounds
  MaxRequests, MaxCredit, TransferAmounts

PoolTokens == {Long, Short}
Tokens == PoolTokens \cup {Wnt, MarketToken}
Vaults == {"deposit", "withdrawal"}
Keys == 1..MaxRequests

ASSUME ConstantsAssumption ==
  /\ Long # Short
  /\ MarketToken \notin PoolTokens \cup {Wnt}
  /\ Precision \in Nat \ {0}
  /\ FloatToWeiDivisor \in Nat \ {0}
  /\ SwapFeeFactor \in [BOOLEAN -> 0..Precision]
  /\ SwapFeeReceiverFactor \in 0..Precision
  /\ UiFeeFactor \in 0..Precision
  /\ \A positive \in BOOLEAN : SwapFeeFactor[positive] + UiFeeFactor <= Precision
  /\ MaxPnlFactor \in [Vaults -> Nat]
  /\ ReserveFactor \in Nat
  /\ MaxPoolAmount \in Nat
  /\ MaxPoolAmountForDeposit \in Nat
  /\ MinMarketTokensForFirstDeposit \in Nat
  /\ MinExecutionFee \in Nat \ {0}
  /\ PriceImpacts \subseteq Int
  /\ Minimums \subseteq Nat
  /\ SwapAmounts \subseteq Nat \ {0}
  /\ MaxRequests \in Nat
  /\ MaxCredit \in Nat
  /\ TransferAmounts \subseteq Nat \ {0}

\* Price.Props, with prices that Oracle.setPrices accepts.
Price == {p \in [min : Nat \ {0}, max : Nat \ {0}] : p.min <= p.max}

ASSUME ConditionsAssumption ==
  \A c \in Conditions :
    /\ c.price \in [PoolTokens -> Price]
    /\ c.openInterest \in [PoolTokens -> [usd : Nat, tokens : Nat]]
    /\ c.borrowingFees \in Nat
    /\ c.positionImpactPool \in Nat

VARIABLES
  requests,   \* requests[k]: the deposit or withdrawal under key k, or NoRequest
  outcome,    \* outcome[v][k]: the last event emitted for request k of vault v
  nonce,      \* the number of keys handed out
  expired,    \* the requests that are REQUEST_EXPIRATION_BLOCK_AGE blocks old
  balance,    \* balance[v][t]: what vault v holds of token t
  recorded,   \* recorded[v][t]: what vault v has recorded of token t
  market      \* the market's accounts

vaultVars == <<balance, recorded>>
vars == <<requests, outcome, nonce, expired, vaultVars, market>>

----------------------------------------------------------------------------
(* The market's accounts *)

\* DataStore entries of the market, the balances and the supply of its token.
Market ==
  [pool : [PoolTokens -> Nat],             \* poolAmount
   swapImpactPool : [PoolTokens -> Nat],
   claimableFees : [PoolTokens -> Nat],    \* of the fee receiver
   claimableUiFees : [PoolTokens -> Nat],
   balance : [PoolTokens -> Nat],          \* balanceOf(market)
   supply : Nat,                           \* of market tokens
   locked : Nat]                           \* those of RECEIVER_FOR_FIRST_DEPOSIT

Nothing == [t \in PoolTokens |-> 0]

EmptyMarket == [pool |-> Nothing, swapImpactPool |-> Nothing, claimableFees |-> Nothing,
                claimableUiFees |-> Nothing, balance |-> Nothing, supply |-> 0, locked |-> 0]

\* What the market token contract must hold of token t (getExpectedMinTokenBalance).
ExpectedMinTokenBalance(m, t) ==
  m.pool[t] + m.swapImpactPool[t] + m.claimableFees[t] + m.claimableUiFees[t]

ASSUME InitialMarketsAssumption ==
  \A m \in InitialMarkets :
    /\ m \in Market
    /\ m.locked <= m.supply
    /\ \A t \in PoolTokens : ExpectedMinTokenBalance(m, t) <= m.balance[t]

\* getOppositeToken
Opposite(t) == IF t = Long THEN Short ELSE Long

MinOf(x, y) == IF x <= y THEN x ELSE y
MaxOf(x, y) == IF x >= y THEN x ELSE y

ApplyFactor(n, factor) == (n * factor) \div Precision

\* Calc.roundUpDivision
RoundUpDivision(n, d) == (n + d - 1) \div d

\* Precision.mulDiv of a signed value: the magnitude is rounded down.
SignedMulDiv(n, numerator, denominator) ==
  IF n >= 0 THEN (n * numerator) \div denominator
            ELSE - ((- n * numerator) \div denominator)

PickPrice(p, maximize) == IF maximize THEN p.max ELSE p.min
MidPrice(p) == (p.max + p.min) \div 2

PoolUsd(m, c, t, maximize) == m.pool[t] * PickPrice(c.price[t], maximize)

\* The pnl of the positions whose profits are paid in token t: the long
\* positions for the long token.
Pnl(c, t, maximize) ==
  LET oi == c.openInterest[t]
      value == oi.tokens * PickPrice(c.price[Long], IF t = Long THEN maximize ELSE ~ maximize) IN
  CASE oi.usd = 0 \/ oi.tokens = 0 -> 0
    [] oi.usd # 0 /\ oi.tokens # 0 /\ t = Long -> value - oi.usd
    [] OTHER -> oi.usd - value

CappedPnl(m, c, t, type, maximize) ==
  LET pnl == Pnl(c, t, ~ maximize)
      maxPnl == ApplyFactor(PoolUsd(m, c, t, maximize), MaxPnlFactor[type]) IN
  IF pnl < 0 THEN pnl ELSE MinOf(pnl, maxPnl)

\* getPoolValueInfo, with the pnl that is deducted as a parameter.  (The
\* receiver's share of the borrowing fees is already taken from borrowingFees.)
PoolValueLess(m, c, pnl, maximize) ==
  PoolUsd(m, c, Long, maximize) + PoolUsd(m, c, Short, maximize)
    + c.borrowingFees - pnl
    - c.positionImpactPool * PickPrice(c.price[Long], ~ maximize)

PoolValue(m, c, type, maximize) ==
  PoolValueLess(m, c, CappedPnl(m, c, Long, type, maximize)
                        + CappedPnl(m, c, Short, type, maximize), maximize)

PnlFactorExceeded_Never(m, c, t, type) == FALSE

\* isPnlFactorExceeded
PnlFactorExceeded(m, c, t, type) ==
  LET poolUsd == PoolUsd(m, c, t, FALSE)
      pnl == Pnl(c, t, TRUE) IN
  poolUsd > 0 /\ pnl > 0 /\ (pnl * Precision) \div poolUsd > MaxPnlFactor[type]

\* validateMaxPnl, with the factor type for the longs and for the shorts.
MaxPnlValid(m, c, typeForLongs, typeForShorts) ==
  /\ ~ PnlFactorExceeded(m, c, Long, typeForLongs)
  /\ ~ PnlFactorExceeded(m, c, Short, typeForShorts)

ReservedUsd(c, t) ==
  IF t = Long THEN c.openInterest[t].tokens * c.price[Long].max
              ELSE c.openInterest[t].usd

\* validateReserve
ReserveValid(m, c, t) ==
  ReservedUsd(c, t) <= ApplyFactor(PoolUsd(m, c, t, FALSE), ReserveFactor)

\* Precision.floatToWei
FloatToWei(usd) == usd \div FloatToWeiDivisor

UsdToMarketTokenAmount_RoundedUp(usd, poolValue, supply) ==
  IF supply = 0 THEN FloatToWei(poolValue + usd) ELSE RoundUpDivision(supply * usd, poolValue)

\* A market token is worth one USD at first (and after the last was burnt,
\* when the new supply is credited with what is left in the pool).
UsdToMarketTokenAmount(usd, poolValue, supply) ==
  IF supply = 0 THEN FloatToWei(poolValue + usd) ELSE (supply * usd) \div poolValue

\* getSwapFees
SwapFees(amount, forPositiveImpact) ==
  LET fee == ApplyFactor(amount, SwapFeeFactor[forPositiveImpact])
      forReceiver == ApplyFactor(fee, SwapFeeReceiverFactor)
      forUi == ApplyFactor(amount, UiFeeFactor) IN
  [receiver |-> forReceiver, pool |-> fee - forReceiver, ui |-> forUi,
   afterFees |-> amount - fee - forUi]

SwapImpactAmount_Uncapped(m, c, t, usd) ==
  IF usd > 0 THEN usd \div c.price[t].max
             ELSE - RoundUpDivision(- usd, c.price[t].min)

\* getSwapImpactAmountWithCap
SwapImpactAmount(m, c, t, usd) ==
  IF usd > 0 THEN MinOf(usd \div c.price[t].max, m.swapImpactPool[t])
             ELSE - RoundUpDivision(- usd, c.price[t].min)

\* incrementClaimableFeeAmount and incrementClaimableUiFeeAmount
Charged(m, t, fees) ==
  [m EXCEPT !.claimableFees[t] = @ + fees.receiver, !.claimableUiFees[t] = @ + fees.ui]

\* applyDeltaToSwapImpactPool, which is bounded below by 0.
ImpactApplied(m, t, impactAmount) ==
  [m EXCEPT !.swapImpactPool[t] = MaxOf(0, @ - impactAmount)]

\* applyDeltaToPoolAmount, for token t and for the other token.
PoolChanged(m, t, delta, otherDelta) ==
  [m EXCEPT !.pool[t] = @ + delta, !.pool[Opposite(t)] = @ + otherDelta]

\* MarketToken.mint
Minted(m, n) == [m EXCEPT !.supply = @ + n]

\* A negative result makes it revert: "Invalid state, negative poolAmount".
PoolNotOverdrawn(m) == \A t \in PoolTokens : m.pool[t] >= 0

PoolAmountValid(m, t) == m.pool[t] <= MaxPoolAmount
PoolAmountValidForDeposit(m, t) == m.pool[t] <= MaxPoolAmountForDeposit

----------------------------------------------------------------------------
(* What an execution does to the market's accounts *)

Invalid(m) == [valid |-> FALSE, minted |-> 0, after |-> m]
Unchanged(m) == [valid |-> TRUE, minted |-> 0, after |-> m]

\* What one of the two amounts of a deposit does (_executeDeposit).  A positive
\* impact adds tokens of the other side from the swap impact pool, a negative
\* one takes some of the deposited tokens.  Both are valued at the pool value
\* and the supply from before.
DepositOf(m, c, t, amount, priceImpactUsd) ==
  LET fees == SwapFees(amount, priceImpactUsd > 0)
      poolValue == PoolValue(m, c, "deposit", TRUE)
      impactUsd == IF m.supply = 0 THEN MinOf(0, priceImpactUsd) ELSE priceImpactUsd
      impactToken == IF impactUsd > 0 THEN Opposite(t) ELSE t
      impactAmount == SwapImpactAmount(m, c, impactToken, impactUsd)
      bonus == MaxOf(0, impactAmount)
      deposited == fees.afterFees + MinOf(0, impactAmount)
      minted == UsdToMarketTokenAmount(deposited * c.price[t].min, poolValue, m.supply)
                + IF impactUsd > 0
                    THEN UsdToMarketTokenAmount(bonus * c.price[impactToken].max, poolValue, m.supply)
                    ELSE 0
      charged == ImpactApplied(Charged(m, t, fees), impactToken, impactAmount)
      after == Minted(PoolChanged(charged, t, deposited + fees.pool, bonus), minted) IN
  IF poolValue < 0 \/ (poolValue = 0 /\ m.supply > 0) \/ deposited < 0
    THEN Invalid(m)
    ELSE [valid |-> \A u \in {t, impactToken} :
                      PoolAmountValid(after, u) /\ PoolAmountValidForDeposit(after, u),
          minted |-> minted,
          after |-> after]

\* receivedMarketTokens adds up what both amounts mint.
AlsoMinted(n, result) ==
  [valid |-> result.valid, minted |-> n + result.minted, after |-> result.after]

\* Both amounts of a deposit, the long tokens first.
Deposited(m, c, amount, priceImpactUsd) ==
  LET usd == [t \in PoolTokens |-> amount[t] * MidPrice(c.price[t])]
      share(t) == SignedMulDiv(priceImpactUsd, usd[t], usd[Long] + usd[Short])
      leg(mm, t) == IF amount[t] = 0 THEN Unchanged(mm)
                                     ELSE DepositOf(mm, c, t, amount[t], share(t))
      first == leg(m, Long)
      second == leg(first.after, Short) IN
  IF ~ first.valid THEN Invalid(m)
  ELSE AlsoMinted(first.minted, second)

\* What the burning of n market tokens takes from the market (_getOutputAmounts
\* and _executeWithdrawal).
Withdrawn(m, c, n) ==
  LET poolValue == PoolValue(m, c, "withdrawal", FALSE)
      usd == (poolValue * n) \div m.supply
      poolUsd == [t \in PoolTokens |-> PoolUsd(m, c, t, TRUE)]
      totalUsd == poolUsd[Long] + poolUsd[Short]
      output == [t \in PoolTokens |->
                  ((usd * poolUsd[t]) \div totalUsd) \div c.price[t].max]
      fees == [t \in PoolTokens |-> SwapFees(output[t], FALSE)]
      charged == Charged(Charged(m, Long, fees[Long]), Short, fees[Short])
      after == [charged EXCEPT
                  !.pool = [t \in PoolTokens |-> @[t] - (output[t] - fees[t].pool)],
                  !.balance = [t \in PoolTokens |-> @[t] - fees[t].afterFees],
                  !.supply = @ - n] IN
  [valid |-> /\ PoolNotOverdrawn(after)
             /\ \A t \in PoolTokens : ReserveValid(after, c, t)
             /\ MaxPnlValid(after, c, "withdrawal", "withdrawal"),
   paid |-> [t \in PoolTokens |-> fees[t].afterFees],
   after |-> after]

\* Whether _getOutputAmounts gets through and the market tokens can be burnt.
WithdrawalPossible(m, c, n) ==
  /\ n > 0
  /\ n <= m.supply
  /\ PoolValue(m, c, "withdrawal", FALSE) > 0
  /\ PoolUsd(m, c, Long, TRUE) + PoolUsd(m, c, Short, TRUE) > 0

\* What a swap of n tokens t does (SwapUtils._swap).  The bonus of a positive
\* impact is paid from the swap impact pool, not from the pool.
Swapped(m, c, t, n, priceImpactUsd) ==
  LET out == Opposite(t)
      fees == SwapFees(n, priceImpactUsd > 0)
      impactToken == IF priceImpactUsd > 0 THEN out ELSE t
      impactAmount == SwapImpactAmount(m, c, impactToken, priceImpactUsd)
      amountIn == fees.afterFees + MinOf(0, impactAmount)
      poolAmountOut == (amountIn * c.price[t].min) \div c.price[out].max
      paid == poolAmountOut + MaxOf(0, impactAmount)
      charged == ImpactApplied(Charged(m, t, fees), impactToken, impactAmount)
      after == [PoolChanged(charged, t, amountIn + fees.pool, - poolAmountOut) EXCEPT
                  !.balance[t] = @ + n, !.balance[out] = @ - paid] IN
  [valid |-> /\ priceImpactUsd > 0 \/ amountIn > 0
             /\ paid <= m.balance[out]
             /\ PoolNotOverdrawn(after)
             /\ PoolAmountValid(after, t)
             /\ ReserveValid(after, c, out)
             /\ MaxPnlValid(after, c, IF t = Long THEN "deposit" ELSE "withdrawal",
                                      IF t = Long THEN "withdrawal" ELSE "deposit"),
   after |-> after]

----------------------------------------------------------------------------
(* Requests *)

Deposit ==
  [kind : {"deposit"}, amount : [PoolTokens -> Nat], minMarketTokens : Nat,
   toLocked : BOOLEAN,   \* the receiver is RECEIVER_FOR_FIRST_DEPOSIT
   executionFee : Nat]

Withdrawal ==
  [kind : {"withdrawal"}, marketTokenAmount : Nat, minAmount : [PoolTokens -> Nat],
   executionFee : Nat]

\* What DepositStoreUtils.get and WithdrawalStoreUtils.get return for no key.
NoRequest == [kind |-> "none", executionFee |-> 0]

PendingIn(v) == {k \in Keys : requests[k].kind = v}

\* What a vault holds of token t for a request in it.
Held(r, t) ==
  (CASE r.kind = "deposit" /\ t \in PoolTokens -> r.amount[t]
     [] r.kind = "withdrawal" /\ t = MarketToken -> r.marketTokenAmount
     [] OTHER -> 0)
  + IF t = Wnt THEN r.executionFee ELSE 0

\* The tokens recordTransferIn would credit to its caller.
Credit(v, t) == balance[v][t] - recorded[v][t]

RecordTransferIn(v, S) ==
  recorded' = [recorded EXCEPT ![v] = [t \in Tokens |-> IF t \in S THEN balance[v][t] ELSE @[t]]]

PayOut_NotRecorded(v, r) ==
  /\ balance' = [balance EXCEPT ![v] = [t \in Tokens |-> @[t] - Held(r, t)]]
  /\ UNCHANGED recorded

PayOut_FeeOnly(v, r) ==
  /\ balance' = [balance EXCEPT ![v][Wnt] = @ - r.executionFee]
  /\ recorded' = [recorded EXCEPT ![v][Wnt] = balance[v][Wnt] - r.executionFee]

\* Everything held for a request leaves the vault, in transfers each of which
\* lets the record follow the balance (StrictBank._afterTransferOut); so does
\* syncTokenBalance after the burning of market tokens.
PayOut(v, r) ==
  /\ balance' = [balance EXCEPT ![v] = [t \in Tokens |-> @[t] - Held(r, t)]]
  /\ recorded' = [recorded EXCEPT ![v] =
       [t \in Tokens |-> IF Held(r, t) > 0 THEN balance[v][t] - Held(r, t) ELSE @[t]]]

\* getNextKey and set
Open(v, r) ==
  /\ nonce < MaxRequests
  /\ nonce' = nonce + 1
  /\ requests' = [requests EXCEPT ![nonce + 1] = r]
  /\ outcome' = [outcome EXCEPT ![v][nonce + 1] = "open"]

\* remove, the payments out of the vault and the event
Close(v, k, how) ==
  /\ requests' = [requests EXCEPT ![k] = NoRequest]
  /\ outcome' = [outcome EXCEPT ![v][k] = how]
  /\ expired' = expired \ {k}
  /\ PayOut(v, requests[k])
  /\ UNCHANGED nonce

----------------------------------------------------------------------------
Init ==
  /\ requests = [k \in Keys |-> NoRequest]
  /\ outcome = [v \in Vaults |-> [k \in Keys |-> "none"]]
  /\ nonce = 0
  /\ expired = {}
  /\ balance = [v \in Vaults |-> [t \in Tokens |-> 0]]
  /\ recorded = [v \in Vaults |-> [t \in Tokens |-> 0]]
  /\ market \in InitialMarkets

\* The market tokens that are in the hands of liquidity providers.
Circulating ==
  market.supply - market.locked - balance["deposit"][MarketToken] - balance["withdrawal"][MarketToken]

\* The tokens a vault ever records; any others that are sent there are lost.
Accepted(v) == {Wnt} \cup IF v = "deposit" THEN PoolTokens ELSE {MarketToken}

\* Anybody sends tokens to a vault (ExchangeRouter.sendTokens, sendWnt), as long
\* as there are keys left for requests that could use them.
SendTokens(v, t, n) ==
  /\ nonce < MaxRequests
  /\ t = MarketToken => n <= Circulating
  /\ Credit(v, t) + n <= MaxCredit
  /\ balance' = [balance EXCEPT ![v][t] = @ + n]
  /\ UNCHANGED <<requests, outcome, nonce, expired, recorded, market>>

\* createDeposit: the fee comes out of the deposited tokens when one of them is
\* the wrapped native token, else it is all of that token the vault was sent.
CreateDeposit(executionFee, minMarketTokens, toLocked) ==
  LET fee == IF Wnt \in PoolTokens THEN executionFee ELSE Credit("deposit", Wnt)
      amount == [t \in PoolTokens |-> Credit("deposit", t) - IF t = Wnt THEN fee ELSE 0] IN
  /\ Credit("deposit", Wnt) >= executionFee
  /\ fee >= MinExecutionFee
  /\ \E t \in PoolTokens : amount[t] > 0
  /\ RecordTransferIn("deposit", PoolTokens \cup {Wnt})
  /\ Open("deposit", [kind |-> "deposit", amount |-> amount, minMarketTokens |-> minMarketTokens,
                      toLocked |-> toLocked, executionFee |-> fee])
  /\ UNCHANGED <<expired, balance, market>>

CreateWithdrawal(minAmount) ==
  /\ Credit("withdrawal", Wnt) >= MinExecutionFee
  /\ Credit("withdrawal", MarketToken) > 0
  /\ RecordTransferIn("withdrawal", {Wnt, MarketToken})
  /\ Open("withdrawal", [kind |-> "withdrawal", minAmount |-> minAmount,
                         marketTokenAmount |-> Credit("withdrawal", MarketToken),
                         executionFee |-> Credit("withdrawal", Wnt)])
  /\ UNCHANGED <<expired, balance, market>>

\* Blocks pass until a request can be cancelled.
Expire(k) ==
  /\ requests[k] # NoRequest
  /\ expired' = expired \cup {k}
  /\ UNCHANGED <<requests, outcome, nonce, vaultVars, market>>

\* cancelDeposit, cancelWithdrawal: the account takes an old request back.
CancelRequest(v, k) ==
  /\ k \in PendingIn(v) \cap expired
  /\ Close(v, k, "cancelled")
  /\ UNCHANGED market

\* A keeper's attempt fails, for whatever reason, and all it did is undone; the
\* error handler cancels the request.  (After an oracle error or with the
\* feature disabled the transaction reverts instead, and nothing happens.)
FailRequest(v, k) ==
  /\ k \in PendingIn(v)
  /\ Close(v, k, "cancelled")
  /\ UNCHANGED market

\* _validateFirstDeposit
FirstDepositValid(r) ==
  market.supply = 0 /\ MinMarketTokensForFirstDeposit > 0
    => r.toLocked /\ r.minMarketTokens >= MinMarketTokensForFirstDeposit

\* executeDeposit.  The deposit's minMarketTokens is looked at nowhere else.
ExecuteDeposit(k, c, priceImpactUsd) ==
  /\ k \in PendingIn("deposit")
  /\ LET r == requests[k]
         received == [market EXCEPT !.balance = [t \in PoolTokens |-> @[t] + r.amount[t]]]
         result == Deposited(received, c, r.amount, priceImpactUsd) IN
     /\ FirstDepositValid(r)
     /\ MaxPnlValid(market, c, "deposit", "deposit")
     /\ result.valid
     /\ market' = [result.after EXCEPT !.locked = @ + IF r.toLocked THEN result.minted ELSE 0]
  /\ Close("deposit", k, "executed")

\* SwapUtils.swap along an empty path returns before it looks at the minimum
\* when there is nothing to pay.
OutputSufficient(paid, minAmount) == paid = 0 \/ paid >= minAmount

ExecuteWithdrawal(k, c) ==
  /\ k \in PendingIn("withdrawal")
  /\ LET r == requests[k] IN
     /\ WithdrawalPossible(market, c, r.marketTokenAmount)
     /\ LET result == Withdrawn(market, c, r.marketTokenAmount) IN
        /\ result.valid
        /\ \A t \in PoolTokens : OutputSufficient(result.paid[t], r.minAmount[t])
        /\ market' = result.after
  /\ Close("withdrawal", k, "executed")

\* A swap order, or a part of another request, swaps through the market.  The
\* order behind it takes one of the keys.
Swap(c, t, n, priceImpactUsd) ==
  LET result == Swapped(market, c, t, n, priceImpactUsd) IN
  /\ nonce < MaxRequests
  /\ nonce' = nonce + 1
  /\ result.valid
  /\ market' = result.after
  /\ UNCHANGED <<requests, outcome, expired, vaultVars>>

ClaimFees_NotReset(t) ==
  /\ market.claimableFees[t] > 0
  /\ market' = [market EXCEPT !.balance[t] = @ - market.claimableFees[t]]
  /\ UNCHANGED <<requests, outcome, nonce, expired, vaultVars>>

\* FeeUtils.claimFees and claimUiFees
ClaimFees(t) ==
  /\ market.claimableFees[t] > 0
  /\ market' = [market EXCEPT !.claimableFees[t] = 0, !.balance[t] = @ - market.claimableFees[t]]
  /\ UNCHANGED <<requests, outcome, nonce, expired, vaultVars>>

ClaimUiFees(t) ==
  /\ market.claimableUiFees[t] > 0
  /\ market' = [market EXCEPT !.claimableUiFees[t] = 0, !.balance[t] = @ - market.claimableUiFees[t]]
  /\ UNCHANGED <<requests, outcome, nonce, expired, vaultVars>>

----------------------------------------------------------------------------
RequestStep ==
  \/ \E fee \in MinExecutionFee..(MinExecutionFee + 1), n \in Minimums, toLocked \in BOOLEAN :
       CreateDeposit(fee, n, toLocked)
  \/ \E minAmount \in [PoolTokens -> Minimums] : CreateWithdrawal(minAmount)
  \/ \E v \in Vaults, k \in Keys : CancelRequest(v, k)

KeeperStep ==
  \E k \in Keys :
    \/ \E v \in Vaults : FailRequest(v, k)
    \/ \E c \in Conditions : ExecuteWithdrawal(k, c)
    \/ \E c \in Conditions, i \in PriceImpacts : ExecuteDeposit(k, c, i)

MarketStep ==
  \/ \E c \in Conditions, t \in PoolTokens, n \in SwapAmounts, i \in PriceImpacts : Swap(c, t, n, i)
  \/ \E t \in PoolTokens : ClaimFees(t) \/ ClaimUiFees(t)

EnvironmentStep ==
  \/ \E v \in Vaults, n \in TransferAmounts : \E t \in Accepted(v) : SendTokens(v, t, n)
  \/ \E k \in Keys : Expire(k)

Next == RequestStep \/ KeeperStep \/ MarketStep \/ EnvironmentStep

Spec == Init /\ [][Next]_vars
=============================================================================
