---------------------- MODULE LiquidityPoolProperties ----------------------
(***************************************************************************)
(* What must be true of the liquidity of a market, whatever the requests,  *)
(* the prices and the positions are.                                       *)
(***************************************************************************)
EXTENDS LiquidityPool

\* Every variable has its type; in particular no vault and no account of the
\* market is ever overdrawn.
TypeOK ==
  /\ requests \in [Keys -> Deposit \cup Withdrawal \cup {NoRequest}]
  /\ outcome \in [Vaults -> [Keys -> {"none", "open", "executed", "cancelled"}]]
  /\ nonce \in 0..MaxRequests
  /\ expired \subseteq Keys
  /\ balance \in [Vaults -> [Tokens -> Nat]]
  /\ recorded \in [Vaults -> [Tokens -> Nat]]
  /\ market \in Market

----------------------------------------------------------------------------
(* The market and its accounts *)

\* The market holds every token it has on its books, so that everybody can be
\* paid and validateMarketTokenBalance, which the model leaves out, never
\* reverts an execution.
MarketCoversAccounts == \A t \in PoolTokens : market.balance[t] >= ExpectedMinTokenBalance(market, t)

\* The value of the pool with all pending pnl deducted, not only what is below
\* the maximum pnl factor.
FullValue(m, c, maximize) ==
  PoolValueLess(m, c, Pnl(c, Long, ~ maximize) + Pnl(c, Short, ~ maximize), maximize)

\* From m to n a market token has not lost value.
KeepsValue(m, n, c, maximize) ==
  FullValue(n, c, maximize) * m.supply >= FullValue(m, c, maximize) * n.supply

\* What the cap hides of the profits in token t where validateMaxPnl lets it
\* pass: it rounds the factor of the pnl down, so at most one unit of the factor.
Unseen(m, c, t) ==
  IF Pnl(c, t, TRUE) > CappedPnl(m, c, t, "withdrawal", FALSE)
    THEN RoundUpDivision(PoolUsd(m, c, t, FALSE), Precision) ELSE 0

UnseenProfits(m, c) == Unseen(m, c, Long) + Unseen(m, c, Short)

\* Who leaves takes at most the part of the unseen profits with him that belongs
\* to the market tokens he burns.
LeavesValue(m, n, c) ==
  FullValue(n, c, FALSE) * m.supply + UnseenProfits(m, c) * (m.supply - n.supply)
    >= FullValue(m, c, FALSE) * n.supply

\* Who stays in the pool never pays for who comes, goes or trades: no deposit,
\* withdrawal or swap lowers the value of a market token at the prices it is
\* executed with, neither by rounding, nor by the spread, nor by leaving the
\* profits of traders to the others (but for those that a withdrawal may not see).
SharesKeepTheirValue ==
  [][/\ \A k \in Keys :
          /\ outcome["deposit"][k] = "open" /\ outcome'["deposit"][k] = "executed"
          /\ market.supply > 0
          => \A c \in Conditions, i \in PriceImpacts :
               ExecuteDeposit(k, c, i) => KeepsValue(market, market', c, TRUE)
     /\ \A k \in Keys :
          outcome["withdrawal"][k] = "open" /\ outcome'["withdrawal"][k] = "executed"
          => \A c \in Conditions :
               ExecuteWithdrawal(k, c) => LeavesValue(market, market', c)
     /\ outcome' = outcome /\ nonce' # nonce
          => \A c \in Conditions, t \in PoolTokens, n \in SwapAmounts, i \in PriceImpacts :
               Swap(c, t, n, i)
               => \A maximize \in BOOLEAN : KeepsValue(market, market', c, maximize)]_vars

Receiving(m, amount) == [m EXCEPT !.balance = [t \in PoolTokens |-> @[t] + amount[t]]]

\* After the deposit of amount with the result in, its withdrawal gains at most
\* the part of the unseen profits that belongs to the market tokens.
GainsNothing(c, amount, in) ==
  LET out == Withdrawn(in.after, c, in.minted) IN
  in.valid /\ WithdrawalPossible(in.after, c, in.minted) /\ out.valid
  => (out.paid[Long] * c.price[Long].max + out.paid[Short] * c.price[Short].max
        - amount[Long] * c.price[Long].min - amount[Short] * c.price[Short].min)
       * in.after.supply <= UnseenProfits(in.after, c) * in.minted

\* Whoever deposits and withdraws at once, at the same prices and without a
\* bonus for improving the balance, gets at most the value that went in, and the
\* part of the unseen profits that belongs to the market tokens.
RoundTripsDoNotPay ==
  market.supply > 0 =>
    \A c \in Conditions, i \in {j \in PriceImpacts : j <= 0}, amount \in [PoolTokens -> {0} \cup SwapAmounts] :
      MaxPnlValid(market, c, "deposit", "deposit")
      => GainsNothing(c, amount, Deposited(Receiving(market, amount), c, amount, i))

----------------------------------------------------------------------------
(* The vaults *)

\* What vault v owes of token t to its pending requests.
Owed(v, t) ==
  Total([k \in Keys |-> IF requests[k].kind = v THEN Held(requests[k], t) ELSE 0], MaxRequests)

\* Each vault has recorded what its pending requests brought, and holds it: no
\* request is credited with the tokens of another one, and each can be refunded.
VaultsCoverRequests ==
  \A v \in Vaults, t \in Tokens : Owed(v, t) <= recorded[v][t] /\ recorded[v][t] <= balance[v][t]

Escrowed(v) == [k \in Keys |-> [t \in Tokens |->
                 IF requests[k].kind = v THEN Held(requests[k], t) ELSE 0]]

\* An execution is one step here: nothing arrives in the middle of it.
NothingIncoming == [t \in Tokens |-> 0]

DepositVault == INSTANCE Escrow WITH
  status <- outcome["deposit"], held <- Escrowed("deposit"), vault <- balance["deposit"],
  incoming <- NothingIncoming

WithdrawalVault == INSTANCE Escrow WITH
  status <- outcome["withdrawal"], held <- Escrowed("withdrawal"),
  vault <- balance["withdrawal"], incoming <- NothingIncoming

\* The vaults are escrows: a request takes its tokens from what nobody owns, and
\* exactly these leave the vault, once: into the market, to be burnt, or back to
\* the account.  A refund that is forgotten breaks this as much as one too many.
DepositsAreEscrowed == DepositVault!Spec
WithdrawalsAreEscrowed == WithdrawalVault!Spec

----------------------------------------------------------------------------
(* What the documentation says and the code does not do *)

\* Deposit.Props: "minMarketTokens the minimum acceptable number of liquidity
\* tokens".
DepositsMintTheirMinimum ==
  [][\A k \in Keys :
       outcome["deposit"][k] = "open" /\ outcome'["deposit"][k] = "executed"
       => market'.supply - market.supply >= requests[k].minMarketTokens]_vars
=============================================================================
