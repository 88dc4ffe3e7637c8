------------------------ MODULE LiquidityPoolProofs ------------------------
(***************************************************************************)
(* Proofs about LiquidityPool, for all values of its constants: its two    *)
(* vaults cover what the pending requests brought, and its market holds    *)
(* what its accounts say.                                                  *)
(***************************************************************************)
EXTENDS LiquidityPoolProperties, SumsProofs

USE DEF Keys, Vaults

\* The bound on requests is a number.
LEMMA BoundNat == MaxRequests \in Nat
BY ConstantsAssumption

Request == Deposit \cup Withdrawal \cup {NoRequest}

\* The requests and the vaults, with their types and what is owed.
VaultInvariant ==
  /\ requests \in [Keys -> Request]
  /\ nonce \in 0..MaxRequests
  /\ balance \in [Vaults -> [Tokens -> Nat]]
  /\ recorded \in [Vaults -> [Tokens -> Nat]]
  /\ VaultsCoverRequests

----------------------------------------------------------------------------
(* What requests hold *)

LEMMA HeldNat ==
  ASSUME NEW r \in Request, NEW t \in Tokens
  PROVE  Held(r, t) \in Nat
<1>1. CASE r \in Deposit
  BY <1>1 DEF Deposit, Held
<1>2. CASE r \in Withdrawal
  BY <1>2 DEF Withdrawal, Held
<1>3. CASE r = NoRequest
  BY <1>3 DEF NoRequest, Held
<1> QED BY <1>1, <1>2, <1>3 DEF Request

\* What vault v owes of token t for request r.
Due(r, v, t) == IF r.kind = v THEN Held(r, t) ELSE 0

LEMMA DueNat ==
  ASSUME NEW r \in Request, NEW v, NEW t \in Tokens
  PROVE  Due(r, v, t) \in Nat
BY HeldNat DEF Due

\* The debts of a vault for any requests, of which Owed is the present case.
Debts(rs, v, t) == Total([k \in Keys |-> Due(rs[k], v, t)], MaxRequests)

LEMMA OwedIsDebts == \A v, t : Owed(v, t) = Debts(requests, v, t)
BY DEF Owed, Debts, Due

LEMMA OwedIsDebtsNext == \A v, t : Owed(v, t)' = Debts(requests', v, t)
BY DEF Owed, Debts, Due, Held

LEMMA DebtsNat ==
  ASSUME NEW rs \in [Keys -> Request], NEW v, NEW t \in Tokens
  PROVE  Debts(rs, v, t) \in Nat
<1>1. [k \in Keys |-> Due(rs[k], v, t)] \in [1..MaxRequests -> Nat]
  BY DueNat
<1> QED BY <1>1, TotalNat, BoundNat DEF Debts

\* One request changes: the vault owes as much more as that request does.
LEMMA DebtsChange ==
  ASSUME NEW rs \in [Keys -> Request], NEW k \in Keys, NEW r \in Request,
         NEW v, NEW t \in Tokens
  PROVE  Debts([rs EXCEPT ![k] = r], v, t)
           = Debts(rs, v, t) + Due(r, v, t) - Due(rs[k], v, t)
<1> DEFINE new == [rs EXCEPT ![k] = r]
           f == [i \in 1..MaxRequests |-> Due(rs[i], v, t)]
           g == [i \in 1..MaxRequests |-> Due(new[i], v, t)]
<1>1. f \in [1..MaxRequests -> Int] /\ g \in [1..MaxRequests -> Int]
  BY DueNat
<1>2. \A i \in (1..MaxRequests) \ {k} : g[i] = f[i]
  OBVIOUS
<1>3. Debts(rs, v, t) = Total(f, MaxRequests) /\ Debts(new, v, t) = Total(g, MaxRequests)
  BY DEF Debts
<1>4. f[k] = Due(rs[k], v, t) /\ g[k] = Due(r, v, t)
  OBVIOUS
<1> HIDE DEF f, g
<1>5. Total(g, MaxRequests) = Total(f, MaxRequests) + g[k] - f[k]
  BY <1>1, <1>2, TotalChange, BoundNat
<1> QED BY <1>3, <1>4, <1>5

LEMMA DebtsGrow ==
  ASSUME NEW rs \in [Keys -> Request], NEW k \in Keys, NEW r \in Request,
         NEW v, NEW t \in Tokens
  PROVE  Debts([rs EXCEPT ![k] = r], v, t) <= Debts(rs, v, t) + Due(r, v, t)
<1>1. Debts([rs EXCEPT ![k] = r], v, t)
        = Debts(rs, v, t) + Due(r, v, t) - Due(rs[k], v, t)
  BY DebtsChange
<1>2. Due(rs[k], v, t) \in Nat /\ Due(r, v, t) \in Nat /\ Debts(rs, v, t) \in Nat
  BY DueNat, DebtsNat
<1> QED BY <1>1, <1>2

\* A vault owes at least what each of its requests holds.
LEMMA DebtsBound ==
  ASSUME NEW rs \in [Keys -> Request], NEW k \in Keys, NEW v, NEW t \in Tokens
  PROVE  Due(rs[k], v, t) <= Debts(rs, v, t)
<1> DEFINE f == [i \in 1..MaxRequests |-> Due(rs[i], v, t)]
<1>1. f \in [1..MaxRequests -> Nat]
  BY DueNat
<1>2. f[k] = Due(rs[k], v, t) /\ Debts(rs, v, t) = Total(f, MaxRequests)
  BY DEF Debts
<1> HIDE DEF f
<1> QED BY <1>1, <1>2, TotalBoundsTerm, BoundNat

LEMMA NoDebts ==
  ASSUME NEW v, NEW t \in Tokens
  PROVE  Debts([k \in Keys |-> NoRequest], v, t) = 0
<1> DEFINE f == [i \in 1..MaxRequests |-> Due([k \in Keys |-> NoRequest][i], v, t)]
<1>1. \A i \in 1..MaxRequests : f[i] = 0
  BY DEF Due, Held, NoRequest
<1>2. f \in [1..MaxRequests -> Int]
  BY <1>1
<1>3. Debts([k \in Keys |-> NoRequest], v, t) = Total(f, MaxRequests)
  BY DEF Debts
<1> HIDE DEF f
<1> QED BY <1>1, <1>2, <1>3, TotalZero, BoundNat

----------------------------------------------------------------------------
(* What the operations do to the vaults *)

\* VaultsCoverRequests, with Debts.
Covered == \A v \in Vaults, t \in Tokens :
             Debts(requests, v, t) <= recorded[v][t] /\ recorded[v][t] <= balance[v][t]

LEMMA CoveredIsCover == VaultsCoverRequests <=> Covered
BY OwedIsDebts DEF VaultsCoverRequests, Covered

LEMMA CoveredIsCoverNext == VaultsCoverRequests' <=> Covered'
BY OwedIsDebtsNext DEF VaultsCoverRequests, Covered, Debts, Due, Held, Owed

LEMMA NoRequestType == NoRequest \in Request
BY DEF Request

LEMMA NothingDue ==
  ASSUME NEW v \in Vaults, NEW t \in Tokens
  PROVE  Due(NoRequest, v, t) = 0
BY DEF Due, NoRequest

\* What a closed request held leaves the vault's debts, record and balance.
LEMMA CloseCovers ==
  ASSUME VaultInvariant, NEW v \in Vaults, NEW k \in PendingIn(v), NEW how, Close(v, k, how)
  PROVE  VaultInvariant'
<1> DEFINE r == requests[k]
<1>1. k \in Keys /\ r \in Request /\ r.kind = v
  BY DEF PendingIn, VaultInvariant
<1>2. requests' = [requests EXCEPT ![k] = NoRequest] /\ nonce' = nonce
  BY DEF Close
<1>3. requests' \in [Keys -> Request]
  BY <1>2, NoRequestType DEF VaultInvariant
<1>4. \A t \in Tokens : Held(r, t) \in Nat /\ Held(r, t) <= balance[v][t]
  <2> TAKE t \in Tokens
  <2>1. Held(r, t) \in Nat /\ Due(r, v, t) = Held(r, t)
    BY <1>1, HeldNat DEF Due
  <2>2. Due(r, v, t) <= Debts(requests, v, t)
    BY <1>1, DebtsBound DEF VaultInvariant
  <2>3. Debts(requests, v, t) <= recorded[v][t] /\ recorded[v][t] <= balance[v][t]
    BY CoveredIsCover DEF VaultInvariant, Covered
  <2>4. Debts(requests, v, t) \in Nat /\ recorded[v][t] \in Nat /\ balance[v][t] \in Nat
    BY DebtsNat DEF VaultInvariant
  <2> HIDE DEF r
  <2> QED BY <2>1, <2>2, <2>3, <2>4
<1>5. /\ balance' = [balance EXCEPT ![v] = [t \in Tokens |-> @[t] - Held(r, t)]]
      /\ recorded' = [recorded EXCEPT ![v] =
           [t \in Tokens |-> IF Held(r, t) > 0 THEN balance[v][t] - Held(r, t) ELSE @[t]]]
  BY DEF Close, PayOut
<1> HIDE DEF r
<1>6. balance' \in [Vaults -> [Tokens -> Nat]] /\ recorded' \in [Vaults -> [Tokens -> Nat]]
  <2>1. [t \in Tokens |-> balance[v][t] - Held(r, t)] \in [Tokens -> Nat]
    BY <1>4 DEF VaultInvariant
  <2>2. [t \in Tokens |-> IF Held(r, t) > 0 THEN balance[v][t] - Held(r, t) ELSE recorded[v][t]]
          \in [Tokens -> Nat]
    BY <1>4 DEF VaultInvariant
  <2> QED BY <1>5, <2>1, <2>2 DEF VaultInvariant
<1>7. Covered'
  <2> SUFFICES ASSUME NEW w \in Vaults, NEW t \in Tokens
               PROVE  Debts(requests', w, t) <= recorded'[w][t] /\ recorded'[w][t] <= balance'[w][t]
    BY DEF Covered, Debts, Due, Held
  <2>1. Debts(requests', w, t) = Debts(requests, w, t) - Due(r, w, t)
    <3>1. Debts(requests', w, t)
            = Debts(requests, w, t) + Due(NoRequest, w, t) - Due(requests[k], w, t)
      <4>1. requests \in [Keys -> Request] /\ k \in Keys
        BY <1>1 DEF VaultInvariant
      <4>2. Debts([requests EXCEPT ![k] = NoRequest], w, t)
              = Debts(requests, w, t) + Due(NoRequest, w, t) - Due(requests[k], w, t)
        BY <4>1, DebtsChange, NoRequestType
      <4> QED BY <1>2, <4>2
    <3>2. Debts(requests, w, t) \in Nat /\ Due(r, w, t) \in Nat
      BY <1>1, DebtsNat, DueNat DEF VaultInvariant
    <3> QED BY <3>1, <3>2, NothingDue DEF r
  <2>2. Debts(requests, w, t) <= recorded[w][t] /\ recorded[w][t] <= balance[w][t]
    BY CoveredIsCover DEF VaultInvariant, Covered
  <2>3. Debts(requests, w, t) \in Nat /\ recorded[w][t] \in Nat /\ balance[w][t] \in Nat
    BY DebtsNat DEF VaultInvariant
  <2>4. CASE w = v
    <3>1. /\ balance'[v][t] = balance[v][t] - Held(r, t)
          /\ recorded'[v][t] = IF Held(r, t) > 0 THEN balance[v][t] - Held(r, t) ELSE recorded[v][t]
      BY <1>5 DEF VaultInvariant
    <3>2. Due(r, w, t) = Held(r, t) /\ Held(r, t) \in Nat
      BY <2>4, <1>1, <1>4 DEF Due
    <3> QED BY <2>1, <2>2, <2>3, <2>4, <3>1, <3>2
  <2>5. CASE w # v
    <3>1. balance'[w] = balance[w] /\ recorded'[w] = recorded[w]
      BY <1>5, <2>5 DEF VaultInvariant
    <3>2. Due(r, w, t) = 0
      BY <2>5, <1>1 DEF Due
    <3> QED BY <2>1, <2>2, <2>3, <3>1, <3>2
  <2> QED BY <2>4, <2>5
<1> QED BY <1>2, <1>3, <1>6, <1>7, CoveredIsCoverNext DEF VaultInvariant

\* Crediting records all of the tokens, and a request that takes no more than the
\* credit is covered.
LEMMA OpenCovers ==
  ASSUME VaultInvariant, NEW v \in Vaults, NEW r \in Request, NEW S \in SUBSET Tokens,
         r.kind = v, Open(v, r), RecordTransferIn(v, S), UNCHANGED balance,
         \A t \in Tokens : Held(r, t) <= IF t \in S THEN Credit(v, t) ELSE 0
  PROVE  VaultInvariant'
<1>1. /\ nonce' = nonce + 1
      /\ nonce' \in 0..MaxRequests
      /\ nonce + 1 \in Keys
      /\ requests' = [requests EXCEPT ![nonce + 1] = r]
  BY BoundNat DEF Open, VaultInvariant
<1> DEFINE k == nonce + 1
<1>2. requests' \in [Keys -> Request]
  BY <1>1 DEF VaultInvariant
<1>3. recorded' = [recorded EXCEPT ![v] =
                     [t \in Tokens |-> IF t \in S THEN balance[v][t] ELSE @[t]]]
  BY DEF RecordTransferIn
<1>4. recorded' \in [Vaults -> [Tokens -> Nat]] /\ balance' \in [Vaults -> [Tokens -> Nat]]
  <2>1. [t \in Tokens |-> IF t \in S THEN balance[v][t] ELSE recorded[v][t]] \in [Tokens -> Nat]
    BY DEF VaultInvariant
  <2> QED BY <1>3, <2>1 DEF VaultInvariant
<1>5. Covered'
  <2> SUFFICES ASSUME NEW w \in Vaults, NEW t \in Tokens
               PROVE  Debts(requests', w, t) <= recorded'[w][t] /\ recorded'[w][t] <= balance'[w][t]
    BY DEF Covered, Debts, Due, Held
  <2>1. requests \in [Keys -> Request] /\ k \in Keys
    BY <1>1 DEF VaultInvariant
  <2>2. Debts(requests', w, t) <= Debts(requests, w, t) + Due(r, w, t)
    <3> HIDE DEF k
    <3>1. Debts([requests EXCEPT ![k] = r], w, t) <= Debts(requests, w, t) + Due(r, w, t)
      BY <2>1, DebtsGrow
    <3>2. requests' = [requests EXCEPT ![k] = r]
      BY <1>1 DEF k
    <3> QED BY <3>1, <3>2
  <2>3. Debts(requests, w, t) <= recorded[w][t] /\ recorded[w][t] <= balance[w][t]
    BY CoveredIsCover DEF VaultInvariant, Covered
  <2>4. /\ Debts(requests, w, t) \in Nat /\ Debts(requests', w, t) \in Nat
        /\ recorded[w][t] \in Nat /\ balance[w][t] \in Nat
    BY <1>2, DebtsNat DEF VaultInvariant
  <2>5. balance'[w][t] = balance[w][t]
    OBVIOUS
  <2>6. CASE w = v
    <3>1. recorded'[v][t] = IF t \in S THEN balance[v][t] ELSE recorded[v][t]
      BY <1>3 DEF VaultInvariant
    <3>2. Due(r, w, t) = Held(r, t) /\ Held(r, t) \in Nat
      BY <2>6, HeldNat DEF Due
    <3>3. Held(r, t) <= IF t \in S THEN balance[v][t] - recorded[v][t] ELSE 0
      BY DEF Credit
    <3> QED BY <2>2, <2>3, <2>4, <2>5, <2>6, <3>1, <3>2, <3>3
  <2>7. CASE w # v
    <3>1. recorded'[w] = recorded[w]
      BY <1>3, <2>7 DEF VaultInvariant
    <3>2. Due(r, w, t) = 0
      BY <2>7 DEF Due
    <3> QED BY <2>2, <2>3, <2>4, <2>5, <3>1, <3>2
  <2> QED BY <2>6, <2>7
<1> QED BY <1>1, <1>2, <1>4, <1>5, CoveredIsCoverNext DEF VaultInvariant

LEMMA CreditNat ==
  ASSUME VaultInvariant, NEW v \in Vaults, NEW t \in Tokens
  PROVE  Credit(v, t) \in Nat
<1>1. recorded[v][t] <= balance[v][t] /\ recorded[v][t] \in Nat /\ balance[v][t] \in Nat
  BY DEF VaultInvariant, VaultsCoverRequests
<1> QED BY <1>1 DEF Credit

LEMMA CreateDepositCovers ==
  ASSUME VaultInvariant, NEW executionFee \in Nat, NEW minMarketTokens \in Nat,
         NEW toLocked \in BOOLEAN, CreateDeposit(executionFee, minMarketTokens, toLocked)
  PROVE  VaultInvariant'
<1> DEFINE fee == IF Wnt \in PoolTokens THEN executionFee ELSE Credit("deposit", Wnt)
           amount == [t \in PoolTokens |->
                       Credit("deposit", t) - IF t = Wnt THEN fee ELSE 0]
           r == [kind |-> "deposit", amount |-> amount, minMarketTokens |-> minMarketTokens,
                 toLocked |-> toLocked, executionFee |-> fee]
<1>1. \A t \in Tokens : Credit("deposit", t) \in Nat
  BY CreditNat
<1>2. PoolTokens \subseteq Tokens /\ Wnt \in Tokens
  BY DEF Tokens
<1>3. Credit("deposit", Wnt) >= executionFee
  BY DEF CreateDeposit
<1>4. fee \in Nat
  BY <1>1, <1>2
<1>5. amount \in [PoolTokens -> Nat]
  BY <1>1, <1>2, <1>3
<1>6. r \in Request
  BY <1>4, <1>5 DEF Request, Deposit
<1>7. \A t \in Tokens : Held(r, t)
        <= IF t \in PoolTokens \cup {Wnt} THEN Credit("deposit", t) ELSE 0
  <2> TAKE t \in Tokens
  <2>1. Held(r, t) = (IF t \in PoolTokens THEN amount[t] ELSE 0) + (IF t = Wnt THEN fee ELSE 0)
    BY DEF Held
  <2>2. Credit("deposit", t) \in Nat
    BY <1>1
  <2> QED BY <2>1, <2>2, <1>4
<1>8. /\ Open("deposit", r)
      /\ RecordTransferIn("deposit", PoolTokens \cup {Wnt})
      /\ UNCHANGED balance
  BY DEF CreateDeposit
<1>9. r.kind = "deposit" /\ PoolTokens \cup {Wnt} \in SUBSET Tokens
  BY <1>2
<1> HIDE DEF r
<1> QED BY <1>6, <1>7, <1>8, <1>9, OpenCovers

LEMMA CreateWithdrawalCovers ==
  ASSUME VaultInvariant, NEW minAmount \in [PoolTokens -> Nat], CreateWithdrawal(minAmount)
  PROVE  VaultInvariant'
<1> DEFINE r == [kind |-> "withdrawal", minAmount |-> minAmount,
                 marketTokenAmount |-> Credit("withdrawal", MarketToken),
                 executionFee |-> Credit("withdrawal", Wnt)]
<1>1. \A t \in Tokens : Credit("withdrawal", t) \in Nat
  BY CreditNat
<1>2. MarketToken \in Tokens /\ Wnt \in Tokens /\ MarketToken # Wnt
  BY ConstantsAssumption DEF Tokens
<1>3. r \in Request
  BY <1>1, <1>2 DEF Request, Withdrawal
<1>4. \A t \in Tokens : Held(r, t)
        <= IF t \in {Wnt, MarketToken} THEN Credit("withdrawal", t) ELSE 0
  <2> TAKE t \in Tokens
  <2>1. Held(r, t) = (IF t = MarketToken THEN Credit("withdrawal", t) ELSE 0)
                     + (IF t = Wnt THEN Credit("withdrawal", t) ELSE 0)
    BY DEF Held
  <2>2. Credit("withdrawal", t) \in Nat
    BY <1>1
  <2> QED BY <2>1, <2>2, <1>2
<1>5. /\ Open("withdrawal", r)
      /\ RecordTransferIn("withdrawal", {Wnt, MarketToken})
      /\ UNCHANGED balance
  BY DEF CreateWithdrawal
<1>6. r.kind = "withdrawal" /\ {Wnt, MarketToken} \in SUBSET Tokens
  BY <1>2
<1> HIDE DEF r
<1> QED BY <1>3, <1>4, <1>5, <1>6, OpenCovers

LEMMA SendTokensCovers ==
  ASSUME VaultInvariant, NEW v \in Vaults, NEW t \in Tokens, NEW n \in Nat, SendTokens(v, t, n)
  PROVE  VaultInvariant'
<1>1. /\ requests' = requests /\ nonce' = nonce /\ recorded' = recorded
      /\ balance' = [balance EXCEPT ![v][t] = @ + n]
  BY DEF SendTokens
<1>2. balance' \in [Vaults -> [Tokens -> Nat]]
  BY <1>1 DEF VaultInvariant
<1>3. \A w \in Vaults, u \in Tokens : balance[w][u] <= balance'[w][u]
  BY <1>1 DEF VaultInvariant
<1>4. Covered'
  <2> SUFFICES ASSUME NEW w \in Vaults, NEW u \in Tokens
               PROVE  Debts(requests', w, u) <= recorded'[w][u] /\ recorded'[w][u] <= balance'[w][u]
    BY DEF Covered, Debts, Due, Held
  <2>1. Debts(requests, w, u) <= recorded[w][u] /\ recorded[w][u] <= balance[w][u]
    BY CoveredIsCover DEF VaultInvariant, Covered
  <2>2. recorded[w][u] \in Nat /\ balance[w][u] \in Nat /\ balance'[w][u] \in Nat
    BY <1>2 DEF VaultInvariant
  <2>3. recorded'[w][u] <= balance'[w][u]
    BY <1>1, <1>3, <2>1, <2>2
  <2> QED BY <1>1, <2>1, <2>3
<1> QED BY <1>1, <1>2, <1>4, CoveredIsCoverNext DEF VaultInvariant

LEMMA UnchangedCovers ==
  ASSUME VaultInvariant, requests' = requests, nonce' \in 0..MaxRequests,
         balance' = balance, recorded' = recorded
  PROVE  VaultInvariant'
<1>1. Covered'
  <2> SUFFICES ASSUME NEW w \in Vaults, NEW u \in Tokens
               PROVE  Debts(requests', w, u) <= recorded'[w][u] /\ recorded'[w][u] <= balance'[w][u]
    BY DEF Covered, Debts, Due, Held
  <2> QED BY CoveredIsCover DEF VaultInvariant, Covered
<1> QED BY <1>1, CoveredIsCoverNext DEF VaultInvariant

----------------------------------------------------------------------------
(* The theorem *)

LEMMA VaultInvariantInit == Init => VaultInvariant
<1> SUFFICES ASSUME Init PROVE VaultInvariant
  OBVIOUS
<1>1. requests \in [Keys -> Request] /\ nonce \in 0..MaxRequests
      /\ balance \in [Vaults -> [Tokens -> Nat]] /\ recorded \in [Vaults -> [Tokens -> Nat]]
  BY NoRequestType, BoundNat DEF Init
<1>2. ASSUME NEW v \in Vaults, NEW t \in Tokens
      PROVE  Debts(requests, v, t) <= recorded[v][t] /\ recorded[v][t] <= balance[v][t]
  <2>1. Debts(requests, v, t) = 0
    BY NoDebts DEF Init
  <2> QED BY <2>1 DEF Init
<1> QED BY <1>1, <1>2, CoveredIsCover DEF VaultInvariant, Covered

LEMMA VaultInvariantStep == VaultInvariant /\ [Next]_vars => VaultInvariant'
<1> SUFFICES ASSUME VaultInvariant, [Next]_vars
             PROVE  VaultInvariant'
  OBVIOUS
<1>1. MinExecutionFee..(MinExecutionFee + 1) \subseteq Nat /\ Minimums \subseteq Nat
      /\ TransferAmounts \subseteq Nat
  BY ConstantsAssumption
<1>2. nonce \in 0..MaxRequests
  BY DEF VaultInvariant
<1>3. CASE RequestStep
  <2>1. ASSUME NEW fee \in MinExecutionFee..(MinExecutionFee + 1), NEW n \in Minimums,
               NEW toLocked \in BOOLEAN, CreateDeposit(fee, n, toLocked)
        PROVE  VaultInvariant'
    BY <1>1, <2>1, CreateDepositCovers
  <2>2. ASSUME NEW minAmount \in [PoolTokens -> Minimums], CreateWithdrawal(minAmount)
        PROVE  VaultInvariant'
    BY <1>1, <2>2, CreateWithdrawalCovers
  <2>3. ASSUME NEW v \in Vaults, NEW k \in Keys, CancelRequest(v, k)
        PROVE  VaultInvariant'
    BY <2>3, CloseCovers DEF CancelRequest
  <2> QED BY <1>3, <2>1, <2>2, <2>3 DEF RequestStep
<1>4. CASE KeeperStep
  <2> PICK k \in Keys : \/ \E v \in Vaults : FailRequest(v, k)
                        \/ \E c \in Conditions : ExecuteWithdrawal(k, c)
                        \/ \E c \in Conditions, i \in PriceImpacts : ExecuteDeposit(k, c, i)
    BY <1>4 DEF KeeperStep
  <2>1. ASSUME NEW v \in Vaults, FailRequest(v, k)
        PROVE  VaultInvariant'
    BY <2>1, CloseCovers DEF FailRequest
  <2>2. ASSUME NEW c \in Conditions, ExecuteWithdrawal(k, c)
        PROVE  VaultInvariant'
    <3>1. k \in PendingIn("withdrawal") /\ Close("withdrawal", k, "executed")
      BY <2>2 DEF ExecuteWithdrawal
    <3> QED BY <3>1, CloseCovers
  <2>3. ASSUME NEW c \in Conditions, NEW i \in PriceImpacts, ExecuteDeposit(k, c, i)
        PROVE  VaultInvariant'
    <3>1. k \in PendingIn("deposit") /\ Close("deposit", k, "executed")
      BY <2>3 DEF ExecuteDeposit
    <3> QED BY <3>1, CloseCovers
  <2> QED BY <2>1, <2>2, <2>3
<1>5. CASE MarketStep
  <2>1. ASSUME NEW c, NEW t, NEW n, NEW i, Swap(c, t, n, i)
        PROVE  VaultInvariant'
    <3>1. nonce' \in 0..MaxRequests
      BY <1>2, <2>1, BoundNat DEF Swap
    <3>2. UNCHANGED <<requests, balance, recorded>>
      BY <2>1 DEF Swap, vaultVars
    <3> QED BY <3>1, <3>2, UnchangedCovers
  <2>2. ASSUME NEW t, ClaimFees(t) \/ ClaimUiFees(t)
        PROVE  VaultInvariant'
    <3>1. UNCHANGED <<requests, nonce, balance, recorded>>
      BY <2>2 DEF ClaimFees, ClaimUiFees, vaultVars
    <3> QED BY <1>2, <3>1, UnchangedCovers
  <2> QED BY <1>5, <2>1, <2>2 DEF MarketStep
<1>6. CASE EnvironmentStep
  <2>1. ASSUME NEW v \in Vaults, NEW n \in TransferAmounts, NEW t \in Accepted(v),
               SendTokens(v, t, n)
        PROVE  VaultInvariant'
    <3>1. t \in Tokens
      BY DEF Accepted, Tokens
    <3> QED BY <1>1, <2>1, <3>1, SendTokensCovers
  <2>2. ASSUME NEW k \in Keys, Expire(k)
        PROVE  VaultInvariant'
    <3>1. UNCHANGED <<requests, nonce, balance, recorded>>
      BY <2>2 DEF Expire, vaultVars
    <3> QED BY <1>2, <3>1, UnchangedCovers
  <2> QED BY <1>6, <2>1, <2>2 DEF EnvironmentStep
<1>7. CASE UNCHANGED vars
  <2>1. UNCHANGED <<requests, nonce, balance, recorded>>
    BY <1>7 DEF vars, vaultVars
  <2> QED BY <1>2, <2>1, UnchangedCovers
<1> QED BY <1>3, <1>4, <1>5, <1>6, <1>7 DEF Next

\* The vaults and their records are natural numbers and cover what is owed, so
\* that no payment underflows.
THEOREM VaultsTyped == Spec => []VaultInvariant
BY VaultInvariantInit, VaultInvariantStep, PTL DEF Spec

\* Each vault has recorded, and holds, what its pending requests brought: a
\* request is never credited with the tokens of another (DepositVault and
\* WithdrawalVault).
THEOREM VaultsSolvent == Spec => []VaultsCoverRequests
<1>1. VaultInvariant => VaultsCoverRequests
  BY DEF VaultInvariant
<1> QED BY <1>1, VaultsTyped, PTL

----------------------------------------------------------------------------
(* The vaults are escrows *)

\* The events about a request, and the variables that no amount depends on.
Events == {"none", "open", "executed", "cancelled"}

LogTyped ==
  /\ outcome \in [Vaults -> [Keys -> Events]]
  /\ expired \subseteq Keys

LEMMA LogTypedStep == VaultInvariant /\ LogTyped /\ [Next]_vars => LogTyped'
<1> SUFFICES ASSUME VaultInvariant, LogTyped, [Next]_vars
             PROVE  LogTyped'
  OBVIOUS
<1>1. ASSUME UNCHANGED <<outcome, expired>> PROVE LogTyped'
  BY <1>1 DEF LogTyped
<1>2. ASSUME NEW v \in Vaults, NEW r, Open(v, r), UNCHANGED expired PROVE LogTyped'
  <2>1. nonce + 1 \in Keys
    BY <1>2, BoundNat DEF VaultInvariant, Open
  <2> QED BY <1>2, <2>1 DEF LogTyped, Open, Events
<1>3. ASSUME NEW v \in Vaults, NEW k \in Keys, NEW how \in {"executed", "cancelled"},
             Close(v, k, how)
      PROVE  LogTyped'
  BY <1>3 DEF LogTyped, Close, Events
<1>4. CASE RequestStep
  <2>1. ASSUME NEW fee, NEW n, NEW toLocked, CreateDeposit(fee, n, toLocked)
        PROVE  LogTyped'
    BY <1>2, <2>1 DEF CreateDeposit
  <2>2. ASSUME NEW minAmount, CreateWithdrawal(minAmount)
        PROVE  LogTyped'
    BY <1>2, <2>2 DEF CreateWithdrawal
  <2>3. ASSUME NEW v \in Vaults, NEW k \in Keys, CancelRequest(v, k)
        PROVE  LogTyped'
    BY <1>3, <2>3 DEF CancelRequest
  <2> QED BY <1>4, <2>1, <2>2, <2>3 DEF RequestStep
<1>5. CASE KeeperStep
  BY <1>3, <1>5 DEF KeeperStep, FailRequest, ExecuteWithdrawal, ExecuteDeposit
<1>6. CASE MarketStep
  BY <1>1, <1>6 DEF MarketStep, Swap, ClaimFees, ClaimUiFees
<1>7. CASE EnvironmentStep
  BY <1>7 DEF LogTyped, EnvironmentStep, SendTokens, Expire
<1>8. CASE UNCHANGED vars
  BY <1>1, <1>8 DEF vars
<1> QED BY <1>4, <1>5, <1>6, <1>7, <1>8 DEF Next

\* What vault v owes for each request.
Shares(rs, v) == [k \in Keys |-> [t \in Tokens |-> Due(rs[k], v, t)]]

LEMMA EscrowedIsShares ==
  ASSUME NEW v
  PROVE  Escrowed(v) = Shares(requests, v) /\ Escrowed(v)' = Shares(requests', v)
BY DEF Escrowed, Shares, Due, Held

\* A request is in its vault as long as the last event about it opened it, and
\* keys that were not handed out have neither requests nor events.
Logged ==
  /\ \A k \in Keys : nonce < k => requests[k] = NoRequest
  /\ \A v \in Vaults, k \in Keys :
       /\ nonce < k => outcome[v][k] = "none"
       /\ requests[k].kind = v => outcome[v][k] = "open"

EscrowInvariant == VaultInvariant /\ LogTyped /\ Logged

\* The steps of Escrow, for vault v.
Received(v) ==
  /\ \A t \in Tokens : balance'[v][t] >= balance[v][t]
  /\ UNCHANGED <<outcome[v], Escrowed(v)>>

Opened(v, k) ==
  /\ outcome[v][k] = "none"
  /\ outcome'[v] = [outcome[v] EXCEPT ![k] = "open"]
  /\ Shares(requests', v) = [Shares(requests, v) EXCEPT ![k] = Shares(requests', v)[k]]
  /\ \A t \in Tokens : Shares(requests', v)[k][t] \in 0..(balance[v][t] - Owed(v, t))
  /\ balance'[v] = balance[v]

Settled(v, k, how) ==
  /\ outcome[v][k] = "open"
  /\ outcome'[v] = [outcome[v] EXCEPT ![k] = how]
  /\ Shares(requests', v) = [Shares(requests, v) EXCEPT ![k] = [t \in Tokens |-> 0]]
  /\ \A t \in Tokens : balance'[v][t] = balance[v][t] - Shares(requests, v)[k][t]

Untouched(v) ==
  /\ outcome'[v] = outcome[v]
  /\ Shares(requests', v) = Shares(requests, v)
  /\ balance'[v] = balance[v]

EscrowStep(v) ==
  \/ Received(v)
  \/ \E k \in Keys : Opened(v, k) \/ \E how \in {"executed", "cancelled"} : Settled(v, k, how)
  \/ Untouched(v)

\* A request takes its tokens from those that no request owns.
LEMMA CreditUnowned ==
  ASSUME VaultInvariant, NEW v \in Vaults, NEW t \in Tokens, NEW n \in Nat, n <= Credit(v, t)
  PROVE  n \in 0..(balance[v][t] - Owed(v, t))
<1>1. Owed(v, t) \in Nat /\ recorded[v][t] \in Nat /\ balance[v][t] \in Nat
  BY OwedIsDebts, DebtsNat DEF VaultInvariant
<1>2. Owed(v, t) <= recorded[v][t]
  BY DEF VaultInvariant, VaultsCoverRequests
<1> QED BY <1>1, <1>2 DEF Credit

\* Opening a request in vault v, for v and for the other vault.
LEMMA OpenEscrows ==
  ASSUME EscrowInvariant, NEW v \in Vaults, NEW r \in Request, r.kind = v, Open(v, r),
         UNCHANGED balance, \A t \in Tokens : Held(r, t) <= Credit(v, t)
  PROVE  /\ \A w \in Vaults : EscrowStep(w)
         /\ Logged'
<1> DEFINE key == nonce + 1
<1>1. /\ key \in Keys /\ nonce' = key /\ nonce \in Nat
      /\ requests' = [requests EXCEPT ![key] = r]
      /\ outcome' = [outcome EXCEPT ![v][key] = "open"]
  BY BoundNat DEF Open, EscrowInvariant, VaultInvariant
<1>2. /\ \A w \in Vaults : outcome[w][key] = "none"
      /\ requests[key] = NoRequest
      /\ \A k \in Keys : nonce < k /\ k # key => nonce' < k
      /\ \A k \in Keys : nonce' < k => nonce < k /\ k # key
  BY <1>1 DEF EscrowInvariant, Logged
<1> HIDE DEF key
<1>3. requests \in [Keys -> Request] /\ outcome \in [Vaults -> [Keys -> Events]]
  BY DEF EscrowInvariant, VaultInvariant, LogTyped
<1>4. \A w \in Vaults : Shares(requests', w)
        = [Shares(requests, w) EXCEPT ![key] = [t \in Tokens |-> Due(r, w, t)]]
  BY <1>1, <1>3 DEF Shares
<1>5. Opened(v, key)
  <2>1. outcome'[v] = [outcome[v] EXCEPT ![key] = "open"]
    BY <1>1, <1>3
  <2>2. Shares(requests', v)[key] = [t \in Tokens |-> Due(r, v, t)]
    BY <1>1, <1>4 DEF Shares
  <2>3. \A t \in Tokens : Due(r, v, t) \in 0..(balance[v][t] - Owed(v, t))
    BY HeldNat, CreditUnowned DEF Due, EscrowInvariant
  <2>4. Shares(requests', v) = [Shares(requests, v) EXCEPT ![key] = Shares(requests', v)[key]]
    BY <1>4, <2>2
  <2> QED BY <1>2, <2>1, <2>2, <2>3, <2>4 DEF Opened
<1>6. ASSUME NEW w \in Vaults, w # v PROVE Untouched(w)
  <2>1. outcome'[w] = outcome[w]
    BY <1>1, <1>3, <1>6
  <2>2. \A t \in Tokens : Due(r, w, t) = 0 /\ Due(NoRequest, w, t) = 0
    BY <1>6, NothingDue DEF Due
  <2>3. Shares(requests, w)[key] = [t \in Tokens |-> Due(r, w, t)]
    BY <1>1, <1>2, <2>2 DEF Shares
  <2>4. Shares(requests', w) = Shares(requests, w)
    BY <1>1, <1>4, <2>3, <1>6 DEF Shares
  <2> QED BY <2>1, <2>4 DEF Untouched
<1>7. Logged'
  <2>1. \A k \in Keys : nonce' < k => requests'[k] = NoRequest
    BY <1>1, <1>2, <1>3 DEF EscrowInvariant, Logged
  <2>2. \A w \in Vaults, k \in Keys : nonce' < k => outcome'[w][k] = "none"
    BY <1>1, <1>2, <1>3 DEF EscrowInvariant, Logged
  <2>3. ASSUME NEW w \in Vaults, NEW k \in Keys, requests'[k].kind = w
        PROVE  outcome'[w][k] = "open"
    BY <1>1, <1>3, <2>3 DEF EscrowInvariant, Logged
  <2> QED BY <2>1, <2>2, <2>3 DEF Logged
<1> QED BY <1>1, <1>5, <1>6, <1>7 DEF EscrowStep

\* Closing a request of vault v, for v and for the other vault.
LEMMA CloseEscrows ==
  ASSUME EscrowInvariant, NEW v \in Vaults, NEW k \in PendingIn(v),
         NEW how \in {"executed", "cancelled"}, Close(v, k, how)
  PROVE  /\ \A w \in Vaults : EscrowStep(w)
         /\ Logged'
<1>1. k \in Keys /\ requests[k].kind = v /\ outcome[v][k] = "open"
  BY DEF PendingIn, EscrowInvariant, Logged
<1>2. /\ requests' = [requests EXCEPT ![k] = NoRequest] /\ nonce' = nonce
      /\ outcome' = [outcome EXCEPT ![v][k] = how]
      /\ balance' = [balance EXCEPT ![v] = [t \in Tokens |-> @[t] - Held(requests[k], t)]]
  BY DEF Close, PayOut
<1>3. /\ requests \in [Keys -> Request] /\ outcome \in [Vaults -> [Keys -> Events]]
      /\ balance \in [Vaults -> [Tokens -> Nat]] /\ nonce \in Nat
      /\ balance' \in [Vaults -> [Tokens -> Nat]]
  <2>1. VaultInvariant'
    BY CloseCovers DEF EscrowInvariant
  <2> QED BY <2>1, BoundNat DEF EscrowInvariant, VaultInvariant, LogTyped
<1>4. \A w \in Vaults : Shares(requests', w)
        = [Shares(requests, w) EXCEPT ![k] = [t \in Tokens |-> 0]]
  <2> TAKE w \in Vaults
  <2>1. [t \in Tokens |-> Due(NoRequest, w, t)] = [t \in Tokens |-> 0]
    BY NothingDue
  <2> QED BY <1>1, <1>2, <1>3, <2>1 DEF Shares
<1>5. Settled(v, k, how)
  <2>1. outcome'[v] = [outcome[v] EXCEPT ![k] = how]
    BY <1>2, <1>3
  <2>2. ASSUME NEW t \in Tokens
        PROVE  balance'[v][t] = balance[v][t] - Shares(requests, v)[k][t]
    <3>1. Shares(requests, v)[k][t] = Held(requests[k], t)
      BY <1>1 DEF Shares, Due
    <3>2. balance'[v][t] = balance[v][t] - Held(requests[k], t)
      BY <1>2, <1>3
    <3> QED BY <3>1, <3>2
  <2> QED BY <1>1, <1>4, <2>1, <2>2 DEF Settled
<1>6. ASSUME NEW w \in Vaults, w # v PROVE Untouched(w)
  <2>1. outcome'[w] = outcome[w] /\ balance'[w] = balance[w]
    BY <1>2, <1>3, <1>6
  <2>2. Shares(requests, w)[k] = [t \in Tokens |-> 0]
    BY <1>1, <1>6 DEF Shares, Due
  <2>3. Shares(requests', w) = Shares(requests, w)
    BY <1>1, <1>4, <2>2 DEF Shares
  <2> QED BY <2>1, <2>3 DEF Untouched
<1>7. Logged'
  <2>1. \A i \in Keys : nonce' < i => requests'[i] = NoRequest
    BY <1>1, <1>2, <1>3 DEF EscrowInvariant, Logged
  <2>2. ~ (nonce < k)
    BY <1>1 DEF EscrowInvariant, Logged
  <2>3. \A w \in Vaults, i \in Keys : nonce' < i => outcome'[w][i] = "none"
    BY <1>1, <1>2, <1>3, <2>2 DEF EscrowInvariant, Logged
  <2>4. ASSUME NEW w \in Vaults, NEW i \in Keys, requests'[i].kind = w
        PROVE  outcome'[w][i] = "open"
    <3>1. i # k
      BY <1>1, <1>2, <1>3, <2>4 DEF NoRequest
    <3> QED BY <1>1, <1>2, <1>3, <2>4, <3>1 DEF EscrowInvariant, Logged
  <2> QED BY <2>1, <2>3, <2>4 DEF Logged
<1> QED BY <1>1, <1>5, <1>6, <1>7 DEF EscrowStep

\* Nothing happens to the requests: for each vault this is a stutter.
LEMMA RestEscrows ==
  ASSUME EscrowInvariant, UNCHANGED <<requests, outcome, balance>>, nonce' >= nonce,
         nonce' \in Nat
  PROVE  /\ \A w \in Vaults : EscrowStep(w)
         /\ Logged'
<1>1. \A w \in Vaults : Untouched(w)
  BY DEF Untouched
<1>2. \A k \in Keys : nonce' < k => nonce < k
  BY DEF EscrowInvariant, VaultInvariant
<1>3. Logged'
  BY <1>2 DEF EscrowInvariant, Logged
<1> QED BY <1>1, <1>3 DEF EscrowStep

LEMMA CreateDepositEscrows ==
  ASSUME EscrowInvariant, NEW executionFee \in Nat, NEW minMarketTokens \in Nat,
         NEW toLocked \in BOOLEAN, CreateDeposit(executionFee, minMarketTokens, toLocked)
  PROVE  /\ \A w \in Vaults : EscrowStep(w)
         /\ Logged'
<1> DEFINE fee == IF Wnt \in PoolTokens THEN executionFee ELSE Credit("deposit", Wnt)
           amount == [t \in PoolTokens |->
                       Credit("deposit", t) - IF t = Wnt THEN fee ELSE 0]
           r == [kind |-> "deposit", amount |-> amount, minMarketTokens |-> minMarketTokens,
                 toLocked |-> toLocked, executionFee |-> fee]
<1>1. \A t \in Tokens : Credit("deposit", t) \in Nat
  BY CreditNat DEF EscrowInvariant
<1>2. PoolTokens \subseteq Tokens /\ Wnt \in Tokens
  BY DEF Tokens
<1>3. Credit("deposit", Wnt) >= executionFee /\ fee \in Nat
  BY <1>1, <1>2 DEF CreateDeposit
<1>4. amount \in [PoolTokens -> Nat]
  BY <1>1, <1>2, <1>3
<1>5. r \in Request /\ r.kind = "deposit"
  BY <1>3, <1>4 DEF Request, Deposit
<1>6. \A t \in Tokens : Held(r, t) <= Credit("deposit", t)
  <2> TAKE t \in Tokens
  <2>1. Held(r, t) = (IF t \in PoolTokens THEN amount[t] ELSE 0) + (IF t = Wnt THEN fee ELSE 0)
    BY DEF Held
  <2> QED BY <2>1, <1>1, <1>3
<1>7. Open("deposit", r) /\ UNCHANGED balance
  BY DEF CreateDeposit
<1> HIDE DEF r
<1> QED BY <1>5, <1>6, <1>7, OpenEscrows

LEMMA CreateWithdrawalEscrows ==
  ASSUME EscrowInvariant, NEW minAmount \in [PoolTokens -> Nat], CreateWithdrawal(minAmount)
  PROVE  /\ \A w \in Vaults : EscrowStep(w)
         /\ Logged'
<1> DEFINE r == [kind |-> "withdrawal", minAmount |-> minAmount,
                 marketTokenAmount |-> Credit("withdrawal", MarketToken),
                 executionFee |-> Credit("withdrawal", Wnt)]
<1>1. \A t \in Tokens : Credit("withdrawal", t) \in Nat
  BY CreditNat DEF EscrowInvariant
<1>2. MarketToken \in Tokens /\ Wnt \in Tokens /\ MarketToken # Wnt
  BY ConstantsAssumption DEF Tokens
<1>3. r \in Request /\ r.kind = "withdrawal"
  BY <1>1, <1>2 DEF Request, Withdrawal
<1>4. \A t \in Tokens : Held(r, t) <= Credit("withdrawal", t)
  <2> TAKE t \in Tokens
  <2>1. Held(r, t) = (IF t = MarketToken THEN Credit("withdrawal", t) ELSE 0)
                     + (IF t = Wnt THEN Credit("withdrawal", t) ELSE 0)
    BY DEF Held
  <2> QED BY <2>1, <1>1, <1>2
<1>5. Open("withdrawal", r) /\ UNCHANGED balance
  BY DEF CreateWithdrawal
<1> HIDE DEF r
<1> QED BY <1>3, <1>4, <1>5, OpenEscrows

LEMMA SendTokensEscrows ==
  ASSUME EscrowInvariant, NEW v \in Vaults, NEW t \in Tokens, NEW n \in Nat, SendTokens(v, t, n)
  PROVE  /\ \A w \in Vaults : EscrowStep(w)
         /\ Logged'
<1>1. UNCHANGED <<requests, outcome, nonce>> /\ balance' = [balance EXCEPT ![v][t] = @ + n]
  BY DEF SendTokens
<1>2. \A w \in Vaults, u \in Tokens : balance'[w][u] >= balance[w][u]
  BY <1>1 DEF EscrowInvariant, VaultInvariant
<1>3. \A w \in Vaults : Received(w)
  BY <1>1, <1>2, EscrowedIsShares DEF Received
<1>4. Logged'
  BY <1>1 DEF EscrowInvariant, Logged
<1> QED BY <1>3, <1>4 DEF EscrowStep

LEMMA StepEscrows ==
  ASSUME EscrowInvariant, [Next]_vars
  PROVE  /\ \A w \in Vaults : EscrowStep(w)
         /\ Logged'
<1>1. MinExecutionFee..(MinExecutionFee + 1) \subseteq Nat /\ Minimums \subseteq Nat
      /\ TransferAmounts \subseteq Nat /\ nonce \in Nat
  BY ConstantsAssumption DEF EscrowInvariant, VaultInvariant
<1>2. CASE RequestStep
  <2>1. ASSUME NEW fee \in MinExecutionFee..(MinExecutionFee + 1), NEW n \in Minimums,
               NEW toLocked \in BOOLEAN, CreateDeposit(fee, n, toLocked)
        PROVE  (\A w \in Vaults : EscrowStep(w)) /\ Logged'
    BY <1>1, <2>1, CreateDepositEscrows
  <2>2. ASSUME NEW minAmount \in [PoolTokens -> Minimums], CreateWithdrawal(minAmount)
        PROVE  (\A w \in Vaults : EscrowStep(w)) /\ Logged'
    BY <1>1, <2>2, CreateWithdrawalEscrows
  <2>3. ASSUME NEW v \in Vaults, NEW k \in Keys, CancelRequest(v, k)
        PROVE  (\A w \in Vaults : EscrowStep(w)) /\ Logged'
    BY <2>3, CloseEscrows DEF CancelRequest
  <2> QED BY <1>2, <2>1, <2>2, <2>3 DEF RequestStep
<1>3. CASE KeeperStep
  <2> PICK k \in Keys : \/ \E v \in Vaults : FailRequest(v, k)
                        \/ \E c \in Conditions : ExecuteWithdrawal(k, c)
                        \/ \E c \in Conditions, i \in PriceImpacts : ExecuteDeposit(k, c, i)
    BY <1>3 DEF KeeperStep
  <2>1. ASSUME NEW v \in Vaults, FailRequest(v, k)
        PROVE  (\A w \in Vaults : EscrowStep(w)) /\ Logged'
    BY <2>1, CloseEscrows DEF FailRequest
  <2>2. ASSUME NEW c \in Conditions, ExecuteWithdrawal(k, c)
        PROVE  (\A w \in Vaults : EscrowStep(w)) /\ Logged'
    <3>1. k \in PendingIn("withdrawal") /\ Close("withdrawal", k, "executed")
      BY <2>2 DEF ExecuteWithdrawal
    <3> QED BY <3>1, CloseEscrows
  <2>3. ASSUME NEW c \in Conditions, NEW i \in PriceImpacts, ExecuteDeposit(k, c, i)
        PROVE  (\A w \in Vaults : EscrowStep(w)) /\ Logged'
    <3>1. k \in PendingIn("deposit") /\ Close("deposit", k, "executed")
      BY <2>3 DEF ExecuteDeposit
    <3> QED BY <3>1, CloseEscrows
  <2> QED BY <2>1, <2>2, <2>3
<1>4. CASE MarketStep
  <2>1. /\ UNCHANGED <<requests, outcome, balance>>
        /\ nonce' = nonce + 1 \/ nonce' = nonce
    BY <1>4 DEF MarketStep, Swap, ClaimFees, ClaimUiFees, vaultVars
  <2> QED BY <1>1, <2>1, RestEscrows
<1>5. CASE EnvironmentStep
  <2>1. ASSUME NEW v \in Vaults, NEW n \in TransferAmounts, NEW t \in Accepted(v),
               SendTokens(v, t, n)
        PROVE  (\A w \in Vaults : EscrowStep(w)) /\ Logged'
    <3>1. t \in Tokens
      BY DEF Accepted, Tokens
    <3> QED BY <1>1, <2>1, <3>1, SendTokensEscrows
  <2>2. ASSUME NEW k \in Keys, Expire(k)
        PROVE  (\A w \in Vaults : EscrowStep(w)) /\ Logged'
    BY <1>1, <2>2, RestEscrows DEF Expire, vaultVars
  <2> QED BY <1>5, <2>1, <2>2 DEF EnvironmentStep
<1>6. CASE UNCHANGED vars
  BY <1>1, <1>6, RestEscrows DEF vars, vaultVars
<1> QED BY <1>2, <1>3, <1>4, <1>5, <1>6 DEF Next

LEMMA EscrowInvariantInit == Init => EscrowInvariant
<1>1. Init => LogTyped /\ Logged
  BY DEF Init, LogTyped, Events, Logged, NoRequest
<1> QED BY <1>1, VaultInvariantInit DEF EscrowInvariant

LEMMA EscrowInvariantStep == EscrowInvariant /\ [Next]_vars => EscrowInvariant'
BY VaultInvariantStep, LogTypedStep, StepEscrows DEF EscrowInvariant

LEMMA Escrowing == Spec => []EscrowInvariant
BY EscrowInvariantInit, EscrowInvariantStep, PTL DEF Spec

\* Both vaults start empty.
LEMMA EscrowsStart ==
  ASSUME Init, NEW v \in Vaults
  PROVE  /\ outcome[v] = [k \in Keys |-> "none"]
         /\ Escrowed(v) = [k \in Keys |-> [t \in Tokens |-> 0]]
         /\ balance[v] = [t \in Tokens |-> 0]
BY NothingDue, EscrowedIsShares DEF Init, Shares

----------------------------------------------------------------------------
(* Each vault's steps are those of its instance of Escrow. *)

LEMMA DepositVaultOwes ==
  ASSUME NEW t \in Tokens
  PROVE  DepositVault!HeldOf(t) = Owed("deposit", t)
<1> DEFINE f == [k \in Keys |-> Escrowed("deposit")[k][t]]
<1>1. f = [k \in Keys |-> Due(requests[k], "deposit", t)]
  BY DEF Escrowed, Due
<1>2. DepositVault!HeldOf(t) = DepositVault!Total(f, MaxRequests)
  BY DEF DepositVault!HeldOf, DepositVault!Requests
<1>3. Owed("deposit", t) = Total(f, MaxRequests)
  BY <1>1, OwedIsDebts DEF Debts
<1> HIDE DEF f
<1> QED BY <1>2, <1>3
        DEF Total, PrefixSums, DepositVault!Total, DepositVault!PrefixSums

LEMMA WithdrawalVaultOwes ==
  ASSUME NEW t \in Tokens
  PROVE  WithdrawalVault!HeldOf(t) = Owed("withdrawal", t)
<1> DEFINE f == [k \in Keys |-> Escrowed("withdrawal")[k][t]]
<1>1. f = [k \in Keys |-> Due(requests[k], "withdrawal", t)]
  BY DEF Escrowed, Due
<1>2. WithdrawalVault!HeldOf(t) = WithdrawalVault!Total(f, MaxRequests)
  BY DEF WithdrawalVault!HeldOf, WithdrawalVault!Requests
<1>3. Owed("withdrawal", t) = Total(f, MaxRequests)
  BY <1>1, OwedIsDebts DEF Debts
<1> HIDE DEF f
<1> QED BY <1>2, <1>3
        DEF Total, PrefixSums, WithdrawalVault!Total, WithdrawalVault!PrefixSums

LEMMA DepositVaultStep ==
  ASSUME EscrowInvariant, EscrowStep("deposit")
  PROVE  [DepositVault!Next]_DepositVault!vars
<1>1. /\ Escrowed("deposit") = Shares(requests, "deposit")
      /\ Escrowed("deposit")' = Shares(requests', "deposit")
  BY EscrowedIsShares
<1>2. CASE Received("deposit")
  BY <1>2 DEF Received, DepositVault!Next, DepositVault!Receive, NothingIncoming
<1>3. ASSUME NEW k \in Keys, Opened("deposit", k)
      PROVE  DepositVault!Open(k)
  BY <1>1, <1>3, DepositVaultOwes
     DEF Opened, DepositVault!Open, DepositVault!Unowned, NothingIncoming
<1>4. ASSUME NEW k \in Keys, NEW how \in {"executed", "cancelled"}, Settled("deposit", k, how)
      PROVE  DepositVault!Settle(k, how)
  <2>1. DepositVault!Complete(Escrowed("deposit")[k])
    <3>1. \A t \in Tokens : balance'["deposit"][t] = balance["deposit"][t] + NothingIncoming[t]
                                                - Escrowed("deposit")[k][t]
      <4> TAKE t \in Tokens
      <4>1. balance["deposit"][t] \in Nat
        BY DEF EscrowInvariant, VaultInvariant, Vaults
      <4>2. Shares(requests, "deposit")[k][t] \in Nat
        <5>1. requests[k] \in Request
          BY DEF EscrowInvariant, VaultInvariant
        <5> QED BY <5>1, DueNat DEF Shares
      <4>3. balance'["deposit"][t] = balance["deposit"][t] - Shares(requests, "deposit")[k][t]
        BY <1>4 DEF Settled
      <4>4. NothingIncoming[t] = 0
        BY DEF NothingIncoming
      <4> QED BY <1>1, <4>1, <4>2, <4>3, <4>4
    <3> QED BY <3>1 DEF DepositVault!Complete, DepositVault!Nothing, NothingIncoming
  <2> QED BY <1>1, <1>4, <2>1 DEF Settled, DepositVault!Settle, DepositVault!Nothing
<1>5. CASE Untouched("deposit")
  BY <1>1, <1>5 DEF Untouched, DepositVault!vars, NothingIncoming
<1> QED BY <1>2, <1>3, <1>4, <1>5
        DEF EscrowStep, DepositVault!Next, DepositVault!Requests

LEMMA WithdrawalVaultStep ==
  ASSUME EscrowInvariant, EscrowStep("withdrawal")
  PROVE  [WithdrawalVault!Next]_WithdrawalVault!vars
<1>1. /\ Escrowed("withdrawal") = Shares(requests, "withdrawal")
      /\ Escrowed("withdrawal")' = Shares(requests', "withdrawal")
  BY EscrowedIsShares
<1>2. CASE Received("withdrawal")
  BY <1>2 DEF Received, WithdrawalVault!Next, WithdrawalVault!Receive, NothingIncoming
<1>3. ASSUME NEW k \in Keys, Opened("withdrawal", k)
      PROVE  WithdrawalVault!Open(k)
  BY <1>1, <1>3, WithdrawalVaultOwes
     DEF Opened, WithdrawalVault!Open, WithdrawalVault!Unowned, NothingIncoming
<1>4. ASSUME NEW k \in Keys, NEW how \in {"executed", "cancelled"}, Settled("withdrawal", k, how)
      PROVE  WithdrawalVault!Settle(k, how)
  <2>1. WithdrawalVault!Complete(Escrowed("withdrawal")[k])
    <3>1. \A t \in Tokens : balance'["withdrawal"][t] = balance["withdrawal"][t] + NothingIncoming[t]
                                                - Escrowed("withdrawal")[k][t]
      <4> TAKE t \in Tokens
      <4>1. balance["withdrawal"][t] \in Nat
        BY DEF EscrowInvariant, VaultInvariant, Vaults
      <4>2. Shares(requests, "withdrawal")[k][t] \in Nat
        <5>1. requests[k] \in Request
          BY DEF EscrowInvariant, VaultInvariant
        <5> QED BY <5>1, DueNat DEF Shares
      <4>3. balance'["withdrawal"][t] = balance["withdrawal"][t] - Shares(requests, "withdrawal")[k][t]
        BY <1>4 DEF Settled
      <4>4. NothingIncoming[t] = 0
        BY DEF NothingIncoming
      <4> QED BY <1>1, <4>1, <4>2, <4>3, <4>4
    <3> QED BY <3>1 DEF WithdrawalVault!Complete, WithdrawalVault!Nothing, NothingIncoming
  <2> QED BY <1>1, <1>4, <2>1 DEF Settled, WithdrawalVault!Settle, WithdrawalVault!Nothing
<1>5. CASE Untouched("withdrawal")
  BY <1>1, <1>5 DEF Untouched, WithdrawalVault!vars, NothingIncoming
<1> QED BY <1>2, <1>3, <1>4, <1>5
        DEF EscrowStep, WithdrawalVault!Next, WithdrawalVault!Requests

\* The deposit vault is an escrow, for any number of deposits and any tokens: a
\* deposit takes its tokens from those nobody owns, and exactly these leave the
\* vault, once, into the market or back to the account.
THEOREM EscrowOfDeposits == Spec => DepositsAreEscrowed
<1>1. Init => DepositVault!Init
  BY EscrowsStart
     DEF DepositVault!Init, DepositVault!Requests, DepositVault!Nothing, NothingIncoming
<1>2. EscrowInvariant /\ [Next]_vars => [DepositVault!Next]_DepositVault!vars
  BY StepEscrows, DepositVaultStep
<1> QED BY <1>1, <1>2, Escrowing, PTL DEF Spec, DepositsAreEscrowed, DepositVault!Spec

\* The withdrawal vault is an escrow of the market tokens that are to be burnt:
\* exactly what came with a withdrawal is burnt or given back, once.
THEOREM EscrowOfWithdrawals == Spec => WithdrawalsAreEscrowed
<1>1. Init => WithdrawalVault!Init
  BY EscrowsStart
     DEF WithdrawalVault!Init, WithdrawalVault!Requests, WithdrawalVault!Nothing, NothingIncoming
<1>2. EscrowInvariant /\ [Next]_vars => [WithdrawalVault!Next]_WithdrawalVault!vars
  BY StepEscrows, WithdrawalVaultStep
<1> QED BY <1>1, <1>2, Escrowing, PTL DEF Spec, WithdrawalsAreEscrowed, WithdrawalVault!Spec

----------------------------------------------------------------------------
(* Arithmetic *)

LEMMA PrecisionPositive == Precision \in Nat /\ Precision > 0
BY ConstantsAssumption

\* A factor of at most one takes at most all.
LEMMA ApplyFactorBounds ==
  ASSUME NEW n \in Nat, NEW factor \in 0..Precision
  PROVE  ApplyFactor(n, factor) \in Nat /\ ApplyFactor(n, factor) <= n
<1>1. n * factor \in Nat
  BY PrecisionPositive, TimesNat
<1>2. factor * n <= Precision * n
  BY PrecisionPositive, TimesMonotone
<1>3. n * factor <= Precision * n
  BY <1>2, PrecisionPositive
<1> QED BY <1>1, <1>3, DivNat, DivAtMost, PrecisionPositive DEF ApplyFactor

LEMMA ApplyFactorInt ==
  ASSUME NEW n \in Int, NEW factor \in Nat
  PROVE  ApplyFactor(n, factor) \in Int
<1>1. n * factor \in Int
  OBVIOUS
<1> QED BY <1>1, DivInt, PrecisionPositive DEF ApplyFactor

LEMMA RoundUpDivisionNat ==
  ASSUME NEW n \in Nat, NEW d \in Nat, d > 0
  PROVE  RoundUpDivision(n, d) \in Nat
<1>1. n + d - 1 \in Nat
  OBVIOUS
<1> QED BY <1>1, DivNat DEF RoundUpDivision

LEMMA SignedMulDivInt ==
  ASSUME NEW n \in Int, NEW a \in Nat, NEW d \in Nat, d > 0
  PROVE  SignedMulDiv(n, a, d) \in Int /\ (n <= 0 => SignedMulDiv(n, a, d) <= 0)
<1>1. n * a \in Int /\ - n * a \in Int
  OBVIOUS
<1>2. CASE n >= 0
  <2>1. n = 0 => n * a = 0
    OBVIOUS
  <2>2. (n * a) \div d \in Int /\ (n = 0 => (n * a) \div d = 0)
    BY <1>1, <2>1, DivInt
  <2> QED BY <1>2, <2>2 DEF SignedMulDiv
<1>3. CASE n < 0
  <2>1. - n * a \in Nat
    BY <1>3, TimesNat
  <2>2. (- n * a) \div d \in Nat
    BY <2>1, DivNat
  <2> QED BY <1>3, <2>2 DEF SignedMulDiv
<1> QED BY <1>2, <1>3

LEMMA MinOfInt ==
  ASSUME NEW x \in Int, NEW y \in Int
  PROVE  /\ MinOf(x, y) \in Int /\ MinOf(x, y) <= x /\ MinOf(x, y) <= y
         /\ MinOf(x, y) = x \/ MinOf(x, y) = y
BY DEF MinOf

LEMMA MaxOfInt ==
  ASSUME NEW x \in Int, NEW y \in Int
  PROVE  /\ MaxOf(x, y) \in Int /\ MaxOf(x, y) >= x /\ MaxOf(x, y) >= y
         /\ MaxOf(x, y) = x \/ MaxOf(x, y) = y
BY DEF MaxOf

----------------------------------------------------------------------------
(* Prices and values *)

LEMMA ConditionFields ==
  ASSUME NEW c \in Conditions, NEW t \in PoolTokens
  PROVE  /\ c.price[t].min \in Nat /\ c.price[t].min > 0
         /\ c.price[t].max \in Nat /\ c.price[t].max > 0
         /\ c.openInterest[t].usd \in Nat /\ c.openInterest[t].tokens \in Nat
         /\ c.borrowingFees \in Nat
         /\ c.positionImpactPool \in Nat
<1>1. c.price[t] \in Price /\ c.openInterest[t] \in [usd : Nat, tokens : Nat]
      /\ c.borrowingFees \in Nat /\ c.positionImpactPool \in Nat
  BY ConditionsAssumption
<1> QED BY <1>1 DEF Price

LEMMA PickPriceNat ==
  ASSUME NEW c \in Conditions, NEW t \in PoolTokens, NEW maximize \in BOOLEAN
  PROVE  PickPrice(c.price[t], maximize) \in Nat /\ PickPrice(c.price[t], maximize) > 0
BY ConditionFields DEF PickPrice

LEMMA MidPricePositive ==
  ASSUME NEW c \in Conditions, NEW t \in PoolTokens
  PROVE  MidPrice(c.price[t]) \in Nat /\ MidPrice(c.price[t]) > 0
<1> DEFINE a == c.price[t].max
           b == c.price[t].min
<1>1. a \in Nat /\ b \in Nat /\ a > 0 /\ b > 0
  BY ConditionFields
<1>2. MidPrice(c.price[t]) = (a + b) \div 2
  BY DEF MidPrice
<1> HIDE DEF a, b
<1> QED BY <1>1, <1>2

LEMMA LongShort == Long \in PoolTokens /\ Short \in PoolTokens /\ Long # Short
BY ConstantsAssumption DEF PoolTokens

LEMMA OppositeToken ==
  ASSUME NEW t \in PoolTokens
  PROVE  Opposite(t) \in PoolTokens /\ Opposite(t) # t
BY LongShort DEF Opposite, PoolTokens

LEMMA MarketFields ==
  ASSUME NEW m \in Market
  PROVE  /\ m.pool \in [PoolTokens -> Nat] /\ m.swapImpactPool \in [PoolTokens -> Nat]
         /\ m.claimableFees \in [PoolTokens -> Nat] /\ m.claimableUiFees \in [PoolTokens -> Nat]
         /\ m.balance \in [PoolTokens -> Nat] /\ m.supply \in Nat /\ m.locked \in Nat
BY DEF Market

LEMMA PoolUsdNat ==
  ASSUME NEW m \in Market, NEW c \in Conditions, NEW t \in PoolTokens, NEW maximize \in BOOLEAN
  PROVE  PoolUsd(m, c, t, maximize) \in Nat
<1>1. m.pool[t] \in Nat
  BY MarketFields
<1> QED BY <1>1, PickPriceNat, TimesNat DEF PoolUsd

LEMMA PnlInt ==
  ASSUME NEW c \in Conditions, NEW t \in PoolTokens, NEW maximize \in BOOLEAN
  PROVE  Pnl(c, t, maximize) \in Int
<1> DEFINE oi == c.openInterest[t]
           price == PickPrice(c.price[Long], IF t = Long THEN maximize ELSE ~ maximize)
<1>1. oi.usd \in Nat /\ oi.tokens \in Nat
  BY ConditionFields
<1>2. price \in Nat
  BY PickPriceNat, LongShort
<1>3. oi.tokens * price \in Nat
  BY <1>1, <1>2, TimesNat
<1>4. Pnl(c, t, maximize) =
        CASE oi.usd = 0 \/ oi.tokens = 0 -> 0
          [] oi.usd # 0 /\ oi.tokens # 0 /\ t = Long -> oi.tokens * price - oi.usd
          [] OTHER -> oi.usd - oi.tokens * price
  BY DEF Pnl
<1> HIDE DEF oi, price
<1> QED BY <1>1, <1>3, <1>4

LEMMA CappedPnlInt ==
  ASSUME NEW m \in Market, NEW c \in Conditions, NEW t \in PoolTokens, NEW type \in Vaults,
         NEW maximize \in BOOLEAN
  PROVE  CappedPnl(m, c, t, type, maximize) \in Int
<1>1. Pnl(c, t, ~ maximize) \in Int
  BY PnlInt
<1>2. MaxPnlFactor[type] \in Nat
  BY ConstantsAssumption
<1>3. ApplyFactor(PoolUsd(m, c, t, maximize), MaxPnlFactor[type]) \in Int
  BY <1>2, PoolUsdNat, ApplyFactorInt
<1> QED BY <1>1, <1>3, MinOfInt DEF CappedPnl

LEMMA PoolValueInt ==
  ASSUME NEW m \in Market, NEW c \in Conditions, NEW type \in Vaults, NEW maximize \in BOOLEAN
  PROVE  PoolValue(m, c, type, maximize) \in Int
<1> DEFINE a == PoolUsd(m, c, Long, maximize)
           b == PoolUsd(m, c, Short, maximize)
           p == CappedPnl(m, c, Long, type, maximize)
           q == CappedPnl(m, c, Short, type, maximize)
           i == c.positionImpactPool * PickPrice(c.price[Long], ~ maximize)
<1>1. a \in Int /\ b \in Int
  BY PoolUsdNat, LongShort
<1>2. p \in Int /\ q \in Int
  BY CappedPnlInt, LongShort
<1>3. i \in Int
  <2>1. c.positionImpactPool \in Nat /\ PickPrice(c.price[Long], ~ maximize) \in Nat
    BY ConditionFields, PickPriceNat, LongShort
  <2> QED BY <2>1, TimesNat
<1>4. c.borrowingFees \in Int
  BY ConditionFields, LongShort
<1>5. PoolValue(m, c, type, maximize) = a + b + c.borrowingFees - (p + q) - i
  BY DEF PoolValue, PoolValueLess
<1> HIDE DEF a, b, p, q, i
<1> QED BY <1>1, <1>2, <1>3, <1>4, <1>5

LEMMA UsdToMarketTokenAmountNat ==
  ASSUME NEW usd \in Nat, NEW poolValue \in Nat, NEW supply \in Nat,
         supply > 0 => poolValue > 0
  PROVE  UsdToMarketTokenAmount(usd, poolValue, supply) \in Nat
<1>1. supply * usd \in Nat
  BY TimesNat
<1>2. CASE supply = 0
  <2>1. FloatToWeiDivisor \in Nat /\ FloatToWeiDivisor > 0
    BY ConstantsAssumption
  <2>2. poolValue + usd \in Nat
    OBVIOUS
  <2>3. FloatToWei(poolValue + usd) \in Nat
    BY <2>1, <2>2, DivNat DEF FloatToWei
  <2> QED BY <1>2, <2>3 DEF UsdToMarketTokenAmount
<1>3. CASE supply > 0
  BY <1>1, <1>3, DivNat DEF UsdToMarketTokenAmount
<1> QED BY <1>2, <1>3

----------------------------------------------------------------------------
(* Fees and price impact *)

\* The four parts of an amount that is swapped or deposited.
LEMMA SwapFeesParts ==
  ASSUME NEW amount \in Nat, NEW positive \in BOOLEAN
  PROVE  LET fees == SwapFees(amount, positive) IN
         /\ fees.receiver \in Nat /\ fees.pool \in Nat /\ fees.ui \in Nat
         /\ fees.afterFees \in Nat
         /\ fees.receiver + fees.pool + fees.ui + fees.afterFees = amount
<1> DEFINE fee == ApplyFactor(amount, SwapFeeFactor[positive])
           forReceiver == ApplyFactor(fee, SwapFeeReceiverFactor)
           forUi == ApplyFactor(amount, UiFeeFactor)
<1>1. SwapFeeFactor[positive] \in 0..Precision /\ SwapFeeReceiverFactor \in 0..Precision
      /\ UiFeeFactor \in 0..Precision
  BY ConstantsAssumption
<1>2. fee \in Nat /\ forUi \in Nat
  BY <1>1, ApplyFactorBounds
<1>3. forReceiver \in Nat /\ forReceiver <= fee
  BY <1>1, <1>2, ApplyFactorBounds
<1>4. fee + forUi <= amount
  <2> DEFINE f == SwapFeeFactor[positive]
             u == UiFeeFactor
  <2>1. f \in Nat /\ u \in Nat /\ f + u <= Precision
    BY ConstantsAssumption
  <2>2. Precision * fee <= amount * f /\ Precision * forUi <= amount * u
    <3>1. amount * f \in Nat /\ amount * u \in Nat
      BY <2>1, TimesNat
    <3>2. fee = (amount * f) \div Precision /\ forUi = (amount * u) \div Precision
      BY DEF ApplyFactor
    <3> QED BY <3>1, <3>2, DivInt, PrecisionPositive
  <2> HIDE DEF fee, forUi, f, u
  <2>3. (f + u) * amount <= Precision * amount
    BY <2>1, TimesMonotone, PrecisionPositive
  <2>4. (f + u) * amount = amount * f + amount * u
    BY <2>1
  <2>5. Precision * (fee + forUi) = Precision * fee + Precision * forUi
    BY <1>2, PrecisionPositive
  <2>6. /\ Precision * fee \in Int /\ Precision * forUi \in Int /\ Precision * amount \in Int
        /\ amount * f \in Int /\ amount * u \in Int
    BY <1>2, <2>1, PrecisionPositive
  <2>7. Precision * (fee + forUi) <= Precision * amount
    BY <2>2, <2>3, <2>4, <2>5, <2>6
  <2> QED BY <1>2, <2>7, TimesCancel, PrecisionPositive
<1>5. SwapFees(amount, positive) = [receiver |-> forReceiver, pool |-> fee - forReceiver,
                                    ui |-> forUi, afterFees |-> amount - fee - forUi]
  BY DEF SwapFees
<1> HIDE DEF fee, forReceiver, forUi
<1> QED BY <1>2, <1>3, <1>4, <1>5

\* A positive impact is at most what the swap impact pool has.
LEMMA SwapImpactAmountBounds ==
  ASSUME NEW m \in Market, NEW c \in Conditions, NEW t \in PoolTokens, NEW usd \in Int
  PROVE  LET impactAmount == SwapImpactAmount(m, c, t, usd) IN
         /\ impactAmount \in Int
         /\ impactAmount <= m.swapImpactPool[t]
         /\ usd > 0 => impactAmount >= 0
         /\ usd <= 0 => impactAmount <= 0
<1>1. m.swapImpactPool[t] \in Nat
  BY MarketFields
<1>2. c.price[t].max \in Nat /\ c.price[t].max > 0 /\ c.price[t].min \in Nat /\ c.price[t].min > 0
  BY ConditionFields
<1>3. CASE usd > 0
  <2>1. usd \div c.price[t].max \in Nat
    BY <1>2, <1>3, DivNat
  <2> DEFINE x == usd \div c.price[t].max
  <2>2. SwapImpactAmount(m, c, t, usd) = MinOf(x, m.swapImpactPool[t])
    BY <1>3 DEF SwapImpactAmount
  <2> HIDE DEF x
  <2>3. x \in Nat
    BY <2>1 DEF x
  <2> QED BY <1>1, <1>3, <2>2, <2>3 DEF MinOf
<1>4. CASE usd <= 0
  <2>1. RoundUpDivision(- usd, c.price[t].min) \in Nat
    BY <1>2, <1>4, RoundUpDivisionNat
  <2> QED BY <1>1, <1>4, <2>1 DEF SwapImpactAmount
<1> QED BY <1>3, <1>4

----------------------------------------------------------------------------
(* What executions do to the accounts *)

\* What the market holds of token t beyond its accounts.
Surplus(m, t) == m.balance[t] - ExpectedMinTokenBalance(m, t)

LEMMA SurplusInt ==
  ASSUME NEW m \in Market, NEW t \in PoolTokens
  PROVE  /\ ExpectedMinTokenBalance(m, t) \in Nat
         /\ Surplus(m, t) \in Int
         /\ Surplus(m, t) = m.balance[t] - m.pool[t] - m.swapImpactPool[t]
                              - m.claimableFees[t] - m.claimableUiFees[t]
BY MarketFields DEF Surplus, ExpectedMinTokenBalance

\* Accounts that may be overdrawn while an execution is being computed.
AnyMarket ==
  [pool : [PoolTokens -> Int], swapImpactPool : [PoolTokens -> Int],
   claimableFees : [PoolTokens -> Int], claimableUiFees : [PoolTokens -> Int],
   balance : [PoolTokens -> Int], supply : Int, locked : Int]

LEMMA MarketIsAny == Market \subseteq AnyMarket
BY DEF Market, AnyMarket

LEMMA AnyMarketFields ==
  ASSUME NEW m \in AnyMarket, NEW t \in PoolTokens
  PROVE  /\ m.pool[t] \in Int /\ m.swapImpactPool[t] \in Int /\ m.claimableFees[t] \in Int
         /\ m.claimableUiFees[t] \in Int /\ m.balance[t] \in Int
         /\ m.supply \in Int /\ m.locked \in Int
BY DEF AnyMarket

LEMMA AnyMarketIsMarket ==
  ASSUME NEW m \in AnyMarket, m.supply >= 0, m.locked >= 0,
         \A t \in PoolTokens : /\ m.pool[t] >= 0 /\ m.swapImpactPool[t] >= 0
                               /\ m.claimableFees[t] >= 0 /\ m.claimableUiFees[t] >= 0
                               /\ m.balance[t] >= 0
  PROVE  m \in Market
BY DEF Market, AnyMarket

LEMMA ChargedBooks ==
  ASSUME NEW m \in AnyMarket, NEW t \in PoolTokens, NEW fees,
         fees.receiver \in Int, fees.ui \in Int
  PROVE  LET n == Charged(m, t, fees) IN
         /\ n \in AnyMarket
         /\ n.pool = m.pool /\ n.swapImpactPool = m.swapImpactPool /\ n.balance = m.balance
         /\ n.supply = m.supply /\ n.locked = m.locked
         /\ \A u \in PoolTokens :
              /\ n.claimableFees[u] = m.claimableFees[u] + IF u = t THEN fees.receiver ELSE 0
              /\ n.claimableUiFees[u] = m.claimableUiFees[u] + IF u = t THEN fees.ui ELSE 0
<1> DEFINE f == [m.claimableFees EXCEPT ![t] = @ + fees.receiver]
           g == [m.claimableUiFees EXCEPT ![t] = @ + fees.ui]
<1>1. Charged(m, t, fees) = [m EXCEPT !.claimableFees = f, !.claimableUiFees = g]
  BY DEF Charged, AnyMarket
<1>2. f \in [PoolTokens -> Int] /\ g \in [PoolTokens -> Int]
  BY DEF AnyMarket
<1>3. \A u \in PoolTokens :
        /\ f[u] = m.claimableFees[u] + IF u = t THEN fees.receiver ELSE 0
        /\ g[u] = m.claimableUiFees[u] + IF u = t THEN fees.ui ELSE 0
  BY DEF AnyMarket
<1> HIDE DEF f, g
<1> QED BY <1>1, <1>2, <1>3 DEF AnyMarket

LEMMA ImpactAppliedBooks ==
  ASSUME NEW m \in AnyMarket, NEW t \in PoolTokens, NEW impactAmount \in Int,
         impactAmount <= m.swapImpactPool[t]
  PROVE  LET n == ImpactApplied(m, t, impactAmount) IN
         /\ n \in AnyMarket
         /\ n.pool = m.pool /\ n.claimableFees = m.claimableFees
         /\ n.claimableUiFees = m.claimableUiFees /\ n.balance = m.balance
         /\ n.supply = m.supply /\ n.locked = m.locked
         /\ \A u \in PoolTokens :
              n.swapImpactPool[u] = m.swapImpactPool[u] - IF u = t THEN impactAmount ELSE 0
BY DEF ImpactApplied, AnyMarket, MaxOf

LEMMA PoolChangedBooks ==
  ASSUME NEW m \in AnyMarket, NEW t \in PoolTokens, NEW delta \in Int, NEW otherDelta \in Int
  PROVE  LET n == PoolChanged(m, t, delta, otherDelta) IN
         /\ n \in AnyMarket
         /\ n.swapImpactPool = m.swapImpactPool /\ n.claimableFees = m.claimableFees
         /\ n.claimableUiFees = m.claimableUiFees /\ n.balance = m.balance
         /\ n.supply = m.supply /\ n.locked = m.locked
         /\ \A u \in PoolTokens :
              n.pool[u] = m.pool[u] + IF u = t THEN delta ELSE otherDelta
<1>1. Opposite(t) \in PoolTokens /\ Opposite(t) # t
  BY OppositeToken
<1>2. \A u \in PoolTokens : u = t \/ u = Opposite(t)
  BY DEF PoolTokens, Opposite
<1> DEFINE f == [m.pool EXCEPT ![t] = @ + delta, ![Opposite(t)] = @ + otherDelta]
<1>3. PoolChanged(m, t, delta, otherDelta) = [m EXCEPT !.pool = f]
  BY <1>1 DEF PoolChanged, AnyMarket
<1>4. f \in [PoolTokens -> Int]
  BY <1>1 DEF AnyMarket
<1>5. \A u \in PoolTokens : f[u] = m.pool[u] + IF u = t THEN delta ELSE otherDelta
  BY <1>1, <1>2 DEF AnyMarket
<1> HIDE DEF f
<1> QED BY <1>3, <1>4, <1>5 DEF AnyMarket

LEMMA MintedBooks ==
  ASSUME NEW m \in AnyMarket, NEW k \in Int
  PROVE  LET n == Minted(m, k) IN
         /\ n \in AnyMarket
         /\ n.pool = m.pool /\ n.swapImpactPool = m.swapImpactPool
         /\ n.claimableFees = m.claimableFees /\ n.claimableUiFees = m.claimableUiFees
         /\ n.balance = m.balance /\ n.locked = m.locked
         /\ n.supply = m.supply + k
BY DEF Minted, AnyMarket

\* How an amount of token t enters the pool, and for how many market tokens:
\* what is deposited, what the pool keeps of the fees, and the bonus from the
\* swap impact pool.
EntersPool(m, n, c, t, amount, positive) ==
  \E deposited \in Nat, kept \in Nat, bonus \in Nat :
    /\ deposited + kept <= amount
    /\ ~ positive => bonus = 0
    /\ \A u \in PoolTokens : n.pool[u] = m.pool[u] + IF u = t THEN deposited + kept ELSE bonus
    /\ m.supply > 0 =>
         /\ PoolValue(m, c, "deposit", TRUE) > 0
         /\ PoolValue(m, c, "deposit", TRUE) * (n.supply - m.supply)
              <= m.supply * (deposited * c.price[t].min + bonus * c.price[Opposite(t)].max)

\* How tokens leave the pool for market tokens that are burnt.
LeavesPool(m, n, c, burnt, paid) ==
  \E output \in [PoolTokens -> Nat], kept \in [PoolTokens -> Nat], usd \in Nat :
    /\ \A t \in PoolTokens : /\ n.pool[t] = m.pool[t] - (output[t] - kept[t])
                             /\ kept[t] <= output[t] /\ paid[t] \in 0..output[t]
    /\ output[Long] * c.price[Long].max + output[Short] * c.price[Short].max <= usd
    /\ m.supply * usd <= PoolValue(m, c, "withdrawal", FALSE) * burnt

\* How one token is swapped for the other.
PassesPool(m, n, c, t) ==
  \E amountIn \in Nat, kept \in Nat, amountOut \in Nat :
    /\ n.pool[t] = m.pool[t] + amountIn + kept
    /\ n.pool[Opposite(t)] = m.pool[Opposite(t)] - amountOut
    /\ amountOut * c.price[Opposite(t)].max <= amountIn * c.price[t].min

LEMMA SharesAtMost ==
  ASSUME NEW usd \in Nat, NEW poolValue \in Nat, NEW supply \in Nat, supply > 0, poolValue > 0
  PROVE  poolValue * UsdToMarketTokenAmount(usd, poolValue, supply) <= supply * usd
<1>1. supply * usd \in Nat
  BY TimesNat
<1>2. UsdToMarketTokenAmount(usd, poolValue, supply) = (supply * usd) \div poolValue
  BY DEF UsdToMarketTokenAmount
<1> QED BY <1>1, <1>2, DivInt

\* One amount of a deposit is booked, with its fees and its impact, to the token.
LEMMA DepositOfBooks ==
  ASSUME NEW m \in Market, NEW c \in Conditions, NEW t \in PoolTokens, NEW amount \in Nat,
         NEW i \in Int, DepositOf(m, c, t, amount, i).valid
  PROVE  LET result == DepositOf(m, c, t, amount, i) IN
         /\ result.minted \in Nat
         /\ result.after \in Market
         /\ \A u \in PoolTokens :
              Surplus(result.after, u) = Surplus(m, u) - IF u = t THEN amount ELSE 0
         /\ result.after.supply = m.supply + result.minted
         /\ EntersPool(m, result.after, c, t, amount, i > 0)
<1> DEFINE forPositiveImpact == i > 0
           fees == SwapFees(amount, forPositiveImpact)
           poolValue == PoolValue(m, c, "deposit", TRUE)
           impactUsd == IF m.supply = 0 THEN MinOf(0, i) ELSE i
           impactToken == IF impactUsd > 0 THEN Opposite(t) ELSE t
           impactAmount == SwapImpactAmount(m, c, impactToken, impactUsd)
           bonus == MaxOf(0, impactAmount)
           deposited == fees.afterFees + MinOf(0, impactAmount)
           mintedForBonus ==
             IF impactUsd > 0
               THEN UsdToMarketTokenAmount(bonus * c.price[impactToken].max, poolValue, m.supply)
               ELSE 0
           minted == UsdToMarketTokenAmount(deposited * c.price[t].min, poolValue, m.supply)
                       + mintedForBonus
           charged == ImpactApplied(Charged(m, t, fees), impactToken, impactAmount)
           after == Minted(PoolChanged(charged, t, deposited + fees.pool, bonus), minted)
           result == DepositOf(m, c, t, amount, i)
<1>1. /\ fees.receiver \in Nat /\ fees.pool \in Nat /\ fees.ui \in Nat /\ fees.afterFees \in Nat
      /\ fees.receiver + fees.pool + fees.ui + fees.afterFees = amount
  <2>1. forPositiveImpact \in BOOLEAN
    OBVIOUS
  <2> HIDE DEF forPositiveImpact
  <2> QED BY <2>1, SwapFeesParts
<1>2. poolValue \in Int
  BY PoolValueInt
<1>3. impactUsd \in Int
  BY MinOfInt
<1>4. impactToken \in PoolTokens /\ Opposite(t) \in PoolTokens /\ Opposite(t) # t
  BY OppositeToken
<1>5. /\ impactAmount \in Int /\ impactAmount <= m.swapImpactPool[impactToken]
      /\ impactUsd > 0 => impactAmount >= 0
      /\ impactUsd <= 0 => impactAmount <= 0
  BY <1>3, <1>4, SwapImpactAmountBounds
<1>6. result = IF poolValue < 0 \/ (poolValue = 0 /\ m.supply > 0) \/ deposited < 0
                 THEN Invalid(m)
                 ELSE [valid |-> \A u \in {t, impactToken} :
                                   PoolAmountValid(after, u) /\ PoolAmountValidForDeposit(after, u),
                       minted |-> minted, after |-> after]
  BY DEF DepositOf
<1>7. result.valid
  OBVIOUS
<1> HIDE DEF fees, poolValue, impactUsd, impactToken, impactAmount, result
<1>8. /\ ~ (poolValue < 0 \/ (poolValue = 0 /\ m.supply > 0) \/ deposited < 0)
      /\ result.minted = minted /\ result.after = after
  <2> HIDE DEF deposited, minted, after
  <2> QED BY <1>6, <1>7 DEF Invalid
<1>9. m.supply \in Nat /\ deposited \in Nat /\ bonus \in Nat /\ poolValue \in Nat
      /\ (m.supply > 0 => poolValue > 0)
  <2>1. deposited \in Int /\ bonus \in Nat
    <3>1. MinOf(0, impactAmount) \in Int /\ MaxOf(0, impactAmount) \in Nat
      BY <1>5 DEF MinOf, MaxOf
    <3> QED BY <1>1, <3>1
  <2> HIDE DEF deposited, bonus
  <2> QED BY <1>2, <1>8, <2>1, MarketFields
<1>10. minted \in Nat
  <2>1. c.price[t].min \in Nat /\ c.price[impactToken].max \in Nat
    BY <1>4, ConditionFields
  <2>2. deposited * c.price[t].min \in Nat /\ bonus * c.price[impactToken].max \in Nat
    <3> HIDE DEF deposited, bonus
    <3> QED BY <1>9, <2>1, TimesNat
  <2>3. /\ UsdToMarketTokenAmount(deposited * c.price[t].min, poolValue, m.supply) \in Nat
        /\ UsdToMarketTokenAmount(bonus * c.price[impactToken].max, poolValue, m.supply) \in Nat
    <3> HIDE DEF deposited, bonus
    <3> QED BY <1>9, <2>2, UsdToMarketTokenAmountNat
  <2> HIDE DEF deposited, bonus
  <2> QED BY <2>3
<1>11. /\ i <= 0 => bonus = 0
       /\ bonus > 0 => impactUsd > 0 /\ impactToken = Opposite(t)
       /\ m.supply > 0 =>
            poolValue * minted <= m.supply * (deposited * c.price[t].min + bonus * c.price[Opposite(t)].max)
  <2>1. /\ i <= 0 => bonus = 0
        /\ bonus > 0 => impactUsd > 0 /\ impactToken = Opposite(t)
    BY <1>3, <1>5 DEF MinOf, MaxOf, impactUsd, impactToken
  <2>2. ASSUME m.supply > 0
        PROVE  poolValue * minted <= m.supply * (deposited * c.price[t].min + bonus * c.price[Opposite(t)].max)
    <3> DEFINE x == deposited * c.price[t].min
               y == bonus * c.price[impactToken].max
               z == bonus * c.price[Opposite(t)].max
               mx == UsdToMarketTokenAmount(x, poolValue, m.supply)
               my == UsdToMarketTokenAmount(y, poolValue, m.supply)
    <3>1. x \in Nat /\ y \in Nat /\ z \in Nat /\ (bonus = 0 \/ y = z) /\ (bonus = 0 => y = 0 /\ z = 0)
      <4>1. /\ c.price[t].min \in Nat /\ c.price[impactToken].max \in Nat
            /\ c.price[Opposite(t)].max \in Nat
        BY <1>4, ConditionFields
      <4>2. bonus = 0 \/ impactToken = Opposite(t)
        <5> HIDE DEF bonus
        <5> QED BY <1>9, <2>1
      <4> HIDE DEF deposited, bonus
      <4>3. x \in Nat /\ y \in Nat /\ z \in Nat
        BY <1>9, <4>1, TimesNat
      <4>4. bonus = 0 => y = 0 /\ z = 0
        BY <4>1
      <4>5. bonus = 0 \/ y = z
        BY <4>2
      <4> QED BY <4>3, <4>4, <4>5
    <3>2. minted = mx + IF impactUsd > 0 THEN my ELSE 0
      OBVIOUS
    <3> HIDE DEF deposited, bonus, minted, x, y, z
    <3>3. mx \in Nat /\ my \in Nat /\ poolValue * mx <= m.supply * x /\ poolValue * my <= m.supply * y
      <4>1. poolValue > 0
        BY <1>9, <2>2
      <4> QED BY <1>9, <2>2, <3>1, <4>1, SharesAtMost, UsdToMarketTokenAmountNat
    <3> HIDE DEF mx, my
    <3>4. y = z /\ (impactUsd > 0 \/ z = 0)
      BY <1>9, <2>1, <3>1
    <3>5. m.supply * z \in Nat
      BY <1>9, <3>1, TimesNat
    <3>6. m.supply * (x + z) = m.supply * x + m.supply * z
      BY <1>9, <3>1
    <3>7. CASE impactUsd > 0
      <4>1. poolValue * minted = poolValue * mx + poolValue * my
        BY <1>9, <3>2, <3>3, <3>7
      <4>2. poolValue * mx \in Int /\ poolValue * my \in Int /\ m.supply * x \in Int
        BY <1>9, <3>1, <3>3
      <4>3. poolValue * mx + poolValue * my <= m.supply * x + m.supply * z
        BY <3>3, <3>4, <3>5, <4>2
      <4> QED BY <3>6, <4>1, <4>3 DEF x, z
    <3>8. CASE ~ (impactUsd > 0)
      <4>1. minted = mx
        BY <3>2, <3>3, <3>8
      <4>2. poolValue * mx \in Int /\ m.supply * x \in Int
        BY <1>9, <3>1, <3>3
      <4>3. poolValue * mx <= m.supply * x + m.supply * z
        BY <3>3, <3>5, <4>2
      <4> QED BY <3>6, <4>1, <4>3 DEF x, z
    <3> QED BY <3>7, <3>8
  <2> HIDE DEF bonus, deposited, minted
  <2> QED BY <2>1, <2>2
<1>12. /\ after \in AnyMarket
       /\ after.balance = m.balance /\ after.locked = m.locked /\ after.supply = m.supply + minted
       /\ \A u \in PoolTokens :
            /\ after.pool[u] = m.pool[u] + IF u = t THEN deposited + fees.pool ELSE bonus
            /\ after.swapImpactPool[u]
                 = m.swapImpactPool[u] - IF u = impactToken THEN impactAmount ELSE 0
            /\ after.claimableFees[u] = m.claimableFees[u] + IF u = t THEN fees.receiver ELSE 0
            /\ after.claimableUiFees[u] = m.claimableUiFees[u] + IF u = t THEN fees.ui ELSE 0
  <2> HIDE DEF deposited, bonus, minted
  <2> DEFINE m1 == Charged(m, t, fees)
             m2 == ImpactApplied(m1, impactToken, impactAmount)
             m3 == PoolChanged(m2, t, deposited + fees.pool, bonus)
  <2>1. m \in AnyMarket
    BY MarketIsAny
  <2>2. /\ m1 \in AnyMarket
        /\ m1.pool = m.pool /\ m1.swapImpactPool = m.swapImpactPool /\ m1.balance = m.balance
        /\ m1.supply = m.supply /\ m1.locked = m.locked
        /\ \A u \in PoolTokens :
             /\ m1.claimableFees[u] = m.claimableFees[u] + IF u = t THEN fees.receiver ELSE 0
             /\ m1.claimableUiFees[u] = m.claimableUiFees[u] + IF u = t THEN fees.ui ELSE 0
    BY <1>1, <2>1, ChargedBooks
  <2> HIDE DEF m1
  <2>3. /\ m2 \in AnyMarket
        /\ m2.pool = m1.pool /\ m2.claimableFees = m1.claimableFees
        /\ m2.claimableUiFees = m1.claimableUiFees /\ m2.balance = m1.balance
        /\ m2.supply = m1.supply /\ m2.locked = m1.locked
        /\ \A u \in PoolTokens :
             m2.swapImpactPool[u] = m1.swapImpactPool[u] - IF u = impactToken THEN impactAmount ELSE 0
    BY <1>4, <1>5, <2>2, ImpactAppliedBooks
  <2> HIDE DEF m2
  <2>4. /\ m3 \in AnyMarket
        /\ m3.swapImpactPool = m2.swapImpactPool /\ m3.claimableFees = m2.claimableFees
        /\ m3.claimableUiFees = m2.claimableUiFees /\ m3.balance = m2.balance
        /\ m3.supply = m2.supply /\ m3.locked = m2.locked
        /\ \A u \in PoolTokens :
             m3.pool[u] = m2.pool[u] + IF u = t THEN deposited + fees.pool ELSE bonus
    <3>1. deposited + fees.pool \in Int /\ bonus \in Int
      BY <1>1, <1>9
    <3> QED BY <2>3, <3>1, PoolChangedBooks
  <2> HIDE DEF m3
  <2>5. after = Minted(m3, minted)
    BY DEF m1, m2, m3
  <2>6. /\ Minted(m3, minted) \in AnyMarket
        /\ Minted(m3, minted).pool = m3.pool
        /\ Minted(m3, minted).swapImpactPool = m3.swapImpactPool
        /\ Minted(m3, minted).claimableFees = m3.claimableFees
        /\ Minted(m3, minted).claimableUiFees = m3.claimableUiFees
        /\ Minted(m3, minted).balance = m3.balance /\ Minted(m3, minted).locked = m3.locked
        /\ Minted(m3, minted).supply = m3.supply + minted
    BY <1>10, <2>4, MintedBooks
  <2> HIDE DEF after
  <2> QED BY <2>2, <2>3, <2>4, <2>5, <2>6
<1> HIDE DEF after, minted
<1>13. after \in Market
  <2> HIDE DEF deposited, bonus
  <2>1. after.supply >= 0 /\ after.locked >= 0
    BY <1>10, <1>12, MarketFields
  <2>2. ASSUME NEW u \in PoolTokens
        PROVE  /\ after.pool[u] >= 0 /\ after.swapImpactPool[u] >= 0
               /\ after.claimableFees[u] >= 0 /\ after.claimableUiFees[u] >= 0
               /\ after.balance[u] >= 0
    <3>1. /\ m.pool[u] \in Nat /\ m.swapImpactPool[u] \in Nat /\ m.claimableFees[u] \in Nat
          /\ m.claimableUiFees[u] \in Nat /\ m.balance[u] \in Nat
      BY MarketFields
    <3> QED BY <1>1, <1>5, <1>9, <1>12, <3>1
  <2> QED BY <1>12, <2>1, <2>2, AnyMarketIsMarket
<1>14. ASSUME NEW u \in PoolTokens
       PROVE  Surplus(after, u) = Surplus(m, u) - IF u = t THEN amount ELSE 0
  <2>1. /\ m.pool[u] \in Nat /\ m.swapImpactPool[u] \in Nat /\ m.claimableFees[u] \in Nat
        /\ m.claimableUiFees[u] \in Nat /\ m.balance[u] \in Nat
    BY MarketFields
  <2>2. Surplus(after, u) = after.balance[u] - after.pool[u] - after.swapImpactPool[u]
                              - after.claimableFees[u] - after.claimableUiFees[u]
    BY <1>13, SurplusInt
  <2>3. Surplus(m, u) = m.balance[u] - m.pool[u] - m.swapImpactPool[u]
                              - m.claimableFees[u] - m.claimableUiFees[u]
    BY SurplusInt
  <2> DEFINE loss == MinOf(0, impactAmount)
  <2>4. deposited = fees.afterFees + loss /\ loss \in Int
    BY <1>5, MinOfInt
  <2>5. /\ u = t /\ u # impactToken => loss = 0
        /\ u = t /\ u = impactToken => impactAmount = loss
        /\ u # t /\ u = impactToken => impactAmount = bonus
        /\ u # t /\ u # impactToken => bonus = 0
    <3>1. impactToken # t => impactUsd > 0
      BY DEF impactToken
    <3>2. impactToken = t => ~ (impactUsd > 0)
      BY <1>4 DEF impactToken
    <3>3. u # t /\ u # impactToken => impactToken = t
      BY <1>4 DEF PoolTokens
    <3> QED BY <1>3, <1>5, <3>1, <3>2, <3>3 DEF MinOf, MaxOf
  <2> HIDE DEF deposited, bonus, loss
  <2>6. CASE u = t /\ u = impactToken
    BY <1>1, <1>5, <1>12, <2>1, <2>2, <2>3, <2>4, <2>5, <2>6
  <2>7. CASE u = t /\ u # impactToken
    BY <1>1, <1>12, <2>1, <2>2, <2>3, <2>4, <2>5, <2>7
  <2>8. CASE u # t
    BY <1>5, <1>9, <1>12, <2>1, <2>2, <2>3, <2>5, <2>8
  <2> QED BY <2>6, <2>7, <2>8
<1>15. EntersPool(m, after, c, t, amount, i > 0)
  <2>1. deposited + fees.pool <= amount
    <3>1. MinOf(0, impactAmount) \in Int /\ MinOf(0, impactAmount) <= 0
      BY <1>5 DEF MinOf
    <3> QED BY <1>1, <3>1
  <2>2. ~ (i > 0) => bonus = 0
    BY <1>11
  <2> HIDE DEF deposited, bonus
  <2>3. \A u \in PoolTokens : after.pool[u] = m.pool[u] + IF u = t THEN deposited + fees.pool ELSE bonus
    BY <1>12
  <2>4. after.supply - m.supply = minted
    BY <1>9, <1>10, <1>12
  <2>5. m.supply > 0 =>
          /\ poolValue > 0
          /\ poolValue * (after.supply - m.supply)
               <= m.supply * (deposited * c.price[t].min + bonus * c.price[Opposite(t)].max)
    BY <1>9, <1>11, <2>4
  <2> QED BY <1>1, <1>9, <2>1, <2>2, <2>3, <2>5 DEF EntersPool, poolValue
<1> QED
  <2>1. result.minted \in Nat /\ result.after \in Market
    BY <1>8, <1>10, <1>13
  <2>3. result.after.supply = m.supply + result.minted /\ EntersPool(m, result.after, c, t, amount, i > 0)
    BY <1>8, <1>12, <1>15
  <2>2. \A u \in PoolTokens :
          Surplus(result.after, u) = Surplus(m, u) - IF u = t THEN amount ELSE 0
    BY <1>8, <1>14
  <2> QED BY <2>1, <2>2, <2>3 DEF result

\* The share of the price impact that one amount of a deposit bears.
LEMMA ShareInt ==
  ASSUME NEW c \in Conditions, NEW amount \in [PoolTokens -> Nat], NEW t \in PoolTokens,
         NEW i \in Int, amount[t] # 0
  PROVE  LET usd == [u \in PoolTokens |-> amount[u] * MidPrice(c.price[u])]
             share == SignedMulDiv(i, usd[t], usd[Long] + usd[Short]) IN
         share \in Int /\ (share > 0 => i > 0)
<1> DEFINE usd == [u \in PoolTokens |-> amount[u] * MidPrice(c.price[u])]
<1>1. ASSUME NEW u \in PoolTokens
      PROVE  usd[u] \in Nat /\ (amount[u] # 0 => usd[u] > 0)
  <2> DEFINE a == amount[u]
             p == MidPrice(c.price[u])
  <2>1. a \in Nat /\ p \in Nat /\ p >= 1 /\ usd[u] = a * p
    BY MidPricePositive
  <2> HIDE DEF a, p, usd
  <2>2. a * p \in Nat
    BY <2>1, TimesNat
  <2>3. a # 0 => 1 * p <= a * p
    BY <2>1, TimesMonotone
  <2> QED BY <2>1, <2>2, <2>3 DEF a
<1> HIDE DEF usd
<1>2. usd[t] \in Nat /\ usd[t] > 0 /\ usd[Long] \in Nat /\ usd[Short] \in Nat
  BY <1>1, LongShort
<1>3. usd[Long] + usd[Short] \in Nat /\ usd[Long] + usd[Short] > 0
  BY <1>2 DEF PoolTokens
<1> DEFINE share == SignedMulDiv(i, usd[t], usd[Long] + usd[Short])
<1>4. share \in Int /\ (i <= 0 => share <= 0)
  BY <1>2, <1>3, SignedMulDivInt
<1>5. share \in Int /\ (share > 0 => i > 0)
  <2> HIDE DEF share
  <2> QED BY <1>4
<1> QED BY <1>5 DEF usd

\* One of the two legs of a deposit.
Leg(m, n, c, t, amount, positive) ==
  /\ n.supply >= m.supply
  /\ n = m \/ EntersPool(m, n, c, t, amount, positive)

\* A deposit is booked to the two tokens.
LEMMA DepositedBooks ==
  ASSUME NEW m \in Market, NEW c \in Conditions, NEW amount \in [PoolTokens -> Nat],
         NEW i \in Int, Deposited(m, c, amount, i).valid
  PROVE  LET result == Deposited(m, c, amount, i) IN
         /\ result.minted \in Nat
         /\ result.after \in Market
         /\ \A u \in PoolTokens : Surplus(result.after, u) = Surplus(m, u) - amount[u]
         /\ result.after.supply = m.supply + result.minted
         /\ \E middle \in Market :
              /\ Leg(m, middle, c, Long, amount[Long], i > 0)
              /\ Leg(middle, result.after, c, Short, amount[Short], i > 0)
<1> DEFINE usd == [t \in PoolTokens |-> amount[t] * MidPrice(c.price[t])]
           share(t) == SignedMulDiv(i, usd[t], usd[Long] + usd[Short])
           leg(mm, t) == IF amount[t] = 0 THEN Unchanged(mm)
                                          ELSE DepositOf(mm, c, t, amount[t], share(t))
           first == leg(m, Long)
           second == leg(first.after, Short)
<1>1. Deposited(m, c, amount, i) =
        IF ~ first.valid THEN Invalid(m)
                         ELSE [valid |-> second.valid, minted |-> first.minted + second.minted,
                               after |-> second.after]
  BY DEF Deposited, AlsoMinted
<1>2. ASSUME NEW mm \in Market, NEW t \in PoolTokens, leg(mm, t).valid
      PROVE  /\ leg(mm, t).minted \in Nat
             /\ leg(mm, t).after \in Market
             /\ \A u \in PoolTokens :
                  Surplus(leg(mm, t).after, u) = Surplus(mm, u) - IF u = t THEN amount[t] ELSE 0
             /\ leg(mm, t).after.supply = mm.supply + leg(mm, t).minted
             /\ Leg(mm, leg(mm, t).after, c, t, amount[t], i > 0)
  <2>1. CASE amount[t] = 0
    <3>1. leg(mm, t) = Unchanged(mm)
      BY <2>1
    <3>2. \A u \in PoolTokens : Surplus(mm, u) \in Int
      BY SurplusInt
    <3>3. mm.supply \in Nat
      BY MarketFields
    <3> HIDE DEF leg
    <3> QED BY <2>1, <3>1, <3>2, <3>3 DEF Unchanged, Leg
  <2>2. CASE amount[t] # 0
    <3>1. leg(mm, t) = DepositOf(mm, c, t, amount[t], share(t))
      BY <2>2
    <3>2. share(t) \in Int /\ (share(t) > 0 => i > 0)
      BY <2>2, ShareInt
    <3>3. amount[t] \in Nat
      OBVIOUS
    <3>4. leg(mm, t).valid
      BY <1>2
    <3> HIDE DEF leg, share
    <3>5. /\ leg(mm, t).minted \in Nat
          /\ leg(mm, t).after \in Market
          /\ \A u \in PoolTokens :
               Surplus(leg(mm, t).after, u) = Surplus(mm, u) - IF u = t THEN amount[t] ELSE 0
          /\ leg(mm, t).after.supply = mm.supply + leg(mm, t).minted
          /\ EntersPool(mm, leg(mm, t).after, c, t, amount[t], share(t) > 0)
      BY <3>1, <3>2, <3>3, <3>4, DepositOfBooks
    <3>6. EntersPool(mm, leg(mm, t).after, c, t, amount[t], i > 0)
      BY <3>2, <3>5 DEF EntersPool
    <3>7. mm.supply \in Nat
      BY MarketFields
    <3>8. leg(mm, t).after.supply >= mm.supply
      BY <3>5, <3>7
    <3> QED BY <3>5, <3>6, <3>8 DEF Leg
  <2> QED BY <2>1, <2>2
<1> HIDE DEF leg
<1>3. /\ first.valid /\ second.valid
      /\ Deposited(m, c, amount, i).minted = first.minted + second.minted
      /\ Deposited(m, c, amount, i).after = second.after
  BY <1>1 DEF Invalid
<1>4. /\ first.minted \in Nat /\ first.after \in Market
      /\ \A u \in PoolTokens :
           Surplus(first.after, u) = Surplus(m, u) - IF u = Long THEN amount[Long] ELSE 0
      /\ first.after.supply = m.supply + first.minted
      /\ Leg(m, first.after, c, Long, amount[Long], i > 0)
  BY <1>2, <1>3, LongShort
<1>5. /\ second.minted \in Nat /\ second.after \in Market
      /\ \A u \in PoolTokens :
           Surplus(second.after, u) = Surplus(first.after, u) - IF u = Short THEN amount[Short] ELSE 0
      /\ second.after.supply = first.after.supply + second.minted
      /\ Leg(first.after, second.after, c, Short, amount[Short], i > 0)
  BY <1>2, <1>3, <1>4, LongShort
<1> HIDE DEF first, second
<1>6. ASSUME NEW u \in PoolTokens
      PROVE  Surplus(second.after, u) = Surplus(m, u) - amount[u]
  <2>1. Surplus(m, u) \in Int /\ amount[u] \in Nat
    BY SurplusInt
  <2>2. CASE u = Long
    BY <1>4, <1>5, <2>1, <2>2, LongShort
  <2>3. CASE u = Short
    BY <1>4, <1>5, <2>1, <2>3, LongShort
  <2> QED BY <2>2, <2>3 DEF PoolTokens
<1>7. second.after.supply = m.supply + (first.minted + second.minted)
  <2>1. m.supply \in Nat
    BY MarketFields
  <2> QED BY <1>4, <1>5, <2>1
<1> QED BY <1>3, <1>4, <1>5, <1>6, <1>7

\* A withdrawal takes from the market what it takes from the accounts.
LEMMA WithdrawnBooks ==
  ASSUME NEW m \in Market, NEW c \in Conditions, NEW n \in Nat,
         \A t \in PoolTokens : Surplus(m, t) >= 0,
         WithdrawalPossible(m, c, n), Withdrawn(m, c, n).valid
  PROVE  LET result == Withdrawn(m, c, n) IN
         /\ result.after \in Market
         /\ \A t \in PoolTokens : Surplus(result.after, t) = Surplus(m, t)
         /\ result.after.supply = m.supply - n
         /\ LeavesPool(m, result.after, c, n, result.paid)
         /\ \A t \in PoolTokens : ReserveValid(result.after, c, t)
         /\ MaxPnlValid(result.after, c, "withdrawal", "withdrawal")
<1> DEFINE poolValue == PoolValue(m, c, "withdrawal", FALSE)
           usd == (poolValue * n) \div m.supply
           poolUsd == [t \in PoolTokens |-> PoolUsd(m, c, t, TRUE)]
           totalUsd == poolUsd[Long] + poolUsd[Short]
           output == [t \in PoolTokens |->
                       ((usd * poolUsd[t]) \div totalUsd) \div c.price[t].max]
           fees == [t \in PoolTokens |-> SwapFees(output[t], FALSE)]
           charged == Charged(Charged(m, Long, fees[Long]), Short, fees[Short])
           pool == [t \in PoolTokens |-> charged.pool[t] - (output[t] - fees[t].pool)]
           bal == [t \in PoolTokens |-> charged.balance[t] - fees[t].afterFees]
           after == [charged EXCEPT !.pool = pool, !.balance = bal, !.supply = @ - n]
<1>1. /\ Withdrawn(m, c, n).after = after /\ PoolNotOverdrawn(after)
      /\ Withdrawn(m, c, n).paid = [t \in PoolTokens |-> fees[t].afterFees]
      /\ \A t \in PoolTokens : ReserveValid(after, c, t)
      /\ MaxPnlValid(after, c, "withdrawal", "withdrawal")
  <2>1. Withdrawn(m, c, n) =
          [valid |-> /\ PoolNotOverdrawn(after)
                     /\ \A t \in PoolTokens : ReserveValid(after, c, t)
                     /\ MaxPnlValid(after, c, "withdrawal", "withdrawal"),
           paid |-> [t \in PoolTokens |-> fees[t].afterFees],
           after |-> after]
    BY DEF Withdrawn
  <2> HIDE DEF after, fees
  <2> QED BY <2>1
<1>2. poolValue \in Nat /\ m.supply \in Nat /\ m.supply > 0 /\ n <= m.supply
  <2>1. poolValue \in Int
    BY PoolValueInt
  <2>2. poolValue > 0 /\ n > 0 /\ n <= m.supply
    BY DEF WithdrawalPossible
  <2> HIDE DEF poolValue
  <2> QED BY <2>1, <2>2, MarketFields
<1>3. usd \in Nat
  <2>1. poolValue * n \in Nat
    BY <1>2, TimesNat
  <2> QED BY <1>2, <2>1, DivNat
<1>4. totalUsd \in Nat /\ totalUsd > 0 /\ \A t \in PoolTokens : poolUsd[t] \in Nat
  <2>1. \A t \in PoolTokens : poolUsd[t] \in Nat
    BY PoolUsdNat
  <2>2. poolUsd[Long] = PoolUsd(m, c, Long, TRUE) /\ poolUsd[Short] = PoolUsd(m, c, Short, TRUE)
    BY LongShort
  <2>3. PoolUsd(m, c, Long, TRUE) + PoolUsd(m, c, Short, TRUE) > 0
    BY DEF WithdrawalPossible
  <2> HIDE DEF poolUsd
  <2>4. poolUsd[Long] \in Nat /\ poolUsd[Short] \in Nat /\ poolUsd[Long] + poolUsd[Short] > 0
    BY <2>1, <2>2, <2>3, LongShort
  <2>5. totalUsd \in Nat /\ totalUsd > 0
    BY <2>4
  <2> QED BY <2>1, <2>5
<1> HIDE DEF poolValue, usd, poolUsd, totalUsd
<1>5. \A t \in PoolTokens : output[t] \in Nat
  <2> TAKE t \in PoolTokens
  <2>1. usd * poolUsd[t] \in Nat
    BY <1>3, <1>4, TimesNat
  <2>2. (usd * poolUsd[t]) \div totalUsd \in Nat
    BY <1>4, <2>1, DivNat
  <2>3. ((usd * poolUsd[t]) \div totalUsd) \div c.price[t].max \in Nat
    BY <2>2, ConditionFields, DivNat
  <2> QED BY <2>3
<1> HIDE DEF output
<1>6. ASSUME NEW t \in PoolTokens
      PROVE  /\ fees[t].receiver \in Nat /\ fees[t].pool \in Nat /\ fees[t].ui \in Nat
             /\ fees[t].afterFees \in Nat
             /\ fees[t].receiver + fees[t].pool + fees[t].ui + fees[t].afterFees = output[t]
  <2>1. output[t] \in Nat /\ FALSE \in BOOLEAN
    BY <1>5
  <2>2. fees[t] = SwapFees(output[t], FALSE)
    OBVIOUS
  <2> HIDE DEF fees
  <2> QED BY <2>1, <2>2, SwapFeesParts
<1> HIDE DEF fees
<1>7. /\ charged \in AnyMarket
      /\ charged.pool = m.pool /\ charged.swapImpactPool = m.swapImpactPool
      /\ charged.balance = m.balance /\ charged.supply = m.supply /\ charged.locked = m.locked
      /\ \A t \in PoolTokens :
           /\ charged.claimableFees[t] = m.claimableFees[t] + fees[t].receiver
           /\ charged.claimableUiFees[t] = m.claimableUiFees[t] + fees[t].ui
  <2> DEFINE m1 == Charged(m, Long, fees[Long])
             m2 == Charged(m1, Short, fees[Short])
  <2>1. /\ m1 \in AnyMarket
        /\ m1.pool = m.pool /\ m1.swapImpactPool = m.swapImpactPool /\ m1.balance = m.balance
        /\ m1.supply = m.supply /\ m1.locked = m.locked
        /\ \A u \in PoolTokens :
             /\ m1.claimableFees[u]
                  = m.claimableFees[u] + IF u = Long THEN fees[Long].receiver ELSE 0
             /\ m1.claimableUiFees[u]
                  = m.claimableUiFees[u] + IF u = Long THEN fees[Long].ui ELSE 0
    <3>1. m \in AnyMarket /\ fees[Long].receiver \in Int /\ fees[Long].ui \in Int
      BY <1>6, MarketIsAny, LongShort
    <3> QED BY <3>1, ChargedBooks, LongShort
  <2> HIDE DEF m1
  <2>2. /\ m2 \in AnyMarket
        /\ m2.pool = m1.pool /\ m2.swapImpactPool = m1.swapImpactPool /\ m2.balance = m1.balance
        /\ m2.supply = m1.supply /\ m2.locked = m1.locked
        /\ \A u \in PoolTokens :
             /\ m2.claimableFees[u]
                  = m1.claimableFees[u] + IF u = Short THEN fees[Short].receiver ELSE 0
             /\ m2.claimableUiFees[u]
                  = m1.claimableUiFees[u] + IF u = Short THEN fees[Short].ui ELSE 0
    <3>1. fees[Short].receiver \in Int /\ fees[Short].ui \in Int
      BY <1>6, LongShort
    <3> QED BY <2>1, <3>1, ChargedBooks, LongShort
  <2>3. charged = m2
    BY DEF m1
  <2> HIDE DEF m2, charged
  <2>4. ASSUME NEW t \in PoolTokens
        PROVE  /\ charged.claimableFees[t] = m.claimableFees[t] + fees[t].receiver
               /\ charged.claimableUiFees[t] = m.claimableUiFees[t] + fees[t].ui
    <3>1. m.claimableFees[t] \in Int /\ m.claimableUiFees[t] \in Int
      BY MarketFields
    <3>2. fees[t].receiver \in Int /\ fees[t].ui \in Int
      BY <1>6
    <3>3. CASE t = Long
      BY <2>1, <2>2, <2>3, <3>1, <3>2, <3>3, LongShort
    <3>4. CASE t = Short
      BY <2>1, <2>2, <2>3, <3>1, <3>2, <3>4, LongShort
    <3> QED BY <3>3, <3>4 DEF PoolTokens
  <2> QED BY <2>1, <2>2, <2>3, <2>4
<1> HIDE DEF charged
<1>8. /\ after \in AnyMarket
      /\ after.swapImpactPool = m.swapImpactPool
      /\ after.supply = m.supply - n /\ after.locked = m.locked
      /\ \A t \in PoolTokens :
           /\ after.pool[t] = m.pool[t] - (output[t] - fees[t].pool)
           /\ after.balance[t] = m.balance[t] - fees[t].afterFees
           /\ after.claimableFees[t] = m.claimableFees[t] + fees[t].receiver
           /\ after.claimableUiFees[t] = m.claimableUiFees[t] + fees[t].ui
  <2>1. pool \in [PoolTokens -> Int] /\ bal \in [PoolTokens -> Int]
    BY <1>5, <1>6, <1>7, MarketFields
  <2>2. \A t \in PoolTokens : /\ pool[t] = m.pool[t] - (output[t] - fees[t].pool)
                              /\ bal[t] = m.balance[t] - fees[t].afterFees
    BY <1>7
  <2> HIDE DEF pool, bal
  <2>3. charged \in AnyMarket /\ charged.supply - n \in Int
    BY <1>7 DEF AnyMarket
  <2>4. /\ after \in AnyMarket
        /\ after.pool = pool /\ after.balance = bal
        /\ after.swapImpactPool = charged.swapImpactPool
        /\ after.claimableFees = charged.claimableFees
        /\ after.claimableUiFees = charged.claimableUiFees
        /\ after.supply = charged.supply - n /\ after.locked = charged.locked
    BY <2>1, <2>3 DEF AnyMarket
  <2> HIDE DEF after
  <2> QED BY <1>7, <2>2, <2>4
<1> HIDE DEF after, pool, bal
<1>9. ASSUME NEW t \in PoolTokens
      PROVE  /\ m.pool[t] \in Nat /\ m.swapImpactPool[t] \in Nat /\ m.claimableFees[t] \in Nat
             /\ m.claimableUiFees[t] \in Nat /\ m.balance[t] \in Nat
  BY MarketFields
<1>10. ASSUME NEW t \in PoolTokens
       PROVE  /\ after.balance[t] - after.pool[t] - after.swapImpactPool[t]
                    - after.claimableFees[t] - after.claimableUiFees[t] = Surplus(m, t)
              /\ after.pool[t] >= 0 /\ after.swapImpactPool[t] >= 0
              /\ after.claimableFees[t] >= 0 /\ after.claimableUiFees[t] >= 0
              /\ after.balance[t] >= 0
  <2>1. Surplus(m, t) = m.balance[t] - m.pool[t] - m.swapImpactPool[t]
                          - m.claimableFees[t] - m.claimableUiFees[t]
    BY SurplusInt
  <2>2. after.balance[t] - after.pool[t] - after.swapImpactPool[t]
          - after.claimableFees[t] - after.claimableUiFees[t] = Surplus(m, t)
    BY <1>5, <1>6, <1>8, <1>9, <2>1
  <2>3. after.pool[t] >= 0
    BY <1>1 DEF PoolNotOverdrawn
  <2>4. after.swapImpactPool[t] >= 0 /\ after.claimableFees[t] >= 0 /\ after.claimableUiFees[t] >= 0
    BY <1>6, <1>8, <1>9
  <2>5. /\ after.pool[t] \in Int /\ after.swapImpactPool[t] \in Int /\ after.claimableFees[t] \in Int
        /\ after.claimableUiFees[t] \in Int /\ after.balance[t] \in Int
    BY <1>8, AnyMarketFields
  <2>6. Surplus(m, t) >= 0 /\ Surplus(m, t) \in Int
    BY SurplusInt
  <2> QED BY <2>2, <2>3, <2>4, <2>5, <2>6
<1>11. after \in Market
  <2>1. after.supply >= 0 /\ after.locked >= 0
    BY <1>2, <1>8, MarketFields
  <2> QED BY <1>8, <1>10, <2>1, AnyMarketIsMarket
<1>12. \A t \in PoolTokens : Surplus(after, t) = Surplus(m, t)
  BY <1>10, <1>11, SurplusInt
<1>13. output[Long] * c.price[Long].max + output[Short] * c.price[Short].max <= usd
  <2> DEFINE part(t) == (usd * poolUsd[t]) \div totalUsd
  <2>1. ASSUME NEW t \in PoolTokens
        PROVE  /\ part(t) \in Nat /\ totalUsd * part(t) <= usd * poolUsd[t]
               /\ output[t] * c.price[t].max <= part(t)
    <3>1. usd * poolUsd[t] \in Nat
      BY <1>3, <1>4, TimesNat
    <3>2. part(t) \in Nat /\ totalUsd * part(t) <= usd * poolUsd[t]
      BY <1>4, <3>1, DivInt, DivNat
    <3>3. output[t] = part(t) \div c.price[t].max
      BY DEF output
    <3> HIDE DEF part
    <3>4. c.price[t].max \in Nat /\ c.price[t].max > 0
      BY ConditionFields
    <3>5. c.price[t].max * (part(t) \div c.price[t].max) <= part(t)
      BY <3>2, <3>4, DivInt
    <3>6. output[t] * c.price[t].max = c.price[t].max * (part(t) \div c.price[t].max)
      BY <1>5, <3>3, <3>4
    <3> QED BY <3>2, <3>5, <3>6
  <2> HIDE DEF part
  <2>2. part(Long) + part(Short) <= usd
    <3>1. totalUsd * (part(Long) + part(Short)) <= usd * poolUsd[Long] + usd * poolUsd[Short]
      BY <1>3, <1>4, <2>1, LongShort
    <3>2. usd * poolUsd[Long] + usd * poolUsd[Short] = totalUsd * usd
      BY <1>3, <1>4, LongShort DEF totalUsd
    <3> QED BY <1>3, <1>4, <2>1, <3>1, <3>2, TimesCancel, LongShort
  <2>3. output[Long] * c.price[Long].max \in Int /\ output[Short] * c.price[Short].max \in Int
    BY <1>5, ConditionFields, LongShort
  <2> QED BY <1>3, <2>1, <2>2, <2>3, LongShort
<1>14. m.supply * usd <= poolValue * n
  <2>1. poolValue * n \in Nat
    BY <1>2, TimesNat
  <2> QED BY <1>2, <2>1, DivInt DEF usd
<1>15. LeavesPool(m, after, c, n, [t \in PoolTokens |-> fees[t].afterFees])
  <2> DEFINE kept == [t \in PoolTokens |-> fees[t].pool]
             paid == [t \in PoolTokens |-> fees[t].afterFees]
  <2>1. output \in [PoolTokens -> Nat]
    BY <1>5 DEF output
  <2>2. kept \in [PoolTokens -> Nat]
    BY <1>6
  <2>3. \A t \in PoolTokens : /\ after.pool[t] = m.pool[t] - (output[t] - kept[t])
                              /\ kept[t] <= output[t] /\ paid[t] \in 0..output[t]
    BY <1>5, <1>6, <1>8
  <2> HIDE DEF kept, paid
  <2>4. LeavesPool(m, after, c, n, paid)
    BY <1>3, <1>13, <1>14, <2>1, <2>2, <2>3 DEF LeavesPool, poolValue
  <2> QED BY <2>4 DEF paid
<1> QED BY <1>1, <1>8, <1>11, <1>12, <1>15

\* A swap moves the two balances as it moves the accounts.
LEMMA SwappedBooks ==
  ASSUME NEW m \in Market, NEW c \in Conditions, NEW t \in PoolTokens, NEW n \in Nat, NEW i \in Int,
         \A u \in PoolTokens : Surplus(m, u) >= 0,
         Swapped(m, c, t, n, i).valid
  PROVE  LET result == Swapped(m, c, t, n, i) IN
         /\ result.after \in Market
         /\ \A u \in PoolTokens : Surplus(result.after, u) = Surplus(m, u)
         /\ result.after.supply = m.supply
         /\ PassesPool(m, result.after, c, t)
<1> DEFINE forPositiveImpact == i > 0
           out == Opposite(t)
           fees == SwapFees(n, forPositiveImpact)
           impactToken == IF i > 0 THEN out ELSE t
           impactAmount == SwapImpactAmount(m, c, impactToken, i)
           amountIn == fees.afterFees + MinOf(0, impactAmount)
           poolAmountOut == (amountIn * c.price[t].min) \div c.price[out].max
           paid == poolAmountOut + MaxOf(0, impactAmount)
           charged == ImpactApplied(Charged(m, t, fees), impactToken, impactAmount)
           changed == PoolChanged(charged, t, amountIn + fees.pool, - poolAmountOut)
           after == [changed EXCEPT !.balance[t] = @ + n, !.balance[out] = @ - paid]
<1>1. Swapped(m, c, t, n, i).after = after /\ PoolNotOverdrawn(after) /\ (i > 0 \/ amountIn > 0)
  <2>1. Swapped(m, c, t, n, i) =
          [valid |-> /\ i > 0 \/ amountIn > 0
                     /\ paid <= m.balance[out]
                     /\ PoolNotOverdrawn(after)
                     /\ PoolAmountValid(after, t)
                     /\ ReserveValid(after, c, out)
                     /\ MaxPnlValid(after, c, IF t = Long THEN "deposit" ELSE "withdrawal",
                                              IF t = Long THEN "withdrawal" ELSE "deposit"),
           after |-> after]
    BY DEF Swapped
  <2> HIDE DEF after, amountIn, paid
  <2> QED BY <2>1
<1>2. out \in PoolTokens /\ out # t /\ (\A u \in PoolTokens : u = t \/ u = out)
      /\ impactToken \in PoolTokens
  BY OppositeToken DEF Opposite, PoolTokens
<1>3. /\ fees.receiver \in Nat /\ fees.pool \in Nat /\ fees.ui \in Nat /\ fees.afterFees \in Nat
      /\ fees.receiver + fees.pool + fees.ui + fees.afterFees = n
  <2>1. forPositiveImpact \in BOOLEAN
    OBVIOUS
  <2> HIDE DEF forPositiveImpact
  <2> QED BY <2>1, SwapFeesParts
<1>4. /\ impactAmount \in Int /\ impactAmount <= m.swapImpactPool[impactToken]
      /\ impactToken = out => impactAmount >= 0
      /\ impactToken = t => impactAmount <= 0
  <2>1. /\ impactAmount \in Int /\ impactAmount <= m.swapImpactPool[impactToken]
        /\ i > 0 => impactAmount >= 0
        /\ i <= 0 => impactAmount <= 0
    BY <1>2, SwapImpactAmountBounds
  <2> QED BY <1>2, <2>1
<1> HIDE DEF fees, impactToken, impactAmount, out
<1> DEFINE loss == MinOf(0, impactAmount)
           bonus == MaxOf(0, impactAmount)
<1>5. /\ loss \in Int /\ bonus \in Int
      /\ impactToken = out => bonus = impactAmount /\ loss = 0
      /\ impactToken = t => bonus = 0 /\ loss = impactAmount
  BY <1>4 DEF MinOf, MaxOf
<1>6. amountIn = fees.afterFees + loss /\ amountIn \in Int
  BY <1>3, <1>5
<1>7. poolAmountOut \in Int /\ paid = poolAmountOut + bonus /\ paid \in Int
  <2>1. c.price[t].min \in Nat /\ c.price[out].max \in Nat /\ c.price[out].max > 0
    BY <1>2, ConditionFields
  <2> HIDE DEF amountIn
  <2>2. amountIn * c.price[t].min \in Int
    BY <1>6, <2>1
  <2>3. poolAmountOut \in Int
    BY <2>1, <2>2, DivInt
  <2> HIDE DEF poolAmountOut
  <2> QED BY <1>5, <2>3
<1> HIDE DEF loss, bonus, amountIn, poolAmountOut, paid
<1>8. /\ changed \in AnyMarket
      /\ changed.balance = m.balance /\ changed.locked = m.locked /\ changed.supply = m.supply
      /\ \A u \in PoolTokens :
           /\ changed.pool[u] = m.pool[u] + IF u = t THEN amountIn + fees.pool ELSE - poolAmountOut
           /\ changed.swapImpactPool[u]
                = m.swapImpactPool[u] - IF u = impactToken THEN impactAmount ELSE 0
           /\ changed.claimableFees[u] = m.claimableFees[u] + IF u = t THEN fees.receiver ELSE 0
           /\ changed.claimableUiFees[u] = m.claimableUiFees[u] + IF u = t THEN fees.ui ELSE 0
  <2> DEFINE m1 == Charged(m, t, fees)
             m2 == ImpactApplied(m1, impactToken, impactAmount)
  <2>1. m \in AnyMarket
    BY MarketIsAny
  <2>2. /\ m1 \in AnyMarket
        /\ m1.pool = m.pool /\ m1.swapImpactPool = m.swapImpactPool /\ m1.balance = m.balance
        /\ m1.supply = m.supply /\ m1.locked = m.locked
        /\ \A u \in PoolTokens :
             /\ m1.claimableFees[u] = m.claimableFees[u] + IF u = t THEN fees.receiver ELSE 0
             /\ m1.claimableUiFees[u] = m.claimableUiFees[u] + IF u = t THEN fees.ui ELSE 0
    BY <1>3, <2>1, ChargedBooks
  <2> HIDE DEF m1
  <2>3. /\ m2 \in AnyMarket
        /\ m2.pool = m1.pool /\ m2.claimableFees = m1.claimableFees
        /\ m2.claimableUiFees = m1.claimableUiFees /\ m2.balance = m1.balance
        /\ m2.supply = m1.supply /\ m2.locked = m1.locked
        /\ \A u \in PoolTokens :
             m2.swapImpactPool[u] = m1.swapImpactPool[u] - IF u = impactToken THEN impactAmount ELSE 0
    BY <1>2, <1>4, <2>2, ImpactAppliedBooks
  <2>4. charged = m2
    BY DEF m1
  <2> HIDE DEF m2, charged
  <2>5. amountIn + fees.pool \in Int /\ - poolAmountOut \in Int
    BY <1>3, <1>6, <1>7
  <2>6. /\ changed \in AnyMarket
        /\ changed.swapImpactPool = m2.swapImpactPool /\ changed.claimableFees = m2.claimableFees
        /\ changed.claimableUiFees = m2.claimableUiFees /\ changed.balance = m2.balance
        /\ changed.supply = m2.supply /\ changed.locked = m2.locked
        /\ \A u \in PoolTokens :
             changed.pool[u] = m2.pool[u] + IF u = t THEN amountIn + fees.pool ELSE - poolAmountOut
    BY <2>3, <2>4, <2>5, PoolChangedBooks
  <2> HIDE DEF changed
  <2> QED BY <2>2, <2>3, <2>6
<1> HIDE DEF charged, changed
<1>9. /\ after \in AnyMarket
      /\ after.pool = changed.pool /\ after.swapImpactPool = changed.swapImpactPool
      /\ after.claimableFees = changed.claimableFees
      /\ after.claimableUiFees = changed.claimableUiFees
      /\ after.supply = m.supply /\ after.locked = m.locked
      /\ \A u \in PoolTokens : after.balance[u] = m.balance[u] + IF u = t THEN n ELSE - paid
  <2> DEFINE bal == [changed.balance EXCEPT ![t] = @ + n, ![out] = @ - paid]
  <2>1. after = [changed EXCEPT !.balance = bal]
    BY <1>2, <1>8 DEF AnyMarket
  <2>2. bal \in [PoolTokens -> Int]
    BY <1>2, <1>7, <1>8 DEF AnyMarket
  <2>3. \A u \in PoolTokens : bal[u] = m.balance[u] + IF u = t THEN n ELSE - paid
    BY <1>2, <1>7, <1>8, MarketFields
  <2> HIDE DEF bal, after
  <2> QED BY <1>8, <2>1, <2>2, <2>3 DEF AnyMarket
<1> HIDE DEF after
<1>10. ASSUME NEW u \in PoolTokens
       PROVE  /\ after.balance[u] - after.pool[u] - after.swapImpactPool[u]
                    - after.claimableFees[u] - after.claimableUiFees[u] = Surplus(m, u)
              /\ after.pool[u] >= 0 /\ after.swapImpactPool[u] >= 0
              /\ after.claimableFees[u] >= 0 /\ after.claimableUiFees[u] >= 0
              /\ after.balance[u] >= 0
  <2>1. Surplus(m, u) = m.balance[u] - m.pool[u] - m.swapImpactPool[u]
                          - m.claimableFees[u] - m.claimableUiFees[u]
    BY SurplusInt
  <2>2. /\ m.pool[u] \in Nat /\ m.swapImpactPool[u] \in Nat /\ m.claimableFees[u] \in Nat
        /\ m.claimableUiFees[u] \in Nat /\ m.balance[u] \in Nat
    BY MarketFields
  <2>3. after.balance[u] - after.pool[u] - after.swapImpactPool[u]
          - after.claimableFees[u] - after.claimableUiFees[u] = Surplus(m, u)
    <3>1. impactToken = t \/ impactToken = out
      BY <1>2
    <3>2. CASE u = t /\ impactToken = t
      BY <1>3, <1>4, <1>5, <1>6, <1>8, <1>9, <2>1, <2>2, <3>2
    <3>3. CASE u = t /\ impactToken = out
      BY <1>2, <1>3, <1>4, <1>5, <1>6, <1>8, <1>9, <2>1, <2>2, <3>3
    <3>4. CASE u = out /\ impactToken = t
      BY <1>2, <1>4, <1>5, <1>7, <1>8, <1>9, <2>1, <2>2, <3>4
    <3>5. CASE u = out /\ impactToken = out
      BY <1>2, <1>4, <1>5, <1>7, <1>8, <1>9, <2>1, <2>2, <3>5
    <3> QED BY <1>2, <3>1, <3>2, <3>3, <3>4, <3>5
  <2>4. after.pool[u] >= 0
    BY <1>1 DEF PoolNotOverdrawn
  <2>5. after.swapImpactPool[u] >= 0 /\ after.claimableFees[u] >= 0 /\ after.claimableUiFees[u] >= 0
    BY <1>3, <1>4, <1>8, <1>9, <2>2
  <2>6. /\ after.pool[u] \in Int /\ after.swapImpactPool[u] \in Int /\ after.claimableFees[u] \in Int
        /\ after.claimableUiFees[u] \in Int /\ after.balance[u] \in Int
    BY <1>9, AnyMarketFields
  <2>7. Surplus(m, u) >= 0 /\ Surplus(m, u) \in Int
    BY SurplusInt
  <2> QED BY <2>3, <2>4, <2>5, <2>6, <2>7
<1>11. after \in Market
  <2>1. after.supply >= 0 /\ after.locked >= 0
    BY <1>9, MarketFields
  <2> QED BY <1>9, <1>10, <2>1, AnyMarketIsMarket
<1>12. \A u \in PoolTokens : Surplus(after, u) = Surplus(m, u)
  BY <1>10, <1>11, SurplusInt
<1>13. amountIn \in Nat /\ poolAmountOut \in Nat
       /\ poolAmountOut * c.price[out].max <= amountIn * c.price[t].min
  <2>1. /\ c.price[t].min \in Nat /\ c.price[out].max \in Nat /\ c.price[out].max > 0
    BY <1>2, ConditionFields
  <2>2. amountIn \in Nat
    <3>1. CASE i > 0
      <4>1. loss = 0
        BY <1>2, <1>5, <3>1 DEF impactToken
      <4> QED BY <1>3, <1>6, <4>1
    <3>2. CASE ~ (i > 0)
      BY <1>1, <1>6, <3>2
    <3> QED BY <3>1, <3>2
  <2>3. amountIn * c.price[t].min \in Nat
    BY <2>1, <2>2, TimesNat
  <2>4. poolAmountOut \in Nat /\ c.price[out].max * poolAmountOut <= amountIn * c.price[t].min
    BY <2>1, <2>3, DivInt, DivNat DEF poolAmountOut
  <2>5. c.price[out].max * poolAmountOut = poolAmountOut * c.price[out].max
    BY <2>1, <2>4
  <2> QED BY <2>2, <2>4, <2>5
<1>14. PassesPool(m, after, c, t)
  <2>1. after.pool[t] = m.pool[t] + amountIn + fees.pool
    BY <1>3, <1>6, <1>8, <1>9, MarketFields
  <2>2. after.pool[out] = m.pool[out] - poolAmountOut
    BY <1>2, <1>7, <1>8, <1>9, MarketFields
  <2> QED BY <1>3, <1>13, <2>1, <2>2 DEF PassesPool, out
<1> QED BY <1>1, <1>9, <1>11, <1>12, <1>14

----------------------------------------------------------------------------
(* What the operations do to the market *)

MarketInvariant == market \in Market /\ MarketCoversAccounts

LEMMA CoveredBySurplus ==
  ASSUME market \in Market
  PROVE  MarketCoversAccounts <=> \A t \in PoolTokens : Surplus(market, t) >= 0
BY SurplusInt, MarketFields DEF MarketCoversAccounts, Surplus

LEMMA CoveredBySurplusNext ==
  ASSUME market' \in Market
  PROVE  MarketCoversAccounts' <=> \A t \in PoolTokens : Surplus(market', t) >= 0
BY SurplusInt, MarketFields DEF MarketCoversAccounts, Surplus, ExpectedMinTokenBalance

LEMMA RequestFields ==
  ASSUME VaultInvariant, NEW k \in Keys
  PROVE  /\ requests[k].kind = "deposit" => requests[k].amount \in [PoolTokens -> Nat]
         /\ requests[k].kind = "withdrawal" => requests[k].marketTokenAmount \in Nat
<1> DEFINE r == requests[k]
<1>1. r \in Request
  BY DEF VaultInvariant
<1> HIDE DEF r
<1>2. /\ r.kind = "deposit" => r.amount \in [PoolTokens -> Nat]
      /\ r.kind = "withdrawal" => r.marketTokenAmount \in Nat
  BY <1>1 DEF Request, Deposit, Withdrawal, NoRequest
<1> QED BY <1>2 DEF r

LEMMA ExecuteDepositBooks ==
  ASSUME VaultInvariant, MarketInvariant, NEW k \in Keys, NEW c \in Conditions, NEW i \in Int,
         ExecuteDeposit(k, c, i)
  PROVE  MarketInvariant'
<1> DEFINE amount == requests[k].amount
           bal == [t \in PoolTokens |-> market.balance[t] + amount[t]]
           received == [market EXCEPT !.balance = bal]
           result == Deposited(received, c, amount, i)
<1>1. amount \in [PoolTokens -> Nat]
  BY RequestFields DEF ExecuteDeposit, PendingIn
<1>2. /\ result.valid
      /\ market' = [result.after EXCEPT !.locked = @ + IF requests[k].toLocked THEN result.minted ELSE 0]
  BY DEF ExecuteDeposit
<1> HIDE DEF amount
<1>3. /\ received \in Market
      /\ \A t \in PoolTokens : Surplus(received, t) = Surplus(market, t) + amount[t]
  <2>1. market \in Market
    BY DEF MarketInvariant
  <2>2. bal \in [PoolTokens -> Nat] /\ \A t \in PoolTokens : bal[t] = market.balance[t] + amount[t]
    BY <1>1, <2>1, MarketFields
  <2> HIDE DEF bal
  <2>3. /\ received \in Market /\ received.pool = market.pool /\ received.balance = bal
        /\ received.swapImpactPool = market.swapImpactPool
        /\ received.claimableFees = market.claimableFees
        /\ received.claimableUiFees = market.claimableUiFees
        /\ received.locked = market.locked
    BY <2>1, <2>2 DEF Market
  <2> HIDE DEF received
  <2>4. ASSUME NEW t \in PoolTokens
        PROVE  Surplus(received, t) = Surplus(market, t) + amount[t]
    <3>1. /\ market.pool[t] \in Int /\ market.swapImpactPool[t] \in Int
          /\ market.claimableFees[t] \in Int /\ market.claimableUiFees[t] \in Int
          /\ market.balance[t] \in Int /\ amount[t] \in Int
      BY <1>1, <2>1, MarketFields
    <3>2. Surplus(market, t) = market.balance[t] - market.pool[t] - market.swapImpactPool[t]
                                 - market.claimableFees[t] - market.claimableUiFees[t]
      BY <2>1, SurplusInt
    <3>3. Surplus(received, t) = received.balance[t] - received.pool[t] - received.swapImpactPool[t]
                                 - received.claimableFees[t] - received.claimableUiFees[t]
      BY <2>3, SurplusInt
    <3> QED BY <2>2, <2>3, <3>1, <3>2, <3>3
  <2> QED BY <2>3, <2>4
<1> HIDE DEF received
<1>4. /\ result.minted \in Nat /\ result.after \in Market
      /\ \A t \in PoolTokens : Surplus(result.after, t) = Surplus(received, t) - amount[t]
  BY <1>1, <1>2, <1>3, DepositedBooks
<1> HIDE DEF result
<1>5. /\ market' \in Market
      /\ market'.pool = result.after.pool /\ market'.balance = result.after.balance
      /\ market'.swapImpactPool = result.after.swapImpactPool
      /\ market'.claimableFees = result.after.claimableFees
      /\ market'.claimableUiFees = result.after.claimableUiFees
  BY <1>2, <1>4 DEF Market
<1>6. \A t \in PoolTokens : Surplus(market', t) = Surplus(result.after, t)
  BY <1>5 DEF Surplus, ExpectedMinTokenBalance
<1>7. \A t \in PoolTokens : Surplus(market, t) >= 0 /\ Surplus(market, t) \in Int
  BY CoveredBySurplus, SurplusInt DEF MarketInvariant
<1>8. \A t \in PoolTokens : Surplus(market', t) >= 0
  BY <1>1, <1>3, <1>4, <1>6, <1>7
<1> QED BY <1>5, <1>8, CoveredBySurplusNext DEF MarketInvariant

LEMMA ExecuteWithdrawalBooks ==
  ASSUME VaultInvariant, MarketInvariant, NEW k \in Keys, NEW c \in Conditions,
         ExecuteWithdrawal(k, c)
  PROVE  MarketInvariant'
<1> DEFINE n == requests[k].marketTokenAmount
           result == Withdrawn(market, c, n)
<1>1. n \in Nat
  BY RequestFields DEF ExecuteWithdrawal, PendingIn
<1>2. WithdrawalPossible(market, c, n) /\ result.valid /\ market' = result.after
  BY DEF ExecuteWithdrawal
<1>3. market \in Market /\ \A t \in PoolTokens : Surplus(market, t) >= 0
  BY CoveredBySurplus DEF MarketInvariant
<1> HIDE DEF n
<1>4. result.after \in Market /\ \A t \in PoolTokens : Surplus(result.after, t) = Surplus(market, t)
  BY <1>1, <1>2, <1>3, WithdrawnBooks
<1> HIDE DEF result
<1> QED BY <1>2, <1>3, <1>4, CoveredBySurplusNext DEF MarketInvariant

LEMMA SwapBooks ==
  ASSUME MarketInvariant, NEW c \in Conditions, NEW t \in PoolTokens, NEW n \in Nat, NEW i \in Int,
         Swap(c, t, n, i)
  PROVE  MarketInvariant'
<1> DEFINE result == Swapped(market, c, t, n, i)
<1>1. result.valid /\ market' = result.after
  BY DEF Swap
<1>2. market \in Market /\ \A u \in PoolTokens : Surplus(market, u) >= 0
  BY CoveredBySurplus DEF MarketInvariant
<1>3. result.after \in Market /\ \A u \in PoolTokens : Surplus(result.after, u) = Surplus(market, u)
  BY <1>1, <1>2, SwappedBooks
<1> HIDE DEF result
<1> QED BY <1>1, <1>2, <1>3, CoveredBySurplusNext DEF MarketInvariant

\* Fees that are claimed are on the books.
LEMMA ClaimBooks ==
  ASSUME MarketInvariant, NEW t \in PoolTokens, ClaimFees(t) \/ ClaimUiFees(t)
  PROVE  MarketInvariant'
<1>1. market \in Market
  BY DEF MarketInvariant
<1>2. ASSUME NEW u \in PoolTokens
      PROVE  /\ market.pool[u] \in Nat /\ market.swapImpactPool[u] \in Nat
             /\ market.claimableFees[u] \in Nat /\ market.claimableUiFees[u] \in Nat
             /\ market.balance[u] \in Nat
             /\ market.balance[u] >= market.pool[u] + market.swapImpactPool[u]
                                       + market.claimableFees[u] + market.claimableUiFees[u]
  BY <1>1, MarketFields DEF MarketInvariant, MarketCoversAccounts, ExpectedMinTokenBalance
<1>3. CASE ClaimFees(t)
  <2> DEFINE f == [market.claimableFees EXCEPT ![t] = 0]
             bal == [market.balance EXCEPT ![t] = @ - market.claimableFees[t]]
  <2>1. market' = [market EXCEPT !.claimableFees = f, !.balance = bal]
    BY <1>1, <1>3 DEF ClaimFees, Market
  <2>2. f \in [PoolTokens -> Nat] /\ bal \in [PoolTokens -> Nat]
    BY <1>1, <1>2 DEF Market
  <2>3. \A u \in PoolTokens :
          /\ f[u] = IF u = t THEN 0 ELSE market.claimableFees[u]
          /\ bal[u] = market.balance[u] - IF u = t THEN market.claimableFees[u] ELSE 0
    BY <1>1, <1>2, MarketFields
  <2> HIDE DEF f, bal
  <2>4. /\ market' \in Market /\ market'.pool = market.pool
        /\ market'.swapImpactPool = market.swapImpactPool /\ market'.claimableFees = f
        /\ market'.claimableUiFees = market.claimableUiFees /\ market'.balance = bal
    BY <1>1, <2>1, <2>2 DEF Market
  <2>5. ASSUME NEW u \in PoolTokens
        PROVE  Surplus(market', u) >= 0
    BY <1>2, <2>3, <2>4 DEF Surplus, ExpectedMinTokenBalance
  <2> QED BY <2>4, <2>5, CoveredBySurplusNext DEF MarketInvariant
<1>4. CASE ClaimUiFees(t)
  <2> DEFINE f == [market.claimableUiFees EXCEPT ![t] = 0]
             bal == [market.balance EXCEPT ![t] = @ - market.claimableUiFees[t]]
  <2>1. market' = [market EXCEPT !.claimableUiFees = f, !.balance = bal]
    BY <1>1, <1>4 DEF ClaimUiFees, Market
  <2>2. f \in [PoolTokens -> Nat] /\ bal \in [PoolTokens -> Nat]
    BY <1>1, <1>2 DEF Market
  <2>3. \A u \in PoolTokens :
          /\ f[u] = IF u = t THEN 0 ELSE market.claimableUiFees[u]
          /\ bal[u] = market.balance[u] - IF u = t THEN market.claimableUiFees[u] ELSE 0
    BY <1>1, <1>2, MarketFields
  <2> HIDE DEF f, bal
  <2>4. /\ market' \in Market /\ market'.pool = market.pool
        /\ market'.swapImpactPool = market.swapImpactPool /\ market'.claimableUiFees = f
        /\ market'.claimableFees = market.claimableFees /\ market'.balance = bal
    BY <1>1, <2>1, <2>2 DEF Market
  <2>5. ASSUME NEW u \in PoolTokens
        PROVE  Surplus(market', u) >= 0
    BY <1>2, <2>3, <2>4 DEF Surplus, ExpectedMinTokenBalance
  <2> QED BY <2>4, <2>5, CoveredBySurplusNext DEF MarketInvariant
<1> QED BY <1>3, <1>4

----------------------------------------------------------------------------
(* The theorems *)

LEMMA MarketInvariantInit == Init => MarketInvariant
BY InitialMarketsAssumption, MarketFields
   DEF Init, MarketInvariant, MarketCoversAccounts

LEMMA MarketInvariantStep ==
  VaultInvariant /\ MarketInvariant /\ [Next]_vars => MarketInvariant'
<1> SUFFICES ASSUME VaultInvariant, MarketInvariant, [Next]_vars
             PROVE  MarketInvariant'
  OBVIOUS
<1>1. ASSUME UNCHANGED market PROVE MarketInvariant'
  BY <1>1 DEF MarketInvariant, MarketCoversAccounts, ExpectedMinTokenBalance
<1>2. PriceImpacts \subseteq Int /\ SwapAmounts \subseteq Nat
  BY ConstantsAssumption
<1>3. CASE RequestStep
  BY <1>1, <1>3 DEF RequestStep, CreateDeposit, CreateWithdrawal, CancelRequest
<1>4. CASE KeeperStep
  <2> PICK k \in Keys : \/ \E v \in Vaults : FailRequest(v, k)
                        \/ \E c \in Conditions : ExecuteWithdrawal(k, c)
                        \/ \E c \in Conditions, i \in PriceImpacts : ExecuteDeposit(k, c, i)
    BY <1>4 DEF KeeperStep
  <2>1. ASSUME NEW v \in Vaults, FailRequest(v, k)
        PROVE  MarketInvariant'
    BY <1>1, <2>1 DEF FailRequest
  <2>2. ASSUME NEW c \in Conditions, ExecuteWithdrawal(k, c)
        PROVE  MarketInvariant'
    BY <2>2, ExecuteWithdrawalBooks
  <2>3. ASSUME NEW c \in Conditions, NEW i \in PriceImpacts, ExecuteDeposit(k, c, i)
        PROVE  MarketInvariant'
    BY <1>2, <2>3, ExecuteDepositBooks
  <2> QED BY <2>1, <2>2, <2>3
<1>5. CASE MarketStep
  <2>1. ASSUME NEW c \in Conditions, NEW t \in PoolTokens, NEW n \in SwapAmounts,
               NEW i \in PriceImpacts, Swap(c, t, n, i)
        PROVE  MarketInvariant'
    BY <1>2, <2>1, SwapBooks
  <2>2. ASSUME NEW t \in PoolTokens, ClaimFees(t) \/ ClaimUiFees(t)
        PROVE  MarketInvariant'
    BY <2>2, ClaimBooks
  <2> QED BY <1>5, <2>1, <2>2 DEF MarketStep
<1>6. CASE EnvironmentStep
  BY <1>1, <1>6 DEF EnvironmentStep, SendTokens, Expire
<1>7. CASE UNCHANGED vars
  BY <1>1, <1>7 DEF vars
<1> QED BY <1>3, <1>4, <1>5, <1>6, <1>7 DEF Next

\* The market always holds every token on its books (getExpectedMinTokenBalance):
\* no deposit, withdrawal, swap or claim can make validateMarketTokenBalance fail.
THEOREM Coverage == Spec => []MarketCoversAccounts
<1>1. Init => VaultInvariant /\ MarketInvariant
  BY VaultInvariantInit, MarketInvariantInit
<1>2. VaultInvariant /\ MarketInvariant /\ [Next]_vars => (VaultInvariant /\ MarketInvariant)'
  BY VaultInvariantStep, MarketInvariantStep
<1>3. VaultInvariant /\ MarketInvariant => MarketCoversAccounts
  BY DEF MarketInvariant
<1> QED BY <1>1, <1>2, <1>3, PTL DEF Spec

\* Every variable keeps its type: no account of the market and no vault is ever
\* overdrawn, by whatever sequence of deposits, withdrawals, swaps and claims.
THEOREM PoolTyped == Spec => []TypeOK
<1> DEFINE Inv == VaultInvariant /\ MarketInvariant /\ LogTyped
<1>1. Init => Inv
  BY VaultInvariantInit, MarketInvariantInit DEF Init, LogTyped, Events
<1>2. Inv /\ [Next]_vars => Inv'
  BY VaultInvariantStep, MarketInvariantStep, LogTypedStep
<1>3. Inv => TypeOK
  BY DEF TypeOK, VaultInvariant, MarketInvariant, LogTyped, Events, Request
<1> QED BY <1>1, <1>2, <1>3, PTL DEF Spec
=============================================================================
