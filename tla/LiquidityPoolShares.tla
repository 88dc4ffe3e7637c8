------------------------ MODULE LiquidityPoolShares ------------------------
(***************************************************************************)
(* What a market token is worth, for all values of the constants of        *)
(* LiquidityPool: no rounding, fee, spread or price impact makes those pay *)
(* who stay, and nobody gains by coming and going.                         *)
(***************************************************************************)
EXTENDS LiquidityPoolProofs

USE DEF Keys, Vaults

----------------------------------------------------------------------------
(* The full value of the pool *)

\* The part of the value that no deposit, withdrawal or swap changes.
Rest(c, maximize) ==
  c.borrowingFees - (Pnl(c, Long, ~ maximize) + Pnl(c, Short, ~ maximize))
    - c.positionImpactPool * PickPrice(c.price[Long], ~ maximize)

LEMMA RestInt ==
  ASSUME NEW c \in Conditions, NEW maximize \in BOOLEAN
  PROVE  Rest(c, maximize) \in Int
<1>1. Pnl(c, Long, ~ maximize) \in Int /\ Pnl(c, Short, ~ maximize) \in Int
  BY PnlInt, LongShort
<1>2. c.borrowingFees \in Nat /\ c.positionImpactPool \in Nat
      /\ PickPrice(c.price[Long], ~ maximize) \in Nat
  BY ConditionFields, PickPriceNat, LongShort
<1>3. c.positionImpactPool * PickPrice(c.price[Long], ~ maximize) \in Int
  BY <1>2, TimesNat
<1> QED BY <1>1, <1>2, <1>3 DEF Rest

LEMMA FullValueParts ==
  ASSUME NEW m \in Market, NEW c \in Conditions, NEW maximize \in BOOLEAN
  PROVE  /\ PoolUsd(m, c, Long, maximize) \in Nat /\ PoolUsd(m, c, Short, maximize) \in Nat
         /\ FullValue(m, c, maximize) \in Int
         /\ FullValue(m, c, maximize)
              = PoolUsd(m, c, Long, maximize) + PoolUsd(m, c, Short, maximize) + Rest(c, maximize)
<1> DEFINE a == PoolUsd(m, c, Long, maximize)
           b == PoolUsd(m, c, Short, maximize)
           p == Pnl(c, Long, ~ maximize) + Pnl(c, Short, ~ maximize)
           i == c.positionImpactPool * PickPrice(c.price[Long], ~ maximize)
<1>1. a \in Nat /\ b \in Nat
  BY PoolUsdNat, LongShort
<1>2. p \in Int
  <2>1. Pnl(c, Long, ~ maximize) \in Int /\ Pnl(c, Short, ~ maximize) \in Int
    BY PnlInt, LongShort
  <2> QED BY <2>1
<1>3. i \in Int
  <2>1. c.positionImpactPool \in Nat /\ PickPrice(c.price[Long], ~ maximize) \in Nat
    BY ConditionFields, PickPriceNat, LongShort
  <2> QED BY <2>1, TimesNat
<1>4. c.borrowingFees \in Int
  BY ConditionFields, LongShort
<1>5. /\ FullValue(m, c, maximize) = a + b + c.borrowingFees - p - i
      /\ Rest(c, maximize) = c.borrowingFees - p - i
  BY DEF FullValue, PoolValueLess, Rest
<1> HIDE DEF a, b, p, i
<1>6. FullValue(m, c, maximize) \in Int /\ FullValue(m, c, maximize) = a + b + Rest(c, maximize)
  BY <1>1, <1>2, <1>3, <1>4, <1>5
<1> QED BY <1>1, <1>6 DEF a, b

\* A change of the pool changes the value by what it is worth.
LEMMA FullValueChange ==
  ASSUME NEW m \in Market, NEW n \in Market, NEW c \in Conditions, NEW maximize \in BOOLEAN
  PROVE  FullValue(n, c, maximize)
           = FullValue(m, c, maximize)
             + (n.pool[Long] - m.pool[Long]) * PickPrice(c.price[Long], maximize)
             + (n.pool[Short] - m.pool[Short]) * PickPrice(c.price[Short], maximize)
<1> DEFINE p == PickPrice(c.price[Long], maximize)
           q == PickPrice(c.price[Short], maximize)
           x == n.pool[Long] - m.pool[Long]
           y == n.pool[Short] - m.pool[Short]
<1>1. p \in Int /\ q \in Int
  BY PickPriceNat, LongShort
<1>2. /\ m.pool[Long] \in Int /\ m.pool[Short] \in Int /\ x \in Int /\ y \in Int
      /\ n.pool[Long] = m.pool[Long] + x /\ n.pool[Short] = m.pool[Short] + y
  BY MarketFields, LongShort
<1> HIDE DEF x, y
<1>3. /\ PoolUsd(m, c, Long, maximize) = m.pool[Long] * p
      /\ PoolUsd(m, c, Short, maximize) = m.pool[Short] * q
      /\ PoolUsd(n, c, Long, maximize) = (m.pool[Long] + x) * p
      /\ PoolUsd(n, c, Short, maximize) = (m.pool[Short] + y) * q
  BY <1>2 DEF PoolUsd
<1> HIDE DEF p, q
<1>4. /\ PoolUsd(n, c, Long, maximize) = PoolUsd(m, c, Long, maximize) + x * p
      /\ PoolUsd(n, c, Short, maximize) = PoolUsd(m, c, Short, maximize) + y * q
  BY <1>1, <1>2, <1>3
<1>5. x * p \in Int /\ y * q \in Int /\ Rest(c, maximize) \in Int
  BY <1>1, <1>2, RestInt
<1>6. FullValue(n, c, maximize) = FullValue(m, c, maximize) + x * p + y * q
  BY <1>4, <1>5, FullValueParts
<1> QED BY <1>6 DEF p, q, x, y

\* The same pool is worth the same.
LEMMA FullValueSame ==
  ASSUME NEW m, NEW n, n.pool = m.pool, NEW c, NEW maximize
  PROVE  FullValue(n, c, maximize) = FullValue(m, c, maximize)
BY DEF FullValue, PoolValueLess, PoolUsd

----------------------------------------------------------------------------
(* What the cap of the pnl hides *)

LEMMA CappedPnlAtMost ==
  ASSUME NEW m \in Market, NEW c \in Conditions, NEW t \in PoolTokens, NEW type \in Vaults,
         NEW maximize \in BOOLEAN
  PROVE  CappedPnl(m, c, t, type, maximize) <= Pnl(c, t, ~ maximize)
<1> DEFINE pnl == Pnl(c, t, ~ maximize)
           cap == ApplyFactor(PoolUsd(m, c, t, maximize), MaxPnlFactor[type])
<1>1. pnl \in Int
  BY PnlInt
<1>2. cap \in Int
  <2>1. MaxPnlFactor[type] \in Nat
    BY ConstantsAssumption
  <2> QED BY <2>1, PoolUsdNat, ApplyFactorInt
<1>3. CappedPnl(m, c, t, type, maximize) = IF pnl < 0 THEN pnl ELSE MinOf(pnl, cap)
  BY DEF CappedPnl
<1> HIDE DEF pnl, cap
<1>4. CappedPnl(m, c, t, type, maximize) <= pnl
  BY <1>1, <1>2, <1>3, MinOfInt
<1> QED BY <1>4 DEF pnl

\* The pool is valued at its full value at least.
LEMMA PoolValueAtLeast ==
  ASSUME NEW m \in Market, NEW c \in Conditions, NEW type \in Vaults, NEW maximize \in BOOLEAN
  PROVE  /\ PoolValue(m, c, type, maximize) \in Int
         /\ PoolValue(m, c, type, maximize)
              = FullValue(m, c, maximize)
                + (Pnl(c, Long, ~ maximize) - CappedPnl(m, c, Long, type, maximize))
                + (Pnl(c, Short, ~ maximize) - CappedPnl(m, c, Short, type, maximize))
         /\ PoolValue(m, c, type, maximize) >= FullValue(m, c, maximize)
<1> DEFINE p == Pnl(c, Long, ~ maximize)
           q == Pnl(c, Short, ~ maximize)
           cp == CappedPnl(m, c, Long, type, maximize)
           cq == CappedPnl(m, c, Short, type, maximize)
           a == PoolUsd(m, c, Long, maximize)
           b == PoolUsd(m, c, Short, maximize)
           i == c.positionImpactPool * PickPrice(c.price[Long], ~ maximize)
<1>1. p \in Int /\ q \in Int /\ cp \in Int /\ cq \in Int /\ cp <= p /\ cq <= q
  BY PnlInt, CappedPnlInt, CappedPnlAtMost, LongShort
<1>2. a \in Int /\ b \in Int
  BY PoolUsdNat, LongShort
<1>3. i \in Int
  <2>1. c.positionImpactPool \in Nat /\ PickPrice(c.price[Long], ~ maximize) \in Nat
    BY ConditionFields, PickPriceNat, LongShort
  <2> QED BY <2>1, TimesNat
<1>4. c.borrowingFees \in Int
  BY ConditionFields, LongShort
<1>5. /\ PoolValue(m, c, type, maximize) = a + b + c.borrowingFees - (cp + cq) - i
      /\ FullValue(m, c, maximize) = a + b + c.borrowingFees - (p + q) - i
  BY DEF PoolValue, FullValue, PoolValueLess
<1> HIDE DEF p, q, cp, cq, a, b, i
<1>6. /\ PoolValue(m, c, type, maximize) \in Int
      /\ PoolValue(m, c, type, maximize) = FullValue(m, c, maximize) + (p - cp) + (q - cq)
      /\ PoolValue(m, c, type, maximize) >= FullValue(m, c, maximize)
  BY <1>1, <1>2, <1>3, <1>4, <1>5
<1> QED BY <1>6 DEF p, q, cp, cq

\* Where nothing is reserved there are no profits.
LEMMA NoProfits ==
  ASSUME NEW n \in Market, NEW c \in Conditions, NEW t \in PoolTokens, ReserveValid(n, c, t),
         PoolUsd(n, c, t, FALSE) = 0
  PROVE  Pnl(c, t, TRUE) = 0
<1>1. ApplyFactor(0, ReserveFactor) = 0
  <2>1. ReserveFactor \in Nat /\ 0 * ReserveFactor = 0
    BY ConstantsAssumption
  <2>2. 0 \div Precision = 0
    BY PrecisionPositive
  <2> QED BY <2>1, <2>2 DEF ApplyFactor
<1>2. ReservedUsd(c, t) <= 0
  BY <1>1 DEF ReserveValid
<1>3. /\ c.openInterest[t].usd \in Nat /\ c.openInterest[t].tokens \in Nat
      /\ c.price[Long].max \in Nat /\ c.price[Long].max >= 1
  BY ConditionFields, LongShort
<1>4. c.openInterest[t].usd = 0 \/ c.openInterest[t].tokens = 0
  <2>1. CASE t = Long
    <3> DEFINE k == c.openInterest[t].tokens
               p == c.price[Long].max
    <3>1. k \in Nat /\ p \in Nat /\ p >= 1 /\ k * p <= 0
      BY <1>2, <1>3, <2>1 DEF ReservedUsd
    <3> HIDE DEF k, p
    <3>2. 1 * k <= p * k
      BY <3>1, TimesMonotone
    <3>3. k = 0
      BY <3>1, <3>2
    <3> QED BY <3>3 DEF k
  <2>2. CASE t # Long
    BY <1>2, <1>3, <2>2 DEF ReservedUsd
  <2> QED BY <2>1, <2>2
<1> QED BY <1>4 DEF Pnl

----------------------------------------------------------------------------
(* Deposits *)

\* Smaller factors have smaller products, whatever their signs are.
LEMMA TimesMonotoneInt ==
  ASSUME NEW a \in Int, NEW b \in Int, NEW c \in Nat, a <= b
  PROVE  a * c <= b * c
<1>1. (b - a) \in Nat
  OBVIOUS
<1>2. (b - a) * c \in Nat
  BY <1>1, TimesNat
<1>3. (b - a) * c = b * c - a * c
  OBVIOUS
<1>4. a * c \in Int /\ b * c \in Int
  OBVIOUS
<1> QED BY <1>2, <1>3, <1>4

\* Who pays value v for new shares of a pool that is valued at d, no less than
\* its value f, does not lower the value of a share.
LEMMA NewShares ==
  ASSUME NEW f \in Int, NEW g \in Int, NEW d \in Int, NEW supply \in Nat, NEW new \in Nat,
         NEW v \in Int, f <= d, d * new <= supply * v, g >= f + v
  PROVE  f * new <= supply * v /\ g * supply >= f * (supply + new)
<1>1. f * new <= d * new
  BY TimesMonotoneInt
<1>2. f * new \in Int /\ d * new \in Int /\ supply * v \in Int /\ f * supply \in Int
  OBVIOUS
<1>3. f * new <= supply * v
  BY <1>1, <1>2
<1>4. (f + v) * supply <= g * supply
  <2>1. f + v \in Int
    OBVIOUS
  <2> QED BY <2>1, TimesMonotoneInt
<1>5. /\ (f + v) * supply = f * supply + supply * v
      /\ f * (supply + new) = f * supply + f * new
  OBVIOUS
<1>6. (f + v) * supply \in Int /\ g * supply \in Int /\ f * (supply + new) \in Int
  OBVIOUS
<1> QED BY <1>2, <1>3, <1>4, <1>5, <1>6

LEMMA LegKeepsValue ==
  ASSUME NEW m \in Market, NEW n \in Market, NEW c \in Conditions, NEW t \in PoolTokens,
         NEW amount \in Nat, NEW positive \in BOOLEAN, m.supply > 0, Leg(m, n, c, t, amount, positive)
  PROVE  /\ n.supply >= m.supply
         /\ KeepsValue(m, n, c, TRUE)
         /\ ~ positive =>
              /\ FullValue(m, c, TRUE) * (n.supply - m.supply) <= m.supply * (amount * c.price[t].min)
              /\ \A u \in PoolTokens : n.pool[u] <= m.pool[u] + IF u = t THEN amount ELSE 0
<1>1. m.supply \in Nat /\ n.supply \in Nat /\ n.supply >= m.supply
  BY MarketFields DEF Leg
<1>2. FullValue(m, c, TRUE) \in Int /\ FullValue(n, c, TRUE) \in Int
  BY FullValueParts
<1>3. /\ c.price[t].min \in Nat /\ c.price[t].max \in Nat /\ c.price[t].min <= c.price[t].max
      /\ c.price[Opposite(t)].max \in Nat
  <2>1. c.price[t] \in Price
    BY ConditionsAssumption
  <2> QED BY <2>1, ConditionFields, OppositeToken DEF Price
<1>4. CASE n = m
  <2> DEFINE f == FullValue(m, c, TRUE)
             k == m.supply
             w == amount * c.price[t].min
  <2>1. f \in Int /\ k \in Nat /\ w \in Nat
    BY <1>1, <1>2, <1>3, TimesNat
  <2>2. n.supply = k /\ FullValue(n, c, TRUE) = f
    BY <1>4
  <2> HIDE DEF f, k, w
  <2>3. n.supply - k = 0 /\ f * 0 = 0 /\ k * w \in Nat /\ f * k >= f * k
    BY <2>1, <2>2, TimesNat
  <2>4. f * (n.supply - k) <= k * w
    BY <2>3
  <2>5. \A u \in PoolTokens : n.pool[u] <= m.pool[u] + IF u = t THEN amount ELSE 0
    BY <1>4, MarketFields
  <2>6. FullValue(n, c, TRUE) * k >= f * n.supply
    BY <2>2, <2>3
  <2> QED BY <1>1, <2>4, <2>5, <2>6 DEF KeepsValue, f, k, w
<1>5. CASE EntersPool(m, n, c, t, amount, positive)
  <2>1. PICK deposited \in Nat, kept \in Nat, bonus \in Nat :
          /\ deposited + kept <= amount
          /\ ~ positive => bonus = 0
          /\ \A u \in PoolTokens : n.pool[u] = m.pool[u] + IF u = t THEN deposited + kept ELSE bonus
          /\ PoolValue(m, c, "deposit", TRUE) > 0
          /\ PoolValue(m, c, "deposit", TRUE) * (n.supply - m.supply)
               <= m.supply * (deposited * c.price[t].min + bonus * c.price[Opposite(t)].max)
    BY <1>5 DEF EntersPool
  <2> DEFINE f == FullValue(m, c, TRUE)
             g == FullValue(n, c, TRUE)
             d == PoolValue(m, c, "deposit", TRUE)
             x == deposited * c.price[t].min
             y == bonus * c.price[Opposite(t)].max
             v == x + y
             new == n.supply - m.supply
  <2>2. x \in Nat /\ y \in Nat /\ v \in Nat /\ new \in Nat
    <3>1. x \in Nat /\ y \in Nat
      BY <1>3, TimesNat
    <3>2. new \in Nat
      BY <1>1
    <3> HIDE DEF x, y, new
    <3> QED BY <3>1, <3>2
  <2>3. d \in Int /\ f <= d
    BY PoolValueAtLeast DEF Vaults
  <2>4. g = f + (deposited + kept) * c.price[t].max + y
    <3> DEFINE e == deposited + kept
               z == e * c.price[t].max
    <3>1. e \in Int /\ z \in Int /\ y \in Int /\ f \in Int
      <4>1. e \in Nat /\ c.price[t].max \in Nat
        BY <1>3
      <4> HIDE DEF e
      <4>2. z \in Nat
        BY <4>1, TimesNat
      <4>3. f \in Int
        BY <1>2
      <4> HIDE DEF z, y, f
      <4>4. y \in Int
        BY <2>2
      <4> QED BY <4>1, <4>2, <4>3, <4>4
    <3>2. \A u \in PoolTokens : n.pool[u] = m.pool[u] + IF u = t THEN e ELSE bonus
      BY <2>1
    <3> HIDE DEF x, y, v, new, d, f, g, e
    <3>3. CASE t = Long
      <4>1. n.pool[Long] - m.pool[Long] = e /\ n.pool[Short] - m.pool[Short] = bonus
        BY <3>1, <3>2, <3>3, MarketFields, LongShort
      <4>2. /\ PickPrice(c.price[Long], TRUE) = c.price[t].max
            /\ PickPrice(c.price[Short], TRUE) = c.price[Opposite(t)].max
        BY <3>3 DEF PickPrice, Opposite
      <4>3. FullValue(n, c, TRUE)
              = FullValue(m, c, TRUE) + e * PickPrice(c.price[Long], TRUE)
                                      + bonus * PickPrice(c.price[Short], TRUE)
        BY <4>1, FullValueChange, Zenon
      <4>4. g = f + z + y
        BY <4>2, <4>3, Zenon DEF f, g, y
      <4> QED BY <4>4 DEF e
    <3>4. CASE t = Short
      <4>1. n.pool[Long] - m.pool[Long] = bonus /\ n.pool[Short] - m.pool[Short] = e
        BY <3>1, <3>2, <3>4, MarketFields, LongShort
      <4>2. /\ PickPrice(c.price[Short], TRUE) = c.price[t].max
            /\ PickPrice(c.price[Long], TRUE) = c.price[Opposite(t)].max
        BY <3>4, LongShort DEF PickPrice, Opposite
      <4>3. FullValue(n, c, TRUE)
              = FullValue(m, c, TRUE) + bonus * PickPrice(c.price[Long], TRUE)
                                      + e * PickPrice(c.price[Short], TRUE)
        BY <4>1, FullValueChange, Zenon
      <4>4. g = f + y + z
        BY <4>2, <4>3, Zenon DEF f, g, y
      <4> HIDE DEF z
      <4>5. g = f + z + y
        BY <3>1, <4>4
      <4> QED BY <4>5 DEF z, e
    <3> QED BY <3>3, <3>4 DEF PoolTokens
  <2>5. (deposited + kept) * c.price[t].max \in Int /\ x <= (deposited + kept) * c.price[t].max
    <3>1. c.price[t].min * deposited <= c.price[t].max * deposited
      BY <1>3, TimesMonotone
    <3>2. kept * c.price[t].max \in Nat
      BY <1>3, TimesNat
    <3>3. (deposited + kept) * c.price[t].max = c.price[t].max * deposited + kept * c.price[t].max
      BY <1>3
    <3>4. x = c.price[t].min * deposited
      BY <1>3
    <3>5. c.price[t].min * deposited \in Int /\ c.price[t].max * deposited \in Int
      BY <1>3
    <3> QED BY <3>1, <3>2, <3>3, <3>4, <3>5
  <2>6. d * new <= m.supply * v
    BY <2>1
  <2>7. ~ positive => y = 0 /\ x <= amount * c.price[t].min
    <3>1. deposited * c.price[t].min <= amount * c.price[t].min
      BY <1>3, <2>1, TimesMonotone
    <3>2. bonus = 0 => y = 0
      BY <1>3
    <3> QED BY <2>1, <3>1, <3>2
  <2>8. n.supply = m.supply + new
    BY <1>1
  <2> HIDE DEF d, x, y, new
  <2>9. f \in Int /\ g \in Int /\ v = x + y
    BY <1>2
  <2>10. g >= f + v
    <3> HIDE DEF f, g
    <3> QED BY <2>2, <2>4, <2>5, <2>9
  <2> HIDE DEF f, g, v
  <2>11. f * new <= m.supply * v /\ g * m.supply >= f * (m.supply + new)
    BY <1>1, <2>2, <2>3, <2>6, <2>9, <2>10, NewShares
  <2>12. KeepsValue(m, n, c, TRUE)
    BY <2>8, <2>11 DEF KeepsValue, f, g
  <2>13. ASSUME ~ positive
         PROVE  /\ f * new <= m.supply * (amount * c.price[t].min)
                /\ \A u \in PoolTokens : n.pool[u] <= m.pool[u] + IF u = t THEN amount ELSE 0
    <3> DEFINE w == amount * c.price[t].min
    <3>1. w \in Nat
      BY <1>3, TimesNat
    <3>2. v <= w
      BY <2>2, <2>7, <2>9, <2>13
    <3> HIDE DEF w
    <3>3. v * m.supply <= w * m.supply
      BY <1>1, <2>2, <3>1, <3>2, TimesMonotone
    <3>4. v * m.supply = m.supply * v /\ w * m.supply = m.supply * w
      BY <1>1, <2>2, <3>1
    <3>5. f * new \in Int /\ m.supply * v \in Int /\ m.supply * w \in Int
      BY <1>1, <2>2, <2>9, <3>1
    <3>6. f * new <= m.supply * w
      BY <2>11, <3>3, <3>4, <3>5
    <3>7. \A u \in PoolTokens : m.pool[u] \in Nat
      BY MarketFields
    <3> QED BY <2>1, <2>13, <3>6, <3>7 DEF w
  <2> QED BY <1>1, <2>12, <2>13 DEF f, new
<1> QED BY <1>4, <1>5 DEF Leg

\* Keeping the value is transitive.
LEMMA KeepsValueTwice ==
  ASSUME NEW f \in Int, NEW g \in Int, NEW h \in Int, NEW a \in Nat, NEW b \in Nat, NEW d \in Nat,
         b > 0, g * a >= f * b, h * b >= g * d
  PROVE  h * a >= f * d
<1>1. (f * b) * d <= (g * a) * d /\ (g * d) * a <= (h * b) * a
  <2>1. f * b \in Int /\ g * a \in Int /\ g * d \in Int /\ h * b \in Int
    OBVIOUS
  <2> QED BY <2>1, TimesMonotoneInt
<1>2. (f * b) * d = b * (f * d) /\ (g * a) * d = (g * d) * a /\ (h * b) * a = b * (h * a)
  OBVIOUS
<1>3. b * (f * d) \in Int /\ (g * d) * a \in Int /\ b * (h * a) \in Int /\ f * d \in Int /\ h * a \in Int
  OBVIOUS
<1>4. b * (f * d) <= b * (h * a)
  BY <1>1, <1>2, <1>3
<1> QED BY <1>3, <1>4, TimesCancel

LEMMA DepositKeepsValue ==
  ASSUME NEW m \in Market, NEW c \in Conditions, NEW amount \in [PoolTokens -> Nat], NEW i \in Int,
         m.supply > 0, Deposited(m, c, amount, i).valid
  PROVE  KeepsValue(m, Deposited(m, c, amount, i).after, c, TRUE)
<1> DEFINE n == Deposited(m, c, amount, i).after
           positive == i > 0
<1>1. n \in Market /\ positive \in BOOLEAN
  BY DepositedBooks
<1>2. PICK middle \in Market :
        /\ Leg(m, middle, c, Long, amount[Long], positive)
        /\ Leg(middle, n, c, Short, amount[Short], positive)
  BY DepositedBooks
<1> HIDE DEF n, positive
<1>3. amount[Long] \in Nat /\ amount[Short] \in Nat /\ Long \in PoolTokens /\ Short \in PoolTokens
  BY LongShort
<1>4. m.supply \in Nat /\ middle.supply \in Nat /\ n.supply \in Nat
  BY <1>1, MarketFields
<1>5. middle.supply >= m.supply /\ KeepsValue(m, middle, c, TRUE)
  BY <1>1, <1>2, <1>3, LegKeepsValue
<1>6. middle.supply > 0
  BY <1>4, <1>5
<1>7. KeepsValue(middle, n, c, TRUE)
  BY <1>1, <1>2, <1>3, <1>6, LegKeepsValue
<1>8. FullValue(m, c, TRUE) \in Int /\ FullValue(middle, c, TRUE) \in Int /\ FullValue(n, c, TRUE) \in Int
  BY <1>1, FullValueParts
<1>9. KeepsValue(m, n, c, TRUE)
  BY <1>4, <1>5, <1>6, <1>7, <1>8, KeepsValueTwice DEF KeepsValue
<1> QED BY <1>9 DEF n

----------------------------------------------------------------------------
(* Withdrawals *)

LEMMA UnseenNat ==
  ASSUME NEW m \in Market, NEW c \in Conditions, NEW t \in PoolTokens
  PROVE  Unseen(m, c, t) \in Nat
<1>1. RoundUpDivision(PoolUsd(m, c, t, FALSE), Precision) \in Nat
  BY PoolUsdNat, RoundUpDivisionNat, PrecisionPositive
<1> QED BY <1>1 DEF Unseen

\* Profits that a pool of value low lets pass are less than one unit of the
\* factor above the cap of a larger one.
LEMMA UnseenArithmetic ==
  ASSUME NEW pnl \in Nat, NEW low \in Nat, NEW pool \in Nat, NEW factor \in Nat,
         low > 0, low <= pool, (pnl * Precision) \div low <= factor
  PROVE  pnl <= ApplyFactor(pool, factor) + RoundUpDivision(pool, Precision)
<1> DEFINE prec == Precision
           q == (pnl * prec) \div low
           cap == (pool * factor) \div prec
           r == (pool + prec - 1) \div prec
<1>1. prec \in Nat /\ prec > 0
  BY PrecisionPositive
<1>2. pnl * prec \in Nat /\ pool * factor \in Nat /\ pool + prec - 1 \in Nat
  BY <1>1, TimesNat
<1>3. q \in Nat /\ q <= factor /\ pnl * prec < low * q + low
  <2> DEFINE x == pnl * prec
  <2>1. x \in Nat /\ q <= factor
    BY <1>2
  <2> HIDE DEF x
  <2>2. x \div low \in Nat /\ x < low * (x \div low) + low
    BY <2>1, DivInt, DivNat
  <2> QED BY <2>1, <2>2 DEF x
<1>4. cap \in Nat /\ pool * factor < prec * cap + prec
  BY <1>1, <1>2, DivInt, DivNat
<1>5. r \in Nat /\ pool + prec - 1 < prec * r + prec
  BY <1>1, <1>2, DivInt, DivNat
<1>6. ApplyFactor(pool, factor) = cap /\ RoundUpDivision(pool, Precision) = r
  BY DEF ApplyFactor, RoundUpDivision
<1> HIDE DEF prec, q, cap, r
<1>7. q * low <= factor * low /\ low * factor <= pool * factor
  BY <1>3, TimesMonotone
<1>8. /\ low * q = q * low /\ factor * low = low * factor
      /\ q * low \in Int /\ factor * low \in Int /\ pool * factor \in Int
      /\ prec * cap \in Int /\ prec * r \in Int /\ pnl * prec \in Int
  BY <1>1, <1>3, <1>4, <1>5
<1>9. pnl * prec < prec * cap + prec + prec * r
  BY <1>1, <1>3, <1>4, <1>5, <1>7, <1>8
<1>10. ASSUME cap + r + 1 <= pnl PROVE FALSE
  <2>1. cap + r + 1 \in Nat
    BY <1>4, <1>5
  <2>2. (cap + r + 1) * prec <= pnl * prec
    BY <1>1, <1>10, <2>1, TimesMonotone
  <2>3. (cap + r + 1) * prec = prec * cap + prec * r + prec
    BY <1>1, <1>4, <1>5
  <2> QED BY <1>1, <1>8, <1>9, <2>2, <2>3
<1> QED BY <1>4, <1>5, <1>6, <1>10

\* The market after a withdrawal is valid (validateMaxPnl, validateReserve): the
\* cap has hidden at most what it lets pass.
LEMMA CapHides ==
  ASSUME NEW m \in Market, NEW n \in Market, NEW c \in Conditions, NEW t \in PoolTokens,
         n.pool[t] <= m.pool[t], ReserveValid(n, c, t), ~ PnlFactorExceeded(n, c, t, "withdrawal")
  PROVE  Pnl(c, t, TRUE) - CappedPnl(m, c, t, "withdrawal", FALSE) <= Unseen(m, c, t)
<1> DEFINE pnl == Pnl(c, t, TRUE)
           factor == MaxPnlFactor["withdrawal"]
           low == PoolUsd(n, c, t, FALSE)
           pool == PoolUsd(m, c, t, FALSE)
           cap == ApplyFactor(pool, factor)
           capped == CappedPnl(m, c, t, "withdrawal", FALSE)
<1>1. pnl \in Int /\ low \in Nat /\ pool \in Nat /\ factor \in Nat
  BY PnlInt, PoolUsdNat, ConstantsAssumption
<1>2. cap \in Nat
  <2>1. pool * factor \in Nat
    <3> HIDE DEF pool, factor
    <3> QED BY <1>1, TimesNat
  <2> HIDE DEF pool, factor
  <2> QED BY <2>1, DivNat, PrecisionPositive DEF ApplyFactor
<1>3. low <= pool
  <2> DEFINE p == PickPrice(c.price[t], FALSE)
  <2>1. p \in Nat /\ m.pool[t] \in Nat /\ n.pool[t] \in Nat
    BY PickPriceNat, MarketFields
  <2>2. low = n.pool[t] * p /\ pool = m.pool[t] * p
    BY DEF PoolUsd
  <2> HIDE DEF p, low, pool
  <2> QED BY <2>1, <2>2, TimesMonotone
<1>4. capped = IF pnl < 0 THEN pnl ELSE MinOf(pnl, cap)
  BY DEF CappedPnl
<1>5. Unseen(m, c, t) = IF pnl > capped THEN RoundUpDivision(pool, Precision) ELSE 0
  BY DEF Unseen
<1>6. low = 0 => pnl = 0
  BY NoProfits
<1>7. low > 0 /\ pnl > 0 => ~ ((pnl * Precision) \div low > factor)
  BY DEF PnlFactorExceeded
<1>8. (pnl * Precision) \div low \in Int \/ ~ (low > 0)
  <2> HIDE DEF pnl, low
  <2>1. pnl * Precision \in Int
    BY <1>1, PrecisionPositive
  <2> QED BY <1>1, <2>1, DivInt
<1> HIDE DEF pnl, factor, low, pool, cap, capped
<1>9. CASE pnl > capped
  <2>1. pnl > 0 /\ capped = cap
    BY <1>1, <1>2, <1>4, <1>9 DEF MinOf
  <2>2. low > 0
    BY <1>1, <1>6, <2>1
  <2>3. (pnl * Precision) \div low <= factor
    BY <1>1, <1>7, <1>8, <2>1, <2>2
  <2>4. pnl <= cap + RoundUpDivision(pool, Precision)
    BY <1>1, <1>3, <2>1, <2>2, <2>3, UnseenArithmetic DEF cap
  <2>5. RoundUpDivision(pool, Precision) \in Nat
    BY <1>1, RoundUpDivisionNat, PrecisionPositive
  <2> DEFINE r == RoundUpDivision(pool, Precision)
  <2>6. pnl <= cap + r /\ r \in Nat /\ Unseen(m, c, t) = r
    BY <1>5, <1>9, <2>4, <2>5
  <2> HIDE DEF r
  <2>7. pnl - capped <= Unseen(m, c, t)
    BY <1>1, <1>2, <2>1, <2>6
  <2> QED BY <2>7 DEF pnl, capped
<1>10. CASE ~ (pnl > capped)
  <2>1. capped \in Int
    BY <1>1, <1>2, <1>4, MinOfInt
  <2>2. pnl - capped <= Unseen(m, c, t)
    BY <1>1, <1>5, <1>10, <2>1
  <2> QED BY <2>2 DEF pnl, capped
<1> QED BY <1>9, <1>10

\* A withdrawal after which the market is valid values the pool at its full
\* value, but for the unseen profits.
LEMMA WithdrawalSees ==
  ASSUME NEW m \in Market, NEW n \in Market, NEW c \in Conditions,
         \A t \in PoolTokens : n.pool[t] <= m.pool[t] /\ ReserveValid(n, c, t),
         MaxPnlValid(n, c, "withdrawal", "withdrawal")
  PROVE  /\ UnseenProfits(m, c) \in Nat
         /\ PoolValue(m, c, "withdrawal", FALSE) <= FullValue(m, c, FALSE) + UnseenProfits(m, c)
<1> DEFINE d == PoolValue(m, c, "withdrawal", FALSE)
           f == FullValue(m, c, FALSE)
           u == UnseenProfits(m, c)
           p == Pnl(c, Long, TRUE) - CappedPnl(m, c, Long, "withdrawal", FALSE)
           q == Pnl(c, Short, TRUE) - CappedPnl(m, c, Short, "withdrawal", FALSE)
           up == Unseen(m, c, Long)
           uq == Unseen(m, c, Short)
<1>1. f \in Int /\ d \in Int
  BY FullValueParts, PoolValueInt
<1>2. p <= up
  BY CapHides, LongShort DEF MaxPnlValid
<1>3. q <= uq
  BY CapHides, LongShort DEF MaxPnlValid
<1>4. up \in Nat /\ uq \in Nat /\ u = up + uq
  BY UnseenNat, LongShort DEF UnseenProfits
<1>5. p \in Int /\ q \in Int
  <2>1. /\ Pnl(c, Long, TRUE) \in Int /\ CappedPnl(m, c, Long, "withdrawal", FALSE) \in Int
        /\ Pnl(c, Short, TRUE) \in Int /\ CappedPnl(m, c, Short, "withdrawal", FALSE) \in Int
    BY PnlInt, CappedPnlInt, LongShort
  <2>2. \A a, b \in Int : a - b \in Int
    OBVIOUS
  <2> QED BY <2>1, <2>2, Zenon
<1>6. d = f + p + q
  BY PoolValueAtLeast
<1>7. u \in Nat /\ d <= f + u
  <2> HIDE DEF p, q, up, uq, u, f, d
  <2> QED BY <1>1, <1>2, <1>3, <1>4, <1>5, <1>6
<1> QED BY <1>7 DEF u, f, d

\* Who takes value v for n shares of a pool that is valued at d takes at most
\* their part of what d is more than the pool's value f.
LEMMA BurntShares ==
  ASSUME NEW f \in Int, NEW g \in Int, NEW d \in Int, NEW u \in Int, NEW v \in Int,
         NEW supply \in Nat, NEW n \in Nat,
         d <= f + u, supply * v <= d * n, g >= f - v
  PROVE  g * supply + u * n >= f * (supply - n)
<1>1. d * n <= (f + u) * n /\ (f - v) * supply <= g * supply
  <2>1. f + u \in Int /\ f - v \in Int
    OBVIOUS
  <2> QED BY <2>1, TimesMonotoneInt
<1>2. /\ (f + u) * n = f * n + u * n
      /\ (f - v) * supply = f * supply - supply * v
      /\ f * (supply - n) = f * supply - f * n
  OBVIOUS
<1>3. /\ f * n \in Int /\ u * n \in Int /\ f * supply \in Int /\ supply * v \in Int
      /\ d * n \in Int /\ g * supply \in Int
  OBVIOUS
<1> QED BY <1>1, <1>2, <1>3

LEMMA WithdrawalLeavesValue ==
  ASSUME NEW m \in Market, NEW c \in Conditions, NEW n \in Nat,
         \A t \in PoolTokens : Surplus(m, t) >= 0,
         WithdrawalPossible(m, c, n), Withdrawn(m, c, n).valid
  PROVE  LeavesValue(m, Withdrawn(m, c, n).after, c)
<1> DEFINE result == Withdrawn(m, c, n)
           after == result.after
           d == PoolValue(m, c, "withdrawal", FALSE)
           f == FullValue(m, c, FALSE)
           g == FullValue(after, c, FALSE)
           u == UnseenProfits(m, c)
<1>1. /\ after \in Market /\ after.supply = m.supply - n
      /\ LeavesPool(m, after, c, n, result.paid)
      /\ \A t \in PoolTokens : ReserveValid(after, c, t)
      /\ MaxPnlValid(after, c, "withdrawal", "withdrawal")
  BY WithdrawnBooks
<1> HIDE DEF result, after
<1>2. PICK output \in [PoolTokens -> Nat], kept \in [PoolTokens -> Nat], usd \in Nat :
        /\ \A t \in PoolTokens : after.pool[t] = m.pool[t] - (output[t] - kept[t]) /\ kept[t] <= output[t]
        /\ output[Long] * c.price[Long].max + output[Short] * c.price[Short].max <= usd
        /\ m.supply * usd <= d * n
  BY <1>1 DEF LeavesPool
<1>3. f \in Int /\ g \in Int /\ d \in Int /\ m.supply \in Nat
  BY <1>1, FullValueParts, PoolValueInt, MarketFields
<1>4. ASSUME NEW t \in PoolTokens
      PROVE  after.pool[t] <= m.pool[t]
  <2>1. m.pool[t] \in Nat /\ output[t] \in Nat /\ kept[t] \in Nat
    BY MarketFields
  <2> QED BY <1>2, <2>1
<1>5. u \in Int /\ d <= f + u
  <2>1. u \in Nat /\ d <= f + u
    BY <1>1, <1>4, WithdrawalSees
  <2> HIDE DEF u, d, f
  <2> QED BY <2>1
<1>6. g >= f - usd
  <2> DEFINE x == after.pool[Long] - m.pool[Long]
             y == after.pool[Short] - m.pool[Short]
             p == PickPrice(c.price[Long], FALSE)
             q == PickPrice(c.price[Short], FALSE)
  <2>1. g = f + x * p + y * q
    BY <1>1, FullValueChange, Zenon
  <2>2. ASSUME NEW t \in PoolTokens
        PROVE  LET z == after.pool[t] - m.pool[t]
                   price == PickPrice(c.price[t], FALSE) IN
               /\ output[t] * c.price[t].max \in Nat
               /\ z * price \in Int
               /\ z * price >= - (output[t] * c.price[t].max)
    <3> DEFINE z == after.pool[t] - m.pool[t]
               price == PickPrice(c.price[t], FALSE)
               w == output[t] - kept[t]
    <3>1. /\ m.pool[t] \in Nat /\ output[t] \in Nat /\ kept[t] \in Nat /\ w \in Nat
          /\ w <= output[t] /\ z = - w
      BY <1>2, MarketFields
    <3>2. price \in Nat /\ c.price[t].max \in Nat /\ price <= c.price[t].max
      <4>1. c.price[t] \in Price
        BY ConditionsAssumption
      <4> QED BY <4>1 DEF Price, PickPrice
    <3> HIDE DEF z, price, w
    <3>3. w * price <= output[t] * price /\ price * output[t] <= c.price[t].max * output[t]
      BY <3>1, <3>2, TimesMonotone
    <3>4. /\ z * price = - (w * price) /\ price * output[t] = output[t] * price
          /\ c.price[t].max * output[t] = output[t] * c.price[t].max
      BY <3>1, <3>2
    <3>5. output[t] * c.price[t].max \in Nat /\ w * price \in Int /\ output[t] * price \in Int
      BY <3>1, <3>2, TimesNat
    <3>6. z * price \in Int /\ z * price >= - (output[t] * c.price[t].max)
      BY <3>3, <3>4, <3>5
    <3> QED BY <3>5, <3>6 DEF z, price
  <2> DEFINE a == output[Long] * c.price[Long].max
             b == output[Short] * c.price[Short].max
             xp == x * p
             yq == y * q
  <2>3. a \in Nat /\ b \in Nat /\ xp \in Int /\ yq \in Int /\ xp >= - a /\ yq >= - b
    BY <2>2, LongShort
  <2>4. a + b <= usd /\ g = f + xp + yq
    BY <1>2, <2>1
  <2> HIDE DEF a, b, xp, yq, f, g
  <2> QED BY <1>3, <2>3, <2>4
<1>7. g * m.supply + u * n >= f * (m.supply - n)
  <2> HIDE DEF f, g, d, u
  <2>1. usd \in Int /\ m.supply * usd <= d * n
    BY <1>2
  <2> QED BY <1>3, <1>5, <1>6, <2>1, BurntShares
<1>8. m.supply - after.supply = n
  BY <1>1, <1>3
<1>9. LeavesValue(m, after, c)
  BY <1>1, <1>7, <1>8 DEF LeavesValue
<1> QED BY <1>9 DEF after, result

----------------------------------------------------------------------------
(* Swaps *)

LEMMA SwapKeepsValue ==
  ASSUME NEW m \in Market, NEW c \in Conditions, NEW t \in PoolTokens, NEW n \in Nat, NEW i \in Int,
         \A u \in PoolTokens : Surplus(m, u) >= 0,
         Swapped(m, c, t, n, i).valid, NEW maximize \in BOOLEAN
  PROVE  KeepsValue(m, Swapped(m, c, t, n, i).after, c, maximize)
<1> DEFINE after == Swapped(m, c, t, n, i).after
           f == FullValue(m, c, maximize)
           g == FullValue(after, c, maximize)
           p == PickPrice(c.price[t], maximize)
           q == PickPrice(c.price[Opposite(t)], maximize)
<1>1. after \in Market /\ after.supply = m.supply /\ PassesPool(m, after, c, t)
  BY SwappedBooks
<1> HIDE DEF after
<1>2. PICK amountIn \in Nat, kept \in Nat, amountOut \in Nat :
        /\ after.pool[t] = m.pool[t] + amountIn + kept
        /\ after.pool[Opposite(t)] = m.pool[Opposite(t)] - amountOut
        /\ amountOut * c.price[Opposite(t)].max <= amountIn * c.price[t].min
  BY <1>1 DEF PassesPool
<1>3. f \in Int /\ g \in Int /\ m.supply \in Nat
  BY <1>1, FullValueParts, MarketFields
<1>4. /\ p \in Nat /\ q \in Nat /\ c.price[t].min \in Nat /\ c.price[Opposite(t)].max \in Nat
      /\ c.price[t].min <= p /\ q <= c.price[Opposite(t)].max
  <2>1. c.price[t] \in Price /\ c.price[Opposite(t)] \in Price
    BY ConditionsAssumption, OppositeToken
  <2> QED BY <2>1 DEF Price, PickPrice
<1> DEFINE x == after.pool[t] - m.pool[t]
           y == after.pool[Opposite(t)] - m.pool[Opposite(t)]
<1>5. x = amountIn + kept /\ y = - amountOut
  BY <1>2, MarketFields, OppositeToken
<1>6. x * p \in Int /\ y * q \in Int /\ x * p + y * q >= 0
  <2> DEFINE low == c.price[t].min
             high == c.price[Opposite(t)].max
  <2> HIDE DEF x, y, p, q, low, high
  <2>0. low \in Nat /\ high \in Nat /\ p \in Nat /\ q \in Nat /\ low <= p /\ q <= high
        /\ amountOut * high <= amountIn * low
    BY <1>2, <1>4 DEF low, high
  <2>1. x * p = amountIn * p + kept * p /\ y * q = - (amountOut * q)
    BY <1>5, <2>0
  <2>2. low * amountIn <= p * amountIn /\ q * amountOut <= high * amountOut
    BY <2>0, TimesMonotone
  <2>3. /\ low * amountIn = amountIn * low /\ p * amountIn = amountIn * p
        /\ q * amountOut = amountOut * q /\ high * amountOut = amountOut * high
    BY <2>0
  <2>4. /\ kept * p \in Nat /\ amountIn * p \in Nat /\ amountOut * q \in Nat
        /\ amountOut * high \in Nat /\ amountIn * low \in Nat
    BY <2>0, TimesNat
  <2> QED BY <2>0, <2>1, <2>2, <2>3, <2>4
<1>7. g = f + x * p + y * q
  <2>1. CASE t = Long
    <3>1. Opposite(t) = Short
      BY <2>1 DEF Opposite
    <3> QED BY <1>1, <2>1, <3>1, FullValueChange, Zenon
  <2>2. CASE t = Short
    <3>1. Opposite(t) = Long
      BY <2>2, LongShort DEF Opposite
    <3> DEFINE xp == x * p
               yq == y * q
    <3>2. xp \in Int /\ yq \in Int
      BY <1>6
    <3>3. g = f + yq + xp
      BY <1>1, <2>2, <3>1, FullValueChange, Zenon
    <3> HIDE DEF xp, yq, f, g
    <3>4. g = f + xp + yq
      BY <1>3, <3>2, <3>3
    <3> QED BY <3>4 DEF xp, yq
  <2> QED BY <2>1, <2>2 DEF PoolTokens
<1>8. f <= g
  <2> DEFINE xp == x * p
             yq == y * q
  <2>1. xp \in Int /\ yq \in Int /\ xp + yq >= 0 /\ g = f + xp + yq
    BY <1>6, <1>7
  <2> HIDE DEF xp, yq, f, g
  <2> QED BY <1>3, <2>1
<1> HIDE DEF f, g
<1>9. f * m.supply <= g * m.supply
  BY <1>3, <1>8, TimesMonotoneInt
<1>10. f * m.supply \in Int /\ g * m.supply \in Int
  BY <1>3
<1>11. KeepsValue(m, after, c, maximize)
  BY <1>1, <1>9, <1>10 DEF KeepsValue, f, g
<1> QED BY <1>11 DEF after

----------------------------------------------------------------------------
(* Round trips *)

LEMMA PnlMonotone ==
  ASSUME NEW c \in Conditions, NEW t \in PoolTokens
  PROVE  Pnl(c, t, FALSE) <= Pnl(c, t, TRUE)
<1> DEFINE usd == c.openInterest[t].usd
           tokens == c.openInterest[t].tokens
           low == c.price[Long].min
           high == c.price[Long].max
<1>1. /\ usd \in Nat /\ tokens \in Nat /\ low \in Nat /\ high \in Nat /\ low <= high
  <2>1. c.price[Long] \in Price
    BY ConditionsAssumption, LongShort
  <2> QED BY <2>1, ConditionFields DEF Price
<1>2. usd = 0 \/ tokens = 0 => Pnl(c, t, FALSE) = 0 /\ Pnl(c, t, TRUE) = 0
  BY DEF Pnl
<1>3. usd # 0 /\ tokens # 0 /\ t = Long
        => Pnl(c, t, FALSE) = tokens * low - usd /\ Pnl(c, t, TRUE) = tokens * high - usd
  BY DEF Pnl, PickPrice
<1>4. usd # 0 /\ tokens # 0 /\ t # Long
        => Pnl(c, t, FALSE) = usd - tokens * high /\ Pnl(c, t, TRUE) = usd - tokens * low
  BY DEF Pnl, PickPrice
<1> HIDE DEF usd, tokens, low, high
<1> DEFINE x == tokens * low
           y == tokens * high
           lowest == Pnl(c, t, FALSE)
           highest == Pnl(c, t, TRUE)
<1>5. x \in Int /\ y \in Int /\ x <= y
  <2>1. low * tokens <= high * tokens
    BY <1>1, TimesMonotone
  <2> QED BY <1>1, <2>1
<1>6. lowest \in Int /\ highest \in Int
  BY PnlInt
<1>7. \/ lowest = 0 /\ highest = 0
      \/ lowest = x - usd /\ highest = y - usd
      \/ lowest = usd - y /\ highest = usd - x
  BY <1>2, <1>3, <1>4
<1> HIDE DEF x, y, lowest, highest
<1>8. lowest <= highest
  BY <1>1, <1>5, <1>6, <1>7
<1> QED BY <1>8 DEF lowest, highest

\* The pool is worth more at the prices that favour it.
LEMMA FullValueMonotone ==
  ASSUME NEW m \in Market, NEW c \in Conditions
  PROVE  FullValue(m, c, FALSE) <= FullValue(m, c, TRUE)
<1>1. ASSUME NEW t \in PoolTokens
      PROVE  PoolUsd(m, c, t, FALSE) <= PoolUsd(m, c, t, TRUE)
  <2> DEFINE low == c.price[t].min
             high == c.price[t].max
             n == m.pool[t]
  <2>1. low \in Nat /\ high \in Nat /\ low <= high /\ n \in Nat
    <3>1. c.price[t] \in Price
      BY ConditionsAssumption
    <3> QED BY <3>1, MarketFields DEF Price
  <2>2. PoolUsd(m, c, t, FALSE) = n * low /\ PoolUsd(m, c, t, TRUE) = n * high
    BY DEF PoolUsd, PickPrice
  <2> HIDE DEF low, high, n
  <2>3. low * n <= high * n
    BY <2>1, TimesMonotone
  <2>4. low * n = n * low /\ high * n = n * high
    BY <2>1
  <2> QED BY <2>2, <2>3, <2>4
<1> DEFINE al == PoolUsd(m, c, Long, FALSE)
           ah == PoolUsd(m, c, Long, TRUE)
           bl == PoolUsd(m, c, Short, FALSE)
           bh == PoolUsd(m, c, Short, TRUE)
           pl == Pnl(c, Long, FALSE)
           ph == Pnl(c, Long, TRUE)
           ql == Pnl(c, Short, FALSE)
           qh == Pnl(c, Short, TRUE)
           il == c.positionImpactPool * c.price[Long].min
           ih == c.positionImpactPool * c.price[Long].max
           fees == c.borrowingFees
<1>2. /\ al \in Int /\ ah \in Int /\ bl \in Int /\ bh \in Int
      /\ pl \in Int /\ ph \in Int /\ ql \in Int /\ qh \in Int /\ fees \in Int
  <2>1. al \in Nat /\ ah \in Nat /\ bl \in Nat /\ bh \in Nat
    BY PoolUsdNat, LongShort
  <2>2. pl \in Int /\ ph \in Int /\ ql \in Int /\ qh \in Int
    BY PnlInt, LongShort
  <2>3. fees \in Int
    BY ConditionFields, LongShort
  <2> HIDE DEF al, ah, bl, bh, pl, ph, ql, qh, fees
  <2> QED BY <2>1, <2>2, <2>3
<1>3. al <= ah /\ bl <= bh /\ pl <= ph /\ ql <= qh
  BY <1>1, PnlMonotone, LongShort
<1>4. il \in Int /\ ih \in Int /\ il <= ih
  <2> DEFINE n == c.positionImpactPool
             low == c.price[Long].min
             high == c.price[Long].max
  <2>1. low \in Nat /\ high \in Nat /\ low <= high /\ n \in Nat
    <3>1. c.price[Long] \in Price
      BY ConditionsAssumption, LongShort
    <3> QED BY <3>1, ConditionsAssumption DEF Price
  <2> HIDE DEF low, high, n
  <2>2. low * n <= high * n /\ low * n = n * low /\ high * n = n * high
        /\ n * low \in Int /\ n * high \in Int
    BY <2>1, TimesMonotone
  <2> QED BY <2>2 DEF low, high, n
<1> DEFINE lowest == FullValue(m, c, FALSE)
           highest == FullValue(m, c, TRUE)
<1>5. /\ lowest = al + bl + fees - (ph + qh) - ih
      /\ highest = ah + bh + fees - (pl + ql) - il
  BY DEF FullValue, PoolValueLess, PickPrice
<1>6. lowest \in Int /\ highest \in Int
  BY FullValueParts
<1> HIDE DEF al, ah, bl, bh, pl, ph, ql, qh, il, ih, fees, lowest, highest
<1>7. lowest <= highest
  BY <1>2, <1>3, <1>4, <1>5, <1>6
<1> QED BY <1>7 DEF lowest, highest

\* The market tokens of two payments x and y are worth at most both together.
LEMMA TwoPayments ==
  ASSUME NEW f \in Int, NEW g \in Int, NEW s0 \in Nat, NEW s1 \in Nat, NEW s2 \in Nat,
         NEW x \in Nat, NEW y \in Nat, s0 > 0, s0 <= s1, s1 <= s2,
         f * (s1 - s0) <= s0 * x, g * (s2 - s1) <= s1 * y, g * s0 >= f * s1
  PROVE  f * (s2 - s0) <= s0 * (x + y)
<1> DEFINE a == s1 - s0
           b == s2 - s1
<1>1. a \in Nat /\ b \in Nat /\ s2 - s0 = a + b /\ f * a <= s0 * x /\ g * b <= s1 * y
  OBVIOUS
<1> HIDE DEF a, b
<1>2. (f * s1) * b <= (g * s0) * b
  <2>1. f * s1 \in Int /\ g * s0 \in Int
    OBVIOUS
  <2> QED BY <1>1, <2>1, TimesMonotoneInt
<1>3. (g * b) * s0 <= (s1 * y) * s0
  <2>1. g * b \in Int /\ s1 * y \in Int
    BY <1>1
  <2> QED BY <1>1, <2>1, TimesMonotoneInt
<1>4. /\ (f * s1) * b = s1 * (f * b) /\ (g * s0) * b = (g * b) * s0
      /\ (s1 * y) * s0 = s1 * (s0 * y)
  BY <1>1
<1>5. /\ f * b \in Int /\ s0 * y \in Int /\ s1 * (f * b) \in Int /\ (g * b) * s0 \in Int
      /\ s1 * (s0 * y) \in Int
  BY <1>1
<1>6. s1 * (f * b) <= s1 * (s0 * y)
  BY <1>2, <1>3, <1>4, <1>5
<1>7. f * b <= s0 * y
  BY <1>5, <1>6, TimesCancel
<1>8. f * (a + b) = f * a + f * b /\ s0 * (x + y) = s0 * x + s0 * y
      /\ f * a \in Int /\ s0 * x \in Int
  BY <1>1
<1>9. f * (a + b) <= s0 * (x + y)
  BY <1>1, <1>5, <1>7, <1>8
<1> QED BY <1>1, <1>9

\* Shares that were bought for value w of a pool worth f are sold for v.
LEMMA BoughtAndSold ==
  ASSUME NEW f \in Int, NEW d \in Int, NEW u \in Nat, NEW v \in Int, NEW w \in Nat,
         NEW supply \in Nat, NEW n \in Nat,
         f * n <= supply * w, d <= f + w + u, (supply + n) * v <= d * n
  PROVE  (v - w) * (supply + n) <= u * n
<1>1. d * n <= (f + w + u) * n
  <2>1. f + w + u \in Int
    OBVIOUS
  <2> QED BY <2>1, TimesMonotoneInt
<1>2. /\ (f + w + u) * n = f * n + w * n + u * n
      /\ (v - w) * (supply + n) = (supply + n) * v - (supply * w + w * n)
  OBVIOUS
<1>3. /\ f * n \in Int /\ w * n \in Int /\ u * n \in Int /\ d * n \in Int
      /\ (supply + n) * v \in Int /\ supply * w \in Int
  OBVIOUS
<1> QED BY <1>1, <1>2, <1>3

\* What a deposit without a bonus adds to the pool, and what its market tokens
\* are worth.
LEMMA DepositWithoutBonus ==
  ASSUME NEW m \in Market, NEW c \in Conditions, NEW amount \in [PoolTokens -> Nat], NEW i \in Int,
         m.supply > 0, i <= 0, Deposited(m, c, amount, i).valid
  PROVE  LET result == Deposited(m, c, amount, i)
             w == amount[Long] * c.price[Long].min + amount[Short] * c.price[Short].min IN
         /\ FullValue(m, c, TRUE) * result.minted <= m.supply * w
         /\ FullValue(result.after, c, FALSE) <= FullValue(m, c, FALSE) + w
<1> DEFINE result == Deposited(m, c, amount, i)
           n == result.after
           positive == i > 0
           x == amount[Long] * c.price[Long].min
           y == amount[Short] * c.price[Short].min
           f == FullValue(m, c, TRUE)
<1>1. n \in Market /\ result.minted \in Nat /\ n.supply = m.supply + result.minted
  BY DepositedBooks
<1>2. PICK middle \in Market :
        /\ Leg(m, middle, c, Long, amount[Long], positive)
        /\ Leg(middle, n, c, Short, amount[Short], positive)
  BY DepositedBooks
<1>3. positive \in BOOLEAN /\ ~ positive
  OBVIOUS
<1> HIDE DEF result, n, positive
<1>4. amount[Long] \in Nat /\ amount[Short] \in Nat /\ Long \in PoolTokens /\ Short \in PoolTokens
  BY LongShort
<1>5. m.supply \in Nat /\ middle.supply \in Nat /\ n.supply \in Nat
  BY <1>1, MarketFields
<1>6. /\ middle.supply >= m.supply /\ KeepsValue(m, middle, c, TRUE)
      /\ f * (middle.supply - m.supply) <= m.supply * x
      /\ \A u \in PoolTokens : middle.pool[u] <= m.pool[u] + IF u = Long THEN amount[Long] ELSE 0
  BY <1>2, <1>3, <1>4, LegKeepsValue
<1>7. middle.supply > 0
  BY <1>5, <1>6
<1> DEFINE g == FullValue(middle, c, TRUE)
<1>8. /\ n.supply >= middle.supply
      /\ g * (n.supply - middle.supply) <= middle.supply * y
      /\ \A u \in PoolTokens : n.pool[u] <= middle.pool[u] + IF u = Short THEN amount[Short] ELSE 0
  BY <1>1, <1>2, <1>3, <1>4, <1>7, LegKeepsValue
<1>9. /\ c.price[Long].min \in Nat /\ c.price[Short].min \in Nat
  BY ConditionFields, LongShort
<1>10. x \in Nat /\ y \in Nat
  BY <1>4, <1>9, TimesNat
<1>11. f \in Int /\ g \in Int
  BY FullValueParts
<1>12. f * result.minted <= m.supply * (x + y)
  <2>1. g * m.supply >= f * middle.supply
    BY <1>6 DEF KeepsValue
  <2> HIDE DEF f, g, x, y
  <2>2. f * (n.supply - m.supply) <= m.supply * (x + y)
    BY <1>5, <1>6, <1>8, <1>10, <1>11, <2>1, TwoPayments
  <2>3. n.supply - m.supply = result.minted
    BY <1>1, <1>5
  <2> QED BY <2>2, <2>3
<1>13. FullValue(n, c, FALSE) <= FullValue(m, c, FALSE) + (x + y)
  <2> DEFINE dx == n.pool[Long] - m.pool[Long]
             dy == n.pool[Short] - m.pool[Short]
             p == c.price[Long].min
             q == c.price[Short].min
             low == FullValue(m, c, FALSE)
             high == FullValue(n, c, FALSE)
             a == dx * p
             b == dy * q
  <2>1. high = low + a + b
    <3>1. PickPrice(c.price[Long], FALSE) = p /\ PickPrice(c.price[Short], FALSE) = q
      BY DEF PickPrice
    <3>2. FALSE \in BOOLEAN
      OBVIOUS
    <3>3. high = low + dx * PickPrice(c.price[Long], FALSE) + dy * PickPrice(c.price[Short], FALSE)
      BY <1>1, <3>2, FullValueChange, Zenon
    <3> QED BY <3>1, <3>3, Zenon
  <2>2. /\ dx \in Int /\ dy \in Int /\ dx <= amount[Long] /\ dy <= amount[Short]
    <3>1. /\ n.pool[Long] \in Nat /\ n.pool[Short] \in Nat /\ m.pool[Long] \in Nat
          /\ m.pool[Short] \in Nat /\ middle.pool[Long] \in Nat /\ middle.pool[Short] \in Nat
      BY <1>1, MarketFields, LongShort
    <3>2. /\ middle.pool[Long] <= m.pool[Long] + amount[Long] /\ middle.pool[Short] <= m.pool[Short] + 0
          /\ n.pool[Long] <= middle.pool[Long] + 0 /\ n.pool[Short] <= middle.pool[Short] + amount[Short]
      BY <1>6, <1>8, LongShort
    <3> QED BY <1>4, <3>1, <3>2
  <2> HIDE DEF dx, dy, p, q
  <2>3. p \in Nat /\ q \in Nat /\ x = amount[Long] * p /\ y = amount[Short] * q
    BY <1>9 DEF p, q
  <2>4. a <= x /\ b <= y
    BY <1>4, <2>2, <2>3, TimesMonotoneInt
  <2>5. a \in Int /\ b \in Int
    BY <2>2, <2>3
  <2>6. low \in Int /\ high \in Int
    BY <1>1, FullValueParts
  <2> HIDE DEF a, b, x, y, low, high
  <2>7. high <= low + (x + y)
    BY <1>10, <2>1, <2>4, <2>5, <2>6
  <2> QED BY <2>7 DEF high, low
<1> QED BY <1>12, <1>13 DEF result, n

LEMMA RoundTripDoesNotPay ==
  ASSUME NEW m \in Market, NEW c \in Conditions, NEW amount \in [PoolTokens -> Nat], NEW i \in Int,
         \A t \in PoolTokens : Surplus(m, t) >= amount[t],
         m.supply > 0, i <= 0, Deposited(m, c, amount, i).valid,
         WithdrawalPossible(Deposited(m, c, amount, i).after, c, Deposited(m, c, amount, i).minted),
         Withdrawn(Deposited(m, c, amount, i).after, c, Deposited(m, c, amount, i).minted).valid
  PROVE  LET in == Deposited(m, c, amount, i)
             out == Withdrawn(in.after, c, in.minted) IN
         (out.paid[Long] * c.price[Long].max + out.paid[Short] * c.price[Short].max
            - amount[Long] * c.price[Long].min - amount[Short] * c.price[Short].min)
           * in.after.supply <= UnseenProfits(in.after, c) * in.minted
<1> DEFINE in == Deposited(m, c, amount, i)
           n == in.after
           burnt == in.minted
           out == Withdrawn(n, c, burnt)
           after == out.after
           x == amount[Long] * c.price[Long].min
           y == amount[Short] * c.price[Short].min
           w == x + y
           f == FullValue(m, c, TRUE)
           u == UnseenProfits(n, c)
           d == PoolValue(n, c, "withdrawal", FALSE)
<1>1. /\ n \in Market /\ burnt \in Nat /\ n.supply = m.supply + burnt
      /\ \A t \in PoolTokens : Surplus(n, t) = Surplus(m, t) - amount[t]
  BY DepositedBooks
<1>2. f * burnt <= m.supply * w /\ FullValue(n, c, FALSE) <= FullValue(m, c, FALSE) + w
  BY DepositWithoutBonus
<1>3. WithdrawalPossible(n, c, burnt) /\ out.valid
  OBVIOUS
<1> HIDE DEF in, n, burnt
<1>4. \A t \in PoolTokens : Surplus(n, t) >= 0
  BY <1>1, SurplusInt
<1>5. /\ after \in Market /\ LeavesPool(n, after, c, burnt, out.paid)
      /\ \A t \in PoolTokens : ReserveValid(after, c, t)
      /\ MaxPnlValid(after, c, "withdrawal", "withdrawal")
  BY <1>1, <1>3, <1>4, WithdrawnBooks
<1> HIDE DEF out, after
<1>6. PICK output \in [PoolTokens -> Nat], kept \in [PoolTokens -> Nat], usd \in Nat :
        /\ \A t \in PoolTokens : /\ after.pool[t] = n.pool[t] - (output[t] - kept[t])
                                 /\ kept[t] <= output[t] /\ out.paid[t] \in 0..output[t]
        /\ output[Long] * c.price[Long].max + output[Short] * c.price[Short].max <= usd
        /\ n.supply * usd <= d * burnt
  BY <1>5 DEF LeavesPool
<1>7. u \in Nat /\ d <= FullValue(n, c, FALSE) + u
  <2>1. \A t \in PoolTokens : after.pool[t] <= n.pool[t]
    BY <1>1, <1>6, MarketFields
  <2> QED BY <1>1, <1>5, <2>1, WithdrawalSees
<1>8. /\ amount[Long] \in Nat /\ amount[Short] \in Nat
      /\ c.price[Long].min \in Nat /\ c.price[Short].min \in Nat
  BY ConditionFields, LongShort
<1>9. x \in Nat /\ y \in Nat
  BY <1>8, TimesNat
<1>10. f \in Int /\ d \in Int /\ m.supply \in Nat /\ w \in Nat
  <2>1. f \in Int /\ d \in Int /\ m.supply \in Nat
    BY <1>1, FullValueParts, PoolValueInt, MarketFields
  <2> HIDE DEF x, y, f, d
  <2> QED BY <1>9, <2>1
<1>11. d <= f + w + u
  <2> DEFINE low == FullValue(m, c, FALSE)
             value == FullValue(n, c, FALSE)
  <2>1. low \in Int /\ value \in Int /\ low <= f /\ value <= low + w /\ d <= value + u
    BY <1>1, <1>2, <1>7, FullValueParts, FullValueMonotone
  <2> HIDE DEF low, value, f, w, u, d
  <2> QED BY <1>7, <1>10, <2>1
<1> DEFINE a == out.paid[Long] * c.price[Long].max
           b == out.paid[Short] * c.price[Short].max
           v == a + b
<1>12. a \in Nat /\ b \in Nat /\ v <= usd
  <2>1. ASSUME NEW t \in PoolTokens
        PROVE  /\ out.paid[t] * c.price[t].max \in Nat /\ output[t] * c.price[t].max \in Nat
               /\ out.paid[t] * c.price[t].max <= output[t] * c.price[t].max
    <3>1. out.paid[t] \in Nat /\ output[t] \in Nat /\ out.paid[t] <= output[t] /\ c.price[t].max \in Nat
      BY <1>6, ConditionFields
    <3> QED BY <3>1, TimesNat, TimesMonotone
  <2> DEFINE aa == output[Long] * c.price[Long].max
             bb == output[Short] * c.price[Short].max
  <2>2. a \in Nat /\ b \in Nat /\ aa \in Nat /\ bb \in Nat /\ a <= aa /\ b <= bb
    BY <2>1, LongShort
  <2>3. aa + bb <= usd
    BY <1>6
  <2> HIDE DEF a, b, aa, bb
  <2> QED BY <2>2, <2>3
<1>13. (v - w) * n.supply <= u * burnt
  <2> HIDE DEF a, b, x, y, w, f, d, u
  <2>1. v \in Nat
    BY <1>12
  <2> HIDE DEF v
  <2>2. (m.supply + burnt) * v <= d * burnt
    <3>1. v * (m.supply + burnt) <= usd * (m.supply + burnt)
      BY <1>1, <1>10, <1>12, <2>1, TimesMonotone
    <3>2. (m.supply + burnt) * usd <= d * burnt
      BY <1>1, <1>6
    <3>3. /\ v * (m.supply + burnt) = (m.supply + burnt) * v
          /\ usd * (m.supply + burnt) = (m.supply + burnt) * usd
          /\ (m.supply + burnt) * v \in Int /\ (m.supply + burnt) * usd \in Int /\ d * burnt \in Int
      BY <1>1, <1>10, <2>1
    <3> QED BY <3>1, <3>2, <3>3
  <2>3. (v - w) * (m.supply + burnt) <= u * burnt
    BY <1>1, <1>2, <1>7, <1>10, <1>11, <2>1, <2>2, BoughtAndSold
  <2> QED BY <1>1, <2>3
<1>14. v - w = a + b - x - y
  <2> HIDE DEF a, b, x, y
  <2> QED BY <1>9, <1>12
<1>15. (a + b - x - y) * n.supply <= u * burnt
  <2> HIDE DEF v, w, a, b, x, y
  <2> QED BY <1>13, <1>14
<1> QED BY <1>15 DEF in, n, burnt, out

----------------------------------------------------------------------------
(* What the operations do to the value *)

\* A deposit that has just arrived is not yet in the pool.
LEMMA ReceivingBooks ==
  ASSUME NEW m \in Market, NEW amount \in [PoolTokens -> Nat]
  PROVE  LET received == Receiving(m, amount) IN
         /\ received \in Market
         /\ received.pool = m.pool /\ received.supply = m.supply
         /\ \A t \in PoolTokens : Surplus(received, t) = Surplus(m, t) + amount[t]
<1> DEFINE bal == [t \in PoolTokens |-> m.balance[t] + amount[t]]
           received == Receiving(m, amount)
<1>1. bal \in [PoolTokens -> Nat] /\ \A t \in PoolTokens : bal[t] = m.balance[t] + amount[t]
  BY MarketFields
<1>2. received = [m EXCEPT !.balance = bal]
  BY DEF Receiving
<1> HIDE DEF bal, received
<1>3. /\ received \in Market /\ received.pool = m.pool /\ received.balance = bal
      /\ received.swapImpactPool = m.swapImpactPool /\ received.claimableFees = m.claimableFees
      /\ received.claimableUiFees = m.claimableUiFees /\ received.supply = m.supply
  BY <1>1, <1>2 DEF Market
<1>4. ASSUME NEW t \in PoolTokens
      PROVE  Surplus(received, t) = Surplus(m, t) + amount[t]
  <2>1. /\ m.pool[t] \in Int /\ m.swapImpactPool[t] \in Int /\ m.claimableFees[t] \in Int
        /\ m.claimableUiFees[t] \in Int /\ m.balance[t] \in Int /\ amount[t] \in Int
    BY MarketFields
  <2>2. Surplus(m, t) = m.balance[t] - m.pool[t] - m.swapImpactPool[t]
                          - m.claimableFees[t] - m.claimableUiFees[t]
    BY SurplusInt
  <2>3. Surplus(received, t) = received.balance[t] - received.pool[t] - received.swapImpactPool[t]
                                 - received.claimableFees[t] - received.claimableUiFees[t]
    BY <1>3, SurplusInt
  <2> QED BY <1>1, <1>3, <2>1, <2>2, <2>3
<1> QED BY <1>3, <1>4 DEF received

LEMMA ExecuteDepositKeepsValue ==
  ASSUME VaultInvariant, MarketInvariant, NEW k \in Keys, NEW c \in Conditions, NEW i \in Int,
         ExecuteDeposit(k, c, i), market.supply > 0
  PROVE  KeepsValue(market, market', c, TRUE)
<1> DEFINE amount == requests[k].amount
           received == Receiving(market, amount)
           result == Deposited(received, c, amount, i)
           after == result.after
<1>1. amount \in [PoolTokens -> Nat]
  BY RequestFields DEF ExecuteDeposit, PendingIn
<1>2. /\ result.valid
      /\ market' = [after EXCEPT !.locked = @ + IF requests[k].toLocked THEN result.minted ELSE 0]
  BY DEF ExecuteDeposit, Receiving
<1> HIDE DEF amount
<1>3. received \in Market /\ received.pool = market.pool /\ received.supply = market.supply
  BY <1>1, ReceivingBooks DEF MarketInvariant
<1> HIDE DEF received
<1>4. after \in Market
  BY <1>1, <1>2, <1>3, DepositedBooks
<1>5. KeepsValue(received, after, c, TRUE)
  BY <1>1, <1>2, <1>3, DepositKeepsValue
<1> HIDE DEF after, result
<1>6. market'.pool = after.pool /\ market'.supply = after.supply
  BY <1>2, <1>4 DEF Market
<1>7. /\ FullValue(received, c, TRUE) = FullValue(market, c, TRUE)
      /\ FullValue(market', c, TRUE) = FullValue(after, c, TRUE)
  BY <1>3, <1>6 DEF FullValue, PoolValueLess, PoolUsd
<1> QED BY <1>3, <1>5, <1>6, <1>7 DEF KeepsValue

LEMMA ExecuteWithdrawalLeavesValue ==
  ASSUME VaultInvariant, MarketInvariant, NEW k \in Keys, NEW c \in Conditions,
         ExecuteWithdrawal(k, c)
  PROVE  LeavesValue(market, market', c)
<1> DEFINE n == requests[k].marketTokenAmount
<1>1. n \in Nat
  BY RequestFields DEF ExecuteWithdrawal, PendingIn
<1>2. /\ WithdrawalPossible(market, c, n) /\ Withdrawn(market, c, n).valid
      /\ market' = Withdrawn(market, c, n).after
  BY DEF ExecuteWithdrawal
<1>3. market \in Market /\ \A t \in PoolTokens : Surplus(market, t) >= 0
  BY CoveredBySurplus DEF MarketInvariant
<1> HIDE DEF n
<1>4. LeavesValue(market, Withdrawn(market, c, n).after, c)
  BY <1>1, <1>2, <1>3, WithdrawalLeavesValue
<1> QED BY <1>2, <1>4

LEMMA SwapKeepsMarketValue ==
  ASSUME MarketInvariant, NEW c \in Conditions, NEW t \in PoolTokens, NEW n \in Nat, NEW i \in Int,
         Swap(c, t, n, i), NEW maximize \in BOOLEAN
  PROVE  KeepsValue(market, market', c, maximize)
<1>1. Swapped(market, c, t, n, i).valid /\ market' = Swapped(market, c, t, n, i).after
  BY DEF Swap
<1>2. market \in Market /\ \A u \in PoolTokens : Surplus(market, u) >= 0
  BY CoveredBySurplus DEF MarketInvariant
<1>3. KeepsValue(market, Swapped(market, c, t, n, i).after, c, maximize)
  BY <1>1, <1>2, SwapKeepsValue
<1> QED BY <1>1, <1>3

----------------------------------------------------------------------------
(* The theorems *)

\* Nobody who stays in the pool pays for those who come, go and trade: no
\* rounding, fee, spread or price impact lets a deposit, a withdrawal or a swap
\* lower the value of a market token at the prices it is executed with, but for
\* the unit of the factor that validateMaxPnl does not see.
THEOREM SharesKeep == Spec => SharesKeepTheirValue
<1> DEFINE Inv == VaultInvariant /\ MarketInvariant
<1>1. Init => Inv
  BY VaultInvariantInit, MarketInvariantInit
<1>2. Inv /\ [Next]_vars => Inv'
  BY VaultInvariantStep, MarketInvariantStep
<1>3. ASSUME VaultInvariant, MarketInvariant
      PROVE  /\ \A k \in Keys :
                  /\ outcome["deposit"][k] = "open" /\ outcome'["deposit"][k] = "executed"
                  /\ market.supply > 0
                  => \A c \in Conditions, i \in PriceImpacts :
                       ExecuteDeposit(k, c, i) => KeepsValue(market, market', c, TRUE)
             /\ \A k \in Keys :
                  outcome["withdrawal"][k] = "open" /\ outcome'["withdrawal"][k] = "executed"
                  => \A c \in Conditions :
                       ExecuteWithdrawal(k, c) => LeavesValue(market, market', c)
             /\ outcome' = outcome /\ nonce' # nonce
                  => \A c \in Conditions, t \in PoolTokens, n \in SwapAmounts, i \in PriceImpacts :
                       Swap(c, t, n, i)
                       => \A maximize \in BOOLEAN : KeepsValue(market, market', c, maximize)
  <2>1. PriceImpacts \subseteq Int /\ SwapAmounts \subseteq Nat
    BY ConstantsAssumption
  <2>2. ASSUME market.supply > 0, NEW k \in Keys, NEW c \in Conditions, NEW i \in PriceImpacts,
               ExecuteDeposit(k, c, i)
        PROVE  KeepsValue(market, market', c, TRUE)
    BY <1>3, <2>1, <2>2, ExecuteDepositKeepsValue
  <2>3. ASSUME NEW k \in Keys, NEW c \in Conditions, ExecuteWithdrawal(k, c)
        PROVE  LeavesValue(market, market', c)
    BY <1>3, <2>3, ExecuteWithdrawalLeavesValue
  <2>4. ASSUME NEW c \in Conditions, NEW t \in PoolTokens, NEW n \in SwapAmounts,
               NEW i \in PriceImpacts, Swap(c, t, n, i), NEW maximize \in BOOLEAN
        PROVE  KeepsValue(market, market', c, maximize)
    BY <1>3, <2>1, <2>4, SwapKeepsMarketValue
  <2> QED BY <2>2, <2>3, <2>4
<1> QED BY <1>1, <1>2, <1>3, PTL DEF Spec, SharesKeepTheirValue

\* Nobody gains by depositing and withdrawing at once, with whatever amounts,
\* at whatever prices: all the roundings favour the pool.
THEOREM RoundTrips == Spec => []RoundTripsDoNotPay
<1> DEFINE Inv == VaultInvariant /\ MarketInvariant
<1>1. Init => Inv
  BY VaultInvariantInit, MarketInvariantInit
<1>2. Inv /\ [Next]_vars => Inv'
  BY VaultInvariantStep, MarketInvariantStep
<1>3. Inv => RoundTripsDoNotPay
  <2> SUFFICES ASSUME MarketInvariant PROVE RoundTripsDoNotPay
    OBVIOUS
  <2>1. ASSUME market.supply > 0, NEW c \in Conditions, NEW i \in PriceImpacts, i <= 0,
               NEW amount \in [PoolTokens -> {0} \cup SwapAmounts]
        PROVE  GainsNothing(c, amount, Deposited(Receiving(market, amount), c, amount, i))
    <3> DEFINE received == Receiving(market, amount)
    <3>1. amount \in [PoolTokens -> Nat] /\ i \in Int
      <4>1. {0} \cup SwapAmounts \subseteq Nat /\ PriceImpacts \subseteq Int
        BY ConstantsAssumption
      <4> QED BY <4>1
    <3>2. market \in Market /\ \A t \in PoolTokens : Surplus(market, t) >= 0
      BY CoveredBySurplus DEF MarketInvariant
    <3>3. /\ received \in Market /\ received.supply = market.supply
          /\ \A t \in PoolTokens : Surplus(received, t) = Surplus(market, t) + amount[t]
      BY <3>1, <3>2, ReceivingBooks
    <3>4. \A t \in PoolTokens : Surplus(received, t) >= amount[t]
      BY <3>1, <3>2, <3>3, SurplusInt
    <3>5. received.supply > 0
      BY <2>1, <3>3
    <3> HIDE DEF received
    <3>6. LET in == Deposited(received, c, amount, i)
              out == Withdrawn(in.after, c, in.minted) IN
          in.valid /\ WithdrawalPossible(in.after, c, in.minted) /\ out.valid
          => (out.paid[Long] * c.price[Long].max + out.paid[Short] * c.price[Short].max
                - amount[Long] * c.price[Long].min - amount[Short] * c.price[Short].min)
               * in.after.supply <= UnseenProfits(in.after, c) * in.minted
      BY <2>1, <3>1, <3>3, <3>4, <3>5, RoundTripDoesNotPay
    <3> QED BY <3>6 DEF received, GainsNothing
  <2> QED BY <2>1 DEF RoundTripsDoNotPay
<1> QED BY <1>1, <1>2, <1>3, PTL DEF Spec
=============================================================================
