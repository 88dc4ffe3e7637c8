----------------------------- MODULE SumsProofs -----------------------------
(***************************************************************************)
(* Products, quotients, induction, and what the proofs need to know of     *)
(* Total: it is a number, it changes by what one term changes, it is 0     *)
(* when all terms are, it can be split, and shares that are rounded down   *)
(* never add up to more than the whole.                                    *)
(***************************************************************************)
EXTENDS Sums, TLAPS, WellFoundedInduction, NaturalsInduction

LEMMA TimesNat ==
  ASSUME NEW a \in Nat, NEW b \in Nat
  PROVE  a * b \in Nat
OBVIOUS

LEMMA TimesMonotone ==
  ASSUME NEW a \in Nat, NEW b \in Nat, NEW c \in Nat, a <= b
  PROVE  a * c <= b * c
<1>1. (b - a) \in Nat
  OBVIOUS
<1>2. (b - a) * c \in Nat
  BY <1>1, TimesNat
<1>3. (b - a) * c = b * c - a * c
  OBVIOUS
<1>4. a * c \in Int /\ b * c \in Int
  OBVIOUS
<1> QED BY <1>2, <1>3, <1>4

LEMMA TimesCancel ==
  ASSUME NEW a \in Int, NEW b \in Int, NEW d \in Nat, d > 0, d * a <= d * b
  PROVE  a <= b
<1>1. ASSUME a > b PROVE FALSE
  <2> DEFINE e == a - b
  <2>1. e \in Nat /\ 1 <= e /\ a = b + e
    BY <1>1
  <2> HIDE DEF e
  <2>2. d <= e * d
    BY <2>1, TimesMonotone
  <2>3. d * a = d * b + e * d
    BY <2>1
  <2>4. d * b \in Int /\ e * d \in Int
    BY <2>1
  <2> QED BY <2>2, <2>3, <2>4
<1> QED BY <1>1

LEMMA DivInt ==
  ASSUME NEW a \in Int, NEW d \in Nat, d > 0
  PROVE  a \div d \in Int /\ d * (a \div d) <= a /\ a < d * (a \div d) + d
OBVIOUS

LEMMA DivNat ==
  ASSUME NEW a \in Nat, NEW d \in Nat, d > 0
  PROVE  a \div d \in Nat
<1> DEFINE q == a \div d
<1>1. q \in Int /\ a < d * q + d
  BY DivInt
<1>2. ASSUME q < 0 PROVE FALSE
  <2> DEFINE p == - q
  <2>1. p \in Nat /\ p >= 1
    BY <1>1, <1>2
  <2>2. d * p >= d
    BY <2>1, TimesMonotone
  <2>3. d * q = - (d * p)
    BY <1>1
  <2>4. d * p \in Int
    BY <2>1
  <2> HIDE DEF q, p
  <2> QED BY <1>1, <2>2, <2>3, <2>4
<1> QED BY <1>1, <1>2

LEMMA DivAtMost ==
  ASSUME NEW a \in Nat, NEW d \in Nat, d > 0, NEW n \in Nat, a <= d * n
  PROVE  a \div d <= n
<1> DEFINE q == a \div d
<1>1. q \in Nat /\ d * q <= a
  BY DivInt, DivNat
<1>2. ASSUME n + 1 <= q PROVE FALSE
  <2> HIDE DEF q
  <2>1. (n + 1) * d <= q * d
    BY <1>1, <1>2, TimesMonotone
  <2>2. (n + 1) * d = d * n + d /\ q * d = d * q
    BY <1>1
  <2>3. d * n \in Int /\ d * q \in Int
    BY <1>1
  <2> QED BY <1>1, <2>1, <2>2, <2>3
<1> HIDE DEF q
<1>3. q <= n
  BY <1>1, <1>2
<1> QED BY <1>3 DEF q

LEMMA DivAtLeast ==
  ASSUME NEW a \in Nat, NEW d \in Nat, d > 0, NEW n \in Nat, d * n <= a
  PROVE  n <= a \div d
<1> DEFINE q == a \div d
<1>1. q \in Nat /\ a < d * q + d
  BY DivInt, DivNat
<1>2. ASSUME q + 1 <= n PROVE FALSE
  <2> HIDE DEF q
  <2>1. (q + 1) * d <= n * d
    BY <1>1, <1>2, TimesMonotone
  <2>2. (q + 1) * d = d * q + d /\ n * d = d * n
    BY <1>1
  <2>3. d * n \in Int /\ d * q \in Int
    BY <1>1
  <2> QED BY <1>1, <2>1, <2>2, <2>3
<1> HIDE DEF q
<1>3. n <= q
  BY <1>1, <1>2
<1> QED BY <1>3 DEF q

\* A set of naturals that is not empty has a least element.
LEMMA Least ==
  ASSUME NEW T, T \subseteq Nat, T # {}
  PROVE  \E m \in T : \A k \in T : m <= k
<1>1. IsWellFoundedOn(OpToRel(<, Nat), Nat)
  BY NatLessThanWellFounded
<1>2. PICK x \in T : \A y \in T : ~ (<<y, x>> \in OpToRel(<, Nat))
  BY <1>1, WFMin
<1>3. \A y \in T : ~ (y < x)
  BY <1>2 DEF OpToRel
<1> QED BY <1>3

\* Induction up to n, for a set in place of a predicate.
LEMMA UpTo ==
  ASSUME NEW n \in Nat, NEW T, 0 \in T, \A i \in 1..n : i - 1 \in T => i \in T
  PROVE  \A i \in 0..n : i \in T
<1> DEFINE Bad == {i \in 0..n : i \notin T}
<1>1. SUFFICES ASSUME Bad # {} PROVE FALSE
  OBVIOUS
<1>2. Bad \subseteq Nat
  OBVIOUS
<1>3. PICK m \in Bad : \A k \in Bad : m <= k
  BY <1>1, <1>2, Least
<1>4. m \in 1..n /\ m \notin T
  BY <1>3
<1>5. m - 1 \in T
  BY <1>3, <1>4
<1> QED BY <1>4, <1>5

\* s holds the prefix sums of f up to m.
IsPrefixSums(s, f, m) ==
  /\ s \in [0..m -> Int]
  /\ s[0] = 0
  /\ \A i \in 1..m : s[i] = s[i - 1] + f[i]

\* Prefix sums exist.
LEMMA PrefixSumsExist ==
  ASSUME NEW n \in Nat, NEW f \in [1..n -> Int]
  PROVE  \E s : IsPrefixSums(s, f, n)
<1> DEFINE T == {m \in 0..n : \E s : IsPrefixSums(s, f, m)}
<1>1. 0 \in T
  <2>1. IsPrefixSums([i \in 0..0 |-> 0], f, 0)
    BY DEF IsPrefixSums
  <2> QED BY <2>1
<1>2. ASSUME NEW m \in 1..n, m - 1 \in T
      PROVE  m \in T
  <2>1. PICK s : IsPrefixSums(s, f, m - 1)
    BY <1>2
  <2> DEFINE t == [i \in 0..m |-> IF i = m THEN s[m - 1] + f[m] ELSE s[i]]
  <2>2. t \in [0..m -> Int]
    BY <2>1 DEF IsPrefixSums
  <2>3. t[0] = 0
    BY <2>1 DEF IsPrefixSums
  <2>4. ASSUME NEW i \in 1..m
        PROVE  t[i] = t[i - 1] + f[i]
    <3>1. CASE i = m
      BY <3>1
    <3>2. CASE i # m
      <4>1. i \in 1..(m - 1) /\ i \in 0..m /\ i - 1 \in 0..m /\ i - 1 # m
        BY <3>2
      <4>2. t[i] = s[i] /\ t[i - 1] = s[i - 1]
        BY <4>1, <3>2
      <4> QED BY <2>1, <4>1, <4>2 DEF IsPrefixSums
    <3> QED BY <3>1, <3>2
  <2>5. IsPrefixSums(t, f, m)
    BY <2>2, <2>3, <2>4 DEF IsPrefixSums
  <2> QED BY <2>5
<1>3. \A m \in 0..n : m \in T
  <2> HIDE DEF T
  <2> QED BY <1>1, <1>2, UpTo
<1> QED BY <1>3

\* PrefixSums is what its recursive definition says.
LEMMA PrefixSumsUnfold ==
  ASSUME NEW n \in Nat, NEW f \in [1..n -> Int]
  PROVE  /\ PrefixSums(f, n)[0] = 0
         /\ \A i \in 1..n : PrefixSums(f, n)[i] = PrefixSums(f, n)[i - 1] + f[i]
<1> DEFINE Unfolds(q) == q = [i \in 0..n |-> IF i = 0 THEN 0 ELSE q[i - 1] + f[i]]
<1>1. PICK s : IsPrefixSums(s, f, n)
  BY PrefixSumsExist
<1>2. Unfolds(s)
  BY <1>1 DEF IsPrefixSums
<1>3. Unfolds(PrefixSums(f, n))
  BY <1>2 DEF PrefixSums
<1>4. ASSUME NEW q, Unfolds(q)
      PROVE  q[0] = 0 /\ \A i \in 1..n : q[i] = q[i - 1] + f[i]
  <2>1. q[0] = 0
    BY <1>4
  <2>2. ASSUME NEW i \in 1..n
        PROVE  q[i] = q[i - 1] + f[i]
    <3>1. i \in 0..n /\ i # 0
      OBVIOUS
    <3> QED BY <1>4, <3>1
  <2> QED BY <2>1, <2>2
<1> HIDE DEF Unfolds
<1> QED BY <1>3, <1>4

\* Every partial sum of integers is an integer.
LEMMA PrefixSumInt ==
  ASSUME NEW n \in Nat, NEW f \in [1..n -> Int], NEW i \in 0..n
  PROVE  PrefixSums(f, n)[i] \in Int
<1> DEFINE ps == PrefixSums(f, n)
           T == {j \in 0..n : ps[j] \in Int}
<1>1. 0 \in T
  BY PrefixSumsUnfold
<1>2. ASSUME NEW j \in 1..n, j - 1 \in T
      PROVE  j \in T
  <2>1. ps[j] = ps[j - 1] + f[j]
    BY PrefixSumsUnfold
  <2> HIDE DEF ps
  <2> QED BY <1>2, <2>1
<1>3. \A j \in 0..n : j \in T
  <2> HIDE DEF T
  <2> QED BY <1>1, <1>2, UpTo
<1> QED BY <1>3

\* The total of integers is an integer.
THEOREM TotalInt ==
  ASSUME NEW n \in Nat, NEW f \in [1..n -> Int]
  PROVE  Total(f, n) \in Int
<1> DEFINE ps == PrefixSums(f, n)
           T == {i \in 0..n : ps[i] \in Int}
<1>1. 0 \in T
  BY PrefixSumsUnfold
<1>2. ASSUME NEW i \in 1..n, i - 1 \in T
      PROVE  i \in T
  <2>1. ps[i] = ps[i - 1] + f[i]
    BY PrefixSumsUnfold
  <2> HIDE DEF ps
  <2> QED BY <1>2, <2>1
<1>3. \A i \in 0..n : i \in T
  <2> HIDE DEF T
  <2> QED BY <1>1, <1>2, UpTo
<1> QED BY <1>3 DEF Total

\* The total of naturals is a natural.
THEOREM TotalNat ==
  ASSUME NEW n \in Nat, NEW f \in [1..n -> Nat]
  PROVE  Total(f, n) \in Nat
<1> DEFINE ps == PrefixSums(f, n)
           T == {i \in 0..n : ps[i] \in Nat}
<1>0. f \in [1..n -> Int]
  OBVIOUS
<1>1. 0 \in T
  BY <1>0, PrefixSumsUnfold
<1>2. ASSUME NEW i \in 1..n, i - 1 \in T
      PROVE  i \in T
  <2>1. ps[i] = ps[i - 1] + f[i]
    BY <1>0, PrefixSumsUnfold
  <2> HIDE DEF ps
  <2> QED BY <1>2, <2>1
<1>3. \A i \in 0..n : i \in T
  <2> HIDE DEF T
  <2> QED BY <1>1, <1>2, UpTo
<1> QED BY <1>3 DEF Total

\* The total of naturals is at least each of them.
THEOREM TotalBoundsTerm ==
  ASSUME NEW n \in Nat, NEW f \in [1..n -> Nat], NEW k \in 1..n
  PROVE  f[k] <= Total(f, n)
<1> DEFINE ps == PrefixSums(f, n)
           T == {i \in 0..n : ps[i] \in Nat /\ (k <= i => f[k] <= ps[i])}
<1>0. f \in [1..n -> Int]
  OBVIOUS
<1>1. 0 \in T
  BY <1>0, PrefixSumsUnfold
<1>2. ASSUME NEW i \in 1..n, i - 1 \in T
      PROVE  i \in T
  <2>1. ps[i] = ps[i - 1] + f[i]
    BY <1>0, PrefixSumsUnfold
  <2> HIDE DEF ps
  <2> QED BY <1>2, <2>1
<1>3. \A i \in 0..n : i \in T
  <2> HIDE DEF T
  <2> QED BY <1>1, <1>2, UpTo
<1> QED BY <1>3 DEF Total

\* When only one term differs, the totals differ by as much as that term.
THEOREM TotalChange ==
  ASSUME NEW n \in Nat, NEW f \in [1..n -> Int], NEW g \in [1..n -> Int],
         NEW k \in 1..n, \A i \in (1..n) \ {k} : g[i] = f[i]
  PROVE  Total(g, n) = Total(f, n) + g[k] - f[k]
<1> DEFINE pf == PrefixSums(f, n)
           pg == PrefixSums(g, n)
           T == {i \in 0..n : /\ pf[i] \in Int
                              /\ pg[i] = pf[i] + (IF k <= i THEN g[k] - f[k] ELSE 0)}
<1>1. 0 \in T
  BY PrefixSumsUnfold
<1>2. ASSUME NEW i \in 1..n, i - 1 \in T
      PROVE  i \in T
  <2>1. pf[i] = pf[i - 1] + f[i] /\ pg[i] = pg[i - 1] + g[i]
    BY PrefixSumsUnfold
  <2> HIDE DEF pf, pg
  <2>2. CASE i = k
    BY <1>2, <2>1, <2>2
  <2>3. CASE i # k
    BY <1>2, <2>1, <2>3
  <2> QED BY <2>2, <2>3
<1>3. \A i \in 0..n : i \in T
  <2> HIDE DEF T
  <2> QED BY <1>1, <1>2, UpTo
<1> QED BY <1>3 DEF Total

\* The total of zeros is zero.
THEOREM TotalZero ==
  ASSUME NEW n \in Nat, NEW f \in [1..n -> Int], \A i \in 1..n : f[i] = 0
  PROVE  Total(f, n) = 0
<1> DEFINE ps == PrefixSums(f, n)
           T == {i \in 0..n : ps[i] = 0}
<1>1. 0 \in T
  BY PrefixSumsUnfold
<1>2. ASSUME NEW i \in 1..n, i - 1 \in T
      PROVE  i \in T
  <2>1. ps[i] = ps[i - 1] + f[i]
    BY PrefixSumsUnfold
  <2> HIDE DEF ps
  <2> QED BY <1>2, <2>1
<1>3. \A i \in 0..n : i \in T
  <2> HIDE DEF T
  <2> QED BY <1>1, <1>2, UpTo
<1> QED BY <1>3 DEF Total

\* A sum goes on from where it was split.
THEOREM PrefixSumsSplit ==
  ASSUME NEW n \in Nat, NEW f \in [1..n -> Int], NEW k \in 0..n,
         NEW m \in 0..(n - k), NEW g \in [1..m -> Int], \A i \in 1..m : g[i] = f[k + i]
  PROVE  PrefixSums(f, n)[k + m] = PrefixSums(f, n)[k] + Total(g, m)
<1> DEFINE pf == PrefixSums(f, n)
           pg == PrefixSums(g, m)
           T == {i \in 0..m : pg[i] \in Int /\ pf[k + i] = pf[k] + pg[i]}
<1>0. m \in Nat
  OBVIOUS
<1>1. 0 \in T
  <2>1. pg[0] = 0
    BY <1>0, PrefixSumsUnfold
  <2>2. pf[k] \in Int
    BY PrefixSumInt
  <2> HIDE DEF pf, pg
  <2> QED BY <2>1, <2>2
<1>2. ASSUME NEW i \in 1..m, i - 1 \in T
      PROVE  i \in T
  <2>1. pg[i] = pg[i - 1] + g[i]
    BY <1>0, PrefixSumsUnfold
  <2>2. k + i \in 1..n
    OBVIOUS
  <2>3. pf[k + i] = pf[(k + i) - 1] + f[k + i]
    BY <2>2, PrefixSumsUnfold
  <2>4. pf[k] \in Int
    BY PrefixSumInt
  <2>5. (k + i) - 1 = k + (i - 1)
    OBVIOUS
  <2> HIDE DEF pf, pg
  <2> QED BY <1>2, <2>1, <2>3, <2>4, <2>5
<1>3. \A i \in 0..m : i \in T
  <2> HIDE DEF T
  <2> QED BY <1>0, <1>1, <1>2, UpTo
<1> QED BY <1>3 DEF Total

\* Totals grow with their terms.
LEMMA TotalMonotone ==
  ASSUME NEW n \in Nat, NEW f \in [1..n -> Int], NEW g \in [1..n -> Int],
         \A i \in 1..n : f[i] <= g[i]
  PROVE  Total(f, n) <= Total(g, n)
<1> DEFINE pf == PrefixSums(f, n)
           pg == PrefixSums(g, n)
           T == {i \in 0..n : pf[i] \in Int /\ pg[i] \in Int /\ pf[i] <= pg[i]}
<1>1. 0 \in T
  BY PrefixSumsUnfold
<1>2. ASSUME NEW i \in 1..n, i - 1 \in T
      PROVE  i \in T
  <2>1. pf[i] = pf[i - 1] + f[i] /\ pg[i] = pg[i - 1] + g[i]
    BY PrefixSumsUnfold
  <2> HIDE DEF pf, pg
  <2> QED BY <1>2, <2>1
<1>3. \A i \in 0..n : i \in T
  <2> HIDE DEF T
  <2> QED BY <1>1, <1>2, UpTo
<1> QED BY <1>3 DEF Total

\* The total of sums is the sum of the totals.
LEMMA TotalSum ==
  ASSUME NEW n \in Nat, NEW f \in [1..n -> Int], NEW g \in [1..n -> Int],
         NEW h \in [1..n -> Int], \A i \in 1..n : h[i] = f[i] + g[i]
  PROVE  Total(h, n) = Total(f, n) + Total(g, n)
<1> DEFINE pf == PrefixSums(f, n)
           pg == PrefixSums(g, n)
           ph == PrefixSums(h, n)
           T == {i \in 0..n : pf[i] \in Int /\ pg[i] \in Int /\ ph[i] = pf[i] + pg[i]}
<1>1. 0 \in T
  <2>1. pf[0] = 0 /\ pg[0] = 0 /\ ph[0] = 0
    BY PrefixSumsUnfold
  <2> HIDE DEF pf, pg, ph
  <2> QED BY <2>1
<1>2. ASSUME NEW i \in 1..n, i - 1 \in T
      PROVE  i \in T
  <2>1. pf[i] = pf[i - 1] + f[i] /\ pg[i] = pg[i - 1] + g[i] /\ ph[i] = ph[i - 1] + h[i]
    BY PrefixSumsUnfold
  <2> HIDE DEF pf, pg, ph
  <2> QED BY <1>2, <2>1
<1>3. \A i \in 0..n : i \in T
  <2> HIDE DEF T
  <2> QED BY <1>1, <1>2, UpTo
<1> QED BY <1>3 DEF Total

\* A term is left out.
LEMMA TotalRemove ==
  ASSUME NEW n \in Nat \ {0}, NEW f \in [1..n -> Int], NEW k \in 1..n,
         NEW g \in [1..(n - 1) -> Int],
         \A i \in 1..(n - 1) : g[i] = IF i < k THEN f[i] ELSE f[i + 1]
  PROVE  Total(g, n - 1) = Total(f, n) - f[k]
<1> DEFINE m == n - 1
           pf == PrefixSums(f, n)
           pg == PrefixSums(g, m)
           T == {i \in 0..m : pg[i] = IF i < k THEN pf[i] ELSE pf[i + 1] - f[k]}
<1>0. m \in Nat /\ n \in Nat /\ \A i \in 0..n : pf[i] \in Int
  BY PrefixSumInt
<1>1. 0 \in T
  <2>1. pf[0] = 0 /\ pg[0] = 0
    BY <1>0, PrefixSumsUnfold
  <2>2. 0 < k
    OBVIOUS
  <2> HIDE DEF pf, pg
  <2> QED BY <1>0, <2>1, <2>2
<1>2. ASSUME NEW i \in 1..m, i - 1 \in T
      PROVE  i \in T
  <2>1. pg[i] = pg[i - 1] + g[i]
    BY <1>0, PrefixSumsUnfold
  <2>2. i \in 1..n /\ i + 1 \in 1..n /\ (i + 1) - 1 = i /\ (i - 1) + 1 = i /\ i - 1 \in 0..n
    OBVIOUS
  <2>3. pf[i] = pf[i - 1] + f[i] /\ pf[i + 1] = pf[i] + f[i + 1]
    <3>1. \A j \in 1..n : pf[j] = pf[j - 1] + f[j]
      BY <1>0, PrefixSumsUnfold
    <3> HIDE DEF pf
    <3>2. pf[i + 1] = pf[(i + 1) - 1] + f[i + 1]
      BY <2>2, <3>1
    <3> QED BY <2>2, <3>1, <3>2
  <2>4. pf[i - 1] \in Int /\ pf[i] \in Int /\ pf[i + 1] \in Int /\ f[k] \in Int
        /\ f[i] \in Int /\ f[i + 1] \in Int
    BY <1>0, <2>2
  <2>5. pg[i - 1] = (IF i - 1 < k THEN pf[i - 1] ELSE pf[(i - 1) + 1] - f[k])
        /\ g[i] = (IF i < k THEN f[i] ELSE f[i + 1])
    BY <1>2
  <2>6. i \in 0..m /\ (pg[i] = (IF i < k THEN pf[i] ELSE pf[i + 1] - f[k]) => i \in T)
    OBVIOUS
  <2> HIDE DEF pf, pg, T
  <2>7. CASE i < k
    BY <2>1, <2>2, <2>3, <2>4, <2>5, <2>6, <2>7
  <2>8. CASE i = k
    <3>1. pg[i - 1] = pf[i - 1] /\ g[i] = f[i + 1]
      BY <2>5, <2>8
    <3> DEFINE x == pf[i - 1]
               u == f[i]
               v == f[i + 1]
    <3>2. pg[i] = x + v /\ pf[i + 1] = (x + u) + v /\ x \in Int /\ u \in Int /\ v \in Int
      BY <2>1, <2>3, <2>4, <3>1
    <3> HIDE DEF x, u, v
    <3>3. pg[i] = pf[i + 1] - u
      BY <3>2
    <3> QED BY <2>6, <2>8, <3>3 DEF u
  <2>9. CASE i > k
    <3>1. pg[i - 1] = pf[i] - f[k] /\ g[i] = f[i + 1]
      BY <2>2, <2>5, <2>9
    <3> QED BY <2>1, <2>3, <2>4, <2>6, <2>9, <3>1
  <2> QED BY <2>7, <2>8, <2>9
<1>3. \A i \in 0..m : i \in T
  <2> HIDE DEF T
  <2> QED BY <1>0, <1>1, <1>2, UpTo
<1>4. pg[m] = IF m < k THEN pf[m] ELSE pf[m + 1] - f[k]
  <2>1. m \in T
    <3>1. m \in 0..m
      BY <1>0
    <3> HIDE DEF T, m
    <3> QED BY <1>3, <3>1
  <2> QED BY <2>1
<1>5. pf[n] = pf[n - 1] + f[n]
  <2>1. n \in 1..n
    OBVIOUS
  <2> QED BY <1>0, <2>1, PrefixSumsUnfold
<1>6. pf[n] \in Int /\ pf[n - 1] \in Int /\ f[n] \in Int
  <2>1. n \in 0..n /\ n - 1 \in 0..n /\ n \in 1..n
    OBVIOUS
  <2> QED BY <1>0, <2>1
<1>7. m + 1 = n /\ (m < k => k = n)
  OBVIOUS
<1> HIDE DEF pf, pg
<1>8. CASE k = n
  BY <1>4, <1>5, <1>6, <1>7, <1>8 DEF Total, pf, pg
<1>9. CASE k # n
  BY <1>4, <1>7, <1>9 DEF Total, pf, pg
<1> QED BY <1>8, <1>9

\* A term is added at the end.
LEMMA TotalAppend ==
  ASSUME NEW n \in Nat, NEW f \in [1..n -> Int], NEW g \in [1..(n + 1) -> Int],
         \A i \in 1..n : g[i] = f[i]
  PROVE  Total(g, n + 1) = Total(f, n) + g[n + 1]
<1> DEFINE pg == PrefixSums(g, n + 1)
<1>1. n + 1 \in Nat /\ n + 1 \in 1..(n + 1) /\ (n + 1) - 1 = n
  OBVIOUS
<1>2. pg[0] = 0 /\ pg[n + 1] = pg[n] + g[n + 1]
  <2>1. \A i \in 1..(n + 1) : pg[i] = pg[i - 1] + g[i]
    BY <1>1, PrefixSumsUnfold
  <2>2. pg[n + 1] = pg[(n + 1) - 1] + g[n + 1]
    BY <1>1, <2>1
  <2> QED BY <1>1, <2>2, PrefixSumsUnfold
<1>3. pg[0 + n] = pg[0] + Total(f, n)
  <2>1. 0 \in 0..(n + 1) /\ n \in 0..((n + 1) - 0) /\ \A i \in 1..n : f[i] = g[0 + i]
    OBVIOUS
  <2> QED BY <1>1, <2>1, PrefixSumsSplit
<1>4. Total(f, n) \in Int /\ g[n + 1] \in Int
  BY <1>1, TotalInt
<1> QED BY <1>2, <1>3, <1>4 DEF Total

\* At most one term is not zero.
LEMMA TotalOneTerm ==
  ASSUME NEW n \in Nat, NEW f \in [1..n -> Int], NEW k \in 1..n,
         \A i \in (1..n) \ {k} : f[i] = 0
  PROVE  Total(f, n) = f[k]
<1> DEFINE z == [i \in 1..n |-> 0]
<1>1. z \in [1..n -> Int] /\ z[k] = 0 /\ \A i \in (1..n) \ {k} : f[i] = z[i]
  OBVIOUS
<1>2. Total(z, n) = 0
  BY TotalZero
<1> HIDE DEF z
<1>3. Total(f, n) = Total(z, n) + f[k] - z[k]
  BY <1>1, TotalChange
<1> QED BY <1>1, <1>2, <1>3

\* The terms of a sum may be taken in any order, those that s leaves out as zero.
LEMMA TotalReindexed ==
  ASSUME NEW n \in Nat, NEW f \in [1..n -> Int], NEW m \in Nat, NEW s \in [1..m -> 1..n],
         \A i, j \in 1..m : s[i] = s[j] => i = j
  PROVE  Total([i \in 1..m |-> f[s[i]]], m)
         = Total([a \in 1..n |-> IF \E i \in 1..m : s[i] = a THEN f[a] ELSE 0], n)
<1> DEFINE g == [i \in 1..m |-> f[s[i]]]
           pg == PrefixSums(g, m)
           G(j) == [a \in 1..n |-> IF \E i \in 1..j : s[i] = a THEN f[a] ELSE 0]
           T == {j \in 0..m : pg[j] = Total(G(j), n)}
<1>0. g \in [1..m -> Int] /\ \A j \in 0..m : G(j) \in [1..n -> Int]
  OBVIOUS
<1>1. 0 \in T
  <2>1. pg[0] = 0
    BY <1>0, PrefixSumsUnfold
  <2>2. \A a \in 1..n : G(0)[a] = 0
    OBVIOUS
  <2>3. Total(G(0), n) = 0
    <3>1. G(0) \in [1..n -> Int]
      BY <1>0
    <3> HIDE DEF G
    <3> QED BY <2>2, <3>1, TotalZero
  <2> HIDE DEF pg, G
  <2> QED BY <2>1, <2>3
<1>2. ASSUME NEW j \in 1..m, j - 1 \in T
      PROVE  j \in T
  <2>1. pg[j] = pg[j - 1] + g[j]
    BY <1>0, PrefixSumsUnfold
  <2>2. j \in 0..m /\ j - 1 \in 0..m /\ s[j] \in 1..n
    OBVIOUS
  <2>3. G(j)[s[j]] = g[j] /\ G(j - 1)[s[j]] = 0
    OBVIOUS
  <2>4. \A a \in (1..n) \ {s[j]} : G(j)[a] = G(j - 1)[a]
    OBVIOUS
  <2>5. G(j) \in [1..n -> Int] /\ G(j - 1) \in [1..n -> Int] /\ g[j] \in Int
    BY <1>0, <2>2
  <2> HIDE DEF G, g, pg
  <2>6. Total(G(j), n) = Total(G(j - 1), n) + G(j)[s[j]] - G(j - 1)[s[j]]
    BY <2>2, <2>4, <2>5, TotalChange
  <2>7. Total(G(j - 1), n) \in Int
    BY <2>5, TotalInt
  <2>8. pg[j - 1] = Total(G(j - 1), n)
    BY <1>2
  <2>9. pg[j] = Total(G(j), n)
    BY <2>1, <2>3, <2>5, <2>6, <2>7, <2>8
  <2> QED BY <2>2, <2>9
<1>3. \A j \in 0..m : j \in T
  <2> HIDE DEF T
  <2> QED BY <1>1, <1>2, UpTo
<1>4. pg[m] = Total(G(m), n)
  <2>1. m \in T
    <3> HIDE DEF T
    <3> QED BY <1>3
  <2> HIDE DEF G, pg
  <2> QED BY <2>1
<1> QED BY <1>4 DEF Total

\* Shares k / d of the terms of a sum, rounded down, are not more than the
\* share of the sum.
THEOREM TotalOfShares ==
  ASSUME NEW n \in Nat, NEW f \in [1..n -> Nat], NEW k \in Nat, NEW d \in Nat, d > 0
  PROVE  d * Total([i \in 1..n |-> (f[i] * k) \div d], n) <= k * Total(f, n)
<1> DEFINE g == [i \in 1..n |-> (f[i] * k) \div d]
           pf == PrefixSums(f, n)
           pg == PrefixSums(g, n)
           T == {i \in 0..n : pf[i] \in Int /\ pg[i] \in Int /\ d * pg[i] <= k * pf[i]}
<1>1. \A i \in 1..n : g[i] \in Int /\ d * g[i] <= f[i] * k
  <2> SUFFICES ASSUME NEW i \in 1..n PROVE g[i] \in Int /\ d * g[i] <= f[i] * k
    OBVIOUS
  <2>1. f[i] * k \in Int
    OBVIOUS
  <2> QED BY <2>1, DivInt
<1>2. f \in [1..n -> Int] /\ g \in [1..n -> Int]
  BY <1>1
<1>3. 0 \in T
  <2>1. pf[0] = 0 /\ pg[0] = 0
    BY <1>2, PrefixSumsUnfold
  <2> HIDE DEF pf, pg
  <2> QED BY <2>1
<1>4. ASSUME NEW i \in 1..n, i - 1 \in T
      PROVE  i \in T
  <2>1. pf[i] = pf[i - 1] + f[i] /\ pg[i] = pg[i - 1] + g[i]
    BY <1>2, PrefixSumsUnfold
  <2> DEFINE x == pf[i - 1]
             y == pg[i - 1]
             u == f[i]
             v == g[i]
  <2>2. x \in Int /\ y \in Int /\ u \in Int /\ v \in Int
    BY <1>2, <1>4
  <2>3. d * y <= k * x /\ d * v <= k * u
    BY <1>1, <1>4
  <2>4. pf[i] = x + u /\ pg[i] = y + v
    BY <2>1
  <2> HIDE DEF x, y, u, v, pf, pg
  <2>5. d * (y + v) = d * y + d * v /\ k * (x + u) = k * x + k * u
    BY <2>2
  <2>6. d * y \in Int /\ d * v \in Int /\ k * x \in Int /\ k * u \in Int
    BY <2>2
  <2>7. d * (y + v) <= k * (x + u)
    BY <2>3, <2>5, <2>6
  <2> QED BY <2>2, <2>4, <2>7
<1>5. \A i \in 0..n : i \in T
  <2> HIDE DEF T
  <2> QED BY <1>3, <1>4, UpTo
<1>6. n \in T
  BY <1>5
<1> QED BY <1>6 DEF Total
=============================================================================
