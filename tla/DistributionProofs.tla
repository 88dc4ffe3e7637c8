------------------------- MODULE DistributionProofs -------------------------
(***************************************************************************)
(* Distributions that are sent by the rules are paid as filed, for any     *)
(* number of accounts, operators and batches, and however often runs die.  *)
(***************************************************************************)
EXTENDS DistributionProperties, SumsProofs, SequenceTheorems, FiniteSetTheorems

(***************************************************************************)
(* The inductive invariant.                                                *)
(***************************************************************************)
Share(d, a) == [k \in 1..Len(d) |-> IF d[k].key.account = a THEN d[k].amount ELSE 0]

\* How many entries the first n batches have, and what they pay to an account.
Covered(d, n) == IF n * BatchSize < Len(d) THEN n * BatchSize ELSE Len(d)
Through(d, a, n) == PrefixSums(Share(d, a), Len(d))[Covered(d, n)]

\* Everybody was paid the first n batches of i, exactly if nothing was lost.
PaidThrough(i, n) ==
  \A a \in Accounts :
    /\ paid[i][a] >= Through(readFirst[i], a, n)
    /\ lost[i] = 0 => paid[i][a] = Through(readFirst[i], a, n)

Typed ==
  /\ files \in [Ids -> Distributions \union {NoFile}]
  /\ subgraph \in Subgraph /\ time \in Times
  /\ totals \in [{"old", "new"} -> [Keys -> Nat]]
  /\ search.for \in {"lp", "migration", "nobody"}
  /\ runner \in [Runners -> RunnerType]
  /\ \A r \in Runners : runner[r].pc \in {"note", "clean up"} => ~ runner[r].dryRun
  /\ migrations \subseteq Ids
  /\ progress \in [Ids -> Nat \union {-1}]
  /\ \A r \in Runners : runner[r].pc \in {"send", "note", "clean up"} =>
       runner[r].progress \in [Ids -> Nat \union {-1}]
  /\ paid \in [Ids -> [Accounts -> Nat]]
  /\ lost \in [Ids -> Nat]
  /\ readFirst \in [Ids -> Distributions \union {NoFile}]
  /\ disturbed \in [Ids -> BOOLEAN]

\* What a run remembers of an undisturbed distribution i, its own or not, is what
\* is on disk.
UpToDate(i, r) ==
  /\ runner[r].pc \in {"send", "note", "clean up"} => runner[r].progress[i] = progress[i]
  /\ runner[r].pc # "clean up" => (i \in runner[r].migrations <=> i \in migrations)

\* A run of an undisturbed distribution is alone and sends what the first one sent.
Alone(i, r) ==
  /\ runner[r].data = readFirst[i]
  /\ \A q \in Runners \ {r} : ~ Writing(q)
  /\ i \in migrations <=> runner[r].pc = "clean up"
  /\ runner[r].pc \in {"send", "note"} => runner[r].next = progress[i] + 1
  /\ runner[r].pc = "note" =>
       /\ runner[r].next < Batches(runner[r].data)
       /\ PaidThrough(i, runner[r].next + 1)

InNote(i) == \E r \in Runners : Writing(r) /\ runner[r].id = i /\ runner[r].pc = "note"

Undisturbed(i) ==
  /\ readFirst[i] = NoFile =>
       progress[i] = -1 /\ i \notin migrations /\ \A a \in Accounts : paid[i][a] = 0
  /\ readFirst[i] # NoFile /\ i \notin migrations /\ ~ InNote(i) => PaidThrough(i, progress[i] + 1)
  /\ readFirst[i] # NoFile /\ i \in migrations =>
       \A a \in Accounts :
         /\ paid[i][a] >= ReceivedBy(readFirst[i], a)
         /\ lost[i] = 0 => paid[i][a] = ReceivedBy(readFirst[i], a)
  /\ \A r \in Runners : Writing(r) => UpToDate(i, r)
  /\ \A r \in Runners : Writing(r) /\ runner[r].id = i => Alone(i, r)

DInv == Typed /\ \A i \in Ids : ~ disturbed[i] => Undisturbed(i)

(***************************************************************************)
(* Batches.                                                                *)
(***************************************************************************)
LEMMA ShareType ==
  ASSUME NEW d \in Distributions, NEW a
  PROVE  Len(d) \in Nat /\ Share(d, a) \in [1..Len(d) -> Nat] /\ Share(d, a) \in [1..Len(d) -> Int]
<1>1. d \in Seq([key : Keys, amount : Nat])
  BY DEF Distributions
<1>2. Len(d) \in Nat /\ \A k \in 1..Len(d) : d[k] \in [key : Keys, amount : Nat]
  <2> DEFINE E == [key : Keys, amount : Nat]
  <2>1. d \in Seq(E)
    BY <1>1
  <2> HIDE DEF E
  <2>2. Len(d) \in Nat /\ \A k \in 1..Len(d) : d[k] \in E
    BY <2>1
  <2> QED BY <2>2 DEF E
<1>3. \A k \in 1..Len(d) : d[k].amount \in Nat
  BY <1>2
<1> QED BY <1>2, <1>3 DEF Share

LEMMA ReceivedIsThrough ==
  ASSUME NEW d, NEW a
  PROVE  ReceivedBy(d, a) = PrefixSums(Share(d, a), Len(d))[Len(d)]
BY DEF ReceivedBy, Total, Share

LEMMA ReceivedNat ==
  ASSUME NEW d \in Distributions, NEW a
  PROVE  ReceivedBy(d, a) \in Nat
<1>1. ReceivedBy(d, a) = Total(Share(d, a), Len(d))
  BY DEF ReceivedBy, Share
<1> QED BY <1>1, ShareType, TotalNat

\* There is another batch just when some entry was not covered.
LEMMA BatchBounds ==
  ASSUME NEW d \in Distributions, NEW n \in Nat
  PROVE  n < Batches(d) <=> n * BatchSize < Len(d)
<1> DEFINE L == Len(d)
           B == BatchSize
           q == (L + B - 1) \div B
<1>1. L \in Nat /\ B \in Nat /\ B > 0
  BY ShareType, DistributionAssumption DEF DistributionAssumption
<1>2. q = Batches(d)
  BY DEF Batches
<1> HIDE DEF L, B
<1>3. L + B - 1 \in Nat
  BY <1>1
<1>4. q \in Nat /\ B * q <= L + B - 1 /\ L + B - 1 < B * q + B
  BY <1>1, <1>3, DivNat, DivInt
<1> HIDE DEF q
<1>5. n * B \in Nat /\ q * B \in Nat /\ q * B = B * q
  BY <1>1, <1>4, TimesNat
<1>6. n < q => n * B < L
  <2>1. SUFFICES ASSUME n + 1 <= q PROVE n * B < L
    BY <1>4
  <2>2. (n + 1) * B <= q * B
    BY <1>1, <1>4, <2>1, TimesMonotone
  <2>3. (n + 1) * B = n * B + B
    BY <1>1
  <2> QED BY <1>1, <1>4, <1>5, <2>2, <2>3
<1>7. q <= n => L <= n * B
  <2>1. SUFFICES ASSUME q <= n PROVE L <= n * B
    OBVIOUS
  <2>2. q * B <= n * B
    BY <1>1, <1>4, <2>1, TimesMonotone
  <2> QED BY <1>1, <1>4, <1>5, <2>2
<1>8. n < q <=> n * B < L
  BY <1>1, <1>4, <1>5, <1>6, <1>7
<1> QED BY <1>2, <1>8 DEF L, B

LEMMA CoveredType ==
  ASSUME NEW d \in Distributions, NEW n \in Nat
  PROVE  Covered(d, n) \in 0..Len(d)
<1>1. n * BatchSize \in Nat
  BY TimesNat, DistributionAssumption DEF DistributionAssumption
<1> QED BY <1>1, ShareType DEF Covered

LEMMA ThroughInt ==
  ASSUME NEW d \in Distributions, NEW a, NEW n \in Nat
  PROVE  Through(d, a, n) \in Int
BY ShareType, CoveredType, PrefixSumInt DEF Through

LEMMA ThroughNone ==
  ASSUME NEW d \in Distributions, NEW a
  PROVE  Through(d, a, 0) = 0
<1>1. Covered(d, 0) = 0
  <2>1. 0 * BatchSize = 0
    BY DistributionAssumption DEF DistributionAssumption
  <2> QED BY <2>1, ShareType DEF Covered
<1> QED BY <1>1, ShareType, PrefixSumsUnfold DEF Through

LEMMA ThroughAll ==
  ASSUME NEW d \in Distributions, NEW a, NEW n \in Nat, ~ (n < Batches(d))
  PROVE  Through(d, a, n) = ReceivedBy(d, a)
<1>1. Covered(d, n) = Len(d)
  BY BatchBounds DEF Covered
<1> QED BY <1>1, ReceivedIsThrough DEF Through

\* A batch pays what is missing between what is covered before and after it.
LEMMA BatchReceived ==
  ASSUME NEW d \in Distributions, NEW a, NEW n \in Nat, n < Batches(d)
  PROVE  /\ Batch(d, n) \in Distributions /\ ReceivedBy(Batch(d, n), a) \in Nat
         /\ Through(d, a, n + 1) = Through(d, a, n) + ReceivedBy(Batch(d, n), a)
<1> DEFINE L == Len(d)
           k == Covered(d, n)
           c == Covered(d, n + 1)
           m == c - k
           batch == Batch(d, n)
           f == Share(d, a)
<1>1. BatchSize \in Nat /\ BatchSize > 0 /\ L \in Nat /\ f \in [1..L -> Int]
  BY ShareType, DistributionAssumption DEF DistributionAssumption
<1>2. k = n * BatchSize /\ n * BatchSize < L
  BY BatchBounds DEF Covered
<1>3. n * BatchSize \in Nat /\ (n + 1) * BatchSize = n * BatchSize + BatchSize
  BY <1>1, TimesNat
<1>4. k \in 0..L /\ c \in 0..L /\ k < c
  BY <1>1, <1>2, <1>3 DEF Covered
<1>5. batch = SubSeq(d, k + 1, c)
  BY <1>2 DEF Batch, Covered
<1> HIDE DEF k, c
<1>6. m \in Nat /\ m \in 0..(L - k) /\ Len(batch) = m /\ batch \in Distributions
      /\ \A j \in 1..m : batch[j] = d[k + j] /\ j \in 1..Len(batch) /\ k + j \in 1..L
  <2> DEFINE E == [key : Keys, amount : Nat]
  <2>1. d \in Seq(E) /\ L <= 2 * NumAccounts
        /\ \A x \in Seq(E) : Len(x) <= 2 * NumAccounts => x \in Distributions
    BY DEF Distributions
  <2> HIDE DEF E
  <2>2. \A j \in (k + 1)..c : d[j] \in E
    BY <1>1, <1>4, <2>1
  <2>3. k + 1 \in Int /\ c \in Int /\ k + 1 <= c /\ c - (k + 1) + 1 = m
    BY <1>4
  <2>4. batch \in Seq(E) /\ Len(batch) = m
    <3> HIDE DEF batch, m
    <3> QED BY <1>5, <2>2, <2>3, SubSeqProperties
  <2>5. \A j \in 1..m : batch[j] = d[k + j]
    BY <1>4, <1>5, <2>1
  <2>6. m \in Nat /\ m \in 0..(L - k) /\ \A j \in 1..m : k + j \in 1..L
    BY <1>1, <1>4
  <2>7. Len(batch) <= 2 * NumAccounts
    <3> HIDE DEF batch
    <3>1. NumAccounts \in Nat
      BY RewardsAssumption DEF RewardsAssumption
    <3> QED BY <1>1, <1>4, <2>1, <2>4, <3>1
  <2> QED BY <2>1, <2>4, <2>5, <2>6, <2>7
<1> DEFINE g == Share(batch, a)
<1>7. g \in [1..m -> Int] /\ \A j \in 1..m : g[j] = f[k + j]
  BY <1>6, ShareType DEF Share
<1>8. ReceivedBy(batch, a) = Total(g, m)
  BY <1>6 DEF ReceivedBy, Share
<1>9. PrefixSums(f, L)[k + m] = PrefixSums(f, L)[k] + Total(g, m)
  <2> HIDE DEF f, g, L, m
  <2> QED BY <1>1, <1>4, <1>6, <1>7, PrefixSumsSplit
<1>10. k + m = c
  BY <1>4
<1> QED BY <1>6, <1>8, <1>9, <1>10, ReceivedNat DEF Through, k, c

(***************************************************************************)
(* Elements in order.                                                      *)
(***************************************************************************)
IsOrder(S, before) ==
  /\ \A x \in S : <<x, x>> \notin before
  /\ \A x, y, z \in S : <<x, y>> \in before /\ <<y, z>> \in before => <<x, z>> \in before
  /\ \A x, y \in S : x # y => <<x, y>> \in before \/ <<y, x>> \in before

\* InOrder lists every element of a finite set once.
LEMMA InOrderLists ==
  ASSUME NEW S, IsFiniteSet(S), NEW before, IsOrder(S, before)
  PROVE  LET n == Cardinality(S)
             s == InOrder(S, before)
         IN /\ n \in Nat /\ DOMAIN s = 1..n /\ s \in [1..n -> S]
            /\ \A i, j \in 1..n : s[i] = s[j] => i = j
            /\ \A x \in S : \E i \in 1..n : s[i] = x
<1> DEFINE n == Cardinality(S)
           s == InOrder(S, before)
           Below(x) == {y \in S : <<y, x>> \in before}
           pos == [x \in S |-> Cardinality(Below(x)) + 1]
<1>1. n \in Nat
  BY FS_CardinalityType
<1>2. ASSUME NEW x \in S
      PROVE  IsFiniteSet(Below(x)) /\ Cardinality(Below(x)) \in 0..(n - 1)
  <2>1. Below(x) \in SUBSET (S \ {x})
    BY DEF IsOrder
  <2>2. IsFiniteSet(S \ {x}) /\ Cardinality(S \ {x}) = n - 1
    BY FS_RemoveElement
  <2> HIDE DEF Below
  <2>3. IsFiniteSet(Below(x)) /\ Cardinality(Below(x)) <= n - 1
    BY <2>1, <2>2, FS_Subset
  <2>4. Cardinality(Below(x)) \in Nat
    BY <2>3, FS_CardinalityType
  <2> QED BY <1>1, <2>3, <2>4
<1>3. ASSUME NEW x \in S, NEW y \in S, <<x, y>> \in before
      PROVE  pos[x] # pos[y]
  <2>1. Below(x) \in SUBSET Below(y) /\ x \in Below(y) /\ x \notin Below(x)
    BY <1>3 DEF IsOrder
  <2>2. IsFiniteSet(Below(y)) /\ Below(x) # Below(y)
    BY <1>2, <2>1
  <2>3. pos[x] = Cardinality(Below(x)) + 1 /\ pos[y] = Cardinality(Below(y)) + 1
    OBVIOUS
  <2> HIDE DEF Below, pos
  <2>4. Cardinality(Below(x)) # Cardinality(Below(y))
    BY <2>1, <2>2, FS_Subset
  <2>5. Cardinality(Below(x)) \in Int /\ Cardinality(Below(y)) \in Int
    BY <1>2
  <2> QED BY <2>3, <2>4, <2>5
<1>4. pos \in Surjection(S, 1..n)
  <2>1. \A x \in S : pos[x] \in 1..n
    <3> SUFFICES ASSUME NEW x \in S PROVE pos[x] \in 1..n
      OBVIOUS
    <3>1. Cardinality(Below(x)) \in 0..(n - 1) /\ pos[x] = Cardinality(Below(x)) + 1
      BY <1>2
    <3> HIDE DEF Below, pos, n
    <3> QED BY <1>1, <3>1
  <2>2. pos \in [S -> 1..n]
    <3>1. pos = [x \in S |-> pos[x]]
      OBVIOUS
    <3> HIDE DEF pos
    <3> QED BY <2>1, <3>1
  <2>3. \A x, y \in S : pos[x] = pos[y] => x = y
    <3> HIDE DEF pos
    <3> QED BY <1>3 DEF IsOrder
  <2> HIDE DEF pos
  <2>4. pos \in Injection(S, 1..n)
    BY <2>2, <2>3 DEF Injection, IsInjective
  <2>5. IsFiniteSet(1..n) /\ Cardinality(1..n) = n
    BY <1>1, FS_Interval
  <2> QED BY <2>4, <2>5, FS_Injection
<1>5. s = [i \in 1..n |-> CHOOSE x \in S : Cardinality(Below(x)) = i - 1]
  BY DEF InOrder
<1>6. ASSUME NEW i \in 1..n
      PROVE  s[i] \in S /\ pos[s[i]] = i
  <2>1. PICK x \in S : pos[x] = i
    BY <1>4 DEF Surjection
  <2>2. Cardinality(Below(x)) = i - 1
    <3>1. pos[x] = Cardinality(Below(x)) + 1
      OBVIOUS
    <3> HIDE DEF Below, pos, n
    <3> QED BY <1>2, <2>1, <3>1
  <2>3. s[i] = CHOOSE y \in S : Cardinality(Below(y)) = i - 1
    BY <1>5
  <2> HIDE DEF s, Below
  <2>4. s[i] \in S /\ Cardinality(Below(s[i])) = i - 1
    BY <2>2, <2>3
  <2> QED BY <2>4
<1>7. ASSUME NEW x \in S
      PROVE  pos[x] \in 1..n /\ s[pos[x]] = x
  <2>1. pos[x] \in 1..n
    BY <1>4 DEF Surjection
  <2>2. s[pos[x]] \in S /\ pos[s[pos[x]]] = pos[x]
    BY <1>6, <2>1
  <2> HIDE DEF s, pos
  <2> QED BY <1>3, <2>1, <2>2 DEF IsOrder
<1> HIDE DEF pos
<1>8. DOMAIN s = 1..n /\ s \in [1..n -> S]
  <2>1. DOMAIN s = 1..n
    BY <1>5
  <2>2. s = [i \in 1..n |-> s[i]]
    BY <1>5
  <2> HIDE DEF s
  <2> QED BY <1>6, <2>1, <2>2
<1> HIDE DEF s
<1>9. \A i, j \in 1..n : s[i] = s[j] => i = j
  BY <1>6
<1> QED BY <1>1, <1>7, <1>8, <1>9 DEF s, n

(***************************************************************************)
(* Entries.                                                                *)
(***************************************************************************)
Entry == [key : Keys, amount : Nat]

\* Nothing is listed twice, as in any JSON object.
Keyed(d) == \A i, j \in 1..Len(d) : d[i].key = d[j].key => i = j

Overridden(e) == e.key.account \in DOMAIN ReceiverOverrides

\* What those above the threshold are entitled to.
Entitled(rewards) ==
  [a \in Accounts |-> IF rewards[a] >= MIN_REWARD_THRESHOLD THEN rewards[a] ELSE 0]

LEMMA EntryParts ==
  /\ \A e \in Entry : e.key \in Keys /\ e.amount \in Nat /\ e.key.account \in Accounts
                      /\ e.key.checksummed \in BOOLEAN
                      /\ e = [key |-> e.key, amount |-> e.amount]
  /\ \A k \in Keys, n \in Nat : [key |-> k, amount |-> n] \in Entry
  /\ \A k \in Keys : k.account \in Accounts /\ k.checksummed \in BOOLEAN
                     /\ k = [account |-> k.account, checksummed |-> k.checksummed]
  /\ \A a \in Accounts, c \in BOOLEAN : [account |-> a, checksummed |-> c] \in Keys
BY DEF Entry, Keys

\* The entries of a sequence, and the amounts that are added up.
LEMMA EntriesType ==
  ASSUME NEW d \in Seq(Entry)
  PROVE  /\ Len(d) \in Nat /\ DOMAIN d = 1..Len(d)
         /\ \A i \in 1..Len(d) : d[i] \in Entry /\ d[i].amount \in Nat
         /\ [i \in 1..Len(d) |-> d[i].amount] \in [1..Len(d) -> Nat]
         /\ [i \in 1..Len(d) |-> d[i].amount] \in [1..Len(d) -> Int]
<1>1. Len(d) \in Nat /\ DOMAIN d = 1..Len(d) /\ \A i \in 1..Len(d) : d[i] \in Entry
  OBVIOUS
<1>2. \A i \in 1..Len(d) : d[i].amount \in Nat
  BY <1>1, EntryParts
<1> QED BY <1>1, <1>2

LEMMA FunctionIsSequence ==
  ASSUME NEW S, NEW n \in Nat, NEW s \in [1..n -> S]
  PROVE  s \in Seq(S) /\ Len(s) = n /\ DOMAIN s = 1..n
OBVIOUS

LEMMA AccountsFinite ==
  ASSUME NEW S \in SUBSET Accounts
  PROVE  NumAccounts \in Nat /\ IsFiniteSet(S) /\ Cardinality(S) \in 0..NumAccounts
<1>1. NumAccounts \in Nat /\ IsFiniteSet(1..NumAccounts) /\ Cardinality(1..NumAccounts) = NumAccounts
  <2>1. NumAccounts \in Nat
    BY RewardsAssumption DEF RewardsAssumption
  <2>2. IsFiniteSet(1..NumAccounts)
        /\ Cardinality(1..NumAccounts) = IF 1 > NumAccounts THEN 0 ELSE NumAccounts - 1 + 1
    BY <2>1, FS_Interval
  <2> QED BY <2>1, <2>2
<1>2. IsFiniteSet(S) /\ Cardinality(S) <= NumAccounts
  BY <1>1, FS_Subset DEF Accounts
<1>3. Cardinality(S) \in Nat
  BY <1>2, FS_CardinalityType
<1> QED BY <1>1, <1>2, <1>3

\* The entries pay what those above the threshold are entitled to, and nobody twice.
LEMMA EntriesPay ==
  ASSUME NEW rewards \in [Accounts -> Nat], NEW rank \in [Accounts -> Int], NEW c \in BOOLEAN
  PROVE  LET d == Entries(rewards, rank, c)
         IN /\ d \in Seq(Entry) /\ Len(d) <= NumAccounts /\ Keyed(d)
            /\ AmountOf(d) = Total(Entitled(rewards), NumAccounts)
<1> DEFINE S == {a \in Accounts : rewards[a] >= MIN_REWARD_THRESHOLD}
           before == {p \in S \X S :
                        \/ rank[p[1]] < rank[p[2]]
                        \/ rank[p[1]] = rank[p[2]] /\ p[1] < p[2]}
           n == Cardinality(S)
           s == InOrder(S, before)
           d == Entries(rewards, rank, c)
<1>1. NumAccounts \in Nat /\ IsFiniteSet(S) /\ n \in 0..NumAccounts
  BY AccountsFinite
<1>2. IsOrder(S, before)
  <2>1. \A a, b \in S :
          <<a, b>> \in before <=> rank[a] < rank[b] \/ (rank[a] = rank[b] /\ a < b)
    OBVIOUS
  <2>2. \A a \in S : a \in Accounts /\ a \in Int /\ rank[a] \in Int
    BY DEF Accounts
  <2> HIDE DEF S, before
  <2> QED BY <2>1, <2>2 DEF IsOrder
<1>3. /\ n \in Nat /\ DOMAIN s = 1..n /\ s \in [1..n -> S]
      /\ \A i, j \in 1..n : s[i] = s[j] => i = j
      /\ \A x \in S : \E i \in 1..n : s[i] = x
  <2> HIDE DEF S, before
  <2> QED BY <1>1, <1>2, InOrderLists
<1>4. d = [i \in 1..n |-> [key |-> [account |-> s[i], checksummed |-> c], amount |-> rewards[s[i]]]]
  <2>1. d = [i \in DOMAIN s |-> [key |-> [account |-> s[i], checksummed |-> c],
                                 amount |-> rewards[s[i]]]]
    BY DEF Entries
  <2> HIDE DEF d, s, n
  <2> QED BY <1>3, <2>1
<1>5. s \in [1..n -> 1..NumAccounts]
  <2>1. S \subseteq 1..NumAccounts
    BY DEF Accounts
  <2> HIDE DEF S, s, n
  <2> QED BY <1>3, <2>1
<1> HIDE DEF s, n, d
<1>6. \A i \in 1..n : /\ d[i].key = [account |-> s[i], checksummed |-> c]
                      /\ d[i].amount = rewards[s[i]] /\ d[i].key.account = s[i] /\ d[i] \in Entry
  <2>1. \A i \in 1..n : s[i] \in Accounts /\ rewards[s[i]] \in Nat
    BY <1>5 DEF Accounts
  <2> QED BY <1>4, <2>1, EntryParts
<1>7. d \in Seq(Entry) /\ Len(d) = n
  <2>1. d \in [1..n -> Entry]
    BY <1>4, <1>6
  <2> QED BY <1>3, <2>1, FunctionIsSequence
<1>8. Keyed(d)
  <2>1. \A i, j \in 1..n : d[i].key = d[j].key => s[i] = s[j]
    BY <1>6
  <2> QED BY <1>3, <1>7, <2>1 DEF Keyed
<1>9. AmountOf(d) = Total(Entitled(rewards), NumAccounts)
  <2> DEFINE g == [i \in 1..n |-> rewards[s[i]]]
             e == [a \in 1..NumAccounts |-> IF \E i \in 1..n : s[i] = a THEN rewards[a] ELSE 0]
  <2>1. [i \in 1..n |-> d[i].amount] = g
    BY <1>6
  <2>2. rewards \in [1..NumAccounts -> Int]
    BY DEF Accounts
  <2>3. Total(g, n) = Total(e, NumAccounts)
    BY <1>1, <1>3, <1>5, <2>2, TotalReindexed
  <2>4. \A a \in Accounts : (\E i \in 1..n : s[i] = a) <=> rewards[a] >= MIN_REWARD_THRESHOLD
    BY <1>3
  <2>5. e = Entitled(rewards)
    BY <2>4 DEF Entitled, Accounts
  <2> HIDE DEF g, e
  <2> QED BY <1>7, <2>1, <2>3, <2>5 DEF AmountOf
<1> QED BY <1>1, <1>7, <1>8, <1>9 DEF d

(***************************************************************************)
(* Corrections.                                                            *)
(***************************************************************************)
LEMMA SameKey ==
  ASSUME NEW k \in Keys, NEW l \in Keys
  PROVE  k = l <=> k.account = l.account /\ (k.checksummed <=> l.checksummed)
<1>1. k.checksummed \in BOOLEAN /\ l.checksummed \in BOOLEAN
  BY EntryParts
<1>2. ASSUME k.account = l.account, k.checksummed <=> l.checksummed
      PROVE  k = l
  <2>1. k.checksummed = l.checksummed
    BY <1>1, <1>2
  <2>2. k = [account |-> k.account, checksummed |-> k.checksummed]
        /\ l = [account |-> l.account, checksummed |-> l.checksummed]
    BY EntryParts
  <2> QED BY <1>2, <2>1, <2>2
<1> QED BY <1>2

\* Keys by number, two for each account.
KeyNumber(k) == 2 * k.account + (IF k.checksummed THEN 1 ELSE 0)

LEMMA KeyNumbers ==
  /\ \A k \in Keys : KeyNumber(k) \in Int /\ KeyNumber(k) - 1 \in 1..(2 * NumAccounts)
  /\ \A k, l \in Keys : KeyNumber(k) = KeyNumber(l) => k = l
<1>1. NumAccounts \in Nat
  BY RewardsAssumption DEF RewardsAssumption
<1>2. \A k \in Keys : k.account \in 1..NumAccounts /\ k.checksummed \in BOOLEAN
  BY DEF Keys, Accounts
<1>3. ASSUME NEW k \in Keys
      PROVE  KeyNumber(k) \in Int /\ KeyNumber(k) - 1 \in 1..(2 * NumAccounts)
  <2>1. CASE k.checksummed
    BY <1>1, <1>2, <2>1 DEF KeyNumber
  <2>2. CASE ~ k.checksummed
    BY <1>1, <1>2, <2>2 DEF KeyNumber
  <2> QED BY <2>1, <2>2
<1>4. ASSUME NEW k \in Keys, NEW l \in Keys, KeyNumber(k) = KeyNumber(l)
      PROVE  k = l
  <2> DEFINE a == k.account
             b == l.account
             x == IF k.checksummed THEN 1 ELSE 0
             y == IF l.checksummed THEN 1 ELSE 0
  <2>1. a \in Int /\ b \in Int /\ x \in 0..1 /\ y \in 0..1
    BY <1>2
  <2>2. 2 * a + x = 2 * b + y
    BY <1>4 DEF KeyNumber
  <2>3. x = y => (k.checksummed <=> l.checksummed)
    OBVIOUS
  <2> HIDE DEF a, b, x, y
  <2>4. a = b /\ x = y
    BY <2>1, <2>2
  <2> QED BY <2>3, <2>4, SameKey DEF a, b
<1> QED BY <1>3, <1>4

LEMMA KeysFinite ==
  ASSUME NEW S \in SUBSET Keys
  PROVE  IsFiniteSet(S) /\ Cardinality(S) <= 2 * NumAccounts
<1> DEFINE M == 2 * NumAccounts
           f == [k \in S |-> KeyNumber(k) - 1]
<1>1. M \in Nat
  BY RewardsAssumption DEF RewardsAssumption
<1>2. f \in [S -> 1..M]
  BY KeyNumbers
<1>3. \A k, l \in S : f[k] = f[l] => k = l
  BY KeyNumbers
<1> HIDE DEF f, M
<1>4. f \in Injection(S, 1..M)
  BY <1>2, <1>3 DEF Injection, IsInjective
<1>5. IsFiniteSet(1..M) /\ Cardinality(1..M) = M
  BY <1>1, FS_Interval
<1>6. IsFiniteSet(S) /\ Cardinality(S) <= Cardinality(1..M)
  BY <1>4, <1>5, FS_Injection
<1> QED BY <1>5, <1>6 DEF M

\* The correction is a distribution that pays every key the difference.
LEMMA DiffPays ==
  ASSUME NEW old \in [Keys -> Nat], NEW new \in [Keys -> Nat]
  PROVE  LET d == DiffDistribution(old, new)
         IN d \in Distributions /\ \A k \in Keys : TotalRebates(d)[k] = DiffOf(old, new)[k]
<1> DEFINE diff == DiffOf(old, new)
           S == {k \in Keys : diff[k] > 0}
           before == {p \in S \X S :
                        \/ diff[p[1]] < diff[p[2]]
                        \/ diff[p[1]] = diff[p[2]] /\ KeyNumber(p[1]) < KeyNumber(p[2])}
           n == Cardinality(S)
           s == InOrder(S, before)
           d == DiffDistribution(old, new)
<1>1. diff \in [Keys -> Nat]
  <2>1. \A k \in Keys : (IF new[k] > old[k] THEN new[k] - old[k] ELSE 0) \in Nat
    OBVIOUS
  <2> QED BY <2>1 DEF DiffOf
<1> HIDE DEF diff
<1>2. IsFiniteSet(S) /\ n <= 2 * NumAccounts
  BY KeysFinite
<1>3. IsOrder(S, before)
  <2>1. \A k, l \in S :
          <<k, l>> \in before <=> diff[k] < diff[l] \/ (diff[k] = diff[l] /\ KeyNumber(k) < KeyNumber(l))
    OBVIOUS
  <2>2. \A k \in S : k \in Keys /\ KeyNumber(k) \in Int /\ diff[k] \in Int
    BY <1>1, KeyNumbers
  <2>3. \A k, l \in S : k # l => KeyNumber(k) # KeyNumber(l)
    BY KeyNumbers
  <2> HIDE DEF S, before
  <2> QED BY <2>1, <2>2, <2>3 DEF IsOrder
<1>4. /\ n \in Nat /\ DOMAIN s = 1..n /\ s \in [1..n -> S]
      /\ \A i, j \in 1..n : s[i] = s[j] => i = j
      /\ \A x \in S : \E i \in 1..n : s[i] = x
  <2> HIDE DEF S, before
  <2> QED BY <1>2, <1>3, InOrderLists
<1>5. d = [i \in 1..n |-> [key |-> s[i], amount |-> diff[s[i]]]]
  <2>1. d = [i \in DOMAIN s |-> [key |-> s[i], amount |-> diff[s[i]]]]
    BY DEF DiffDistribution, KeyNumber, diff
  <2> HIDE DEF d, s, n
  <2> QED BY <1>4, <2>1
<1> HIDE DEF s, n, d
<1>6. \A i \in 1..n : s[i] \in Keys /\ diff[s[i]] \in Nat
  BY <1>1, <1>4
<1>7. \A i \in 1..n : d[i].key = s[i] /\ d[i].amount = diff[s[i]] /\ d[i] \in Entry
  BY <1>5, <1>6, EntryParts
<1>8. d \in Seq(Entry) /\ Len(d) = n
  <2>1. d \in [1..n -> Entry]
    BY <1>5, <1>7
  <2> QED BY <1>4, <2>1, FunctionIsSequence
<1>9. d \in Distributions
  BY <1>2, <1>8 DEF Distributions, Entry
<1>10. ASSUME NEW k \in Keys
       PROVE  TotalRebates(d)[k] = diff[k]
  <2> DEFINE g == [i \in 1..n |-> IF d[i].key = k THEN d[i].amount ELSE 0]
  <2>1. TotalRebates(d)[k] = Total(g, n)
    BY <1>8 DEF TotalRebates
  <2>2. g \in [1..n -> Int] /\ \A i \in 1..n : s[i] # k => g[i] = 0
    BY <1>6, <1>7
  <2>3. CASE k \in S
    <3>1. PICK i \in 1..n : s[i] = k
      BY <1>4, <2>3
    <3>2. g[i] = diff[k] /\ \A j \in (1..n) \ {i} : g[j] = 0
      BY <1>4, <1>7, <2>2, <3>1
    <3> HIDE DEF g
    <3>3. Total(g, n) = g[i]
      <4>1. n \in Nat /\ g \in [1..n -> Int] /\ i \in 1..n
            /\ \A j \in (1..n) \ {i} : g[j] = 0
        BY <1>4, <2>2, <3>1, <3>2
      <4> HIDE DEF S
      <4> QED BY <4>1, TotalOneTerm
    <3> QED BY <2>1, <3>2, <3>3
  <2>4. CASE k \notin S
    <3>1. diff[k] = 0
      BY <1>1, <2>4
    <3>2. \A i \in 1..n : g[i] = 0
      BY <1>4, <2>2, <2>4
    <3> HIDE DEF g
    <3> QED BY <1>4, <2>1, <2>2, <3>1, <3>2, TotalZero
  <2> QED BY <2>3, <2>4
<1> QED BY <1>9, <1>10 DEF d, diff

\* An account receives what is due to the two spellings of its address.
LEMMA ReceivedByKeys ==
  ASSUME NEW d \in Distributions, NEW a \in Accounts
  PROVE  ReceivedBy(d, a) = TotalRebates(d)[[account |-> a, checksummed |-> TRUE]]
                            + TotalRebates(d)[[account |-> a, checksummed |-> FALSE]]
<1> DEFINE n == Len(d)
           key(c) == [account |-> a, checksummed |-> c]
           part(c) == [i \in 1..n |-> IF d[i].key = key(c) THEN d[i].amount ELSE 0]
           all == [i \in 1..n |-> IF d[i].key.account = a THEN d[i].amount ELSE 0]
<1>1. d \in Seq(Entry)
  BY DEF Distributions, Entry
<1>2. n \in Nat /\ \A i \in 1..n : d[i] \in Entry /\ d[i].amount \in Nat
  BY <1>1, EntriesType
<1>3. key(TRUE) \in Keys /\ key(FALSE) \in Keys
  BY EntryParts
<1>4. part(TRUE) \in [1..n -> Int] /\ part(FALSE) \in [1..n -> Int] /\ all \in [1..n -> Int]
  BY <1>2
<1>5. ASSUME NEW i \in 1..n
      PROVE  all[i] = part(TRUE)[i] + part(FALSE)[i]
  <2> DEFINE k == d[i].key
             x == d[i].amount
  <2>1. k \in Keys /\ x \in Nat
    BY <1>2, EntryParts
  <2>2. k = key(TRUE) <=> k.account = a /\ k.checksummed
    <3>1. key(TRUE).account = a /\ key(TRUE).checksummed
      OBVIOUS
    <3> HIDE DEF k, key
    <3> QED BY <1>3, <2>1, <3>1, SameKey
  <2>3. k = key(FALSE) <=> k.account = a /\ ~ k.checksummed
    <3>1. key(FALSE).account = a /\ ~ key(FALSE).checksummed
      OBVIOUS
    <3> HIDE DEF k, key
    <3> QED BY <1>3, <2>1, <3>1, SameKey
  <2>4. /\ all[i] = IF k.account = a THEN x ELSE 0
        /\ part(TRUE)[i] = IF k = key(TRUE) THEN x ELSE 0
        /\ part(FALSE)[i] = IF k = key(FALSE) THEN x ELSE 0
    OBVIOUS
  <2> DEFINE T == k = key(TRUE)
             F == k = key(FALSE)
             same == k.account = a
             u == all[i]
             v == part(TRUE)[i]
             w == part(FALSE)[i]
  <2>5. (same <=> T \/ F) /\ ~ (T /\ F)
    BY <2>2, <2>3
  <2>6. u = (IF same THEN x ELSE 0) /\ v = (IF T THEN x ELSE 0) /\ w = (IF F THEN x ELSE 0)
    BY <2>4
  <2> HIDE DEF x, T, F, same, u, v, w
  <2>7. u = v + w
    BY <2>1, <2>5, <2>6
  <2> QED BY <2>7 DEF u, v, w
<1>6. /\ ReceivedBy(d, a) = Total(all, n)
      /\ TotalRebates(d)[key(TRUE)] = Total(part(TRUE), n)
      /\ TotalRebates(d)[key(FALSE)] = Total(part(FALSE), n)
  BY <1>3 DEF ReceivedBy, TotalRebates
<1>7. Total(all, n) = Total(part(TRUE), n) + Total(part(FALSE), n)
  <2> DEFINE f == part(TRUE)
             g == part(FALSE)
  <2>1. f \in [1..n -> Int] /\ g \in [1..n -> Int] /\ \A i \in 1..n : all[i] = f[i] + g[i]
    BY <1>4, <1>5
  <2> HIDE DEF f, g, all, n
  <2>2. Total(all, n) = Total(f, n) + Total(g, n)
    BY <1>2, <1>4, <2>1, TotalSum
  <2> QED BY <2>2 DEF f, g
<1> QED BY <1>6, <1>7

(***************************************************************************)
(* Overridden receivers.                                                   *)
(***************************************************************************)
LEMMA OverridesTyped ==
  \A a \in DOMAIN ReceiverOverrides :
    a \in Accounts /\ ReceiverOverrides[a] \in Accounts
    /\ ReceiverOverrides[a] \notin DOMAIN ReceiverOverrides
BY RewardsAssumption DEF RewardsAssumption

\* An entry is taken out.
LEMMA EntryRemoved ==
  ASSUME NEW d \in Seq(Entry), NEW p \in 1..Len(d)
  PROVE  LET r == RemoveAt(d, p)
         IN /\ r \in Seq(Entry) /\ Len(r) = Len(d) - 1 /\ Len(r) \in Nat /\ DOMAIN r = 1..Len(r)
            /\ \A i \in 1..Len(r) : r[i] = IF i < p THEN d[i] ELSE d[i + 1]
            /\ AmountOf(r) = AmountOf(d) - d[p].amount
<1> DEFINE n == Len(d)
           head == SubSeq(d, 1, p - 1)
           tail == SubSeq(d, p + 1, n)
           r == RemoveAt(d, p)
<1>1. n \in Nat \ {0} /\ p \in 1..n /\ \A i \in 1..n : d[i] \in Entry
  BY EntriesType
<1>2. r = head \o tail
  BY DEF RemoveAt
<1>3. head \in Seq(Entry) /\ Len(head) = p - 1 /\ \A i \in 1..(p - 1) : head[i] = d[i]
  <2>1. p - 1 \in Int /\ \A i \in 1..(p - 1) : d[i] \in Entry
    BY <1>1
  <2>2. /\ head \in Seq(Entry)
        /\ Len(head) = IF 1 <= p - 1 THEN (p - 1) - 1 + 1 ELSE 0
        /\ \A i \in 1..((p - 1) - 1 + 1) : head[i] = d[1 + i - 1]
    BY <2>1, SubSeqProperties
  <2>3. (p - 1) - 1 + 1 = p - 1 /\ (~ (1 <= p - 1) => p - 1 = 0)
        /\ \A i \in 1..(p - 1) : 1 + i - 1 = i
    BY <1>1
  <2> HIDE DEF head
  <2> QED BY <2>2, <2>3
<1>4. tail \in Seq(Entry) /\ Len(tail) = n - p /\ \A i \in 1..(n - p) : tail[i] = d[p + i]
  <2>1. p + 1 \in Int /\ n \in Int /\ \A i \in (p + 1)..n : d[i] \in Entry
    BY <1>1
  <2> HIDE DEF n
  <2>2. /\ tail \in Seq(Entry)
        /\ Len(tail) = IF p + 1 <= n THEN n - (p + 1) + 1 ELSE 0
        /\ \A i \in 1..(n - (p + 1) + 1) : tail[i] = d[p + 1 + i - 1]
    BY <2>1, SubSeqProperties
  <2>3. n - (p + 1) + 1 = n - p /\ (~ (p + 1 <= n) => n - p = 0)
        /\ \A i \in 1..(n - p) : p + 1 + i - 1 = p + i
    BY <1>1
  <2> HIDE DEF tail
  <2> QED BY <2>2, <2>3
<1> HIDE DEF head, tail, n
<1>5. /\ r \in Seq(Entry)
      /\ Len(r) = (p - 1) + (n - p)
      /\ \A i \in 1..((p - 1) + (n - p)) : r[i] = IF i <= p - 1 THEN head[i] ELSE tail[i - (p - 1)]
  <2>1. /\ head \o tail \in Seq(Entry)
        /\ Len(head \o tail) = Len(head) + Len(tail)
        /\ \A i \in 1..(Len(head) + Len(tail)) :
             (head \o tail)[i] = IF i <= Len(head) THEN head[i] ELSE tail[i - Len(head)]
    BY <1>3, <1>4, ConcatProperties
  <2> HIDE DEF r
  <2> QED BY <1>2, <1>3, <1>4, <2>1
<1>6. (p - 1) + (n - p) = n - 1 /\ n - 1 \in Nat
  BY <1>1
<1> HIDE DEF r
<1>7. Len(r) = n - 1
  BY <1>5, <1>6
<1>8. ASSUME NEW i \in 1..(n - 1)
      PROVE  r[i] = IF i < p THEN d[i] ELSE d[i + 1]
  <2>1. r[i] = IF i <= p - 1 THEN head[i] ELSE tail[i - (p - 1)]
    BY <1>5, <1>6
  <2>2. CASE i < p
    <3>1. i <= p - 1 /\ i \in 1..(p - 1)
      BY <1>1, <2>2
    <3> QED BY <1>3, <2>1, <2>2, <3>1
  <2>3. CASE ~ (i < p)
    <3>1. ~ (i <= p - 1) /\ i - (p - 1) \in 1..(n - p) /\ p + (i - (p - 1)) = i + 1
      BY <1>1, <2>3
    <3>2. tail[i - (p - 1)] = d[p + (i - (p - 1))]
      BY <1>4, <3>1
    <3> QED BY <2>1, <2>3, <3>1, <3>2
  <2> QED BY <2>2, <2>3
<1>9. AmountOf(r) = AmountOf(d) - d[p].amount
  <2> DEFINE f == [i \in 1..n |-> d[i].amount]
             g == [i \in 1..(n - 1) |-> r[i].amount]
  <2>1. f \in [1..n -> Int] /\ g \in [1..(n - 1) -> Int]
    BY <1>5, <1>7, EntriesType DEF n
  <2>2. \A i \in 1..(n - 1) : g[i] = IF i < p THEN f[i] ELSE f[i + 1]
    BY <1>1, <1>8
  <2>3. AmountOf(r) = Total(g, n - 1) /\ AmountOf(d) = Total(f, n) /\ f[p] = d[p].amount
    BY <1>1, <1>7 DEF AmountOf, n
  <2> HIDE DEF f, g
  <2>4. Total(g, n - 1) = Total(f, n) - f[p]
    BY <1>1, <2>1, <2>2, TotalRemove
  <2> QED BY <2>3, <2>4
<1>10. DOMAIN r = 1..Len(r)
  BY <1>5
<1> QED BY <1>5, <1>6, <1>7, <1>8, <1>9, <1>10 DEF r, n

\* An entry is added, or the amount of one grows.
LEMMA EntryAdded ==
  ASSUME NEW d \in Seq(Entry), NEW e \in Entry
  PROVE  LET r == Append(d, e)
         IN /\ r \in Seq(Entry) /\ Len(r) = Len(d) + 1
            /\ \A i \in 1..Len(d) : r[i] = d[i]
            /\ r[Len(d) + 1] = e
            /\ AmountOf(r) = AmountOf(d) + e.amount
<1> DEFINE n == Len(d)
           r == Append(d, e)
           f == [i \in 1..n |-> d[i].amount]
           g == [i \in 1..(n + 1) |-> r[i].amount]
<1>1. /\ r \in Seq(Entry) /\ Len(r) = n + 1 /\ n \in Nat
      /\ \A i \in 1..n : r[i] = d[i]
      /\ r[n + 1] = e
  BY AppendProperties
<1> HIDE DEF r
<1>2. f \in [1..n -> Int]
  BY EntriesType
<1>3. g \in [1..(n + 1) -> Int]
  BY <1>1, EntriesType
<1>4. AmountOf(d) = Total(f, n) /\ AmountOf(r) = Total(g, n + 1)
  BY <1>1 DEF AmountOf
<1>5. (\A i \in 1..n : g[i] = f[i]) /\ g[n + 1] = e.amount
  BY <1>1
<1> HIDE DEF f, g, n
<1>6. Total(g, n + 1) = Total(f, n) + g[n + 1]
  BY <1>1, <1>2, <1>3, <1>5, TotalAppend
<1> QED BY <1>1, <1>4, <1>5, <1>6 DEF r, n

\* r is d but for the entry with key k, which has grown.
IsGrown(r, d, k, amount) ==
  /\ r \in [DOMAIN d -> Entry]
  /\ \A i \in DOMAIN d :
       r[i] = IF d[i].key = k THEN [d[i] EXCEPT !.amount = d[i].amount + amount] ELSE d[i]

LEMMA EntryGrown ==
  ASSUME NEW d \in Seq(Entry), Keyed(d), NEW k \in Keys, NEW amount \in Nat,
         NEW p \in 1..Len(d), d[p].key = k,
         NEW r, IsGrown(r, d, k, amount)
  PROVE  /\ r \in Seq(Entry) /\ Len(r) = Len(d)
         /\ \A i \in 1..Len(d) : r[i].key = d[i].key /\ (d[i].key # k => r[i] = d[i])
         /\ AmountOf(r) = AmountOf(d) + amount
<1> DEFINE n == Len(d)
           f == [i \in 1..n |-> d[i].amount]
           g == [i \in 1..n |-> r[i].amount]
<1>1. n \in Nat /\ DOMAIN d = 1..n /\ \A i \in 1..n : d[i] \in Entry /\ d[i].amount \in Nat
  BY EntriesType
<1>2. \A i \in 1..n :
        /\ r[i] \in Entry /\ r[i].key = d[i].key
        /\ d[i].key # k => r[i] = d[i]
        /\ d[i].key = k => r[i].amount = d[i].amount + amount
  <2> SUFFICES ASSUME NEW i \in 1..n
               PROVE  /\ r[i] \in Entry /\ r[i].key = d[i].key
                      /\ d[i].key # k => r[i] = d[i]
                      /\ d[i].key = k => r[i].amount = d[i].amount + amount
    OBVIOUS
  <2>1. r[i] = IF d[i].key = k THEN [d[i] EXCEPT !.amount = d[i].amount + amount] ELSE d[i]
    BY <1>1 DEF IsGrown
  <2>2. d[i] \in Entry /\ d[i].amount + amount \in Nat
    BY <1>1
  <2> QED BY <2>1, <2>2 DEF Entry
<1>3. r \in Seq(Entry) /\ Len(r) = n
  <2>1. r \in [1..n -> Entry]
    BY <1>1 DEF IsGrown
  <2> QED BY <1>1, <2>1, FunctionIsSequence
<1>4. f \in [1..n -> Int] /\ g \in [1..n -> Int]
  <2>1. \A i \in 1..n : r[i].amount \in Nat
    BY <1>2, EntryParts
  <2> QED BY <1>1, <2>1
<1>5. \A i \in (1..n) \ {p} : g[i] = f[i]
  BY <1>2 DEF Keyed
<1>6. g[p] = f[p] + amount /\ f[p] \in Int
  BY <1>1, <1>2
<1>7. AmountOf(d) = Total(f, n) /\ AmountOf(r) = Total(g, n)
  BY <1>3 DEF AmountOf
<1> HIDE DEF f, g, n
<1>8. Total(g, n) = Total(f, n) + g[p] - f[p] /\ Total(f, n) \in Int
  <2>1. p \in 1..n
    BY DEF n
  <2> QED BY <1>1, <1>4, <1>5, <2>1, TotalChange, TotalInt
<1>9. Total(g, n) = Total(f, n) + amount
  BY <1>6, <1>8
<1> QED BY <1>2, <1>3, <1>7, <1>9 DEF n

\* After one turn of the loop, for entry p of d: the entry is gone, the other entries
\* that are overridden are still there, and as much is paid.
Turned(r, d, p) ==
  /\ r \in Seq(Entry) /\ Len(r) <= Len(d) /\ Keyed(r)
  /\ AmountOf(r) = AmountOf(d)
  /\ \A j \in 1..Len(d) : Overridden(d[j]) /\ j # p => \E i \in 1..Len(r) : r[i] = d[j]
  /\ \A i \in 1..Len(r) : Overridden(r[i]) => \E j \in 1..Len(d) : j # p /\ d[j] = r[i]

LEMMA RedirectTurns ==
  ASSUME NEW d \in Seq(Entry), Keyed(d), NEW p \in 1..Len(d), Overridden(d[p]),
         NEW r, r = Redirect(d, d[p])
  PROVE  Turned(r, d, p)
<1> DEFINE e == d[p]
           n == Len(d)
           new == [account |-> ReceiverOverrides[e.key.account], checksummed |-> TRUE]
           rest == RemoveAt(d, p)
           m == Len(rest)
           there == \E i \in DOMAIN rest : rest[i].key = new
           grown == [i \in DOMAIN rest |->
                       IF rest[i].key = new THEN [rest[i] EXCEPT !.amount = @ + e.amount] ELSE rest[i]]
           entry == [key |-> new, amount |-> e.amount]
           added == Append(rest, entry)
           from(i) == IF i < p THEN i ELSE i + 1
<1>1. n \in Nat /\ DOMAIN d = 1..n /\ e \in Entry /\ e.amount \in Nat /\ AmountOf(d) \in Int
  <2>1. [i \in 1..n |-> d[i].amount] \in [1..n -> Int]
    BY EntriesType
  <2> QED BY <2>1, EntriesType, TotalInt DEF AmountOf
<1>2. new \in Keys /\ new.account \notin DOMAIN ReceiverOverrides
  BY OverridesTyped, EntryParts DEF Overridden
<1>3. (CHOOSE i \in DOMAIN d : d[i].key = e.key) = p
  <2>1. \A i \in DOMAIN d : d[i].key = e.key => i = p
    BY <1>1 DEF Keyed
  <2> QED BY <1>1, <2>1
<1>4. r = IF there THEN grown ELSE added
  <2> DEFINE at == CHOOSE i \in DOMAIN d : d[i].key = e.key
  <2>1. r = LET taken == RemoveAt(d, at)
            IN IF \E i \in DOMAIN taken : taken[i].key = new
               THEN [i \in DOMAIN taken |->
                       IF taken[i].key = new THEN [taken[i] EXCEPT !.amount = @ + e.amount]
                       ELSE taken[i]]
               ELSE Append(taken, entry)
    BY DEF Redirect, Overridden
  <2>2. at = p
    BY <1>3
  <2> HIDE DEF at
  <2> QED BY <2>1, <2>2
<1>5. /\ rest \in Seq(Entry) /\ m = n - 1 /\ m \in Nat /\ DOMAIN rest = 1..m
      /\ \A i \in 1..m : rest[i] = IF i < p THEN d[i] ELSE d[i + 1]
      /\ AmountOf(rest) = AmountOf(d) - e.amount
  BY EntryRemoved
<1> HIDE DEF rest, e, new
<1>6. /\ \A i \in 1..m : from(i) \in 1..n /\ from(i) # p /\ rest[i] = d[from(i)]
      /\ \A i, j \in 1..m : from(i) = from(j) => i = j
      /\ \A j \in 1..n : j # p => \E i \in 1..m : rest[i] = d[j]
  <2>1. \A i \in 1..m : from(i) \in 1..n /\ from(i) # p /\ rest[i] = d[from(i)]
    BY <1>1, <1>5
  <2>2. \A i, j \in 1..m : from(i) = from(j) => i = j
    BY <1>1, <1>5
  <2>3. ASSUME NEW j \in 1..n, j # p
        PROVE  \E i \in 1..m : rest[i] = d[j]
    <3>1. CASE j < p
      BY <1>1, <1>5, <3>1
    <3>2. CASE j > p
      <4>1. j - 1 \in 1..m /\ ~ (j - 1 < p) /\ (j - 1) + 1 = j
        BY <1>1, <1>5, <3>2
      <4>2. rest[j - 1] = d[(j - 1) + 1]
        BY <1>5, <4>1
      <4> QED BY <4>1, <4>2
    <3> QED BY <1>1, <2>3, <3>1, <3>2
  <2> QED BY <2>1, <2>2, <2>3
<1>7. Keyed(rest)
  <2> SUFFICES ASSUME NEW i \in 1..m, NEW j \in 1..m, rest[i].key = rest[j].key PROVE i = j
    BY DEF Keyed
  <2>1. from(i) \in 1..n /\ from(j) \in 1..n /\ rest[i] = d[from(i)] /\ rest[j] = d[from(j)]
    BY <1>6
  <2> HIDE DEF from
  <2>2. from(i) = from(j)
    BY <2>1 DEF Keyed
  <2> QED BY <1>6, <2>2
<1>8. m <= n /\ m + 1 = n
  <2> HIDE DEF m, n
  <2> QED BY <1>1, <1>5
<1>9. CASE there
  <2>1. PICK q \in 1..m : rest[q].key = new
    BY <1>5, <1>9
  <2>2. /\ grown \in Seq(Entry) /\ Len(grown) = m
        /\ \A i \in 1..m : grown[i].key = rest[i].key /\ (rest[i].key # new => grown[i] = rest[i])
        /\ AmountOf(grown) = AmountOf(rest) + e.amount
    <3>1. rest \in Seq(Entry) /\ new \in Keys /\ e.amount \in Nat /\ q \in 1..Len(rest)
      BY <1>1, <1>2, <1>5
    <3>2. \A i \in DOMAIN rest :
            grown[i] = IF rest[i].key = new
                       THEN [rest[i] EXCEPT !.amount = rest[i].amount + e.amount] ELSE rest[i]
      OBVIOUS
    <3>3. \A i \in DOMAIN rest : rest[i] \in Entry /\ rest[i].amount \in Nat
      <4> HIDE DEF n, m, there, grown, entry, added, from
      <4> QED BY <1>5, EntriesType
    <3>4. \A i \in DOMAIN rest : grown[i] \in Entry
      <4>1. \A i \in DOMAIN rest : rest[i].amount + e.amount \in Nat
        BY <1>1, <3>3
      <4> HIDE DEF grown, n, m, there, entry, added, from
      <4> QED BY <3>2, <3>3, <4>1 DEF Entry
    <3>5. DOMAIN grown = DOMAIN rest /\ grown = [i \in DOMAIN rest |-> grown[i]]
      OBVIOUS
    <3> HIDE DEF there, entry, added, from, grown, n
    <3>6. IsGrown(grown, rest, new, e.amount)
      BY <3>2, <3>4, <3>5 DEF IsGrown
    <3> QED BY <1>7, <2>1, <3>1, <3>6, EntryGrown
  <2>3. r = grown
    BY <1>4, <1>9
  <2> HIDE DEF grown
  <2>4. Keyed(r)
    BY <1>7, <2>2, <2>3 DEF Keyed
  <2>5. AmountOf(r) = AmountOf(d)
    BY <1>1, <1>5, <2>2, <2>3
  <2>6. \A i \in 1..m : (Overridden(r[i]) \/ Overridden(rest[i])) => r[i] = rest[i]
    BY <1>2, <2>2, <2>3 DEF Overridden
  <2>7. ASSUME NEW j \in 1..n, Overridden(d[j]), j # p
        PROVE  \E i \in 1..m : r[i] = d[j]
    BY <1>6, <2>6, <2>7
  <2>8. ASSUME NEW i \in 1..m, Overridden(r[i])
        PROVE  \E j \in 1..n : j # p /\ d[j] = r[i]
    BY <1>6, <2>6, <2>8
  <2>9. r \in Seq(Entry) /\ Len(r) = m /\ m <= n
    <3> HIDE DEF m, n
    <3> QED BY <1>8, <2>2, <2>3
  <2> QED BY <2>4, <2>5, <2>7, <2>8, <2>9 DEF e, Turned
<1>10. CASE ~ there
  <2>1. entry \in Entry /\ entry.key = new /\ entry.amount = e.amount
    BY <1>1, <1>2, EntryParts
  <2>2. /\ added \in Seq(Entry) /\ Len(added) = m + 1
        /\ \A i \in 1..m : added[i] = rest[i]
        /\ added[m + 1] = entry
        /\ AmountOf(added) = AmountOf(rest) + entry.amount
    <3> HIDE DEF entry
    <3> QED BY <1>5, <2>1, EntryAdded
  <2>3. r = added
    BY <1>4, <1>10
  <2> HIDE DEF added, entry
  <2>4. r \in Seq(Entry) /\ Len(r) = m + 1 /\ m + 1 = n
        /\ \A i \in 1..(m + 1) : i \in 1..m \/ i = m + 1
    <3> HIDE DEF m, n
    <3> QED BY <1>5, <1>8, <2>2, <2>3
  <2>5. Keyed(r)
    <3> SUFFICES ASSUME NEW i \in 1..(m + 1), NEW j \in 1..(m + 1), r[i].key = r[j].key
                 PROVE  i = j
      BY <2>4 DEF Keyed
    <3>1. \A l \in 1..m : rest[l].key # new
      BY <1>5, <1>10
    <3>2. CASE i \in 1..m /\ j \in 1..m
      BY <1>7, <2>2, <2>3, <3>2 DEF Keyed
    <3>3. CASE i = m + 1 /\ j \in 1..m
      BY <2>1, <2>2, <2>3, <3>1, <3>3
    <3>4. CASE i \in 1..m /\ j = m + 1
      BY <2>1, <2>2, <2>3, <3>1, <3>4
    <3> QED BY <2>4, <3>2, <3>3, <3>4
  <2>6. AmountOf(r) = AmountOf(d)
    BY <1>1, <1>5, <2>1, <2>2, <2>3
  <2>7. ASSUME NEW j \in 1..n, Overridden(d[j]), j # p
        PROVE  \E i \in 1..(m + 1) : r[i] = d[j]
    <3>1. PICK i \in 1..m : rest[i] = d[j]
      BY <1>6, <2>7
    <3>2. i \in 1..(m + 1) /\ r[i] = rest[i]
      BY <1>5, <2>2, <2>3
    <3> QED BY <3>1, <3>2
  <2>8. ASSUME NEW i \in 1..(m + 1), Overridden(r[i])
        PROVE  \E j \in 1..n : j # p /\ d[j] = r[i]
    <3>1. i # m + 1
      BY <1>2, <2>1, <2>2, <2>3, <2>8 DEF Overridden
    <3>2. i \in 1..m /\ r[i] = rest[i]
      BY <2>2, <2>3, <2>4, <3>1
    <3> QED BY <1>6, <3>2
  <2>9. Len(r) <= n
    BY <1>1, <2>4
  <2> QED BY <2>4, <2>5, <2>6, <2>7, <2>8, <2>9 DEF e, Turned
<1> QED BY <1>9, <1>10

\* The objects after each turn, up to m turns.
IsRedirected(o, d, m) ==
  /\ DOMAIN o = 0..m
  /\ o[0] = d
  /\ \A i \in 1..m : o[i] = Redirect(o[i - 1], d[i])

LEMMA RedirectedUnfold ==
  ASSUME NEW d \in Seq(Entry)
  PROVE  /\ Redirected(d)[0] = d
         /\ \A i \in 1..Len(d) : Redirected(d)[i] = Redirect(Redirected(d)[i - 1], d[i])
<1> DEFINE n == Len(d)
           T == {m \in 0..n : \E o : IsRedirected(o, d, m)}
           Unfolds(q) == q = [i \in 0..n |-> IF i = 0 THEN d ELSE Redirect(q[i - 1], d[i])]
<1>0. n \in Nat
  BY EntriesType
<1>1. 0 \in T
  <2>1. IsRedirected([i \in 0..0 |-> d], d, 0)
    BY DEF IsRedirected
  <2> QED BY <1>0, <2>1
<1>2. ASSUME NEW m \in 1..n, m - 1 \in T
      PROVE  m \in T
  <2>1. PICK o : IsRedirected(o, d, m - 1)
    BY <1>2
  <2> DEFINE t == [i \in 0..m |-> IF i = m THEN Redirect(o[m - 1], d[m]) ELSE o[i]]
  <2>2. DOMAIN t = 0..m /\ t[0] = d
    BY <2>1 DEF IsRedirected
  <2>3. ASSUME NEW i \in 1..m
        PROVE  t[i] = Redirect(t[i - 1], d[i])
    <3>1. i - 1 \in 0..m /\ i - 1 # m /\ t[i - 1] = o[i - 1]
      OBVIOUS
    <3>2. CASE i = m
      BY <3>1, <3>2
    <3>3. CASE i # m
      <4>1. i \in 1..(m - 1) /\ i \in 0..m /\ t[i] = o[i]
        BY <3>3
      <4> QED BY <2>1, <3>1, <4>1 DEF IsRedirected
    <3> QED BY <3>2, <3>3
  <2>4. IsRedirected(t, d, m)
    BY <2>2, <2>3 DEF IsRedirected
  <2> QED BY <2>4
<1>3. \A m \in 0..n : m \in T
  <2> HIDE DEF T, n
  <2> QED BY <1>0, <1>1, <1>2, UpTo
<1>4. PICK o : IsRedirected(o, d, n)
  <2>1. n \in T
    BY <1>0, <1>3
  <2> QED BY <2>1
<1>5. ASSUME NEW q, Unfolds(q)
      PROVE  q[0] = d /\ \A i \in 1..n : q[i] = Redirect(q[i - 1], d[i])
  <2>1. q[0] = d
    BY <1>0, <1>5
  <2>2. ASSUME NEW i \in 1..n
        PROVE  q[i] = Redirect(q[i - 1], d[i])
    <3>1. i \in 0..n /\ i # 0
      OBVIOUS
    <3> QED BY <1>5, <3>1
  <2> QED BY <2>1, <2>2
<1>6. Unfolds([i \in 0..n |-> o[i]])
  <2> DEFINE q == [i \in 0..n |-> o[i]]
  <2>1. \A i \in 0..n : q[i] = IF i = 0 THEN d ELSE Redirect(q[i - 1], d[i])
    <3>1. \A i \in 1..n : i - 1 \in 0..n /\ q[i - 1] = o[i - 1]
      OBVIOUS
    <3>2. \A i \in 0..n : i = 0 \/ i \in 1..n
      OBVIOUS
    <3> QED BY <1>4, <3>1, <3>2 DEF IsRedirected
  <2>2. q = [i \in 0..n |-> q[i]]
    OBVIOUS
  <2> HIDE DEF q
  <2>3. q = [i \in 0..n |-> IF i = 0 THEN d ELSE Redirect(q[i - 1], d[i])]
    BY <2>1, <2>2
  <2> QED BY <2>3 DEF q
<1>7. Unfolds(Redirected(d))
  <2>1. Redirected(d) = CHOOSE q : Unfolds(q)
    BY DEF Redirected
  <2> HIDE DEF Unfolds
  <2> QED BY <1>6, <2>1
<1> HIDE DEF Unfolds
<1> QED BY <1>5, <1>7

\* The receivers are overridden and nothing else changes: as much is paid, by
\* not more entries.
LEMMA ReceiversOverridden ==
  ASSUME NEW d \in Seq(Entry), Keyed(d)
  PROVE  LET r == overrideReceivers(d)
         IN /\ r \in Seq(Entry) /\ Len(r) <= Len(d)
            /\ AmountOf(r) = AmountOf(d)
            /\ \A i \in 1..Len(r) : ~ Overridden(r[i])
<1> DEFINE n == Len(d)
           o == Redirected(d)
           \* Entries that are overridden are those that come later.
           Good(j) == /\ o[j] \in Seq(Entry) /\ Len(o[j]) <= n /\ Keyed(o[j])
                      /\ AmountOf(o[j]) = AmountOf(d)
                      /\ \A i \in (j + 1)..n : Overridden(d[i]) =>
                           \E p \in 1..Len(o[j]) : o[j][p] = d[i]
                      /\ \A p \in 1..Len(o[j]) : Overridden(o[j][p]) =>
                           \E i \in (j + 1)..n : d[i] = o[j][p]
           T == {j \in 0..n : Good(j)}
<1>1. n \in Nat /\ \A i \in 1..n : d[i] \in Entry
  BY EntriesType
<1>2. 0 \in T
  <2>1. o[0] = d
    BY RedirectedUnfold
  <2> HIDE DEF o
  <2>2. Good(0)
    BY <1>1, <2>1
  <2> QED BY <1>1, <2>2
<1>3. ASSUME NEW j \in 1..n, j - 1 \in T
      PROVE  j \in T
  <2> DEFINE was == o[j - 1]
             is == o[j]
  <2>1. is = Redirect(was, d[j])
    BY RedirectedUnfold
  <2>2. /\ was \in Seq(Entry) /\ Len(was) <= n /\ Keyed(was)
        /\ AmountOf(was) = AmountOf(d)
        /\ \A i \in j..n : Overridden(d[i]) => \E p \in 1..Len(was) : was[p] = d[i]
        /\ \A p \in 1..Len(was) : Overridden(was[p]) => \E i \in j..n : d[i] = was[p]
    <3>1. Good(j - 1) /\ (j - 1) + 1 = j
      BY <1>3
    <3> HIDE DEF o
    <3> QED BY <3>1
  <2> HIDE DEF o, was, is
  <2>3. /\ is \in Seq(Entry) /\ Len(is) <= n /\ Keyed(is)
        /\ AmountOf(is) = AmountOf(d)
        /\ \A i \in (j + 1)..n : Overridden(d[i]) => \E p \in 1..Len(is) : is[p] = d[i]
        /\ \A p \in 1..Len(is) : Overridden(is[p]) => \E i \in (j + 1)..n : d[i] = is[p]
    <3>1. CASE ~ Overridden(d[j])
      <4>1. is = was
        BY <2>1, <3>1 DEF Redirect, Overridden
      <4>2. \A i \in j..n : i = j \/ i \in (j + 1)..n
        OBVIOUS
      <4>3. \A i \in (j + 1)..n : i \in j..n
        OBVIOUS
      <4> QED BY <2>2, <3>1, <4>1, <4>2, <4>3
    <3>2. CASE Overridden(d[j])
      <4>1. j \in j..n /\ \A i \in (j + 1)..n : i \in j..n /\ i \in 1..n /\ i # j
        BY <1>1
      <4>2. PICK p \in 1..Len(was) : was[p] = d[j]
        BY <2>2, <3>2, <4>1
      <4>3. Overridden(was[p]) /\ is = Redirect(was, was[p])
        BY <2>1, <3>2, <4>2
      <4>4. Turned(is, was, p)
        <5> HIDE DEF Good, T, n
        <5> QED BY <2>2, <4>3, RedirectTurns
      <4>5. ASSUME NEW i \in (j + 1)..n, Overridden(d[i])
            PROVE  \E q \in 1..Len(is) : is[q] = d[i]
        <5>1. PICK q \in 1..Len(was) : was[q] = d[i]
          BY <2>2, <4>1, <4>5
        <5>2. q # p
          <6>1. d[i] # d[j]
            BY <4>1 DEF Keyed
          <6> QED BY <4>2, <5>1, <6>1
        <5> QED BY <4>4, <4>5, <5>1, <5>2 DEF Turned
      <4>6. ASSUME NEW i \in 1..Len(is), Overridden(is[i])
            PROVE  \E k \in (j + 1)..n : d[k] = is[i]
        <5>1. PICK q \in 1..Len(was) : q # p /\ was[q] = is[i]
          BY <4>4, <4>6 DEF Turned
        <5>2. PICK k \in j..n : d[k] = was[q]
          BY <2>2, <4>6, <5>1
        <5>3. k # j
          <6>1. was[q].key # was[p].key
            BY <2>2, <5>1 DEF Keyed
          <6> QED BY <4>2, <5>2, <6>1
        <5>4. k \in (j + 1)..n
          BY <1>1, <5>3
        <5> QED BY <5>1, <5>2, <5>4
      <4>7. Len(is) <= n
        <5>1. Len(is) \in Nat /\ Len(was) \in Nat
          BY <2>2, <4>4 DEF Turned
        <5> QED BY <1>1, <2>2, <4>4, <5>1 DEF Turned
      <4> QED BY <2>2, <4>4, <4>5, <4>6, <4>7 DEF Turned
    <3> QED BY <3>1, <3>2
  <2>4. j \in 0..n
    OBVIOUS
  <2> QED BY <2>3, <2>4 DEF is
<1>4. Good(n)
  <2>1. \A j \in 0..n : j \in T
    <3> HIDE DEF T, n
    <3> QED BY <1>1, <1>2, <1>3, UpTo
  <2>2. n \in 0..n
    BY <1>1
  <2> QED BY <2>1, <2>2
<1>5. (n + 1)..n = {} /\ overrideReceivers(d) = o[n]
  BY <1>1 DEF overrideReceivers
<1> HIDE DEF o, n
<1>6. \A p \in 1..Len(o[n]) : ~ Overridden(o[n][p])
  BY <1>4, <1>5
<1> QED BY <1>4, <1>5, <1>6 DEF n

(***************************************************************************)
(* What is computed from the answers of the subgraph.                      *)
(***************************************************************************)
LEMMA RewardsConstants ==
  /\ NumAccounts \in Nat /\ NumMarkets \in Nat
  /\ BASIS_POINTS_DIVISOR \in Nat /\ BASIS_POINTS_DIVISOR > 0
  /\ Accounts = 1..NumAccounts /\ Markets = 1..NumMarkets
BY RewardsAssumption DEF RewardsAssumption, Accounts, Markets

LEMMA UserBalancesNat ==
  ASSUME NEW lp \in LpAnswer, NEW m \in Markets
  PROVE  /\ \A a \in Accounts : UserBalance(lp, m, a) \in Nat
         /\ UserBalancesSum(lp, m) \in Nat
         /\ lp.rewardsPerMarket[m] \in Nat
<1>1. \A a \in Accounts : lp.weighted[m][a] \in {NoStat} \union Nat /\ lp.balance[m][a] \in Nat \union {NoStat}
  BY DEF LpAnswer
<1>2. \A a \in Accounts : UserBalance(lp, m, a) \in Nat
  BY <1>1 DEF UserBalance
<1>3. [a \in Accounts |-> UserBalance(lp, m, a)] \in [1..NumAccounts -> Nat]
  BY <1>2, RewardsConstants
<1>4. UserBalancesSum(lp, m) \in Nat
  BY <1>3, RewardsConstants, TotalNat DEF UserBalancesSum
<1>5. lp.rewardsPerMarket[m] \in Nat
  BY DEF LpAnswer
<1> QED BY <1>2, <1>4, <1>5

LEMMA LpRewardsNat ==
  ASSUME NEW lp \in LpAnswer
  PROVE  LpRewards(lp) \in [Accounts -> Nat]
<1>1. ASSUME NEW m \in Markets, NEW a \in Accounts
      PROVE  UserRewards(lp, m, a) \in Nat
  <2> DEFINE b == UserBalance(lp, m, a)
             r == lp.rewardsPerMarket[m]
             sum == UserBalancesSum(lp, m)
  <2>1. b \in Nat /\ r \in Nat /\ sum \in Nat
    BY UserBalancesNat
  <2>2. UserRewards(lp, m, a) = IF sum = 0 THEN 0 ELSE (b * r) \div sum
    BY DEF UserRewards
  <2> HIDE DEF b, r, sum
  <2>3. b * r \in Nat
    BY <2>1, TimesNat
  <2>4. sum # 0 => (b * r) \div sum \in Nat
    <3> DEFINE x == b * r
    <3>1. x \in Nat
      BY <2>3
    <3> HIDE DEF x
    <3>2. sum # 0 => x \div sum \in Nat
      BY <2>1, <3>1, DivNat
    <3> QED BY <3>2 DEF x
  <2> QED BY <2>2, <2>4
<1>2. ASSUME NEW a \in Accounts
      PROVE  Total([m \in Markets |-> UserRewards(lp, m, a)], NumMarkets) \in Nat
  <2>1. [m \in Markets |-> UserRewards(lp, m, a)] \in [1..NumMarkets -> Nat]
    BY <1>1, RewardsConstants
  <2> QED BY <2>1, RewardsConstants, TotalNat
<1> QED BY <1>2 DEF LpRewards

LEMMA SharesNat ==
  ASSUME NEW f \in [Accounts -> Nat], NEW g \in [Accounts -> Nat]
  PROVE  [a \in Accounts |-> (f[a] * g[a]) \div BASIS_POINTS_DIVISOR] \in [Accounts -> Nat]
<1>1. ASSUME NEW a \in Accounts
      PROVE  (f[a] * g[a]) \div BASIS_POINTS_DIVISOR \in Nat
  <2> DEFINE x == f[a] * g[a]
  <2>1. x \in Nat
    BY TimesNat
  <2> HIDE DEF x
  <2>2. x \div BASIS_POINTS_DIVISOR \in Nat
    BY <2>1, RewardsConstants, DivNat
  <2> QED BY <2>2 DEF x
<1> QED BY <1>1

LEMMA AdjustedNat ==
  ASSUME NEW fees \in [Accounts -> Nat], NEW percent \in Nat, NEW allocation \in Nat
  PROVE  AdjustedRebatePercent(fees, percent, allocation) \in Nat
<1> DEFINE U == UsedAllocation(fees, percent)
           F == Total(fees, NumAccounts)
<1>1. U \in Nat
  <2>1. F \in Nat
    BY RewardsConstants, TotalNat
  <2>2. U = (F * percent) \div BASIS_POINTS_DIVISOR
    BY DEF UsedAllocation
  <2> HIDE DEF F, U
  <2>3. F * percent \in Nat
    BY <2>1, TimesNat
  <2> DEFINE x == F * percent
  <2>4. x \in Nat /\ U = x \div BASIS_POINTS_DIVISOR
    BY <2>2, <2>3
  <2> HIDE DEF x
  <2> QED BY <2>4, RewardsConstants, DivNat
<1> HIDE DEF U
<1> DEFINE y == percent * allocation
<1>2. y \in Nat
  BY TimesNat
<1>3. AdjustedRebatePercent(fees, percent, allocation) = IF U > allocation THEN y \div U ELSE percent
  BY DEF AdjustedRebatePercent, U
<1> HIDE DEF y
<1>4. U > allocation => y \div U \in Nat
  BY <1>1, <1>2, DivNat
<1> QED BY <1>3, <1>4

LEMMA FirstPageNat ==
  ASSUME NEW stat \in [Accounts -> {NoStat} \union Nat]
  PROVE  [a \in Accounts |-> IF a \in FirstPage(stat) THEN stat[a] ELSE 0] \in [Accounts -> Nat]
BY DEF FirstPage

LEMMA RebatesNat ==
  ASSUME NEW trading \in TradingAnswer
  PROVE  PositionFees(trading) \in [Accounts -> Nat] /\ RebatesOf(trading) \in [Accounts -> Nat]
<1> DEFINE fees == PositionFees(trading)
           adjusted == AdjustedRebatePercent(fees, trading.rebatePercent, trading.allocation)
<1>1. /\ trading.positionFees \in [Accounts -> {NoStat} \union Nat]
      /\ trading.rebatePercent \in Nat /\ trading.allocation \in Nat
  BY DEF TradingAnswer
<1>2. fees \in [Accounts -> Nat]
  BY <1>1, FirstPageNat DEF PositionFees
<1> HIDE DEF fees
<1>3. adjusted \in Nat
  BY <1>1, <1>2, AdjustedNat
<1>4. RebatesOf(trading) = [a \in Accounts |-> (fees[a] * adjusted) \div BASIS_POINTS_DIVISOR]
  BY DEF RebatesOf, TradingRebates, fees
<1> HIDE DEF adjusted
<1> DEFINE g == [a \in Accounts |-> adjusted]
<1>5. g \in [Accounts -> Nat]
      /\ RebatesOf(trading) = [a \in Accounts |-> (fees[a] * g[a]) \div BASIS_POINTS_DIVISOR]
  BY <1>3, <1>4
<1> HIDE DEF g
<1>6. RebatesOf(trading) \in [Accounts -> Nat]
  BY <1>2, <1>5, SharesNat
<1> QED BY <1>2, <1>6 DEF fees

LEMMA GlpRebatesNat ==
  ASSUME NEW migration \in MigrationAnswer
  PROVE  /\ Redemption(migration) \in [Accounts -> Nat]
         /\ GlpRebates(migration) \in [Accounts -> Nat]
<1>1. /\ migration.eligibleRedemption \in [Accounts -> {NoStat} \union Nat]
      /\ migration.feeBps \in [Accounts -> Nat]
  BY DEF MigrationAnswer
<1>2. Redemption(migration) \in [Accounts -> Nat]
  BY <1>1, FirstPageNat DEF Redemption
<1>3. GlpRebates(migration) \in [Accounts -> Nat]
  BY <1>1, <1>2, SharesNat DEF GlpRebates
<1> QED BY <1>2, <1>3

\* What a file must be, when it pays the rewards.
Pays(d, rewards) ==
  /\ d \in Distributions
  /\ AmountOf(d) = Total(Entitled(rewards), NumAccounts)
  /\ \A j \in DOMAIN d : d[j].key.account \notin DOMAIN ReceiverOverrides

LEMMA DistributionPays ==
  ASSUME NEW rewards \in [Accounts -> Nat], NEW rank \in [Accounts -> Nat], NEW c \in BOOLEAN
  PROVE  Pays(overrideReceivers(Entries(rewards, rank, c)), rewards)
<1> DEFINE d == Entries(rewards, rank, c)
           r == overrideReceivers(d)
<1>1. d \in Seq(Entry) /\ Len(d) <= NumAccounts /\ Keyed(d)
      /\ AmountOf(d) = Total(Entitled(rewards), NumAccounts)
  <2>1. rank \in [Accounts -> Int]
    OBVIOUS
  <2> QED BY <2>1, EntriesPay
<1> HIDE DEF d
<1>2. /\ r \in Seq(Entry) /\ Len(r) <= Len(d)
      /\ AmountOf(r) = AmountOf(d)
      /\ \A i \in 1..Len(r) : ~ Overridden(r[i])
  BY <1>1, ReceiversOverridden
<1> HIDE DEF r
<1>3. DOMAIN r = 1..Len(r) /\ Len(r) \in Nat /\ Len(d) \in Nat
  BY <1>1, <1>2, EntriesType
<1>4. Len(r) <= 2 * NumAccounts
  BY <1>1, <1>2, <1>3, RewardsConstants
<1>5. r \in Distributions
  BY <1>2, <1>4 DEF Distributions, Entry
<1> QED BY <1>1, <1>2, <1>3, <1>5 DEF Pays, Overridden, r, d

\* Whatever the subgraph answers, what is computed from it is a distribution.
LEMMA AnswersPay ==
  ASSUME NEW h \in Subgraph, NEW t \in Times
  PROVE  /\ Pays(LpDistribution(h[t].lp), LpRewards(h[t].lp))
         /\ Pays(TradingDistribution(h[t].trading), RebatesOf(h[t].trading))
         /\ Pays(GlpDistribution(h[t].migration), GlpRebates(h[t].migration))
<1>1. h[t].lp \in LpAnswer /\ h[t].trading \in TradingAnswer /\ h[t].migration \in MigrationAnswer
  BY AnswersAssumption DEF AnswersAssumption
<1>2. Pays(LpDistribution(h[t].lp), LpRewards(h[t].lp))
  BY <1>1, LpRewardsNat, DistributionPays DEF LpDistribution
<1>3. Pays(TradingDistribution(h[t].trading), RebatesOf(h[t].trading))
  BY <1>1, RebatesNat, DistributionPays DEF TradingDistribution
<1>4. Pays(GlpDistribution(h[t].migration), GlpRebates(h[t].migration))
  BY <1>1, GlpRebatesNat, DistributionPays DEF GlpDistribution
<1> QED BY <1>2, <1>3, <1>4

LEMMA AmountNat ==
  ASSUME NEW d \in Distributions
  PROVE  AmountOf(d) \in Nat
<1> DEFINE f == [k \in 1..Len(d) |-> d[k].amount]
           E == [key : Keys, amount : Nat]
<1>1. d \in Seq(E)
  BY DEF Distributions
<1>2. Len(d) \in Nat /\ \A k \in 1..Len(d) : d[k] \in E
  <2> HIDE DEF E
  <2> QED BY <1>1
<1>3. f \in [1..Len(d) -> Nat]
  BY <1>2
<1> QED BY <1>2, <1>3, TotalNat DEF AmountOf

LEMMA TotalRebatesNat ==
  ASSUME NEW d \in Distributions
  PROVE  TotalRebates(d) \in [Keys -> Nat]
<1> DEFINE E == [key : Keys, amount : Nat]
<1>1. d \in Seq(E)
  BY DEF Distributions
<1>2. Len(d) \in Nat /\ \A j \in 1..Len(d) : d[j] \in E
  <2> HIDE DEF E
  <2> QED BY <1>1
<1>3. ASSUME NEW k \in Keys
      PROVE  Total([j \in 1..Len(d) |-> IF d[j].key = k THEN d[j].amount ELSE 0], Len(d)) \in Nat
  <2>1. [j \in 1..Len(d) |-> IF d[j].key = k THEN d[j].amount ELSE 0] \in [1..Len(d) -> Nat]
    BY <1>2
  <2> QED BY <1>2, <2>1, TotalNat
<1> QED BY <1>3 DEF TotalRebates

(***************************************************************************)
(* Types.                                                                  *)
(***************************************************************************)
Stages == {"read balance", "read allowance", "approve", "read progress", "send", "note",
           "clean up"}

\* The steps before a run reads how far earlier runs have come.
Prepare(r) == ReadBalance(r) \/ ReadAllowance(r) \/ Approve(r)

ActiveRunner ==
  [pc : Stages, id : Ids, data : Distributions, dryRun : BOOLEAN, next : Nat,
   migrations : SUBSET Ids, progress : [Ids -> Int]]

LEMMA RunnerTypes == RunnerType = {IdleRunner} \union ActiveRunner /\ IdleRunner.pc = "idle"
BY DEF RunnerType, ActiveRunner, Stages, IdleRunner

LEMMA ActiveType ==
  ASSUME Typed, NEW r \in Runners, runner[r].pc # "idle"
  PROVE  runner[r] \in ActiveRunner
BY RunnerTypes DEF Typed

\* What the typing of the data says, apart from the runs.
DataTyped ==
  /\ files \in [Ids -> Distributions \union {NoFile}]
  /\ subgraph \in Subgraph /\ time \in Times
  /\ totals \in [{"old", "new"} -> [Keys -> Nat]]
  /\ search.for \in {"lp", "migration", "nobody"}

RunsTyped ==
  /\ runner \in [Runners -> RunnerType]
  /\ \A r \in Runners : runner[r].pc \in {"note", "clean up"} => ~ runner[r].dryRun
  /\ migrations \subseteq Ids
  /\ progress \in [Ids -> Nat \union {-1}]
  /\ \A r \in Runners : runner[r].pc \in {"send", "note", "clean up"} =>
       runner[r].progress \in [Ids -> Nat \union {-1}]
  /\ paid \in [Ids -> [Accounts -> Nat]]
  /\ lost \in [Ids -> Nat]
  /\ readFirst \in [Ids -> Distributions \union {NoFile}]
  /\ disturbed \in [Ids -> BOOLEAN]

LEMMA TypedParts == Typed <=> DataTyped /\ RunsTyped
BY DEF Typed, DataTyped, RunsTyped

LEMMA TypedInit == Init => Typed
<1> SUFFICES ASSUME Init PROVE Typed
  OBVIOUS
<1> USE DEF Init, Ids, Kinds
<1>1. DataTyped
  BY DEF DataTyped, Times, Running, Old, NoTotals, NoSearch
<1>2. \A r \in Runners : runner[r] = IdleRunner /\ runner[r].pc = "idle"
  BY DEF IdleRunner
<1>3. runner \in [Runners -> RunnerType]
  BY RunnerTypes
<1>4. RunsTyped
  BY <1>2, <1>3 DEF RunsTyped
<1> QED BY <1>1, <1>4, TypedParts

\* Only the computations write distribution files and totals.
LEMMA FileSaved ==
  ASSUME DataTyped, NEW kind \in Kinds, NEW d \in Distributions, saveDistribution(kind, d),
         UNCHANGED <<subgraph, time, totals>>, search'.for \in {"lp", "migration", "nobody"}
  PROVE  DataTyped'
<1>1. kind \in Ids
  BY DEF Ids
<1>2. files' = [files EXCEPT ![kind] = d]
  BY DEF saveDistribution
<1> QED BY <1>1, <1>2 DEF DataTyped

LEMMA ComputedTyped ==
  ASSUME DataTyped, NEW kind, ComputeWithBlock(kind),
         UNCHANGED <<subgraph, time, totals>>, search'.for \in {"lp", "migration", "nobody"}
  PROVE  DataTyped'
<1>1. subgraph \in Subgraph /\ time \in Times
  BY DEF DataTyped
<1>2. CASE kind = "lp"
  <2>1. LpSucceeds(subgraph[time].lp)
        /\ saveDistribution("lp", LpDistribution(subgraph[time].lp))
    BY <1>2 DEF ComputeWithBlock, Answer
  <2>2. LpDistribution(subgraph[time].lp) \in Distributions
    BY <1>1, AnswersPay DEF Pays
  <2> QED BY <2>1, <2>2, FileSaved DEF Kinds
<1>3. CASE kind = "migration"
  <2>1. GlpSucceeds(subgraph[time].migration)
        /\ saveDistribution("migration", GlpDistribution(subgraph[time].migration))
    BY <1>3 DEF ComputeWithBlock, Answer
  <2>2. GlpDistribution(subgraph[time].migration) \in Distributions
    BY <1>1, AnswersPay DEF Pays
  <2> QED BY <2>1, <2>2, FileSaved DEF Kinds
<1> QED BY <1>2, <1>3 DEF ComputeWithBlock

DataStep ==
  \/ Tick \/ (\E kind \in {"lp", "migration"} : BeginSearch(kind))
  \/ SearchStep \/ SearchFails \/ ComputeTradingIncentives
  \/ (\E name \in {"old", "new"} : GetTotalRebates(name)) \/ GetTotalRebatesDiff
  \/ Fund \/ SendResidualFundsBack

LEMMA DataStepTyped ==
  ASSUME DataTyped, DataStep
  PROVE  DataTyped'
<1> USE DEF disk
<1>1. CASE Tick
  BY <1>1 DEF Tick, DataTyped, Times, Running, Old
<1>2. CASE \E kind \in {"lp", "migration"} : BeginSearch(kind)
  BY <1>2 DEF BeginSearch, DataTyped
<1>3. CASE SearchStep
  <2>1. UNCHANGED <<subgraph, time, totals>>
    BY <1>3 DEF SearchStep
  <2>2. CASE search' = NoSearch /\ ComputeWithBlock(search.for)
    BY <2>1, <2>2, ComputedTyped DEF NoSearch
  <2>3. CASE UNCHANGED files /\ \E next : search' = [search EXCEPT !.block = next]
    <3>1. search'.for = search.for
      BY <2>3
    <3> QED BY <2>1, <2>3, <3>1 DEF DataTyped
  <2> QED BY <1>3, <2>2, <2>3 DEF SearchStep
<1>4. CASE SearchFails
  BY <1>4 DEF SearchFails, DataTyped, NoSearch
<1>5. CASE ComputeTradingIncentives
  <2>1. TradingSucceeds(subgraph[time].trading)
        /\ saveDistribution("trading", TradingDistribution(subgraph[time].trading))
        /\ UNCHANGED <<subgraph, time, totals, search>>
    BY <1>5 DEF ComputeTradingIncentives, Answer
  <2>2. TradingDistribution(subgraph[time].trading) \in Distributions
    BY AnswersPay DEF Pays, DataTyped
  <2> QED BY <2>1, <2>2, FileSaved DEF Kinds, DataTyped
<1>6. CASE \E name \in {"old", "new"} : GetTotalRebates(name)
  <2>1. PICK name \in {"old", "new"} : GetTotalRebates(name)
    BY <1>6
  <2>2. totals' = [totals EXCEPT ![name] = TotalRebates(files["migration"])]
        /\ files["migration"] # NoFile
        /\ UNCHANGED <<subgraph, time, files, search>>
    BY <2>1 DEF GetTotalRebates
  <2>3. files["migration"] \in Distributions
    BY <2>2 DEF DataTyped, Ids, Kinds
  <2>4. TotalRebates(files["migration"]) \in [Keys -> Nat]
    BY <2>3, TotalRebatesNat
  <2> QED BY <2>2, <2>4 DEF DataTyped
<1>7. CASE GetTotalRebatesDiff
  <2>1. files' = [files EXCEPT !["fix"] = DiffDistribution(totals.old, totals.new)]
        /\ UNCHANGED <<subgraph, time, totals, search>>
    BY <1>7 DEF GetTotalRebatesDiff
  <2>2. DiffDistribution(totals.old, totals.new) \in Distributions
    <3>1. totals.old \in [Keys -> Nat] /\ totals.new \in [Keys -> Nat]
      BY DEF DataTyped
    <3> QED BY <3>1, DiffPays
  <2>3. "fix" \in Ids
    BY DEF Ids
  <2> QED BY <2>1, <2>2, <2>3 DEF DataTyped
<1>8. CASE Fund \/ SendResidualFundsBack
  BY <1>8 DEF Fund, SendResidualFundsBack, DataTyped
<1> QED BY <1>1, <1>2, <1>3, <1>4, <1>5, <1>6, <1>7, <1>8 DEF DataStep

(***************************************************************************)
(* One run takes a step.                                                   *)
(***************************************************************************)
\* The state of the runs is typed again when only one run has changed.
LEMMA RunChanged ==
  ASSUME RunsTyped, NEW r \in Runners, NEW new,
         runner' = [runner EXCEPT ![r] = new],
         \/ new = IdleRunner
         \/ /\ new \in ActiveRunner
            /\ new.pc \in {"note", "clean up"} => ~ new.dryRun
            /\ new.pc \in {"send", "note", "clean up"} => new.progress \in [Ids -> Nat \union {-1}],
         migrations' \subseteq Ids, progress' \in [Ids -> Nat \union {-1}],
         paid' \in [Ids -> [Accounts -> Nat]], lost' \in [Ids -> Nat],
         readFirst' \in [Ids -> Distributions \union {NoFile}], disturbed' \in [Ids -> BOOLEAN]
  PROVE  RunsTyped'
<1>1. runner \in [Runners -> RunnerType] /\ new \in RunnerType
  BY RunnerTypes DEF RunsTyped
<1>2. runner' \in [Runners -> RunnerType] /\ runner'[r] = new
      /\ \A q \in Runners \ {r} : runner'[q] = runner[q]
  BY <1>1
<1>3. ASSUME NEW q \in Runners
      PROVE  /\ runner'[q].pc \in {"note", "clean up"} => ~ runner'[q].dryRun
             /\ runner'[q].pc \in {"send", "note", "clean up"} =>
                  runner'[q].progress \in [Ids -> Nat \union {-1}]
  <2>1. CASE q = r
    BY <1>2, <2>1, RunnerTypes
  <2>2. CASE q # r
    BY <1>2, <2>2 DEF RunsTyped
  <2> QED BY <2>1, <2>2
<1> QED BY <1>2, <1>3 DEF RunsTyped

\* What the next record of a run is in each of its steps.
LEMMA PrepareRunner ==
  ASSUME Typed, NEW r \in Runners, Prepare(r)
  PROVE  /\ runner[r] \in ActiveRunner
         /\ runner[r].pc \in {"read balance", "read allowance", "approve"}
         /\ runner' = [runner EXCEPT ![r] = runner'[r]]
         /\ runner'[r] \in ActiveRunner
         /\ runner'[r].pc \in {"read allowance", "approve", "read progress"}
         /\ runner'[r] = [runner[r] EXCEPT !.pc = runner'[r].pc]
<1>1. /\ runner[r].pc \in {"read balance", "read allowance", "approve"}
      /\ \E pc \in {"read allowance", "approve", "read progress"} : Goto(r, pc)
  BY DEF Prepare, ReadBalance, ReadAllowance, Approve
<1>2. runner[r] \in ActiveRunner
  BY <1>1, ActiveType
<1>3. PICK pc \in {"read allowance", "approve", "read progress"} : Goto(r, pc)
  BY <1>1
<1> DEFINE new == [runner[r] EXCEPT !.pc = pc]
<1>4. runner' = [runner EXCEPT ![r] = new]
  BY <1>3 DEF Goto, Typed
<1>5. new \in ActiveRunner /\ new.pc = pc
  BY <1>2 DEF ActiveRunner, Stages
<1> HIDE DEF new
<1>6. runner'[r] = new
  BY <1>4 DEF Typed
<1>7. runner'[r].pc = pc
  BY <1>5, <1>6
<1> QED BY <1>1, <1>2, <1>4, <1>5, <1>6, <1>7 DEF new

LEMMA ReadProgressRunner ==
  ASSUME Typed, NEW r \in Runners, ReadProgress(r)
  PROVE  LET new == [runner[r] EXCEPT !.pc = "send", !.progress = progress,
                                      !.next = progress[runner[r].id] + 1]
         IN /\ runner[r] \in ActiveRunner /\ runner[r].pc = "read progress"
            /\ runner' = [runner EXCEPT ![r] = new]
            /\ runner'[r] \in ActiveRunner /\ runner'[r] = new
<1> DEFINE new == [runner[r] EXCEPT !.pc = "send", !.progress = progress,
                                    !.next = progress[runner[r].id] + 1]
<1>1. runner[r] \in ActiveRunner /\ runner[r].pc = "read progress"
  BY ActiveType DEF ReadProgress
<1>2. runner' = [runner EXCEPT ![r] = new]
  BY DEF ReadProgress, Typed
<1>3. progress \in [Ids -> Int] /\ progress[runner[r].id] + 1 \in Nat
  <2>1. progress \in [Ids -> Nat \union {-1}] /\ runner[r].id \in Ids
    BY <1>1 DEF Typed, ActiveRunner
  <2> QED BY <2>1
<1>4. new \in ActiveRunner
  BY <1>1, <1>3 DEF ActiveRunner, Stages
<1> HIDE DEF new
<1>5. runner'[r] = new
  BY <1>2 DEF Typed
<1> QED BY <1>1, <1>2, <1>4, <1>5 DEF new

LEMMA SendBatchRunner ==
  ASSUME Typed, NEW r \in Runners, SendBatch(r)
  PROVE  /\ runner[r] \in ActiveRunner /\ runner[r].pc = "send" /\ ~ runner[r].dryRun
         /\ runner' = [runner EXCEPT ![r] = [runner[r] EXCEPT !.pc = "note"]]
         /\ runner'[r] \in ActiveRunner /\ runner'[r] = [runner[r] EXCEPT !.pc = "note"]
<1>1. runner[r] \in ActiveRunner /\ runner[r].pc = "send" /\ ~ runner[r].dryRun
  BY ActiveType DEF SendBatch
<1>2. runner' = [runner EXCEPT ![r] = [runner[r] EXCEPT !.pc = "note"]]
  BY DEF SendBatch, Goto, Typed
<1> QED BY <1>1, <1>2 DEF Typed, ActiveRunner, Stages

LEMMA NoteBatchRunner ==
  ASSUME Typed, NEW r \in Runners, NoteBatch(r)
  PROVE  LET noted == [runner[r].progress EXCEPT ![runner[r].id] = runner[r].next]
             new == [runner[r] EXCEPT !.pc = "send", !.progress = noted,
                                      !.next = runner[r].next + 1]
         IN /\ runner[r] \in ActiveRunner /\ runner[r].pc = "note" /\ ~ runner[r].dryRun
            /\ noted \in [Ids -> Nat \union {-1}] /\ progress' = noted
            /\ runner' = [runner EXCEPT ![r] = new]
            /\ runner'[r] \in ActiveRunner /\ runner'[r] = new
<1> DEFINE noted == [runner[r].progress EXCEPT ![runner[r].id] = runner[r].next]
           new == [runner[r] EXCEPT !.pc = "send", !.progress = noted,
                                    !.next = runner[r].next + 1]
<1>1. runner[r] \in ActiveRunner /\ runner[r].pc = "note" /\ ~ runner[r].dryRun
  BY ActiveType DEF NoteBatch, Typed
<1>2. runner' = [runner EXCEPT ![r] = new] /\ progress' = noted
  BY DEF NoteBatch, Typed
<1>3. noted \in [Ids -> Nat \union {-1}]
  BY <1>1 DEF Typed, ActiveRunner
<1> HIDE DEF noted
<1>4. new \in ActiveRunner
  <2>1. noted \in [Ids -> Int] /\ runner[r].next + 1 \in Nat
    BY <1>1, <1>3 DEF ActiveRunner
  <2> QED BY <1>1, <2>1 DEF ActiveRunner, Stages
<1> HIDE DEF new
<1>5. runner'[r] = new
  BY <1>2 DEF Typed
<1> QED BY <1>1, <1>2, <1>3, <1>4, <1>5 DEF new, noted

LEMMA SaveMigrationsRunner ==
  ASSUME Typed, NEW r \in Runners, SaveMigrations(r)
  PROVE  /\ runner[r] \in ActiveRunner /\ runner[r].pc = "send" /\ ~ runner[r].dryRun
         /\ runner' = [runner EXCEPT ![r] = [runner[r] EXCEPT !.pc = "clean up"]]
         /\ runner'[r] \in ActiveRunner /\ runner'[r] = [runner[r] EXCEPT !.pc = "clean up"]
<1>1. runner[r] \in ActiveRunner /\ runner[r].pc = "send" /\ ~ runner[r].dryRun
  BY ActiveType DEF SaveMigrations
<1>2. runner' = [runner EXCEPT ![r] = [runner[r] EXCEPT !.pc = "clean up"]]
  BY DEF SaveMigrations, Goto, Typed
<1> QED BY <1>1, <1>2 DEF Typed, ActiveRunner, Stages

LEMMA DeleteProgressRunner ==
  ASSUME Typed, NEW r \in Runners, DeleteProgress(r)
  PROVE  /\ runner[r] \in ActiveRunner /\ runner[r].pc = "clean up" /\ ~ runner[r].dryRun
         /\ progress' = [runner[r].progress EXCEPT ![runner[r].id] = -1]
         /\ progress' \in [Ids -> Nat \union {-1}]
         /\ runner' = [runner EXCEPT ![r] = IdleRunner] /\ runner'[r] = IdleRunner
<1>1. runner[r] \in ActiveRunner /\ runner[r].pc = "clean up" /\ ~ runner[r].dryRun
  BY ActiveType DEF DeleteProgress, Typed
<1>2. progress' = [runner[r].progress EXCEPT ![runner[r].id] = -1]
      /\ runner' = [runner EXCEPT ![r] = IdleRunner]
  BY DEF DeleteProgress, Stop
<1> QED BY <1>1, <1>2 DEF Typed

\* The run ends, and writes nothing.
Ends(r) ==
  /\ runner[r].pc # "idle"
  /\ runner' = [runner EXCEPT ![r] = IdleRunner]
  /\ UNCHANGED <<migrations, progress, paid, readFirst, disturbed>>

LEMMA EndsRunner ==
  ASSUME Typed, NEW r \in Runners, FinishDryRun(r) \/ FailRun(r) \/ Crash(r)
  PROVE  Ends(r) /\ (~ Crash(r) => UNCHANGED lost /\ runner[r].pc # "note")
<1> USE DEF Ends, Stop, disk, chain, history
<1>1. CASE FinishDryRun(r)
  BY <1>1 DEF FinishDryRun
<1>2. CASE FailRun(r)
  BY <1>2 DEF FailRun, Refused
<1>3. CASE Crash(r)
  BY <1>3 DEF Crash
<1> QED BY <1>1, <1>2, <1>3

\* The record a run begins with.
NewRun(i, dryRun) ==
  [pc |-> "read balance", id |-> i, data |-> files[i], dryRun |-> dryRun,
   next |-> 0, migrations |-> migrations, progress |-> progress]

LEMMA StartRunRunner ==
  ASSUME Typed, NEW r \in Runners, NEW i \in Ids, NEW dryRun \in BOOLEAN, NEW skip \in BOOLEAN,
         StartRun(r, i, dryRun, skip)
  PROVE  /\ runner[r].pc = "idle" /\ files[i] \in Distributions
         /\ runner' = [runner EXCEPT ![r] = NewRun(i, dryRun)]
         /\ NewRun(i, dryRun) \in ActiveRunner /\ runner'[r] = NewRun(i, dryRun)
<1>1. runner[r].pc = "idle" /\ files[i] \in Distributions
  BY DEF StartRun, readDistributionFile, Typed
<1>2. runner' = [runner EXCEPT ![r] = NewRun(i, dryRun)]
  BY DEF StartRun, NewRun
<1>3. progress \in [Ids -> Int] /\ migrations \in SUBSET Ids
  <2>1. progress \in [Ids -> Nat \union {-1}] /\ migrations \in SUBSET Ids
    BY DEF Typed
  <2> QED BY <2>1
<1>4. NewRun(i, dryRun) \in ActiveRunner
  BY <1>1, <1>3 DEF ActiveRunner, Stages, NewRun
<1>5. runner'[r] = NewRun(i, dryRun)
  BY <1>2 DEF Typed
<1> QED BY <1>1, <1>2, <1>4, <1>5

LEMMA StartRunTyped ==
  ASSUME Typed, NEW r \in Runners, NEW i \in Ids, NEW dryRun \in BOOLEAN, NEW skip \in BOOLEAN,
         StartRun(r, i, dryRun, skip)
  PROVE  RunsTyped'
<1> DEFINE new == NewRun(i, dryRun)
<1>1. runner' = [runner EXCEPT ![r] = new] /\ new \in ActiveRunner /\ files[i] \in Distributions
  BY StartRunRunner
<1>2. new.pc = "read balance"
  BY DEF NewRun
<1>3. readFirst' \in [Ids -> Distributions \union {NoFile}]
  BY <1>1 DEF StartRun, Typed
<1>4. disturbed' \in [Ids -> BOOLEAN]
  <2>1. disturbed \in [Ids -> BOOLEAN]
    BY DEF Typed
  <2>2. \A j \in Ids : disturbed[j] \in BOOLEAN
    BY <2>1
  <2> QED BY <2>2 DEF StartRun
<1>5. UNCHANGED <<migrations, progress, paid, lost>>
  BY DEF StartRun, disk, chain
<1>6. RunsTyped
  BY TypedParts
<1> HIDE DEF new
<1> QED BY <1>1, <1>2, <1>3, <1>4, <1>5, <1>6, RunChanged DEF RunsTyped

LEMMA RunStepTyped ==
  ASSUME Typed, NEW r \in Runners, RunStep(r) \/ Crash(r)
  PROVE  RunsTyped'
<1> USE DEF disk, chain, history
<1>1. RunsTyped
  BY TypedParts
<1>2. CASE Prepare(r)
  <2>1. UNCHANGED <<migrations, progress, paid, lost, readFirst, disturbed>>
    BY <1>2 DEF Prepare, ReadBalance, ReadAllowance, Approve
  <2> DEFINE new == runner'[r]
  <2>2. new.pc \in {"read allowance", "approve", "read progress"}
    BY <1>2, PrepareRunner
  <2>3. runner' = [runner EXCEPT ![r] = new] /\ new \in ActiveRunner
    BY <1>2, PrepareRunner
  <2> HIDE DEF new
  <2> QED BY <1>1, <2>1, <2>2, <2>3, RunChanged DEF RunsTyped
<1>3. CASE ReadProgress(r)
  <2>1. UNCHANGED <<migrations, progress, paid, lost, readFirst, disturbed>>
    BY <1>3 DEF ReadProgress
  <2> DEFINE new == runner'[r]
  <2>2. new.pc = "send" /\ new.progress = progress
    BY <1>3, ReadProgressRunner DEF ActiveRunner
  <2>3. runner' = [runner EXCEPT ![r] = new] /\ new \in ActiveRunner
    BY <1>3, ReadProgressRunner
  <2> HIDE DEF new
  <2> QED BY <1>1, <2>1, <2>2, <2>3, RunChanged DEF RunsTyped
<1>4. CASE SendBatch(r)
  <2>1. UNCHANGED <<migrations, progress, lost, readFirst, disturbed>>
    BY <1>4 DEF SendBatch
  <2> DEFINE new == runner'[r]
             i == runner[r].id
             batch == Batch(runner[r].data, runner[r].next)
  <2>2. /\ new.pc = "note" /\ new.progress = runner[r].progress
        /\ ~ new.dryRun /\ runner[r].pc = "send"
    BY <1>4, SendBatchRunner DEF ActiveRunner
  <2>3. runner' = [runner EXCEPT ![r] = new] /\ new \in ActiveRunner
    BY <1>4, SendBatchRunner
  <2>4. i \in Ids /\ runner[r].data \in Distributions /\ runner[r].next \in Nat
        /\ runner[r].next < Batches(runner[r].data)
    BY <1>4, SendBatchRunner DEF ActiveRunner, SendBatch, MoreBatches
  <2>5. \A a \in Accounts : ReceivedBy(batch, a) \in Nat
    BY <2>4, BatchReceived
  <2>6. paid' = [paid EXCEPT ![i] = [a \in Accounts |-> paid[i][a] + ReceivedBy(batch, a)]]
    BY <1>4, <2>4 DEF SendBatch, Typed
  <2>7. [a \in Accounts |-> paid[i][a] + ReceivedBy(batch, a)] \in [Accounts -> Nat]
    <3> HIDE DEF batch
    <3>1. \A a \in Accounts : paid[i][a] \in Nat
      BY <2>4 DEF Typed
    <3> QED BY <2>5, <3>1
  <2>8. paid' \in [Ids -> [Accounts -> Nat]]
    BY <2>6, <2>7 DEF Typed
  <2> HIDE DEF new
  <2> QED BY <1>1, <2>1, <2>2, <2>3, <2>8, RunChanged DEF RunsTyped
<1>5. CASE NoteBatch(r)
  <2>1. UNCHANGED <<migrations, paid, lost, readFirst, disturbed>>
    BY <1>5 DEF NoteBatch
  <2> DEFINE new == runner'[r]
  <2>2. new.pc = "send" /\ new.progress = progress' /\ progress' \in [Ids -> Nat \union {-1}]
    <3> DEFINE noted == [runner[r].progress EXCEPT ![runner[r].id] = runner[r].next]
    <3>1. /\ noted \in [Ids -> Nat \union {-1}] /\ progress' = noted
          /\ new = [runner[r] EXCEPT !.pc = "send", !.progress = noted,
                                     !.next = runner[r].next + 1]
          /\ runner[r] \in ActiveRunner
      BY <1>5, NoteBatchRunner
    <3> HIDE DEF noted, new
    <3>2. new.pc = "send" /\ new.progress = noted
      BY <3>1 DEF ActiveRunner
    <3> QED BY <3>1, <3>2
  <2>3. runner' = [runner EXCEPT ![r] = new] /\ new \in ActiveRunner
    BY <1>5, NoteBatchRunner
  <2> HIDE DEF new
  <2> QED BY <1>1, <2>1, <2>2, <2>3, RunChanged DEF RunsTyped
<1>6. CASE SaveMigrations(r)
  <2>1. UNCHANGED <<progress, paid, lost, readFirst, disturbed>>
    BY <1>6 DEF SaveMigrations
  <2> DEFINE new == runner'[r]
  <2>2. /\ new.pc = "clean up" /\ new.progress = runner[r].progress
        /\ ~ new.dryRun /\ runner[r].pc = "send"
    BY <1>6, SaveMigrationsRunner DEF ActiveRunner
  <2>3. runner' = [runner EXCEPT ![r] = new] /\ new \in ActiveRunner
    BY <1>6, SaveMigrationsRunner
  <2>4. migrations' \subseteq Ids
    BY <1>6, SaveMigrationsRunner DEF SaveMigrations, ActiveRunner
  <2> HIDE DEF new
  <2> QED BY <1>1, <2>1, <2>2, <2>3, <2>4, RunChanged DEF RunsTyped
<1>7. CASE DeleteProgress(r)
  <2>1. UNCHANGED <<migrations, paid, lost, readFirst, disturbed>>
    BY <1>7 DEF DeleteProgress
  <2> QED BY <1>1, <1>7, <2>1, DeleteProgressRunner, RunChanged DEF RunsTyped
<1>8. CASE FinishDryRun(r) \/ FailRun(r) \/ Crash(r)
  <2>1. Ends(r)
    BY <1>8, EndsRunner
  <2>2. lost' \in [Ids -> Nat]
    <3>1. CASE Crash(r)
      <4>1. runner[r].id \in Ids
        BY <3>1, ActiveType DEF Crash, ActiveRunner
      <4>2. lost \in [Ids -> Nat]
        BY DEF Typed
      <4> QED BY <3>1, <4>1, <4>2 DEF Crash
    <3>2. CASE ~ Crash(r)
      BY <1>8, <3>2, EndsRunner DEF Typed
    <3> QED BY <3>1, <3>2
  <2> QED BY <1>1, <2>1, <2>2, RunChanged DEF RunsTyped, Ends
<1> QED BY <1>2, <1>3, <1>4, <1>5, <1>6, <1>7, <1>8 DEF RunStep, Prepare

LEMMA TypedNext == Typed /\ [Next]_vars => Typed'
<1> SUFFICES ASSUME Typed, [Next]_vars PROVE Typed'
  OBVIOUS
<1>1. DataTyped /\ RunsTyped
  BY TypedParts
<1>2. CASE DataStep
  <2>1. UNCHANGED <<runner, migrations, progress, paid, lost, readFirst, disturbed>>
    BY <1>2 DEF DataStep, disk, chain, history, Tick, BeginSearch, SearchStep, SearchFails,
      ComputeTradingIncentives, GetTotalRebates, GetTotalRebatesDiff, Fund, SendResidualFundsBack
  <2>2. RunsTyped'
    BY <1>1, <2>1 DEF RunsTyped
  <2> QED BY <1>1, <1>2, <2>2, DataStepTyped DEF Typed, DataTyped, RunsTyped
<1>3. CASE \E r \in Runners, i \in Ids, dryRun, skip \in BOOLEAN : StartRun(r, i, dryRun, skip)
  <2>1. UNCHANGED <<files, subgraph, time, totals, search>>
    BY <1>3 DEF StartRun, disk
  <2>2. DataTyped'
    BY <1>1, <2>1 DEF DataTyped
  <2>3. PICK r \in Runners, i \in Ids, dryRun \in BOOLEAN, skip \in BOOLEAN :
          StartRun(r, i, dryRun, skip)
    BY <1>3
  <2>4. RunsTyped'
    BY <2>3, StartRunTyped
  <2> QED BY <2>2, <2>4 DEF Typed, DataTyped, RunsTyped
<1>4. CASE \E r \in Runners : RunStep(r) \/ Crash(r)
  <2>1. UNCHANGED <<files, subgraph, time, totals, search>>
    BY <1>4 DEF RunStep, disk, ReadBalance, ReadAllowance, Approve, ReadProgress, SendBatch, NoteBatch, FinishDryRun,
      SaveMigrations, DeleteProgress, FailRun, Crash
  <2>2. DataTyped'
    BY <1>1, <2>1 DEF DataTyped
  <2> QED BY <1>4, <2>2, RunStepTyped DEF Typed, DataTyped, RunsTyped
<1>5. CASE UNCHANGED vars
  BY <1>5 DEF vars, disk, chain, history, Typed
<1> QED BY <1>2, <1>3, <1>4, <1>5 DEF Next, DataStep

(***************************************************************************)
(* The invariant.                                                          *)
(***************************************************************************)
Same(i) ==
  /\ progress'[i] = progress[i] /\ (i \in migrations' <=> i \in migrations)
  /\ paid'[i] = paid[i] /\ lost'[i] = lost[i] /\ readFirst'[i] = readFirst[i]

LEMMA PaidThroughSame ==
  ASSUME NEW i \in Ids, NEW n, Same(i), PaidThrough(i, n)
  PROVE  PaidThrough(i, n)'
BY DEF Same, PaidThrough, Through, Share, Covered

\* Nothing of i changes, and run r changes only what others do not rely on.
LEMMA Frame ==
  ASSUME NEW i \in Ids, Undisturbed(i), Same(i), NEW r \in Runners,
         \A q \in Runners \ {r} : runner'[q] = runner[q],
         Writing(r)' => Writing(r) /\ UpToDate(i, r)' /\ (runner'[r].id = i => Alone(i, r)'),
         ~ (Writing(r) /\ runner[r].id = i /\ runner[r].pc = "note")
  PROVE  Undisturbed(i)'
<1> USE DEF Undisturbed, Same
<1>1. \A q \in Runners \ {r} : Writing(q)' <=> Writing(q)
  BY DEF Writing
<1>2. InNote(i) => InNote(i)'
  BY <1>1 DEF InNote
<1>3. readFirst'[i] # NoFile /\ i \notin migrations' /\ ~ InNote(i)' => PaidThrough(i, progress[i] + 1)'
  BY <1>2, PaidThroughSame
<1>4. ASSUME NEW q \in Runners, Writing(q)' PROVE UpToDate(i, q)'
  BY <1>1, <1>4 DEF UpToDate
<1>5. ASSUME NEW q \in Runners, Writing(q)', runner'[q].id = i PROVE Alone(i, q)'
  <2>1. CASE q = r
    BY <1>5, <2>1
  <2>2. CASE q # r
    <3>1. runner'[q] = runner[q] /\ Alone(i, q)
      BY <1>1, <1>5, <2>2
    <3>2. \A p \in Runners \ {q} : ~ Writing(p)'
      BY <1>1, <3>1 DEF Alone
    <3>3. runner[q].pc = "note" => PaidThrough(i, runner[q].next + 1)'
      BY <3>1, PaidThroughSame DEF Alone
    <3> QED BY <3>1, <3>2, <3>3 DEF Alone, Batches
  <2> QED BY <2>1, <2>2
<1> QED BY <1>3, <1>4, <1>5 DEF ReceivedBy

LEMMA DataFrame ==
  ASSUME NEW i \in Ids, Undisturbed(i), Same(i), UNCHANGED <<runner, migrations, progress>>
  PROVE  Undisturbed(i)'
<1> USE DEF Undisturbed, Same
<1>1. \A q \in Runners : Writing(q)' <=> Writing(q)
  BY DEF Writing
<1>2. InNote(i)' <=> InNote(i)
  BY <1>1 DEF InNote
<1>3. readFirst'[i] # NoFile /\ i \notin migrations' /\ ~ InNote(i)' => PaidThrough(i, progress[i] + 1)'
  BY <1>2, PaidThroughSame
<1>4. ASSUME NEW q \in Runners, Writing(q)' PROVE UpToDate(i, q)'
  BY <1>1, <1>4 DEF UpToDate
<1>5. ASSUME NEW q \in Runners, Writing(q)', runner'[q].id = i PROVE Alone(i, q)'
  <2>1. runner[q].pc = "note" => PaidThrough(i, runner[q].next + 1)'
    BY <1>1, <1>5, PaidThroughSame DEF Alone
  <2> QED BY <1>1, <1>5, <2>1 DEF Alone, Batches
<1> QED BY <1>3, <1>4, <1>5 DEF ReceivedBy

LEMMA PrepareUndisturbed ==
  ASSUME Typed, NEW r \in Runners, Prepare(r), NEW i \in Ids, Undisturbed(i)
  PROVE  Undisturbed(i)'
<1>1. Same(i) /\ UNCHANGED <<migrations, progress, readFirst>>
  BY DEF Same, Prepare, ReadBalance, ReadAllowance, Approve, disk, chain, history
<1>2. /\ runner[r] \in ActiveRunner
      /\ runner[r].pc \in {"read balance", "read allowance", "approve"}
      /\ runner'[r].pc \in {"read allowance", "approve", "read progress"}
      /\ runner'[r] = [runner[r] EXCEPT !.pc = runner'[r].pc]
  BY PrepareRunner
<1>3. \A q \in Runners \ {r} : runner'[q] = runner[q]
  BY PrepareRunner DEF Typed
<1>4. /\ runner'[r].id = runner[r].id
      /\ runner'[r].data = runner[r].data /\ runner'[r].dryRun = runner[r].dryRun
      /\ runner'[r].migrations = runner[r].migrations
  BY <1>2 DEF ActiveRunner
<1>5. \A q \in Runners : Writing(q)' <=> Writing(q)
  BY <1>2, <1>3, <1>4 DEF Writing
<1>6. ASSUME Writing(r) PROVE UpToDate(i, r)'
  BY <1>1, <1>2, <1>4, <1>6 DEF Undisturbed, UpToDate
<1>7. ASSUME Writing(r), runner[r].id = i PROVE Alone(i, r)'
  BY <1>1, <1>2, <1>4, <1>5, <1>7 DEF Undisturbed, Alone
<1> QED BY <1>1, <1>2, <1>3, <1>4, <1>5, <1>6, <1>7, Frame

LEMMA ReadProgressUndisturbed ==
  ASSUME Typed, NEW r \in Runners, ReadProgress(r), NEW i \in Ids, Undisturbed(i)
  PROVE  Undisturbed(i)'
<1>1. Same(i) /\ UNCHANGED <<migrations, progress, readFirst>>
  BY DEF Same, ReadProgress, disk, chain, history
<1>2. runner[r] \in ActiveRunner /\ runner[r].pc = "read progress"
      /\ runner'[r] = [runner[r] EXCEPT !.pc = "send", !.progress = progress,
                                        !.next = progress[runner[r].id] + 1]
  BY ReadProgressRunner
<1>3. \A q \in Runners \ {r} : runner'[q] = runner[q]
  BY ReadProgressRunner DEF Typed
<1>4. /\ runner'[r].pc = "send" /\ runner'[r].id = runner[r].id
      /\ runner'[r].data = runner[r].data /\ runner'[r].dryRun = runner[r].dryRun
      /\ runner'[r].migrations = runner[r].migrations /\ runner'[r].progress = progress
      /\ runner'[r].next = progress[runner[r].id] + 1
  BY <1>2 DEF ActiveRunner
<1>5. \A q \in Runners : Writing(q)' <=> Writing(q)
  BY <1>2, <1>3, <1>4 DEF Writing
<1>6. ASSUME Writing(r) PROVE UpToDate(i, r)'
  BY <1>1, <1>2, <1>4, <1>6 DEF Undisturbed, UpToDate
<1>7. ASSUME Writing(r), runner[r].id = i PROVE Alone(i, r)'
  BY <1>1, <1>2, <1>4, <1>5, <1>7 DEF Undisturbed, Alone
<1> QED BY <1>1, <1>2, <1>3, <1>4, <1>5, <1>6, <1>7, Frame

LEMMA EndsUndisturbed ==
  ASSUME Typed, NEW r \in Runners, FinishDryRun(r) \/ FailRun(r) \/ Crash(r),
         NEW i \in Ids, Undisturbed(i)
  PROVE  Undisturbed(i)'
<1>1. Ends(r) /\ (~ Crash(r) => UNCHANGED lost /\ runner[r].pc # "note")
  BY EndsRunner
<1>2. runner'[r] = IdleRunner /\ ~ Writing(r)' /\ \A q \in Runners \ {r} : runner'[q] = runner[q]
  BY <1>1 DEF Ends, Typed, Writing, IdleRunner
<1>3. UNCHANGED <<migrations, progress, paid, readFirst>> /\ runner[r] \in ActiveRunner
  BY <1>1, ActiveType DEF Ends
<1>4. CASE runner[r].pc = "note" /\ runner[r].id = i
  <2>1. Writing(r) /\ Alone(i, r) /\ runner[r].data = readFirst[i]
    BY <1>4 DEF Undisturbed, Typed, Writing, Alone
  <2>2. \A q \in Runners : ~ Writing(q)'
    BY <1>2, <2>1 DEF Alone, Writing
  <2>3. lost' = [lost EXCEPT ![i] = lost[i] + 1] /\ lost[i] \in Nat /\ lost'[i] \in Nat
        /\ lost'[i] # 0
    <3>1. lost \in [Ids -> Nat]
      BY DEF Typed
    <3>2. lost' = [lost EXCEPT ![i] = lost[i] + 1]
      BY <1>1, <1>4, <3>1 DEF Crash
    <3> QED BY <3>1, <3>2
  <2>4. i \notin migrations /\ runner[r].next = progress[i] + 1 /\ readFirst[i] \in Distributions
        /\ runner[r].next \in Nat /\ runner[r].next < Batches(readFirst[i])
        /\ PaidThrough(i, runner[r].next + 1)
    BY <1>3, <1>4, <2>1 DEF Alone, ActiveRunner
  <2>5. ASSUME NEW a \in Accounts
        PROVE  paid[i][a] >= Through(readFirst[i], a, progress[i] + 1)
    <3> DEFINE n == runner[r].next
               d == readFirst[i]
    <3>1. paid[i][a] \in Nat /\ paid[i][a] >= Through(d, a, n + 1)
      BY <2>4 DEF PaidThrough, Typed
    <3>2. ReceivedBy(Batch(d, n), a) \in Nat
          /\ Through(d, a, n + 1) = Through(d, a, n) + ReceivedBy(Batch(d, n), a)
      BY <2>4, BatchReceived
    <3>3. Through(d, a, n) \in Int
      BY <2>4, ThroughInt
    <3>4. n = progress[i] + 1
      BY <2>4
    <3> HIDE DEF n, d
    <3>5. paid[i][a] >= Through(d, a, n)
      BY <3>1, <3>2, <3>3
    <3> QED BY <3>4, <3>5 DEF d
  <2>6. PaidThrough(i, progress[i] + 1)'
    BY <1>3, <2>3, <2>5 DEF PaidThrough, Through, Share, Covered
  <2>7. readFirst'[i] # NoFile /\ i \notin migrations'
    BY <1>3, <2>4, DistributionAssumption DEF DistributionAssumption
  <2> QED BY <2>2, <2>6, <2>7 DEF Undisturbed
<1>5. CASE ~ (runner[r].pc = "note" /\ runner[r].id = i)
  <2>1. lost'[i] = lost[i]
    <3>1. CASE Crash(r) /\ runner[r].pc = "note"
      BY <1>5, <3>1 DEF Crash, Typed
    <3>2. CASE Crash(r) /\ runner[r].pc # "note"
      BY <3>2 DEF Crash
    <3> QED BY <1>1, <3>1, <3>2
  <2>2. Same(i)
    BY <1>3, <2>1 DEF Same
  <2> QED BY <1>2, <1>5, <2>2, Frame
<1> QED BY <1>4, <1>5

\* What is known of a run of i that writes.
LEMMA OwnRun ==
  ASSUME Typed, NEW i \in Ids, Undisturbed(i), NEW r \in Runners, Writing(r), runner[r].id = i
  PROVE  /\ Alone(i, r) /\ UpToDate(i, r)
         /\ runner[r].data = readFirst[i] /\ readFirst[i] \in Distributions /\ readFirst[i] # NoFile
         /\ \A q \in Runners \ {r} : ~ Writing(q)
<1>1. Alone(i, r) /\ UpToDate(i, r) /\ runner[r].data = readFirst[i]
      /\ \A q \in Runners \ {r} : ~ Writing(q)
  BY DEF Undisturbed, Alone
<1>2. runner[r].data \in Distributions
  BY ActiveType DEF Writing, ActiveRunner
<1> QED BY <1>1, <1>2, DistributionAssumption DEF DistributionAssumption

LEMMA SendBatchUndisturbed ==
  ASSUME Typed, NEW r \in Runners, SendBatch(r), NEW i \in Ids, Undisturbed(i)
  PROVE  Undisturbed(i)'
<1>1. UNCHANGED <<migrations, progress, lost, readFirst>> /\ runner[r].next < Batches(runner[r].data)
  BY DEF SendBatch, disk, history, MoreBatches
<1>2. runner[r] \in ActiveRunner /\ runner[r].pc = "send" /\ ~ runner[r].dryRun
      /\ runner'[r] = [runner[r] EXCEPT !.pc = "note"]
  BY SendBatchRunner
<1>3. \A q \in Runners \ {r} : runner'[q] = runner[q]
  BY SendBatchRunner DEF Typed
<1>4. /\ runner'[r].pc = "note" /\ runner'[r].id = runner[r].id
      /\ runner'[r].data = runner[r].data /\ runner'[r].dryRun = runner[r].dryRun
      /\ runner'[r].migrations = runner[r].migrations
      /\ runner'[r].progress = runner[r].progress /\ runner'[r].next = runner[r].next
  BY <1>2 DEF ActiveRunner
<1>5. Writing(r) /\ Writing(r)' /\ \A q \in Runners : Writing(q)' <=> Writing(q)
  BY <1>2, <1>3, <1>4 DEF Writing
<1>6. UpToDate(i, r)'
  BY <1>1, <1>2, <1>4, <1>5 DEF Undisturbed, UpToDate
<1>7. runner[r].id \in Ids /\ runner[r].next \in Nat
      /\ paid' = [paid EXCEPT ![runner[r].id] =
           [a \in Accounts |-> paid[runner[r].id][a] + ReceivedBy(Batch(runner[r].data, runner[r].next), a)]]
  BY <1>2 DEF SendBatch, Typed, ActiveRunner
<1>8. CASE runner[r].id # i
  <2>1. Same(i)
    BY <1>1, <1>7, <1>8 DEF Same, Typed
  <2> QED BY <1>2, <1>3, <1>4, <1>5, <1>6, <1>8, <2>1, Frame
<1>9. CASE runner[r].id = i
  <2> DEFINE d == readFirst[i]
             n == runner[r].next
  <2>1. /\ Alone(i, r) /\ runner[r].data = d /\ d \in Distributions /\ d # NoFile
        /\ \A q \in Runners \ {r} : ~ Writing(q)
    BY <1>5, <1>9, OwnRun
  <2>2. n = progress[i] + 1 /\ i \notin migrations
    BY <1>2, <2>1 DEF Alone
  <2>3. ~ InNote(i)
    BY <1>2, <2>1 DEF InNote
  <2>4. PaidThrough(i, n)
    BY <2>1, <2>2, <2>3 DEF Undisturbed
  <2>5. ASSUME NEW a \in Accounts
        PROVE  /\ paid'[i][a] >= Through(d, a, n + 1)
               /\ lost[i] = 0 => paid'[i][a] = Through(d, a, n + 1)
    <3>1. paid'[i][a] = paid[i][a] + ReceivedBy(Batch(d, n), a)
      BY <1>7, <1>9, <2>1 DEF Typed
    <3>2. ReceivedBy(Batch(d, n), a) \in Nat
          /\ Through(d, a, n + 1) = Through(d, a, n) + ReceivedBy(Batch(d, n), a)
      BY <1>1, <1>7, <2>1, BatchReceived
    <3>3. Through(d, a, n) \in Int
      BY <1>7, <2>1, ThroughInt
    <3>4. paid[i][a] \in Nat /\ paid[i][a] >= Through(d, a, n)
          /\ (lost[i] = 0 => paid[i][a] = Through(d, a, n))
      BY <2>4 DEF PaidThrough, Typed
    <3> HIDE DEF d, n
    <3> QED BY <3>1, <3>2, <3>3, <3>4
  <2>6. PaidThrough(i, n + 1)'
    <3>1. lost'[i] = lost[i] /\ readFirst'[i] = d /\ runner'[r].next = n
      BY <1>1, <1>4
    <3> QED BY <2>5, <3>1 DEF PaidThrough, Through, Share, Covered
  <2>7. Alone(i, r)'
    <3>1. \A q \in Runners \ {r} : ~ Writing(q)'
      BY <1>5, <2>1
    <3>2. n < Batches(d) /\ PaidThrough(i, runner[r].next + 1)'
      BY <1>1, <1>4, <2>1, <2>6
    <3> QED BY <1>1, <1>4, <2>1, <2>2, <2>6, <3>1, <3>2 DEF Alone, Batches
  <2>8. InNote(i)'
    BY <1>4, <1>5, <1>9 DEF InNote
  <2>9. \A q \in Runners : Writing(q)' => q = r
    BY <1>5, <2>1
  <2>10. i \notin migrations' /\ readFirst'[i] # NoFile
    BY <1>1, <2>1, <2>2
  <2> QED BY <1>6, <2>7, <2>8, <2>9, <2>10 DEF Undisturbed
<1> QED BY <1>8, <1>9

LEMMA NoteBatchUndisturbed ==
  ASSUME Typed, NEW r \in Runners, NoteBatch(r), NEW i \in Ids, Undisturbed(i)
  PROVE  Undisturbed(i)'
<1> DEFINE noted == [runner[r].progress EXCEPT ![runner[r].id] = runner[r].next]
<1>1. UNCHANGED <<migrations, paid, lost, readFirst>>
  BY DEF NoteBatch, chain, history
<1>2. runner[r] \in ActiveRunner /\ runner[r].pc = "note" /\ ~ runner[r].dryRun
      /\ progress' = noted /\ noted \in [Ids -> Nat \union {-1}]
      /\ runner'[r] = [runner[r] EXCEPT !.pc = "send", !.progress = noted,
                                        !.next = runner[r].next + 1]
  BY NoteBatchRunner
<1>3. \A q \in Runners \ {r} : runner'[q] = runner[q]
  <2>1. \E new : runner' = [runner EXCEPT ![r] = new]
    BY NoteBatchRunner
  <2>2. runner \in [Runners -> RunnerType]
    BY DEF Typed
  <2> QED BY <2>1, <2>2
<1>4. /\ runner'[r].pc = "send" /\ runner'[r].id = runner[r].id
      /\ runner'[r].data = runner[r].data /\ runner'[r].dryRun = runner[r].dryRun
      /\ runner'[r].migrations = runner[r].migrations
      /\ runner'[r].progress = progress' /\ runner'[r].next = runner[r].next + 1
  <2> HIDE DEF noted
  <2> QED BY <1>2 DEF ActiveRunner
<1>5. Writing(r) /\ Writing(r)' /\ \A q \in Runners : Writing(q)' <=> Writing(q)
  BY <1>2, <1>3, <1>4 DEF Writing
<1>6. UpToDate(i, r) /\ UpToDate(i, r)'
  BY <1>1, <1>2, <1>4, <1>5 DEF Undisturbed, UpToDate
<1>7. runner[r].id \in Ids /\ runner[r].next \in Nat /\ runner[r].progress \in [Ids -> Int]
  BY <1>2 DEF ActiveRunner
<1>8. CASE runner[r].id # i
  <2>1. progress'[i] = progress[i]
    BY <1>2, <1>6, <1>7, <1>8 DEF UpToDate
  <2>2. Same(i)
    BY <1>1, <2>1 DEF Same
  <2> QED BY <1>3, <1>4, <1>5, <1>6, <1>8, <2>2, Frame
<1>9. CASE runner[r].id = i
  <2> DEFINE d == readFirst[i]
             n == runner[r].next
  <2>1. /\ Alone(i, r) /\ runner[r].data = d /\ d \in Distributions /\ d # NoFile
        /\ \A q \in Runners \ {r} : ~ Writing(q)
    BY <1>5, <1>9, OwnRun
  <2>2. i \notin migrations /\ PaidThrough(i, n + 1)
    BY <1>2, <2>1 DEF Alone
  <2>3. progress'[i] = n
    BY <1>2, <1>7, <1>9
  <2>4. PaidThrough(i, progress[i] + 1)'
    BY <1>1, <2>2, <2>3 DEF PaidThrough, Through, Share, Covered
  <2>5. Alone(i, r)'
    <3>1. \A q \in Runners \ {r} : ~ Writing(q)'
      BY <1>5, <2>1
    <3> QED BY <1>1, <1>4, <2>1, <2>2, <2>3, <3>1 DEF Alone
  <2>6. \A q \in Runners : Writing(q)' => q = r
    BY <1>5, <2>1
  <2>7. i \notin migrations' /\ readFirst'[i] # NoFile
    BY <1>1, <2>1, <2>2
  <2> QED BY <1>6, <2>4, <2>5, <2>6, <2>7 DEF Undisturbed
<1> QED BY <1>8, <1>9

LEMMA SaveMigrationsUndisturbed ==
  ASSUME Typed, NEW r \in Runners, SaveMigrations(r), NEW i \in Ids, Undisturbed(i)
  PROVE  Undisturbed(i)'
<1>1. UNCHANGED <<progress, paid, lost, readFirst>>
      /\ migrations' = runner[r].migrations \union {runner[r].id}
      /\ ~ (runner[r].next < Batches(runner[r].data))
  BY DEF SaveMigrations, chain, history, MoreBatches
<1>2. runner[r] \in ActiveRunner /\ runner[r].pc = "send" /\ ~ runner[r].dryRun
      /\ runner'[r] = [runner[r] EXCEPT !.pc = "clean up"]
  BY SaveMigrationsRunner
<1>3. \A q \in Runners \ {r} : runner'[q] = runner[q]
  BY SaveMigrationsRunner DEF Typed
<1>4. /\ runner'[r].pc = "clean up" /\ runner'[r].id = runner[r].id
      /\ runner'[r].data = runner[r].data /\ runner'[r].dryRun = runner[r].dryRun
      /\ runner'[r].progress = runner[r].progress
  BY <1>2 DEF ActiveRunner
<1>5. Writing(r) /\ Writing(r)' /\ \A q \in Runners : Writing(q)' <=> Writing(q)
  BY <1>2, <1>3, <1>4 DEF Writing
<1>6. UpToDate(i, r) /\ UpToDate(i, r)'
  BY <1>1, <1>2, <1>4, <1>5 DEF Undisturbed, UpToDate
<1>7. CASE runner[r].id # i
  <2>1. Same(i)
    BY <1>1, <1>2, <1>6, <1>7 DEF Same, UpToDate
  <2> QED BY <1>2, <1>3, <1>4, <1>5, <1>6, <1>7, <2>1, Frame
<1>8. CASE runner[r].id = i
  <2> DEFINE d == readFirst[i]
             n == runner[r].next
  <2>1. /\ Alone(i, r) /\ runner[r].data = d /\ d \in Distributions /\ d # NoFile
        /\ \A q \in Runners \ {r} : ~ Writing(q)
    BY <1>5, <1>8, OwnRun
  <2>2. n = progress[i] + 1 /\ i \notin migrations /\ n \in Nat
    BY <1>2, <2>1 DEF Alone, ActiveRunner
  <2>3. PaidThrough(i, n)
    <3>1. ~ InNote(i)
      BY <1>2, <2>1 DEF InNote
    <3> QED BY <2>1, <2>2, <3>1 DEF Undisturbed
  <2>4. ASSUME NEW a \in Accounts
        PROVE  /\ paid[i][a] >= ReceivedBy(d, a)
               /\ lost[i] = 0 => paid[i][a] = ReceivedBy(d, a)
    <3>1. Through(d, a, n) = ReceivedBy(d, a)
      BY <1>1, <2>1, <2>2, ThroughAll
    <3> QED BY <2>3, <3>1 DEF PaidThrough
  <2>5. i \in migrations'
    BY <1>1, <1>8
  <2>6. Alone(i, r)'
    <3>1. \A q \in Runners \ {r} : ~ Writing(q)'
      BY <1>5, <2>1
    <3> QED BY <1>1, <1>4, <2>1, <2>5, <3>1 DEF Alone
  <2>7. \A q \in Runners : Writing(q)' => q = r
    BY <1>5, <2>1
  <2>8. readFirst'[i] = d /\ paid'[i] = paid[i] /\ lost'[i] = lost[i]
    BY <1>1
  <2>9. \A a \in Accounts : /\ paid'[i][a] >= ReceivedBy(d, a)
                            /\ lost'[i] = 0 => paid'[i][a] = ReceivedBy(d, a)
    BY <2>4, <2>8
  <2>10. \A q \in Runners : Writing(q)' => UpToDate(i, q)' /\ Alone(i, q)'
    BY <1>6, <2>6, <2>7
  <2> QED BY <2>1, <2>5, <2>8, <2>9, <2>10 DEF Undisturbed, ReceivedBy
<1> QED BY <1>7, <1>8

LEMMA DeleteProgressUndisturbed ==
  ASSUME Typed, NEW r \in Runners, DeleteProgress(r), NEW i \in Ids, Undisturbed(i)
  PROVE  Undisturbed(i)'
<1>1. UNCHANGED <<migrations, paid, lost, readFirst>>
  BY DEF DeleteProgress, chain, history
<1>2. runner[r] \in ActiveRunner /\ runner[r].pc = "clean up" /\ ~ runner[r].dryRun
      /\ progress' = [runner[r].progress EXCEPT ![runner[r].id] = -1]
      /\ runner'[r] = IdleRunner
  BY DeleteProgressRunner
<1>3. \A q \in Runners \ {r} : runner'[q] = runner[q]
  <2>1. runner' = [runner EXCEPT ![r] = IdleRunner]
    BY DeleteProgressRunner
  <2>2. runner \in [Runners -> RunnerType]
    BY DEF Typed
  <2> QED BY <2>1, <2>2
<1>4. Writing(r) /\ ~ Writing(r)' /\ \A q \in Runners \ {r} : Writing(q)' <=> Writing(q)
  <2>1. Writing(r)
    BY <1>2 DEF Writing
  <2>2. runner'[r].pc = "idle"
    <3>1. runner'[r] = IdleRunner
      BY <1>2
    <3> QED BY <3>1, RunnerTypes
  <2> QED BY <1>3, <2>1, <2>2 DEF Writing
<1>5. UpToDate(i, r)
  BY <1>4 DEF Undisturbed
<1>6. CASE runner[r].id # i
  <2>1. progress'[i] = progress[i]
    BY <1>2, <1>5, <1>6 DEF UpToDate, ActiveRunner
  <2>2. Same(i)
    BY <1>1, <2>1 DEF Same
  <2> QED BY <1>2, <1>3, <1>4, <2>2, Frame
<1>7. CASE runner[r].id = i
  <2>1. Alone(i, r) /\ readFirst[i] # NoFile /\ \A q \in Runners \ {r} : ~ Writing(q)
    BY <1>4, <1>7, OwnRun
  <2>2. i \in migrations
    BY <1>2, <2>1 DEF Alone
  <2>3. \A q \in Runners : ~ Writing(q)'
    BY <1>4, <2>1
  <2> QED BY <1>1, <2>1, <2>2, <2>3 DEF Undisturbed, ReceivedBy
<1> QED BY <1>6, <1>7

LEMMA StartRunUndisturbed ==
  ASSUME Typed, NEW r \in Runners, NEW j \in Ids, NEW dryRun \in BOOLEAN, NEW skip \in BOOLEAN,
         StartRun(r, j, dryRun, skip), NEW i \in Ids, Undisturbed(i), ~ disturbed'[i]
  PROVE  Undisturbed(i)'
<1>1. UNCHANGED <<migrations, progress, paid, lost>> /\ (j \in migrations => skip)
  BY DEF StartRun, disk, chain
<1>2. /\ runner[r].pc = "idle" /\ files[j] \in Distributions
      /\ runner'[r] = NewRun(j, dryRun)
      /\ runner' = [runner EXCEPT ![r] = NewRun(j, dryRun)]
  BY StartRunRunner
<1>3. \A q \in Runners \ {r} : runner'[q] = runner[q]
  BY <1>2 DEF Typed
<1>4. /\ runner'[r].pc = "read balance" /\ runner'[r].id = j /\ runner'[r].data = files[j]
      /\ runner'[r].dryRun = dryRun /\ runner'[r].migrations = migrations
  <2> DEFINE new == NewRun(j, dryRun)
  <2>1. /\ new.pc = "read balance" /\ new.id = j /\ new.data = files[j]
        /\ new.dryRun = dryRun /\ new.migrations = migrations
    BY DEF NewRun
  <2> HIDE DEF new
  <2>2. runner'[r] = new
    BY <1>2 DEF new
  <2> QED BY <2>1, <2>2
<1>5. ~ Writing(r) /\ (Writing(r)' <=> ~ dryRun) /\ \A q \in Runners \ {r} : Writing(q)' <=> Writing(q)
  BY <1>2, <1>3, <1>4 DEF Writing
<1>6. files[j] # NoFile
  BY <1>2, DistributionAssumption DEF DistributionAssumption
<1>7. CASE dryRun
  <2>1. Same(i)
    BY <1>1, <1>7 DEF StartRun, Same
  <2> QED BY <1>3, <1>5, <1>7, <2>1, Frame
<1>8. CASE ~ dryRun
  <2>1. i = j => ~ skip /\ readFirst[i] \in {NoFile, files[i]}
    BY <1>8 DEF StartRun
  <2>2. ASSUME NEW q \in Runners, Writing(q)
        PROVE  i # j /\ runner[q].id # i
    BY <1>8, <2>2 DEF StartRun
  <2>3. readFirst' = IF readFirst[j] # NoFile THEN readFirst ELSE [readFirst EXCEPT ![j] = files[j]]
    BY <1>8 DEF StartRun
  <2>4. UpToDate(i, r)'
    BY <1>1, <1>4 DEF UpToDate
  <2>5. CASE i # j
    <3>1. Same(i)
      BY <1>1, <2>3, <2>5 DEF Same, Typed
    <3>2. ~ InNote(i) /\ ~ InNote(i)'
      BY <1>3, <1>4, <1>5, <2>2 DEF InNote
    <3>3. readFirst'[i] # NoFile /\ i \notin migrations' => PaidThrough(i, progress[i] + 1)'
      BY <3>1, <3>2, PaidThroughSame DEF Undisturbed, Same
    <3>4. ASSUME NEW q \in Runners, Writing(q)' PROVE UpToDate(i, q)' /\ runner'[q].id # i
      <4>1. CASE q = r
        BY <1>4, <2>4, <2>5, <4>1
      <4>2. CASE q # r
        BY <1>1, <1>3, <1>5, <2>2, <3>4, <4>2 DEF Undisturbed, UpToDate
      <4> QED BY <4>1, <4>2
    <3> QED BY <3>1, <3>3, <3>4 DEF Undisturbed, Same, ReceivedBy
  <2>6. CASE i = j
    <3>1. \A q \in Runners : ~ Writing(q)
      BY <2>2, <2>6
    <3>2. \A q \in Runners : Writing(q)' => q = r
      BY <1>5, <3>1
    <3>3. readFirst'[i] = files[i] /\ (readFirst[i] # NoFile => readFirst'[i] = readFirst[i])
      BY <2>1, <2>3, <2>6, <1>6 DEF Typed
    <3>4. i \notin migrations
      BY <1>1, <2>1, <2>6
    <3>5. PaidThrough(i, progress[i] + 1)'
      <4>1. CASE readFirst[i] = NoFile
        <5>1. progress[i] = -1 /\ \A a \in Accounts : paid[i][a] = 0
          BY <4>1 DEF Undisturbed
        <5>2. \A a \in Accounts : Through(files[i], a, 0) = 0
          BY <1>2, <2>6, ThroughNone
        <5>3. progress'[i] + 1 = 0 /\ \A a \in Accounts : paid'[i][a] = Through(files[i], a, 0) /\ paid'[i][a] = 0
          BY <1>1, <5>1, <5>2
        <5>5. readFirst'[i] = files'[i] /\ files'[i] = files[i]
          BY <3>3 DEF StartRun, disk
        <5>6. \A a \in Accounts : paid'[i][a] = Through(readFirst'[i], a, progress'[i] + 1)
          BY <5>3, <5>5
        <5>7. \A a \in Accounts : paid'[i][a] >= Through(readFirst'[i], a, progress'[i] + 1)
          BY <5>2, <5>3, <5>5, <5>6
        <5> QED BY <5>6, <5>7 DEF PaidThrough, Through, Share, Covered
      <4>2. CASE readFirst[i] # NoFile
        <5>1. ~ InNote(i)
          BY <3>1 DEF InNote
        <5>2. PaidThrough(i, progress[i] + 1)
          BY <3>4, <4>2, <5>1 DEF Undisturbed
        <5>3. Same(i)
          BY <1>1, <3>3, <4>2 DEF Same
        <5> QED BY <1>1, <5>2, <5>3, PaidThroughSame
      <4> QED BY <4>1, <4>2
    <3>6. Alone(i, r)'
      <4>1. \A q \in Runners \ {r} : ~ Writing(q)'
        BY <3>2
      <4> QED BY <1>1, <1>4, <2>6, <3>3, <3>4, <4>1 DEF Alone
    <3>7. readFirst'[i] # NoFile /\ i \notin migrations'
      BY <1>1, <1>6, <2>6, <3>3, <3>4
    <3> QED BY <2>4, <3>2, <3>5, <3>6, <3>7 DEF Undisturbed
  <2> QED BY <2>5, <2>6
<1> QED BY <1>7, <1>8

(***************************************************************************)
(* The theorems.                                                           *)
(***************************************************************************)
LEMMA DInvInit == Init => DInv
<1> SUFFICES ASSUME Init PROVE DInv
  OBVIOUS
<1>1. \A r \in Runners : ~ Writing(r)
  BY DEF Init, Writing, IdleRunner
<1>2. \A i \in Ids : readFirst[i] = NoFile /\ progress[i] = -1 /\ i \notin migrations
                     /\ \A a \in Accounts : paid[i][a] = 0
  BY DEF Init
<1> QED BY <1>1, <1>2, TypedInit DEF DInv, Undisturbed

LEMMA DInvNext == DInv /\ [Next]_vars => DInv'
<1> SUFFICES ASSUME DInv, [Next]_vars PROVE DInv'
  OBVIOUS
<1>1. Typed /\ Typed'
  BY TypedNext DEF DInv
<1>2. ASSUME NEW i \in Ids, ~ disturbed'[i] PROVE Undisturbed(i)'
  <2>1. CASE DataStep \/ UNCHANGED vars
    <3>1. UNCHANGED <<runner, migrations, progress, paid, lost, readFirst, disturbed>>
      BY <2>1 DEF DataStep, vars, disk, chain, history, Tick, BeginSearch, SearchStep, SearchFails,
        ComputeTradingIncentives, GetTotalRebates, GetTotalRebatesDiff, Fund, SendResidualFundsBack
    <3>2. Undisturbed(i) /\ Same(i)
      BY <1>2, <3>1 DEF DInv, Same
    <3> QED BY <3>1, <3>2, DataFrame
  <2>2. CASE \E r \in Runners, j \in Ids, dryRun, skip \in BOOLEAN : StartRun(r, j, dryRun, skip)
    <3>1. PICK r \in Runners, j \in Ids, dryRun \in BOOLEAN, skip \in BOOLEAN :
            StartRun(r, j, dryRun, skip)
      BY <2>2
    <3>2. ~ disturbed[i]
      BY <1>2, <3>1 DEF StartRun
    <3>3. Undisturbed(i)
      BY <3>2 DEF DInv
    <3> QED BY <1>1, <1>2, <3>1, <3>3, StartRunUndisturbed
  <2>3. CASE \E r \in Runners : RunStep(r) \/ Crash(r)
    <3>1. PICK r \in Runners : RunStep(r) \/ Crash(r)
      BY <2>3
    <3>2. UNCHANGED disturbed
      BY <3>1 DEF RunStep, history, ReadBalance, ReadAllowance, Approve, ReadProgress, SendBatch, NoteBatch, FinishDryRun,
        SaveMigrations, DeleteProgress, FailRun, Crash
    <3>3. Undisturbed(i)
      BY <1>2, <3>2 DEF DInv
    <3> QED BY <1>1, <3>1, <3>3, PrepareUndisturbed, ReadProgressUndisturbed,
          SendBatchUndisturbed, NoteBatchUndisturbed, SaveMigrationsUndisturbed,
          DeleteProgressUndisturbed, EndsUndisturbed DEF RunStep, Prepare
  <2> QED BY <2>1, <2>2, <2>3 DEF Next, DataStep
<1> QED BY <1>1, <1>2 DEF DInv

\* Runs die and overlap, and several people send: a distribution that is noted as
\* done and was sent by the rules has paid everybody what its file says.
THEOREM Paid == Spec => []PaidAsFiled
<1>1. DInv => PaidAsFiled
  <2> SUFFICES ASSUME DInv, NEW i \in migrations, ~ disturbed[i], NEW a \in Accounts
               PROVE  /\ paid[i][a] >= ReceivedBy(readFirst[i], a)
                      /\ lost[i] = 0 => paid[i][a] = ReceivedBy(readFirst[i], a)
    BY DEF PaidAsFiled
  <2>1. i \in Ids /\ Undisturbed(i)
    BY DEF DInv, Typed
  <2> QED BY <2>1 DEF Undisturbed
<1> QED BY <1>1, DInvInit, DInvNext, PTL DEF Spec

\* A correction of what was paid from wrong data brings everybody to the larger of
\* the two amounts: the difference file pays exactly what a key lacks.
THEOREM CorrectionsTopUpPaid == Spec => []CorrectionsTopUp
<1>1. DInv => CorrectionsTopUp
  <2> SUFFICES ASSUME DInv,
                      {"migration", "fix"} \subseteq migrations,
                      ~ disturbed["migration"] /\ ~ disturbed["fix"],
                      lost["migration"] = 0 /\ lost["fix"] = 0,
                      totals.old = TotalRebates(readFirst["migration"]),
                      readFirst["fix"] = DiffDistribution(totals.old, totals.new),
                      NEW a \in Accounts
               PROVE  LET due(c) == LET k == [account |-> a, checksummed |-> c] IN
                                    Larger(totals.old[k], totals.new[k])
                      IN paid["migration"][a] + paid["fix"][a] = due(TRUE) + due(FALSE)
    BY DEF CorrectionsTopUp
  <2> DEFINE old == totals.old
             new == totals.new
             key(c) == [account |-> a, checksummed |-> c]
  <2>1. old \in [Keys -> Nat] /\ new \in [Keys -> Nat]
    BY DEF DInv, Typed
  <2>2. \A i \in {"migration", "fix"} :
          readFirst[i] \in Distributions /\ paid[i][a] = ReceivedBy(readFirst[i], a)
    BY DEF DInv, Typed, Undisturbed, Ids, Kinds
  <2>3. key(TRUE) \in Keys /\ key(FALSE) \in Keys
    BY EntryParts
  <2>4. paid["migration"][a] = old[key(TRUE)] + old[key(FALSE)]
    <3>1. ReceivedBy(readFirst["migration"], a)
            = TotalRebates(readFirst["migration"])[key(TRUE)]
              + TotalRebates(readFirst["migration"])[key(FALSE)]
      BY <2>2, ReceivedByKeys
    <3> QED BY <2>2, <3>1
  <2>5. paid["fix"][a] = DiffOf(old, new)[key(TRUE)] + DiffOf(old, new)[key(FALSE)]
    <3> DEFINE d == DiffDistribution(old, new)
    <3> HIDE DEF d
    <3>1. d \in Distributions /\ \A k \in Keys : TotalRebates(d)[k] = DiffOf(old, new)[k]
      BY <2>1, DiffPays DEF d
    <3>2. ReceivedBy(d, a) = TotalRebates(d)[key(TRUE)] + TotalRebates(d)[key(FALSE)]
      BY <3>1, ReceivedByKeys
    <3>3. paid["fix"][a] = ReceivedBy(d, a)
      BY <2>2 DEF d
    <3> QED BY <2>3, <3>1, <3>2, <3>3
  <2>6. ASSUME NEW k \in Keys
        PROVE  /\ old[k] + DiffOf(old, new)[k] = Larger(old[k], new[k])
               /\ old[k] \in Int /\ DiffOf(old, new)[k] \in Int
    <3>1. DiffOf(old, new)[k] = IF new[k] > old[k] THEN new[k] - old[k] ELSE 0
      BY DEF DiffOf
    <3>2. old[k] \in Nat /\ new[k] \in Nat
      BY <2>1
    <3> HIDE DEF old, new
    <3> QED BY <3>1, <3>2 DEF Larger
  <2> DEFINE x1 == old[key(TRUE)]
             x2 == old[key(FALSE)]
             y1 == DiffOf(old, new)[key(TRUE)]
             y2 == DiffOf(old, new)[key(FALSE)]
             z1 == Larger(old[key(TRUE)], new[key(TRUE)])
             z2 == Larger(old[key(FALSE)], new[key(FALSE)])
  <2>7. /\ x1 \in Int /\ y1 \in Int /\ x1 + y1 = z1
        /\ x2 \in Int /\ y2 \in Int /\ x2 + y2 = z2
    BY <2>3, <2>6
  <2>8. paid["migration"][a] = x1 + x2 /\ paid["fix"][a] = y1 + y2
    BY <2>4, <2>5
  <2> HIDE DEF x1, x2, y1, y2, z1, z2
  <2>9. (x1 + x2) + (y1 + y2) = z1 + z2
    BY <2>7
  <2> QED BY <2>8, <2>9 DEF z1, z2
<1> QED BY <1>1, DInvInit, DInvNext, PTL DEF Spec

(***************************************************************************)
(* How often batches are sent.                                             *)
(***************************************************************************)
Count(i) == Total([b \in 1..(2 * NumAccounts) |-> sends[i][b - 1]], 2 * NumAccounts)

\* The batches before n were sent, n perhaps, none after it; as often as runs died
\* before noting one, batches were sent again (or n was sent).
SentThrough(i, n) ==
  /\ \A b \in 0..(2 * NumAccounts) : (b < n => sends[i][b] > 0) /\ (b > n => sends[i][b] = 0)
  /\ Count(i) <= n + lost[i]

NoteOf(i, r) == Writing(r) /\ runner[r].id = i /\ runner[r].pc = "note"

Counted(i) ==
  /\ i \notin migrations /\ ~ InNote(i) => progress[i] + 1 <= 2 * NumAccounts
                                          /\ SentThrough(i, progress[i] + 1)
  /\ \A r \in Runners : NoteOf(i, r) =>
       /\ runner[r].next + 1 <= 2 * NumAccounts
       /\ SentThrough(i, runner[r].next + 1)
       /\ \A b \in 0..(2 * NumAccounts) : b > runner[r].next => sends[i][b] = 0
  /\ i \in migrations => \E n \in 0..(2 * NumAccounts) : SentThrough(i, n)

CInv ==
  /\ DInv
  /\ sends \in [Ids -> [0..(2 * NumAccounts) -> Nat]]
  /\ \A i \in Ids : ~ disturbed[i] => Counted(i)

LEMMA BatchNumber ==
  ASSUME NEW d \in Distributions, NEW n \in Nat, n < Batches(d)
  PROVE  n + 1 <= 2 * NumAccounts
<1>1. n * BatchSize < Len(d) /\ Len(d) <= 2 * NumAccounts /\ Len(d) \in Nat
  BY BatchBounds, ShareType DEF Distributions
<1>2. BatchSize \in Nat /\ BatchSize >= 1 /\ NumAccounts \in Nat
  BY DistributionAssumption, RewardsAssumption DEF DistributionAssumption, RewardsAssumption
<1>3. 1 * n <= BatchSize * n
  BY <1>2, TimesMonotone
<1>4. BatchSize * n = n * BatchSize /\ n * BatchSize \in Nat
  BY <1>2, TimesNat
<1> QED BY <1>1, <1>2, <1>3, <1>4

LEMMA CountNat ==
  ASSUME NEW i \in Ids, sends[i] \in [0..(2 * NumAccounts) -> Nat]
  PROVE  Count(i) \in Nat /\ [b \in 1..(2 * NumAccounts) |-> sends[i][b - 1]] \in [1..(2 * NumAccounts) -> Nat]
<1>1. 2 * NumAccounts \in Nat
  BY RewardsAssumption DEF RewardsAssumption
<1>2. [b \in 1..(2 * NumAccounts) |-> sends[i][b - 1]] \in [1..(2 * NumAccounts) -> Nat]
  BY <1>1
<1> QED BY <1>1, <1>2, TotalNat DEF Count

Shifted(s, M) == [b \in 1..M |-> s[b - 1]]

\* One term of a sum grows by one.
LEMMA TotalOneMore ==
  ASSUME NEW M \in Nat, NEW n \in Nat, n + 1 <= M, NEW s \in [0..M -> Nat], NEW t,
         t = [s EXCEPT ![n] = s[n] + 1]
  PROVE  Total(Shifted(t, M), M) = Total(Shifted(s, M), M) + 1
<1> DEFINE f == [b \in 1..M |-> s[b - 1]]
           g == [b \in 1..M |-> t[b - 1]]
           k == n + 1
<1>1. n \in 0..M /\ k \in 1..M /\ k - 1 = n
  OBVIOUS
<1>2. t \in [0..M -> Nat] /\ t[n] = s[n] + 1 /\ s[n] \in Nat
      /\ \A b \in (0..M) \ {n} : t[b] = s[b]
  BY <1>1
<1>3. f \in [1..M -> Int] /\ g \in [1..M -> Int]
  BY <1>2
<1>4. \A b \in (1..M) \ {k} : g[b] = f[b]
  BY <1>2
<1>5. g[k] = f[k] + 1 /\ f[k] \in Int
  BY <1>1, <1>2
<1> HIDE DEF f, g, k
<1>6. Total(f, M) \in Int
  BY <1>3, TotalInt
<1>7. Total(g, M) = Total(f, M) + g[k] - f[k]
  BY <1>1, <1>3, <1>4, TotalChange
<1>8. Total(g, M) = Total(f, M) + 1
  BY <1>5, <1>6, <1>7
<1> QED BY <1>8 DEF f, g, Shifted

\* A batch is sent once more.
LEMMA CountSent ==
  ASSUME NEW i \in Ids, NEW n \in Nat, n + 1 <= 2 * NumAccounts,
         sends[i] \in [0..(2 * NumAccounts) -> Nat],
         sends'[i] = [sends[i] EXCEPT ![n] = sends[i][n] + 1]
  PROVE  Count(i)' = Count(i) + 1
<1>1. 2 * NumAccounts \in Nat
  BY RewardsAssumption DEF RewardsAssumption
<1> DEFINE M == 2 * NumAccounts
           s == sends[i]
           t == sends'[i]
<1>2. M \in Nat /\ n + 1 <= M /\ s \in [0..M -> Nat] /\ t = [s EXCEPT ![n] = s[n] + 1]
  BY <1>1
<1>3. Count(i)' = Total(Shifted(t, M), M) /\ Count(i) = Total(Shifted(s, M), M)
  BY DEF Count, Shifted
<1> HIDE DEF M, s, t
<1>4. Total(Shifted(t, M), M) = Total(Shifted(s, M), M) + 1
  BY <1>2, TotalOneMore
<1> QED BY <1>3, <1>4

LEMMA SentThroughSame ==
  ASSUME NEW i \in Ids, NEW n, sends'[i] = sends[i], lost'[i] = lost[i], SentThrough(i, n)
  PROVE  SentThrough(i, n)'
BY DEF SentThrough, Count

\* Nothing of i changes, and nobody begins or ends to wait for a note of i.
LEMMA CountedFrame ==
  ASSUME NEW i \in Ids, Counted(i), progress'[i] = progress[i],
         i \in migrations' <=> i \in migrations, sends'[i] = sends[i], lost'[i] = lost[i],
         \A q \in Runners : NoteOf(i, q)' => NoteOf(i, q) /\ runner'[q].next = runner[q].next,
         \A q \in Runners : NoteOf(i, q) => NoteOf(i, q)'
  PROVE  Counted(i)'
<1>1. InNote(i)' <=> InNote(i)
  BY DEF InNote, NoteOf
<1>2. i \notin migrations' /\ ~ InNote(i)' => progress'[i] + 1 <= 2 * NumAccounts
                                            /\ SentThrough(i, progress[i] + 1)'
  BY <1>1, SentThroughSame DEF Counted
<1>3. ASSUME NEW q \in Runners, NoteOf(i, q)'
      PROVE  /\ runner'[q].next + 1 <= 2 * NumAccounts
             /\ SentThrough(i, runner[q].next + 1)'
             /\ \A b \in 0..(2 * NumAccounts) : b > runner'[q].next => sends'[i][b] = 0
  BY <1>3, SentThroughSame DEF Counted
<1>4. i \in migrations' => \E n \in 0..(2 * NumAccounts) : SentThrough(i, n)'
  BY SentThroughSame DEF Counted
<1> QED BY <1>2, <1>3, <1>4 DEF Counted

\* The steps that send and note nothing.
LEMMA QuietCounted ==
  ASSUME DInv, NEW i \in Ids, Counted(i), NEW r \in Runners,
         \/ Prepare(r) \/ ReadProgress(r) \/ FinishDryRun(r) \/ FailRun(r)
         \/ \E j \in Ids, dryRun, skip \in BOOLEAN : StartRun(r, j, dryRun, skip)
  PROVE  Counted(i)'
<1>0. Typed
  BY DEF DInv
<1>1. UNCHANGED <<progress, migrations, sends, lost>>
  BY DEF Prepare, ReadBalance, ReadAllowance, Approve, ReadProgress, FinishDryRun, FailRun, StartRun,
    disk, chain, history
<1>2. /\ runner[r].pc # "note" /\ runner'[r].pc # "note"
      /\ \A q \in Runners \ {r} : runner'[q] = runner[q]
  <2>1. CASE Prepare(r)
    <3>1. /\ runner'[r].pc \in {"read allowance", "approve", "read progress"}
          /\ runner[r].pc \in {"read balance", "read allowance", "approve"}
      BY <1>0, <2>1, PrepareRunner
    <3> QED BY <1>0, <2>1, <3>1, PrepareRunner DEF Typed
  <2>2. CASE ReadProgress(r)
    <3>1. runner'[r].pc = "send" /\ runner[r].pc = "read progress"
      BY <1>0, <2>2, ReadProgressRunner DEF ActiveRunner
    <3> QED BY <1>0, <2>2, <3>1, ReadProgressRunner DEF Typed
  <2>3. CASE FinishDryRun(r) \/ FailRun(r)
    <3>1. runner[r].pc # "note"
      BY <2>3 DEF FinishDryRun, FailRun, Refused
    <3>2. runner' = [runner EXCEPT ![r] = IdleRunner]
      BY <1>0, <2>3, EndsRunner DEF Ends
    <3>3. runner'[r] = IdleRunner /\ \A q \in Runners \ {r} : runner'[q] = runner[q]
      BY <1>0, <3>2 DEF Typed
    <3> QED BY <3>1, <3>3, RunnerTypes
  <2>4. CASE \E j \in Ids, dryRun, skip \in BOOLEAN : StartRun(r, j, dryRun, skip)
    <3>1. PICK j \in Ids, dryRun \in BOOLEAN, skip \in BOOLEAN : StartRun(r, j, dryRun, skip)
      BY <2>4
    <3>2. runner[r].pc = "idle" /\ runner' = [runner EXCEPT ![r] = NewRun(j, dryRun)]
      BY <1>0, <3>1, StartRunRunner
    <3>3. NewRun(j, dryRun).pc = "read balance"
      BY DEF NewRun
    <3> QED BY <1>0, <3>2, <3>3 DEF Typed
  <2> QED BY <2>1, <2>2, <2>3, <2>4
<1>3. \A q \in Runners : NoteOf(i, q)' <=> NoteOf(i, q) /\ runner'[q] = runner[q]
  BY <1>2 DEF NoteOf, Writing
<1>4. \A q \in Runners : NoteOf(i, q) => q # r
  BY <1>2 DEF NoteOf
<1> QED BY <1>1, <1>2, <1>3, <1>4, CountedFrame

LEMMA CrashCounted ==
  ASSUME CInv, NEW i \in Ids, Counted(i), Undisturbed(i), NEW r \in Runners, Crash(r)
  PROVE  Counted(i)'
<1>0. Typed
  BY DEF CInv, DInv
<1>1. UNCHANGED <<progress, migrations, sends>>
      /\ lost' = IF runner[r].pc = "note" THEN [lost EXCEPT ![runner[r].id] = lost[runner[r].id] + 1]
                 ELSE lost
  BY DEF Crash, disk, chain
<1>2. runner'[r].pc = "idle" /\ \A q \in Runners \ {r} : runner'[q] = runner[q]
  <2>1. runner' = [runner EXCEPT ![r] = IdleRunner]
    BY <1>0, EndsRunner DEF Ends
  <2>2. runner'[r] = IdleRunner /\ \A q \in Runners \ {r} : runner'[q] = runner[q]
    BY <1>0, <2>1 DEF Typed
  <2> QED BY <2>2, RunnerTypes
<1>3. \A q \in Runners : NoteOf(i, q)' <=> NoteOf(i, q) /\ q # r
  BY <1>2 DEF NoteOf, Writing
<1>4. lost \in [Ids -> Nat]
  BY <1>0 DEF Typed
<1>5. CASE NoteOf(i, r)
  <2> DEFINE n == runner[r].next
  <2>1. Alone(i, r) /\ \A q \in Runners \ {r} : ~ Writing(q)
    BY <1>0, <1>5, OwnRun DEF NoteOf
  <2>2. i \notin migrations /\ n = progress[i] + 1
    BY <1>5, <2>1 DEF Alone, NoteOf
  <2>3. n + 1 <= 2 * NumAccounts /\ SentThrough(i, n + 1)
        /\ \A b \in 0..(2 * NumAccounts) : b > n => sends[i][b] = 0
    BY <1>5 DEF Counted
  <2>4. n \in Nat /\ NumAccounts \in Nat
    BY <1>0, <1>5, ActiveType, RewardsAssumption DEF NoteOf, ActiveRunner, RewardsAssumption
  <2>5. lost'[i] = lost[i] + 1 /\ lost[i] \in Nat
    BY <1>1, <1>4, <1>5 DEF NoteOf
  <2>6. Count(i) \in Nat /\ Count(i)' = Count(i)
    BY <1>1, CountNat DEF CInv, Count
  <2>7. SentThrough(i, progress[i] + 1)'
    <3>1. \A b \in 0..(2 * NumAccounts) : (b < n => sends[i][b] > 0) /\ (b > n => sends[i][b] = 0)
      BY <2>3, <2>4 DEF SentThrough
    <3>2. Count(i) <= n + 1 + lost[i]
      BY <2>3 DEF SentThrough
    <3>3. Count(i)' <= n + lost'[i]
      BY <2>4, <2>5, <2>6, <3>2
    <3>4. progress'[i] + 1 = n /\ sends'[i] = sends[i]
      BY <1>1, <2>2
    <3> QED BY <3>1, <3>3, <3>4 DEF SentThrough
  <2>8. \A q \in Runners : ~ NoteOf(i, q)'
    BY <1>3, <2>1 DEF NoteOf
  <2>9. i \notin migrations' /\ progress'[i] + 1 <= 2 * NumAccounts
    BY <1>1, <2>2, <2>3, <2>4
  <2> QED BY <2>7, <2>8, <2>9 DEF Counted
<1>6. CASE ~ NoteOf(i, r)
  <2>1. lost'[i] = lost[i]
    <3>1. runner[r].pc = "note" => runner[r].id # i
      BY <1>0, <1>6 DEF NoteOf, Writing, Typed
    <3> QED BY <1>1, <1>4, <3>1
  <2>2. \A q \in Runners : (NoteOf(i, q)' <=> NoteOf(i, q)) /\ (NoteOf(i, q) => runner'[q] = runner[q])
    BY <1>2, <1>3, <1>6
  <2> QED BY <1>1, <2>1, <2>2, CountedFrame
<1> QED BY <1>5, <1>6

LEMMA SendsTyped ==
  ASSUME Typed, sends \in [Ids -> [0..(2 * NumAccounts) -> Nat]], NEW r \in Runners, SendBatch(r)
  PROVE  sends' \in [Ids -> [0..(2 * NumAccounts) -> Nat]]
<1> DEFINE n == runner[r].next
           j == runner[r].id
<1>1. n < Batches(runner[r].data)
      /\ sends' = [sends EXCEPT ![j] = [sends[j] EXCEPT ![n] = sends[j][n] + 1]]
  BY DEF SendBatch, MoreBatches
<1>2. j \in Ids /\ n \in Nat /\ runner[r].data \in Distributions
  BY SendBatchRunner DEF ActiveRunner
<1>3. n + 1 <= 2 * NumAccounts /\ NumAccounts \in Nat /\ n \in 0..(2 * NumAccounts)
  BY <1>1, <1>2, BatchNumber, RewardsAssumption DEF RewardsAssumption
<1> HIDE DEF n, j
<1>4. sends[j] \in [0..(2 * NumAccounts) -> Nat]
  BY <1>2
<1>5. [sends[j] EXCEPT ![n] = sends[j][n] + 1] \in [0..(2 * NumAccounts) -> Nat]
  BY <1>3, <1>4
<1> QED BY <1>1, <1>5

LEMMA SendBatchCounted ==
  ASSUME CInv, NEW i \in Ids, Counted(i), Undisturbed(i), NEW r \in Runners, SendBatch(r)
  PROVE  Counted(i)'
<1>0. Typed /\ sends \in [Ids -> [0..(2 * NumAccounts) -> Nat]]
  BY DEF CInv, DInv
<1> DEFINE n == runner[r].next
           j == runner[r].id
<1>1. UNCHANGED <<progress, migrations, lost>> /\ n < Batches(runner[r].data)
      /\ sends' = [sends EXCEPT ![j] = [sends[j] EXCEPT ![n] = sends[j][n] + 1]]
  BY <1>0 DEF SendBatch, disk, history, MoreBatches
<1>2. runner[r] \in ActiveRunner /\ runner[r].pc = "send" /\ ~ runner[r].dryRun
      /\ runner'[r] = [runner[r] EXCEPT !.pc = "note"]
  BY <1>0, SendBatchRunner
<1>3. \A q \in Runners \ {r} : runner'[q] = runner[q]
  BY <1>0, SendBatchRunner DEF Typed
<1>4. /\ runner'[r].pc = "note" /\ runner'[r].id = j /\ runner'[r].dryRun = runner[r].dryRun
      /\ runner'[r].next = n
  BY <1>2 DEF ActiveRunner
<1>5. j \in Ids /\ n \in Nat /\ runner[r].data \in Distributions
  BY <1>2 DEF ActiveRunner
<1>6. n + 1 <= 2 * NumAccounts /\ NumAccounts \in Nat /\ n \in 0..(2 * NumAccounts)
  BY <1>1, <1>5, BatchNumber, RewardsAssumption DEF RewardsAssumption
<1>7. Writing(r) /\ ~ NoteOf(i, r) /\ (NoteOf(i, r)' <=> j = i)
      /\ \A q \in Runners \ {r} : NoteOf(i, q)' <=> NoteOf(i, q)
  BY <1>2, <1>3, <1>4 DEF NoteOf, Writing
<1> HIDE DEF n
<1>9. CASE j # i
  <2>1. sends'[i] = sends[i]
    BY <1>0, <1>1, <1>9
  <2>2. \A q \in Runners : (NoteOf(i, q)' <=> NoteOf(i, q)) /\ (NoteOf(i, q) => runner'[q] = runner[q])
    BY <1>3, <1>7, <1>9
  <2> QED BY <1>1, <2>1, <2>2, CountedFrame
<1>10. CASE j = i
  <2>1. Alone(i, r) /\ \A q \in Runners \ {r} : ~ Writing(q)
    BY <1>0, <1>7, <1>10, OwnRun
  <2>2. i \notin migrations /\ n = progress[i] + 1
    BY <1>2, <2>1 DEF Alone, n
  <2>3. SentThrough(i, n)
    <3>1. ~ InNote(i)
      BY <1>2, <2>1 DEF InNote
    <3> QED BY <2>2, <3>1 DEF Counted
  <2>4. sends[i] \in [0..(2 * NumAccounts) -> Nat]
        /\ sends'[i] = [sends[i] EXCEPT ![n] = sends[i][n] + 1]
    BY <1>0, <1>1, <1>10
  <2>5. Count(i)' = Count(i) + 1 /\ Count(i) \in Nat /\ lost'[i] = lost[i] /\ lost[i] \in Nat
    BY <1>0, <1>1, <1>5, <1>6, <2>4, CountSent, CountNat DEF Typed
  <2>6. \A b \in 0..(2 * NumAccounts) : (b < n + 1 => sends'[i][b] > 0) /\ (b > n => sends'[i][b] = 0)
    <3>1. sends'[i][n] = sends[i][n] + 1 /\ sends[i][n] \in Nat
          /\ \A b \in (0..(2 * NumAccounts)) \ {n} : sends'[i][b] = sends[i][b]
      BY <1>6, <2>4
    <3> QED BY <1>5, <2>3, <3>1 DEF SentThrough, n
  <2>7. SentThrough(i, n + 1)'
    <3>1. Count(i) <= n + lost[i]
      BY <2>3 DEF SentThrough
    <3>2. n \in Nat
      BY <1>5 DEF n
    <3>3. Count(i)' <= n + 1 + lost'[i]
      BY <2>5, <3>1, <3>2
    <3>4. \A b \in 0..(2 * NumAccounts) : b > n + 1 => sends'[i][b] = 0
      BY <2>6, <3>2
    <3>5. runner'[r].next = n
      BY <1>4
    <3> QED BY <2>6, <3>3, <3>4, <3>5 DEF SentThrough, n
  <2>8. \A q \in Runners : NoteOf(i, q)' => q = r
    BY <1>7, <2>1 DEF NoteOf
  <2>9. InNote(i)' /\ i \notin migrations'
    BY <1>1, <1>7, <1>10, <2>2 DEF InNote, NoteOf
  <2> QED BY <1>4, <1>6, <2>6, <2>7, <2>8, <2>9 DEF Counted, n
<1> QED BY <1>9, <1>10

LEMMA NoteBatchCounted ==
  ASSUME CInv, NEW i \in Ids, Counted(i), Undisturbed(i), NEW r \in Runners, NoteBatch(r)
  PROVE  Counted(i)'
<1>0. Typed
  BY DEF CInv, DInv
<1> DEFINE n == runner[r].next
           j == runner[r].id
           noted == [runner[r].progress EXCEPT ![j] = n]
<1>1. UNCHANGED <<migrations, lost, sends>>
  BY DEF NoteBatch, chain, history
<1>2. runner[r] \in ActiveRunner /\ runner[r].pc = "note" /\ ~ runner[r].dryRun /\ progress' = noted
      /\ runner'[r] = [runner[r] EXCEPT !.pc = "send", !.progress = noted, !.next = n + 1]
  BY <1>0, NoteBatchRunner
<1>3. \A q \in Runners \ {r} : runner'[q] = runner[q]
  <2>1. \E new : runner' = [runner EXCEPT ![r] = new]
    BY <1>0, NoteBatchRunner
  <2>2. runner \in [Runners -> RunnerType]
    BY <1>0 DEF Typed
  <2> QED BY <2>1, <2>2
<1>4. runner'[r].pc = "send"
  <2> HIDE DEF noted, n
  <2> QED BY <1>2 DEF ActiveRunner
<1>5. Writing(r) /\ ~ NoteOf(i, r)' /\ (NoteOf(i, r) <=> j = i)
      /\ \A q \in Runners \ {r} : NoteOf(i, q)' <=> NoteOf(i, q)
  BY <1>2, <1>3, <1>4 DEF NoteOf, Writing
<1>6. j \in Ids /\ n \in Nat /\ runner[r].progress \in [Ids -> Int]
  BY <1>2 DEF ActiveRunner
<1>7. CASE j # i
  <2>1. progress'[i] = progress[i]
    <3>1. runner[r].progress[i] = progress[i]
      BY <1>2, <1>5 DEF Undisturbed, UpToDate
    <3> QED BY <1>2, <1>6, <1>7, <3>1
  <2>2. \A q \in Runners : (NoteOf(i, q)' <=> NoteOf(i, q)) /\ (NoteOf(i, q) => runner'[q] = runner[q])
    BY <1>3, <1>5, <1>7
  <2> QED BY <1>1, <2>1, <2>2, CountedFrame
<1>8. CASE j = i
  <2>1. Alone(i, r) /\ \A q \in Runners \ {r} : ~ Writing(q)
    BY <1>0, <1>5, <1>8, OwnRun
  <2>2. i \notin migrations
    BY <1>2, <2>1 DEF Alone
  <2>3. SentThrough(i, n + 1) /\ n + 1 <= 2 * NumAccounts
    BY <1>5, <1>8 DEF Counted
  <2>4. progress'[i] = n
    BY <1>2, <1>6, <1>8
  <2>5. SentThrough(i, progress[i] + 1)'
    BY <1>1, <2>3, <2>4 DEF SentThrough, Count
  <2>6. \A q \in Runners : ~ NoteOf(i, q)'
    BY <1>5, <2>1 DEF NoteOf
  <2> QED BY <1>1, <2>2, <2>3, <2>4, <2>5, <2>6 DEF Counted
<1> QED BY <1>7, <1>8

LEMMA EndCounted ==
  ASSUME CInv, NEW i \in Ids, Counted(i), Undisturbed(i), NEW r \in Runners,
         SaveMigrations(r) \/ DeleteProgress(r)
  PROVE  Counted(i)'
<1>0. Typed
  BY DEF CInv, DInv
<1> DEFINE j == runner[r].id
<1>1. UNCHANGED <<lost, sends>>
  BY DEF SaveMigrations, DeleteProgress, chain, history
<1>2. runner[r].pc # "note" /\ runner[r].pc # "idle" /\ ~ runner[r].dryRun /\ runner'[r].pc # "note"
      /\ \A q \in Runners \ {r} : runner'[q] = runner[q]
  <2>1. CASE SaveMigrations(r)
    <3>1. runner'[r].pc = "clean up" /\ runner[r].pc = "send" /\ ~ runner[r].dryRun
      BY <1>0, <2>1, SaveMigrationsRunner DEF ActiveRunner
    <3> QED BY <1>0, <2>1, <3>1, SaveMigrationsRunner DEF Typed
  <2>2. CASE DeleteProgress(r)
    <3>1. runner'[r] = IdleRunner /\ runner[r].pc = "clean up" /\ ~ runner[r].dryRun
      BY <1>0, <2>2, DeleteProgressRunner
    <3>2. runner'[r].pc = "idle"
      BY <3>1, RunnerTypes
    <3> QED BY <1>0, <2>2, <3>1, <3>2, DeleteProgressRunner DEF Typed
  <2> QED BY <2>1, <2>2
<1>3. Writing(r) /\ \A q \in Runners : NoteOf(i, q)' <=> NoteOf(i, q) /\ runner'[q] = runner[q]
  BY <1>2 DEF NoteOf, Writing
<1>4. \A q \in Runners : NoteOf(i, q) => q # r
  BY <1>2 DEF NoteOf
<1>5. CASE j # i
  <2>1. progress'[i] = progress[i] /\ (i \in migrations' <=> i \in migrations)
    <3>1. CASE SaveMigrations(r)
      <4>1. i \in runner[r].migrations <=> i \in migrations
        BY <1>0, <1>3, <3>1, SaveMigrationsRunner DEF Undisturbed, UpToDate
      <4> QED BY <1>5, <3>1, <4>1 DEF SaveMigrations
    <3>2. CASE DeleteProgress(r)
      <4>1. runner[r].progress[i] = progress[i] /\ runner[r] \in ActiveRunner
            /\ progress' = [runner[r].progress EXCEPT ![j] = -1]
        BY <1>0, <1>3, <3>2, DeleteProgressRunner DEF Undisturbed, UpToDate
      <4>2. runner[r].progress \in [Ids -> Int]
        BY <4>1 DEF ActiveRunner
      <4> QED BY <1>5, <3>2, <4>1, <4>2 DEF DeleteProgress
    <3> QED BY <3>1, <3>2
  <2> QED BY <1>1, <1>2, <1>3, <1>4, <2>1, CountedFrame
<1>6. CASE j = i
  <2>1. Alone(i, r) /\ \A q \in Runners \ {r} : ~ Writing(q)
    BY <1>0, <1>3, <1>6, OwnRun
  <2>2. \A q \in Runners : ~ NoteOf(i, q) /\ ~ NoteOf(i, q)'
    BY <1>3, <1>4, <2>1 DEF NoteOf
  <2>3. \E n \in 0..(2 * NumAccounts) : SentThrough(i, n)
    <3>1. CASE SaveMigrations(r)
      <4>1. i \notin migrations
        BY <1>0, <2>1, <3>1, SaveMigrationsRunner DEF Alone
      <4>2. SentThrough(i, progress[i] + 1) /\ progress[i] + 1 <= 2 * NumAccounts
        BY <2>2, <4>1 DEF Counted, InNote, NoteOf
      <4>3. progress[i] + 1 \in Nat /\ NumAccounts \in Nat
        <5>1. progress \in [Ids -> Nat \union {-1}]
          BY <1>0 DEF Typed
        <5> QED BY <5>1, RewardsAssumption DEF RewardsAssumption
      <4> QED BY <4>2, <4>3
    <3>2. CASE DeleteProgress(r)
      <4>1. i \in migrations
        BY <1>0, <2>1, <3>2, DeleteProgressRunner DEF Alone
      <4> QED BY <4>1 DEF Counted
    <3> QED BY <3>1, <3>2
  <2>4. i \in migrations'
    <3>1. CASE SaveMigrations(r)
      BY <1>6, <3>1 DEF SaveMigrations
    <3>2. CASE DeleteProgress(r)
      BY <1>0, <2>1, <3>2, DeleteProgressRunner DEF Alone, DeleteProgress
    <3> QED BY <3>1, <3>2
  <2>5. \E n \in 0..(2 * NumAccounts) : SentThrough(i, n)'
    BY <1>1, <2>3, SentThroughSame
  <2> QED BY <2>2, <2>4, <2>5 DEF Counted
<1> QED BY <1>5, <1>6

LEMMA CInvInit == Init => CInv
<1> SUFFICES ASSUME Init PROVE CInv
  OBVIOUS
<1>1. NumAccounts \in Nat /\ 2 * NumAccounts \in Nat
  BY RewardsAssumption DEF RewardsAssumption
<1>2. sends \in [Ids -> [0..(2 * NumAccounts) -> Nat]]
  BY DEF Init
<1>3. ASSUME NEW i \in Ids PROVE Counted(i)
  <2>1. \A r \in Runners : ~ NoteOf(i, r)
    BY DEF Init, NoteOf, Writing, IdleRunner
  <2>2. progress[i] = -1 /\ i \notin migrations /\ lost[i] = 0
        /\ \A b \in 0..(2 * NumAccounts) : sends[i][b] = 0
    BY DEF Init
  <2>3. Count(i) = 0
    <3> DEFINE f == [b \in 1..(2 * NumAccounts) |-> sends[i][b - 1]]
    <3>1. f \in [1..(2 * NumAccounts) -> Int] /\ \A b \in 1..(2 * NumAccounts) : f[b] = 0
      BY <1>1, <2>2
    <3> HIDE DEF f
    <3>2. Total(f, 2 * NumAccounts) = 0
      BY <1>1, <3>1, TotalZero
    <3> QED BY <3>2 DEF f, Count
  <2>4. SentThrough(i, progress[i] + 1) /\ progress[i] + 1 <= 2 * NumAccounts
    BY <1>1, <2>2, <2>3 DEF SentThrough
  <2> QED BY <2>1, <2>2, <2>4 DEF Counted
<1> QED BY <1>2, <1>3, DInvInit DEF CInv

LEMMA CInvNext == CInv /\ [Next]_vars => CInv'
<1> SUFFICES ASSUME CInv, [Next]_vars PROVE CInv'
  OBVIOUS
<1>1. DInv /\ DInv'
  BY DInvNext DEF CInv
<1>2. CASE DataStep \/ UNCHANGED vars
  <2>1. UNCHANGED <<runner, migrations, progress, sends, lost, disturbed>>
    BY <1>2 DEF DataStep, vars, disk, chain, history, Tick, BeginSearch, SearchStep, SearchFails,
      ComputeTradingIncentives, GetTotalRebates, GetTotalRebatesDiff, Fund, SendResidualFundsBack
  <2>2. ASSUME NEW i \in Ids, ~ disturbed'[i] PROVE Counted(i)'
    <3>1. Counted(i)
      BY <2>1, <2>2 DEF CInv
    <3>2. \A q \in Runners : (NoteOf(i, q)' <=> NoteOf(i, q)) /\ runner'[q] = runner[q]
      BY <2>1 DEF NoteOf, Writing
    <3> QED BY <2>1, <3>1, <3>2, CountedFrame
  <2> QED BY <1>1, <2>1, <2>2 DEF CInv
<1>3. CASE \E r \in Runners, j \in Ids, dryRun, skip \in BOOLEAN : StartRun(r, j, dryRun, skip)
  <2>1. PICK r \in Runners : \E j \in Ids, dryRun, skip \in BOOLEAN : StartRun(r, j, dryRun, skip)
    BY <1>3
  <2>2. UNCHANGED sends /\ \A i \in Ids : disturbed[i] => disturbed'[i]
    BY <2>1 DEF StartRun, chain
  <2>3. ASSUME NEW i \in Ids, ~ disturbed'[i] PROVE Counted(i)'
    <3>1. Counted(i)
      BY <2>2, <2>3 DEF CInv
    <3> QED BY <1>1, <2>1, <3>1, QuietCounted
  <2> QED BY <1>1, <2>2, <2>3 DEF CInv
<1>4. CASE \E r \in Runners : RunStep(r) \/ Crash(r)
  <2>1. PICK r \in Runners : RunStep(r) \/ Crash(r)
    BY <1>4
  <2>2. UNCHANGED disturbed
    BY <2>1 DEF RunStep, history, ReadBalance, ReadAllowance, Approve, ReadProgress, SendBatch, NoteBatch, FinishDryRun,
      SaveMigrations, DeleteProgress, FailRun, Crash
  <2>3. ASSUME NEW i \in Ids, ~ disturbed'[i] PROVE Counted(i)'
    <3>1. Counted(i) /\ Undisturbed(i)
      BY <2>2, <2>3 DEF CInv, DInv
    <3> QED BY <1>1, <2>1, <3>1, QuietCounted, CrashCounted, SendBatchCounted, NoteBatchCounted,
          EndCounted DEF RunStep, Prepare
  <2>4. sends' \in [Ids -> [0..(2 * NumAccounts) -> Nat]]
    <3>1. CASE SendBatch(r)
      <4>1. sends' = [sends EXCEPT ![runner[r].id][runner[r].next] = @ + 1] /\ runner[r].pc # "idle"
        BY <3>1 DEF SendBatch
      <4> QED BY <1>1, <3>1, <4>1, SendsTyped DEF DInv, CInv
    <3>2. CASE ~ SendBatch(r)
      <4>1. UNCHANGED sends
        BY <2>1, <3>2 DEF RunStep, chain, ReadBalance, ReadAllowance, Approve, ReadProgress, NoteBatch, FinishDryRun,
          SaveMigrations, DeleteProgress, FailRun, Crash
      <4> QED BY <4>1 DEF CInv
    <3> QED BY <3>1, <3>2
  <2> QED BY <1>1, <2>3, <2>4 DEF CInv
<1> QED BY <1>2, <1>3, <1>4 DEF Next, DataStep

\* However often and wherever runs die, each death makes one batch go out twice at
\* most, and the batches go out in order.
THEOREM LossesCostOneBatch == Spec => []EachLossCostsOneBatch
<1>1. CInv => EachLossCostsOneBatch
  <2> SUFFICES ASSUME CInv, NEW i \in Ids, ~ disturbed[i]
               PROVE  /\ Count(i) <= Cardinality(BatchesSent(i)) + lost[i]
                      /\ \A b \in BatchesSent(i) : b = 0 \/ sends[i][b - 1] > 0
    BY DEF EachLossCostsOneBatch, Count
  <2> DEFINE M == 2 * NumAccounts
  <2>1. Counted(i) /\ sends[i] \in [0..M -> Nat] /\ Typed /\ M \in Nat
    BY RewardsAssumption DEF CInv, DInv, RewardsAssumption
  <2>2. PICK n \in 0..M : SentThrough(i, n)
    <3>1. CASE i \in migrations
      BY <2>1, <3>1 DEF Counted
    <3>2. CASE InNote(i)
      <4>1. PICK r \in Runners : NoteOf(i, r)
        BY <3>2 DEF InNote, NoteOf
      <4>2. runner[r].next \in Nat
        BY <2>1, <4>1, ActiveType DEF NoteOf, ActiveRunner
      <4> QED BY <2>1, <4>1, <4>2 DEF Counted
    <3>3. CASE i \notin migrations /\ ~ InNote(i)
      <4>1. progress[i] + 1 \in Nat
        <5>1. progress \in [Ids -> Nat \union {-1}]
          BY <2>1 DEF Typed
        <5> QED BY <5>1
      <4> QED BY <2>1, <3>3, <4>1 DEF Counted
    <3> QED BY <3>1, <3>2, <3>3
  <2>3. \A b \in 0..M : (b < n => sends[i][b] > 0) /\ (b > n => sends[i][b] = 0)
    BY <2>2 DEF SentThrough
  <2>4. ASSUME NEW b \in BatchesSent(i) PROVE b = 0 \/ sends[i][b - 1] > 0
    <3>1. b \in 0..M /\ sends[i][b] > 0
      BY <2>1 DEF BatchesSent
    <3> HIDE DEF M
    <3> QED BY <2>1, <2>3, <3>1
  <2>5. 0..(n - 1) \subseteq BatchesSent(i) /\ BatchesSent(i) \subseteq 0..M
    <3>1. \A b \in 0..(n - 1) : b \in 0..M /\ sends[i][b] > 0
      <4> HIDE DEF M
      <4> QED BY <2>1, <2>3
    <3> QED BY <2>1, <3>1 DEF BatchesSent
  <2>6. n <= Cardinality(BatchesSent(i)) /\ Cardinality(BatchesSent(i)) \in Nat
    <3> DEFINE A == 0..(n - 1)
               B == BatchesSent(i)
    <3>1. IsFiniteSet(0..M)
      BY <2>1, FS_Interval
    <3>2. IsFiniteSet(B)
      BY <2>5, <3>1, FS_Subset
    <3>3. Cardinality(A) = n
      <4>1. Cardinality(A) = IF 0 > n - 1 THEN 0 ELSE n - 1 - 0 + 1
        BY <2>1, FS_Interval
      <4> QED BY <2>1, <4>1
    <3>4. Cardinality(A) <= Cardinality(B)
      BY <2>5, <3>2, FS_Subset
    <3>5. Cardinality(B) \in Nat
      BY <3>2, FS_CardinalityType
    <3> QED BY <3>3, <3>4, <3>5
  <2>7. Count(i) <= Cardinality(BatchesSent(i)) + lost[i]
    <3>1. Count(i) <= n + lost[i]
      BY <2>2 DEF SentThrough
    <3>2. Count(i) \in Nat /\ lost[i] \in Nat
      BY <2>1, CountNat DEF Typed
    <3> QED BY <2>1, <2>6, <3>1, <3>2
  <2> QED BY <2>4, <2>7
<1> QED BY <1>1, CInvInit, CInvNext, PTL DEF Spec

(***************************************************************************)
(* Amounts, and the search for the end of the epoch.                       *)
(***************************************************************************)
\* What TypeOK says beyond Typed, with the allowance that covers what is sent.
Ranges ==
  /\ \/ search = NoSearch
     \/ search \in [for : {"lp", "migration"}, timestamp : Int, block : Int]
  /\ balance \in 0..MaxBalance /\ allowance \in Nat
  /\ \A r \in Runners : runner[r].pc = "note" => runner[r].next < Batches(runner[r].data)
  /\ DOMAIN sends = Ids

LEMMA GuessInt ==
  ASSUME NEW b \in DOMAIN BlockTime, NEW t \in Int
  PROVE  guessBlockNumberByTimestamp(b, t) \in Int
<1>1. b \in Int /\ BlockTime[b] \in Int
  BY BlocksAssumption DEF BlocksAssumption
<1>2. BlocksPerPeriod \in Int /\ SecondsPerPeriod \in Nat /\ SecondsPerPeriod > 0
  BY BlocksAssumption DEF BlocksAssumption
<1> DEFINE far == (BlockTime[b] - t) * BlocksPerPeriod
<1>3. far \in Int
  BY <1>1, <1>2
<1> HIDE DEF far
<1>4. far \div SecondsPerPeriod \in Int
  BY <1>2, <1>3, DivInt
<1> QED BY <1>1, <1>4 DEF guessBlockNumberByTimestamp, far

\* A guess is the block itself just when its timestamp is the one searched for.
LEMMA GuessIsExact ==
  ASSUME NEW b \in DOMAIN BlockTime, NEW t \in Int, guessBlockNumberByTimestamp(b, t) = b
  PROVE  BlockTime[b] = t
<1> DEFINE x == BlockTime[b] - t
           P == BlocksPerPeriod
           S == SecondsPerPeriod
           N == x * P
<1>1. b \in Int /\ x \in Int /\ P \in Nat /\ S \in Nat /\ S > 0 /\ P >= S
  BY BlocksAssumption DEF BlocksAssumption
<1>2. b - (N \div S) = b
  BY DEF guessBlockNumberByTimestamp
<1> HIDE DEF x, P, S
<1>3. N \in Int
  BY <1>1
<1> HIDE DEF N
<1>4. N \div S \in Int /\ S * (N \div S) <= N /\ N < S * (N \div S) + S
  BY <1>1, <1>3, DivInt
<1>5. N \div S = 0
  BY <1>1, <1>2, <1>4
<1>6. 0 <= N /\ N < S
  BY <1>1, <1>3, <1>4, <1>5
<1>7. CASE x >= 1
  <2>1. 1 * P <= x * P
    BY <1>1, <1>7, TimesMonotone
  <2> QED BY <1>1, <1>3, <1>6, <2>1 DEF N
<1>8. CASE x <= -1
  <2>1. 1 * P <= (- x) * P
    BY <1>1, <1>8, TimesMonotone
  <2>2. (- x) * P = - N
    BY <1>1 DEF N
  <2> QED BY <1>1, <1>3, <1>6, <2>1, <2>2
<1>9. CASE x = 0
  <2>1. BlockTime[b] \in Int
    BY BlocksAssumption DEF BlocksAssumption
  <2> QED BY <1>9, <2>1 DEF x
<1> QED BY <1>1, <1>7, <1>8, <1>9

LEMMA RangesInit == Init => Ranges
<1>1. 0 \in 0..MaxBalance
  BY DistributionAssumption DEF DistributionAssumption
<1> QED BY <1>1 DEF Init, Ranges, IdleRunner

LEMMA DataStepRanges ==
  ASSUME Typed, Ranges, DataStep
  PROVE  Ranges'
<1> USE DEF disk, chain
<1>1. CASE Tick
  BY <1>1 DEF Tick, Ranges
<1>2. CASE \E kind \in {"lp", "migration"} : BeginSearch(kind)
  <2>1. PICK kind \in {"lp", "migration"} : BeginSearch(kind)
    BY <1>2
  <2>2. Len(BlockTime) \in DOMAIN BlockTime /\ ToTimestamp[time] \in Int
    <3>1. BlockTime \in Seq(Nat) /\ Len(BlockTime) > 0
      BY BlocksAssumption DEF BlocksAssumption
    <3>2. Len(BlockTime) \in DOMAIN BlockTime
      BY <3>1
    <3>3. ToTimestamp \in [Times -> Nat] /\ time \in Times
      BY BlocksAssumption DEF BlocksAssumption, Typed
    <3> QED BY <3>2, <3>3
  <2>3. search' \in [for : {"lp", "migration"}, timestamp : Int, block : Int]
    BY <2>1, <2>2, GuessInt DEF BeginSearch
  <2> QED BY <2>1, <2>3 DEF BeginSearch, Ranges
<1>3. CASE SearchStep
  <2>1. search # NoSearch /\ search.block \in DOMAIN BlockTime
        /\ UNCHANGED <<totals, runner, balance, allowance, sends>>
    BY <1>3 DEF SearchStep
  <2>2. search \in [for : {"lp", "migration"}, timestamp : Int, block : Int]
    BY <2>1 DEF Ranges
  <2>3. guessBlockNumberByTimestamp(search.block, search.timestamp) \in Int
    BY <2>1, <2>2, GuessInt
  <2>4. \/ search' = NoSearch
        \/ search' = [search EXCEPT !.block
                        = guessBlockNumberByTimestamp(search.block, search.timestamp)]
    BY <1>3 DEF SearchStep
  <2> HIDE DEF guessBlockNumberByTimestamp
  <2> QED BY <2>1, <2>2, <2>3, <2>4 DEF Ranges
<1>4. CASE SearchFails
  BY <1>4 DEF SearchFails, Ranges
<1>5. CASE ComputeTradingIncentives \/ GetTotalRebatesDiff
  BY <1>5 DEF ComputeTradingIncentives, GetTotalRebatesDiff, Ranges
<1>6. CASE \E name \in {"old", "new"} : GetTotalRebates(name)
  BY <1>6 DEF GetTotalRebates, Ranges
<1>7. CASE Fund \/ SendResidualFundsBack
  BY <1>7, DistributionAssumption DEF Fund, SendResidualFundsBack, Ranges, DistributionAssumption
<1> QED BY <1>1, <1>2, <1>3, <1>4, <1>5, <1>6, <1>7 DEF DataStep

\* A run that does not send leaves the sender's accounts alone.
LEMMA RunRanges ==
  ASSUME Typed, Ranges, NEW r \in Runners, \A q \in Runners \ {r} : runner'[q] = runner[q],
         runner'[r].pc # "note", UNCHANGED <<search, balance, sends>>, allowance' \in Nat
  PROVE  Ranges'
<1>1. \A q \in Runners : runner'[q].pc = "note" => runner'[q] = runner[q]
  OBVIOUS
<1>2. \A q \in Runners : runner'[q].pc = "note" => runner'[q].next < Batches(runner'[q].data)
  BY <1>1 DEF Ranges
<1> QED BY <1>2 DEF Ranges

LEMMA SendBatchRanges ==
  ASSUME Typed, Ranges, NEW r \in Runners, SendBatch(r)
  PROVE  Ranges'
<1> DEFINE batch == Batch(runner[r].data, runner[r].next)
           amount == AmountOf(batch)
<1>1. /\ runner[r].data \in Distributions /\ runner[r].next \in Nat
      /\ runner[r].next < Batches(runner[r].data)
  BY SendBatchRunner DEF SendBatch, MoreBatches, ActiveRunner
<1>2. batch \in Distributions
  BY <1>1, BatchReceived
<1>3. amount \in Nat
  BY <1>2, AmountNat
<1>4. /\ amount <= balance /\ amount <= allowance
      /\ balance' = balance - amount /\ allowance' = allowance - amount
      /\ DOMAIN sends' = DOMAIN sends
      /\ UNCHANGED <<totals, search>>
  BY DEF SendBatch, disk
<1> HIDE DEF amount
<1>5. balance' \in 0..MaxBalance /\ allowance' \in Nat
  BY <1>3, <1>4, DistributionAssumption DEF Ranges, DistributionAssumption
<1>6. ASSUME NEW q \in Runners, runner'[q].pc = "note"
      PROVE  runner'[q].next < Batches(runner'[q].data)
  <2>1. CASE q = r
    <3>1. runner'[r].next = runner[r].next /\ runner'[r].data = runner[r].data
      BY SendBatchRunner DEF ActiveRunner
    <3> QED BY <1>1, <2>1, <3>1
  <2>2. CASE q # r
    BY <1>6, <2>2, SendBatchRunner DEF Ranges, Typed
  <2> QED BY <2>1, <2>2
<1> QED BY <1>4, <1>5, <1>6 DEF Ranges

LEMMA RunStepRanges ==
  ASSUME Typed, Ranges, NEW r \in Runners, RunStep(r) \/ Crash(r)
  PROVE  Ranges'
<1> USE DEF disk, chain
<1>1. \A new : runner' = [runner EXCEPT ![r] = new]
               => runner'[r] = new /\ \A q \in Runners \ {r} : runner'[q] = runner[q]
  BY DEF Typed
<1>2. CASE Prepare(r)
  <2>1. runner[r].data \in Distributions
    BY <1>2, PrepareRunner DEF ActiveRunner
  <2>2. allowance' \in Nat
    BY <1>2, <2>1, AmountNat DEF Prepare, ReadBalance, ReadAllowance, Approve, Ranges
  <2>3. runner'[r].pc # "note"
    BY <1>2, PrepareRunner DEF ActiveRunner
  <2>4. UNCHANGED <<search, balance, sends>>
    BY <1>2 DEF Prepare, ReadBalance, ReadAllowance, Approve
  <2> QED BY <1>1, <1>2, <2>2, <2>3, <2>4, PrepareRunner, RunRanges
<1>3. CASE ReadProgress(r)
  <2>1. runner'[r].pc # "note"
    BY <1>3, ReadProgressRunner DEF ActiveRunner
  <2>2. UNCHANGED <<search, balance, sends, allowance>>
    BY <1>3 DEF ReadProgress
  <2> QED BY <1>1, <1>3, <2>1, <2>2, ReadProgressRunner, RunRanges DEF Ranges
<1>4. CASE SendBatch(r)
  BY <1>4, SendBatchRanges
<1>5. CASE NoteBatch(r)
  <2>1. runner'[r].pc # "note"
    BY <1>5, NoteBatchRunner DEF ActiveRunner
  <2>2. UNCHANGED <<search, balance, sends, allowance>>
    BY <1>5 DEF NoteBatch
  <2> QED BY <1>1, <1>5, <2>1, <2>2, NoteBatchRunner, RunRanges DEF Ranges
<1>6. CASE SaveMigrations(r)
  <2>1. runner'[r].pc # "note"
    BY <1>6, SaveMigrationsRunner DEF ActiveRunner
  <2>2. UNCHANGED <<search, balance, sends, allowance>>
    BY <1>6 DEF SaveMigrations
  <2> QED BY <1>1, <1>6, <2>1, <2>2, SaveMigrationsRunner, RunRanges DEF Ranges
<1>7. CASE DeleteProgress(r)
  <2>1. UNCHANGED <<search, balance, sends, allowance>>
    BY <1>7 DEF DeleteProgress
  <2>2. runner' = [runner EXCEPT ![r] = IdleRunner]
    BY <1>7, DeleteProgressRunner
  <2>3. runner'[r].pc # "note" /\ \A q \in Runners \ {r} : runner'[q] = runner[q]
    BY <1>1, <2>2, RunnerTypes
  <2> QED BY <2>1, <2>3, RunRanges DEF Ranges
<1>8. CASE FinishDryRun(r) \/ FailRun(r) \/ Crash(r)
  <2>1. UNCHANGED <<search, balance, sends, allowance>>
    BY <1>8 DEF FinishDryRun, FailRun, Crash
  <2>2. runner' = [runner EXCEPT ![r] = IdleRunner]
    BY <1>8, EndsRunner DEF Ends
  <2>3. runner'[r].pc # "note" /\ \A q \in Runners \ {r} : runner'[q] = runner[q]
    BY <1>1, <2>2, RunnerTypes
  <2> QED BY <2>1, <2>3, RunRanges DEF Ranges
<1> QED BY <1>2, <1>3, <1>4, <1>5, <1>6, <1>7, <1>8 DEF RunStep, Prepare

LEMMA RangesNext == Typed /\ Ranges /\ [Next]_vars => Ranges'
<1> SUFFICES ASSUME Typed, Ranges, [Next]_vars PROVE Ranges'
  OBVIOUS
<1>1. CASE \E r \in Runners, i \in Ids, dryRun, skip \in BOOLEAN : StartRun(r, i, dryRun, skip)
  <2>1. PICK r \in Runners, i \in Ids, dryRun \in BOOLEAN, skip \in BOOLEAN :
          StartRun(r, i, dryRun, skip)
    BY <1>1
  <2>2. runner' = [runner EXCEPT ![r] = NewRun(i, dryRun)] /\ runner'[r] = NewRun(i, dryRun)
    BY <2>1, StartRunRunner
  <2>4. \A q \in Runners \ {r} : runner'[q] = runner[q]
    BY <2>2 DEF Typed
  <2>5. runner'[r].pc # "note"
    <3>1. NewRun(i, dryRun).pc = "read balance"
      BY DEF NewRun
    <3> QED BY <2>2, <3>1
  <2>3. UNCHANGED <<search, balance, sends, allowance>>
    BY <2>1 DEF StartRun, disk, chain
  <2> QED BY <2>3, <2>4, <2>5, RunRanges DEF Ranges
<1>2. CASE UNCHANGED vars
  BY <1>2 DEF vars, disk, chain, Ranges
<1> QED BY <1>1, <1>2, DataStepRanges, RunStepRanges DEF Next, DataStep

\* Files, notes and funds have their types, and no balance or allowance is
\* overdrawn: a run sends and notes no batch that its file does not have.
THEOREM DistributionTyped == Spec => []TypeOK
<1>1. Typed /\ Ranges => TypeOK
  <2> SUFFICES ASSUME Typed, Ranges PROVE TypeOK
    OBVIOUS
  <2>1. \A i \in Ids : files[i] = NoFile \/ files[i] \in Distributions
    BY DEF Typed
  <2>2. search \in [for : {"lp", "migration", "nobody"}, timestamp : Int, block : Int]
    BY DEF Ranges, NoSearch
  <2>3. progress \in [Ids -> Int] /\ \A i \in Ids : progress[i] >= -1
    <3>1. progress \in [Ids -> Nat \union {-1}]
      BY DEF Typed
    <3> QED BY <3>1
  <2>4. \A r \in Runners : runner[r] \in RunnerType
    BY DEF Typed
  <2> QED BY <2>1, <2>2, <2>3, <2>4 DEF TypeOK, Typed, Ranges
<1> QED BY <1>1, TypedInit, TypedNext, RangesInit, RangesNext, PTL DEF Spec

\* However the timestamps of the blocks are spread, the search for the end of an
\* epoch ends at a block with exactly this timestamp or not at all.
THEOREM SearchIsExact == Spec => SearchFindsTheExactBlock
<1>1. Typed /\ Ranges /\ [Next]_vars
      => [search # NoSearch /\ files'[search.for] # files[search.for]
          => /\ search.block \in DOMAIN BlockTime
             /\ BlockTime[search.block] = search.timestamp]_vars
  <2> SUFFICES ASSUME Typed, Ranges, Next,
                      search # NoSearch, files'[search.for] # files[search.for]
               PROVE  /\ search.block \in DOMAIN BlockTime
                      /\ BlockTime[search.block] = search.timestamp
    OBVIOUS
  <2>1. search \in [for : {"lp", "migration"}, timestamp : Int, block : Int]
    BY DEF Ranges
  <2>2. CASE SearchStep
    <3>1. search.block \in DOMAIN BlockTime
          /\ guessBlockNumberByTimestamp(search.block, search.timestamp) = search.block
      BY <2>2 DEF SearchStep
    <3> QED BY <2>1, <3>1, GuessIsExact
  <2>3. CASE ComputeTradingIncentives
    BY <2>1, <2>3 DEF ComputeTradingIncentives, saveDistribution
  <2>4. CASE GetTotalRebatesDiff
    BY <2>1, <2>4 DEF GetTotalRebatesDiff
  <2>5. CASE ~ SearchStep /\ ~ ComputeTradingIncentives /\ ~ GetTotalRebatesDiff
    <3>1. files' = files
      BY <2>5 DEF Next, disk, Tick, BeginSearch, SearchFails, GetTotalRebates, StartRun, RunStep,
        ReadBalance, ReadAllowance, Approve, ReadProgress, SendBatch, NoteBatch, FinishDryRun, SaveMigrations,
        DeleteProgress, FailRun, Crash, Fund, SendResidualFundsBack
    <3> QED BY <3>1
  <2> QED BY <2>2, <2>3, <2>4, <2>5
<1> QED BY <1>1, TypedInit, TypedNext, RangesInit, RangesNext, PTL
        DEF Spec, SearchFindsTheExactBlock

(***************************************************************************)
(* The computation: what is computed is never more than what was           *)
(* allocated, whatever the subgraph answers and however many accounts      *)
(* there are.                                                              *)
(***************************************************************************)
USE RewardsAssumption DEF RewardsAssumption, Accounts, Markets

\* The rewards of a market, each rounded down, never exceed what is given to the
\* market: the check of stipLpIncentives.ts that stops the script if they do
\* cannot fail.
THEOREM LpRewardsWithinMarket ==
  ASSUME NEW lp \in LpAnswer, NEW m \in Markets
  PROVE  Total([a \in Accounts |-> UserRewards(lp, m, a)], NumAccounts) <= lp.rewardsPerMarket[m]
<1> DEFINE balances == [a \in Accounts |-> UserBalance(lp, m, a)]
           sum == UserBalancesSum(lp, m)
           r == lp.rewardsPerMarket[m]
           rewards == [a \in Accounts |-> UserRewards(lp, m, a)]
<1>1. balances \in [Accounts -> Nat]
  <2>1. \A a \in Accounts : lp.weighted[m][a] \in Nat \union {NoStat} /\ lp.balance[m][a] \in Nat \union {NoStat}
    BY DEF LpAnswer
  <2> QED BY <2>1 DEF UserBalance
<1>2. sum \in Nat
  BY <1>1, TotalNat DEF UserBalancesSum
<1>3. r \in Nat
  BY DEF LpAnswer
<1>4. CASE sum = 0
  <2>1. \A a \in Accounts : rewards[a] = 0
    BY <1>4 DEF UserRewards
  <2>2. rewards \in [1..NumAccounts -> Int]
    BY <2>1
  <2>3. Total(rewards, NumAccounts) = 0
    BY <2>1, <2>2, TotalZero
  <2> QED BY <1>3, <2>3
<1>5. CASE sum > 0
  <2>1. rewards = [a \in 1..NumAccounts |-> (balances[a] * r) \div sum]
    BY <1>5 DEF UserRewards
  <2>2. rewards \in [1..NumAccounts -> Int]
    <3>1. \A a \in Accounts : balances[a] * r \in Nat
      BY <1>1, <1>3, TimesNat
    <3> QED BY <1>2, <1>5, <2>1, <3>1, DivInt
  <2>3. Total(rewards, NumAccounts) \in Int
    BY <2>2, TotalInt
  <2>4. sum * Total(rewards, NumAccounts) <= r * sum
    <3> HIDE DEF balances, r, rewards
    <3>1. sum = Total(balances, NumAccounts)
      BY DEF UserBalancesSum, balances
    <3>2. sum * Total([a \in 1..NumAccounts |-> (balances[a] * r) \div sum], NumAccounts)
            <= r * Total(balances, NumAccounts)
      <4> HIDE DEF sum
      <4> QED BY <1>1, <1>2, <1>3, <1>5, TotalOfShares
    <3> QED BY <2>1, <3>1, <3>2
  <2>5. r * sum = sum * r
    BY <1>2, <1>3
  <2> HIDE DEF sum, r, rewards
  <2>6. Total(rewards, NumAccounts) <= r
    BY <1>2, <1>3, <1>5, <2>3, <2>4, <2>5, TimesCancel
  <2> QED BY <2>6 DEF rewards, r
<1> QED BY <1>2, <1>4, <1>5

\* The rebates for trading, each rounded down, never exceed the allocation: the
\* percentage is reduced when they would, and it is rounded down too.
THEOREM RebatesWithinAllocation ==
  ASSUME NEW fees \in [Accounts -> Nat], NEW percent \in Nat, NEW allocation \in Nat
  PROVE  Total(TradingRebates(fees, percent, allocation), NumAccounts) <= allocation
<1> DEFINE F == Total(fees, NumAccounts)
           B == BASIS_POINTS_DIVISOR
           U == UsedAllocation(fees, percent)
           adjusted == AdjustedRebatePercent(fees, percent, allocation)
           rebates == TradingRebates(fees, percent, allocation)
           T == Total(rebates, NumAccounts)
<1>1. F \in Nat
  BY TotalNat
<1>2. B \in Nat /\ B > 0
  OBVIOUS
<1>3. U = (F * percent) \div B
  BY DEF UsedAllocation
<1>4. F * percent \in Nat
  <2> HIDE DEF F
  <2> QED BY <1>1, TimesNat
<1>5. U \in Nat /\ B * U <= F * percent /\ F * percent < B * U + B
  <2> DEFINE N == F * percent
  <2>1. N \in Nat /\ N \in Int /\ U = N \div B
    BY <1>3, <1>4
  <2> HIDE DEF N, F, B, U
  <2>2. N \div B \in Nat
    BY <1>2, <2>1, DivNat
  <2>3. B * (N \div B) <= N /\ N < B * (N \div B) + B
    BY <1>2, <2>1, DivInt
  <2>4. U \in Nat /\ B * U <= N /\ N < B * U + B
    BY <2>1, <2>2, <2>3
  <2> QED BY <2>4 DEF N
<1>6. percent * allocation \in Nat
  BY TimesNat
<1>7. adjusted \in Nat
  BY AdjustedNat
<1>8. rebates = [a \in 1..NumAccounts |-> (fees[a] * adjusted) \div B]
  BY DEF TradingRebates
<1>9. T \in Nat
  <2>1. \A a \in Accounts : (fees[a] * adjusted) \div B \in Nat
    <3> HIDE DEF adjusted, B
    <3> QED BY <1>2, <1>7, TimesNat, DivNat
  <2>2. rebates \in [1..NumAccounts -> Nat]
    BY <1>8, <2>1
  <2> HIDE DEF rebates
  <2> QED BY <2>2, TotalNat
<1>10. B * T <= adjusted * F
  <2> HIDE DEF adjusted, rebates, B
  <2>1. B * Total([a \in 1..NumAccounts |-> (fees[a] * adjusted) \div B], NumAccounts)
          <= adjusted * Total(fees, NumAccounts)
    BY <1>2, <1>7, TotalOfShares
  <2> QED BY <1>8, <2>1
<1>11. CASE U <= allocation
  <2>1. adjusted = percent
    BY <1>5, <1>11 DEF AdjustedRebatePercent
  <2> HIDE DEF F, B, U, T, adjusted
  <2>2. adjusted * F = F * percent
    BY <1>1, <2>1
  <2>3. T <= U
    BY <1>2, <1>3, <1>4, <1>9, <1>10, <2>2, DivAtLeast
  <2> QED BY <1>5, <1>9, <1>11, <2>3 DEF T
<1>12. CASE U > allocation
  <2>1. adjusted = (percent * allocation) \div U
    BY <1>12 DEF AdjustedRebatePercent
  <2> HIDE DEF F, B, U, T, adjusted
  <2>2. U * adjusted <= percent * allocation
    BY <1>5, <1>6, <1>12, <2>1, DivInt
  <2>3. SUFFICES ASSUME allocation + 1 <= T PROVE FALSE
    BY <1>9 DEF T
  \* Both sides of <1>10 times U.
  <2>4. (B * T) * U <= (percent * allocation) * F
    <3>1. (B * T) * U <= (adjusted * F) * U
      BY <1>1, <1>2, <1>5, <1>7, <1>9, <1>10, TimesNat, TimesMonotone
    <3>2. (adjusted * F) * U = (U * adjusted) * F
      BY <1>1, <1>5, <1>7
    <3>3. (U * adjusted) * F <= (percent * allocation) * F
      BY <1>1, <1>5, <1>6, <1>7, <2>2, TimesNat, TimesMonotone
    <3>4. /\ (B * T) * U \in Int /\ (adjusted * F) * U \in Int
          /\ (percent * allocation) * F \in Int
      BY <1>1, <1>2, <1>5, <1>6, <1>7, <1>9
    <3> QED BY <3>1, <3>2, <3>3, <3>4
  <2>5. (percent * allocation) * F <= allocation * (B * U) + allocation * B
    <3>1. (F * percent) * allocation <= (B * U + B) * allocation
      BY <1>2, <1>4, <1>5, TimesNat, TimesMonotone
    <3>2. (F * percent) * allocation = (percent * allocation) * F
      BY <1>1
    <3>3. (B * U + B) * allocation = allocation * (B * U) + allocation * B
      BY <1>2, <1>5
    <3> QED BY <3>1, <3>2, <3>3
  <2>6. (B * U) * allocation + B * U <= (B * T) * U
    <3>1. (allocation + 1) * (B * U) <= T * (B * U)
      BY <1>2, <1>5, <1>9, <2>3, TimesNat, TimesMonotone
    <3>2. (allocation + 1) * (B * U) = (B * U) * allocation + B * U
      BY <1>2, <1>5
    <3>3. T * (B * U) = (B * T) * U
      BY <1>2, <1>5, <1>9
    <3> QED BY <3>1, <3>2, <3>3
  <2>7. allocation * B + B <= B * U
    <3>1. (allocation + 1) * B <= U * B
      BY <1>2, <1>5, <1>12, TimesMonotone
    <3>2. (allocation + 1) * B = allocation * B + B /\ U * B = B * U
      BY <1>2, <1>5
    <3> QED BY <3>1, <3>2
  <2> DEFINE P == B * U
             Q == allocation * B
             R == (B * T) * U
             V == (B * U) * allocation
  <2>8. P \in Int /\ Q \in Int /\ R \in Int /\ V \in Int
    BY <1>2, <1>5, <1>9
  <2>9. allocation * (B * U) = V
    BY <1>2, <1>5
  <2>10. R <= V + Q
    <3>1. (percent * allocation) * F \in Int
      BY <1>1, <1>6
    <3> DEFINE W == (percent * allocation) * F
    <3>2. R <= W /\ W <= V + Q /\ W \in Int
      BY <2>4, <2>5, <2>9, <3>1
    <3> HIDE DEF P, Q, R, V, W
    <3> QED BY <2>8, <3>2
  <2>11. V + P <= R /\ Q + B <= P
    BY <2>6, <2>7
  <2> HIDE DEF P, Q, R, V
  <2> QED BY <1>2, <2>8, <2>10, <2>11
<1> QED BY <1>5, <1>11, <1>12

HIDE DEF RewardsAssumption, Accounts, Markets

\* Those above the threshold are entitled to part of the rewards.
LEMMA EntitledWithin ==
  ASSUME NEW rewards \in [Accounts -> Nat]
  PROVE  /\ Total(Entitled(rewards), NumAccounts) \in Nat
         /\ Total(rewards, NumAccounts) \in Nat
         /\ Total(Entitled(rewards), NumAccounts) <= Total(rewards, NumAccounts)
<1>1. /\ Entitled(rewards) \in [1..NumAccounts -> Nat] /\ rewards \in [1..NumAccounts -> Nat]
      /\ \A a \in 1..NumAccounts : Entitled(rewards)[a] <= rewards[a]
  BY RewardsConstants DEF Entitled
<1>2. Entitled(rewards) \in [1..NumAccounts -> Int] /\ rewards \in [1..NumAccounts -> Int]
  BY <1>1
<1> QED BY <1>1, <1>2, RewardsConstants, TotalNat, TotalMonotone

\* What file d of a kind is computed from.
Computed(kind, d, answer) ==
  \/ kind = "lp" /\ LpSucceeds(answer) /\ d = LpDistribution(answer)
  \/ kind = "trading" /\ TradingSucceeds(answer) /\ d = TradingDistribution(answer)
  \/ kind = "migration" /\ GlpSucceeds(answer) /\ d = GlpDistribution(answer)

\* Every file was computed from the answers of some time until now.
FilesComputed ==
  \A kind \in Kinds : files[kind] # NoFile =>
    \E t \in 0..time : Computed(kind, files[kind], subgraph[t][kind])

LEMMA FilesComputedInit == Init => FilesComputed
BY DEF Init, FilesComputed, Ids

LEMMA TimesAreNumbers ==
  /\ \A t \in Times : t \in Nat /\ t <= t /\ \A u \in 0..t : u \in Times
  /\ \A t, u \in Times : t <= u => \A v \in 0..t : v \in 0..u
BY DEF Times, Running, Old

LEMMA ComputedStays ==
  ASSUME Typed, FilesComputed, NEW kind \in Kinds, files'[kind] = files[kind],
         UNCHANGED subgraph, time' \in Times, time <= time', files'[kind] # NoFile
  PROVE  \E t \in 0..time' : Computed(kind, files'[kind], subgraph'[t][kind])
<1>1. PICK t \in 0..time : Computed(kind, files[kind], subgraph[t][kind])
  BY DEF FilesComputed
<1>2. time \in Times
  BY DEF Typed
<1>3. t \in 0..time'
  BY <1>2, TimesAreNumbers
<1> QED BY <1>1, <1>3

\* A file is saved.
LEMMA SavedComputed ==
  ASSUME Typed, FilesComputed, NEW saved \in Kinds, NEW d, files' = [files EXCEPT ![saved] = d],
         Computed(saved, d, subgraph[time][saved]), UNCHANGED <<subgraph, time>>
  PROVE  FilesComputed'
<1> SUFFICES ASSUME NEW kind \in Kinds, files'[kind] # NoFile
             PROVE  \E t \in 0..time' : Computed(kind, files'[kind], subgraph'[t][kind])
  BY DEF FilesComputed
<1>1. time \in 0..time' /\ time' \in Times /\ time <= time'
  <2>1. time \in Times /\ time' = time
    BY DEF Typed
  <2> QED BY <2>1, TimesAreNumbers
<1>2. CASE kind = saved
  <2>1. files'[kind] = d
    BY <1>2 DEF Typed, Ids
  <2> QED BY <1>1, <1>2, <2>1
<1>3. CASE kind # saved
  <2>1. files'[kind] = files[kind]
    BY <1>3 DEF Typed, Ids
  <2> QED BY <1>1, <2>1, ComputedStays
<1> QED BY <1>2, <1>3

LEMMA FilesComputedNext == Typed /\ FilesComputed /\ [Next]_vars => FilesComputed'
<1> SUFFICES ASSUME Typed, FilesComputed, [Next]_vars PROVE FilesComputed'
  OBVIOUS
<1>1. CASE SearchStep /\ ComputeWithBlock(search.for)
  <2>1. UNCHANGED <<subgraph, time>>
    BY <1>1 DEF SearchStep
  <2>2. CASE search.for = "lp"
    <3>1. /\ files' = [files EXCEPT !["lp"] = LpDistribution(subgraph[time].lp)]
          /\ Computed("lp", LpDistribution(subgraph[time].lp), subgraph[time]["lp"])
      BY <1>1, <2>2 DEF ComputeWithBlock, saveDistribution, Answer, Computed
    <3> QED BY <2>1, <3>1, SavedComputed DEF Kinds
  <2>3. CASE search.for = "migration"
    <3>1. /\ files' = [files EXCEPT !["migration"] = GlpDistribution(subgraph[time].migration)]
          /\ Computed("migration", GlpDistribution(subgraph[time].migration),
                      subgraph[time]["migration"])
      BY <1>1, <2>3 DEF ComputeWithBlock, saveDistribution, Answer, Computed
    <3> QED BY <2>1, <3>1, SavedComputed DEF Kinds
  <2> QED BY <1>1, <2>2, <2>3 DEF ComputeWithBlock
<1>2. CASE ComputeTradingIncentives
  <2>1. /\ files' = [files EXCEPT !["trading"] = TradingDistribution(subgraph[time].trading)]
        /\ Computed("trading", TradingDistribution(subgraph[time].trading),
                    subgraph[time]["trading"])
        /\ UNCHANGED <<subgraph, time>>
    BY <1>2 DEF ComputeTradingIncentives, saveDistribution, Answer, Computed
  <2> QED BY <2>1, SavedComputed DEF Kinds
<1>3. ASSUME \A kind \in Kinds : files'[kind] = files[kind],
             UNCHANGED subgraph, time' \in Times, time <= time'
      PROVE  FilesComputed'
  BY <1>3, ComputedStays DEF FilesComputed
<1>4. time \in Times /\ time <= time
  <2>1. time \in Times
    BY DEF Typed
  <2> QED BY <2>1, TimesAreNumbers
<1>5. CASE Tick
  <2>1. time' \in Times /\ time <= time'
    BY <1>4, <1>5 DEF Tick, Times, Running, Old
  <2> QED BY <1>3, <1>5, <2>1 DEF Tick, disk
<1>6. CASE GetTotalRebatesDiff
  <2>1. \A kind \in Kinds : files'[kind] = files[kind]
    <3>1. files \in [Ids -> Distributions \union {NoFile}] /\ "fix" \notin Kinds
      BY DEF Typed, Kinds
    <3> QED BY <1>6, <3>1 DEF GetTotalRebatesDiff, Ids
  <2> QED BY <1>3, <1>4, <1>6, <2>1 DEF GetTotalRebatesDiff
<1>7. CASE SearchStep /\ UNCHANGED files
  BY <1>3, <1>4, <1>7 DEF SearchStep
<1>8. CASE UNCHANGED vars
  BY <1>3, <1>4, <1>8 DEF vars, disk
<1>9. CASE /\ Next /\ ~ Tick /\ ~ GetTotalRebatesDiff
           /\ ~ SearchStep /\ ~ ComputeTradingIncentives
  <2>1. UNCHANGED <<files, subgraph, time>>
    BY <1>9 DEF Next, disk, BeginSearch, SearchFails, GetTotalRebates, StartRun, RunStep,
      ReadBalance, ReadAllowance, Approve, ReadProgress, SendBatch, NoteBatch, FinishDryRun, SaveMigrations,
      DeleteProgress, FailRun, Crash, Fund, SendResidualFundsBack
  <2> QED BY <1>3, <1>4, <2>1
<1>10. SearchStep => ComputeWithBlock(search.for) \/ UNCHANGED files
  BY DEF SearchStep
<1> QED BY <1>1, <1>2, <1>5, <1>6, <1>7, <1>8, <1>9, <1>10

\* What is computed keeps to the allocation of its epoch.
LEMMA ComputedMatches ==
  ASSUME Typed, NEW kind \in Kinds, NEW t \in Times, NEW d,
         Computed(kind, d, subgraph[t][kind])
  PROVE  /\ AmountOf(d) = Eligible(kind, t) /\ AmountOf(d) <= Allocated(kind, t)
         /\ \A j \in DOMAIN d : d[j].key.account \notin DOMAIN ReceiverOverrides
<1> DEFINE answer == subgraph[t][kind]
           Matches(rewards, most) ==
             /\ AmountOf(d) = Total(Entitled(rewards), NumAccounts)
             /\ AmountOf(d) <= most
             /\ \A j \in DOMAIN d : d[j].key.account \notin DOMAIN ReceiverOverrides
<1>1. /\ subgraph[t].lp \in LpAnswer /\ subgraph[t].trading \in TradingAnswer
      /\ subgraph[t].migration \in MigrationAnswer
  BY AnswersAssumption DEF AnswersAssumption, Typed
<1>2. /\ Pays(LpDistribution(subgraph[t].lp), LpRewards(subgraph[t].lp))
      /\ Pays(TradingDistribution(subgraph[t].trading), RebatesOf(subgraph[t].trading))
      /\ Pays(GlpDistribution(subgraph[t].migration), GlpRebates(subgraph[t].migration))
  BY AnswersPay DEF Typed
<1>3. CASE kind = "lp"
  <2> DEFINE rewards == LpRewards(answer)
             E == Total(Entitled(rewards), NumAccounts)
             T == Total(rewards, NumAccounts)
  <2>1. answer \in LpAnswer /\ LpSucceeds(answer) /\ d = LpDistribution(answer)
        /\ Pays(d, rewards)
    BY <1>1, <1>2, <1>3 DEF Computed
  <2>2. E \in Nat /\ T \in Nat /\ E <= T
    BY <2>1, LpRewardsNat, EntitledWithin
  <2>3. T - answer.totalRewards <= OneToken
    BY <2>1 DEF LpSucceeds
  <2>4. answer.totalRewards \in Nat /\ OneToken \in Nat
    BY <2>1, RewardsAssumption DEF LpAnswer, RewardsAssumption
  <2>5. E <= answer.totalRewards + OneToken
    <3> DEFINE r == answer.totalRewards
    <3> HIDE DEF E, T, r
    <3>1. r \in Nat /\ T - r <= OneToken
      BY <2>3, <2>4 DEF r
    <3>2. E <= r + OneToken
      BY <2>2, <2>4, <3>1
    <3> QED BY <3>2 DEF r
  <2>6. Matches(rewards, answer.totalRewards + OneToken)
    BY <2>1, <2>5 DEF Pays
  <2>7. Eligible(kind, t) = E /\ Allocated(kind, t) = answer.totalRewards + OneToken
    BY <1>3 DEF Eligible, Allocated, Entitled
  <2> QED BY <2>6, <2>7
<1>4. CASE kind = "trading"
  <2> DEFINE rewards == RebatesOf(answer)
             E == Total(Entitled(rewards), NumAccounts)
             T == Total(rewards, NumAccounts)
  <2>1. answer \in TradingAnswer /\ d = TradingDistribution(answer) /\ Pays(d, rewards)
    BY <1>1, <1>2, <1>4 DEF Computed
  <2>2. E \in Nat /\ T \in Nat /\ E <= T
    BY <2>1, RebatesNat, EntitledWithin
  <2>3. answer.allocation \in Nat /\ answer.rebatePercent \in Nat
    BY <2>1 DEF TradingAnswer
  <2>4. T <= answer.allocation
    BY <2>1, <2>3, RebatesNat, RebatesWithinAllocation DEF RebatesOf
  <2>5. E <= answer.allocation
    <3> DEFINE r == answer.allocation
    <3>1. r \in Nat /\ T <= r
      BY <2>3, <2>4
    <3> HIDE DEF E, T, r
    <3>2. E <= r
      BY <2>2, <3>1
    <3> QED BY <3>2 DEF r
  <2>6. Matches(rewards, answer.allocation)
    BY <2>1, <2>5 DEF Pays
  <2>7. Eligible(kind, t) = E /\ Allocated(kind, t) = answer.allocation
    BY <1>4 DEF Eligible, Allocated, Entitled
  <2> QED BY <2>6, <2>7
<1>5. CASE kind = "migration"
  <2> DEFINE rewards == GlpRebates(answer)
             E == Total(Entitled(rewards), NumAccounts)
  <2>1. answer \in MigrationAnswer /\ d = GlpDistribution(answer) /\ Pays(d, rewards)
    BY <1>1, <1>2, <1>5 DEF Computed
  <2>2. E \in Nat
    BY <2>1, GlpRebatesNat, EntitledWithin
  <2>3. Matches(rewards, E)
    <3>1. AmountOf(d) = E /\ \A j \in DOMAIN d : d[j].key.account \notin DOMAIN ReceiverOverrides
      BY <2>1 DEF Pays
    <3> HIDE DEF E
    <3>2. AmountOf(d) <= E
      BY <2>2, <3>1
    <3> QED BY <3>1, <3>2 DEF E
  <2>4. Eligible(kind, t) = E /\ Allocated(kind, t) = E
    BY <1>5 DEF Eligible, Allocated, Entitled
  <2> QED BY <2>3, <2>4
<1> QED BY <1>3, <1>4, <1>5 DEF Kinds

\* Whatever the subgraph answers, a file on disk pays the rewards of an epoch to the
\* last unit, no more than was allocated, and nobody whose receiver is overridden.
THEOREM FilesMatch == Spec => []FilesMatchTheirEpoch
<1>1. Typed /\ FilesComputed => FilesMatchTheirEpoch
  <2> SUFFICES ASSUME Typed, FilesComputed, NEW kind \in Kinds, files[kind] # NoFile
               PROVE  /\ \E t \in 0..time : /\ AmountOf(files[kind]) = Eligible(kind, t)
                                            /\ AmountOf(files[kind]) <= Allocated(kind, t)
                      /\ \A j \in DOMAIN files[kind] :
                           files[kind][j].key.account \notin DOMAIN ReceiverOverrides
    BY DEF FilesMatchTheirEpoch
  <2>1. PICK t \in 0..time : Computed(kind, files[kind], subgraph[t][kind])
    BY DEF FilesComputed
  <2>2. t \in Times
    <3>1. time \in Times
      BY DEF Typed
    <3> QED BY <3>1, TimesAreNumbers
  <2>3. PICK d : d = files[kind]
    OBVIOUS
  <2>4. /\ AmountOf(files[kind]) = Eligible(kind, t) /\ AmountOf(files[kind]) <= Allocated(kind, t)
        /\ \A j \in DOMAIN files[kind] : files[kind][j].key.account \notin DOMAIN ReceiverOverrides
    BY <2>1, <2>2, ComputedMatches
  <2> QED BY <2>4
<1> QED BY <1>1, TypedInit, TypedNext, FilesComputedInit, FilesComputedNext, PTL DEF Spec
=============================================================================
