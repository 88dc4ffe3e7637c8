----------------------- MODULE DistributionProperties -----------------------
(* What holds of the files that are computed and of what is paid from them. *)
EXTENDS Distribution

RunnerType ==
  {IdleRunner} \union
  [pc : {"read balance", "read allowance", "approve", "read progress", "send", "note",
         "clean up"}, id : Ids,
   data : Distributions, dryRun : BOOLEAN, next : Nat,
   migrations : SUBSET Ids, progress : [Ids -> Int]]

\* Every variable has its type; in particular no run notes a batch that its file
\* does not have.
TypeOK ==
  /\ time \in Times /\ subgraph \in Subgraph
  /\ \A i \in Ids : files[i] = NoFile \/ files[i] \in Distributions
  /\ totals \in [{"old", "new"} -> [Keys -> Nat]]
  /\ search \in [for : {"lp", "migration", "nobody"}, timestamp : Int, block : Int]
  /\ migrations \subseteq Ids /\ progress \in [Ids -> Int]
  /\ balance \in 0..MaxBalance /\ allowance \in Nat
  /\ \A r \in Runners : runner[r] \in RunnerType
  /\ \A r \in Runners : runner[r].pc = "note" => runner[r].next < Batches(runner[r].data)
  /\ \A i \in Ids : progress[i] >= -1
  /\ paid \in [Ids -> [Accounts -> Nat]] /\ DOMAIN sends = Ids
  /\ lost \in [Ids -> Nat]

\* The rewards of those above the threshold at time t, before receivers are
\* overridden, and the most that may be spent.
Eligible(kind, t) ==
  LET answer == subgraph[t][kind]
      rewards == CASE kind = "lp" -> LpRewards(answer)
                   [] kind = "trading" -> RebatesOf(answer)
                   [] kind = "migration" -> GlpRebates(answer)
  IN Total([a \in Accounts |-> IF rewards[a] >= MIN_REWARD_THRESHOLD THEN rewards[a] ELSE 0],
           NumAccounts)

Allocated(kind, t) ==
  LET answer == subgraph[t][kind] IN
  CASE kind = "lp" -> answer.totalRewards + OneToken
    [] kind = "trading" -> answer.allocation
    [] kind = "migration" -> Eligible(kind, t)

\* A file on disk pays what the answers at some time entitle to: no more than is
\* allocated, to the last unit, whatever receivers are overridden, and nothing to
\* an account whose receiver is overridden.
FilesMatchTheirEpoch ==
  \A kind \in Kinds : files[kind] # NoFile =>
    /\ \E t \in 0..time : /\ AmountOf(files[kind]) = Eligible(kind, t)
                          /\ AmountOf(files[kind]) <= Allocated(kind, t)
    /\ \A j \in DOMAIN files[kind] : files[kind][j].key.account \notin DOMAIN ReceiverOverrides

\* A distribution that is done and was sent by the rules has paid everything it
\* was to pay to everyone; exactly that, if no run died with a batch unnoted.
PaidAsFiled ==
  \A i \in migrations : ~ disturbed[i] =>
    \A a \in Accounts :
      /\ paid[i][a] >= ReceivedBy(readFirst[i], a)
      /\ lost[i] = 0 => paid[i][a] = ReceivedBy(readFirst[i], a)

BatchesSent(i) == {b \in DOMAIN sends[i] : sends[i][b] > 0}

\* Runs that die, at any point and any number of times, send a batch again only
\* if they died between its transaction and its note, and one batch each time.
\* Batches are sent in order.
EachLossCostsOneBatch ==
  \A i \in Ids : ~ disturbed[i] =>
    /\ Total([b \in 1..(2 * NumAccounts) |-> sends[i][b - 1]], 2 * NumAccounts)
         <= Cardinality(BatchesSent(i)) + lost[i]
    /\ \A b \in BatchesSent(i) : b = 0 \/ sends[i][b - 1] > 0

Larger(x, y) == IF x > y THEN x ELSE y

\* When rebates were paid from wrong data, and the difference to the corrected
\* ones is paid too, everybody has received the larger of the two.
CorrectionsTopUp ==
  /\ {"migration", "fix"} \subseteq migrations
  /\ ~ disturbed["migration"] /\ ~ disturbed["fix"]
  /\ lost["migration"] = 0 /\ lost["fix"] = 0
  /\ totals.old = TotalRebates(readFirst["migration"])
  /\ readFirst["fix"] = DiffDistribution(totals.old, totals.new)
  => \A a \in Accounts :
       LET due(c) == LET k == [account |-> a, checksummed |-> c] IN
                     Larger(totals.old[k], totals.new[k])
       IN paid["migration"][a] + paid["fix"][a] = due(TRUE) + due(FALSE)

\* The search for the end of the epoch never settles for a block nearby.
SearchFindsTheExactBlock ==
  [][search # NoSearch /\ files'[search.for] # files[search.for]
     => /\ search.block \in DOMAIN BlockTime
        /\ BlockTime[search.block] = search.timestamp]_vars

\* A distribution that has begun is completed, whatever died before, however its
\* file was changed, and though the funds were withdrawn in between.  (Runs beside
\* each other are bounded like everything unusual, so operators stop getting in
\* each other's way.)
StartedAreFinished == \A i \in Ids : progress[i] >= 0 ~> i \in migrations
=============================================================================
