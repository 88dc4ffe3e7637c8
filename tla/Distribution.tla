---------------------------- MODULE Distribution ----------------------------
(***************************************************************************)
(* How the rewards of an epoch are paid: scripts/incentives write          *)
(* distribution files, and batchSend.ts sends a file's entries in batches. *)
(* It notes the batches that are through in .batchesInProgress.json, and   *)
(* the distributions that are done in .migrations.json.  Each file is read *)
(* once when a run begins and written as a whole from memory afterwards.   *)
(* A run can die between any two steps; operators start it again, and may  *)
(* start several at a time.                                                *)
(***************************************************************************)
EXTENDS Rewards

CONSTANTS
  Runners,         \* the terminals of the operators
  Subgraph,        \* possible histories: the answers at each time
  BlockTime,       \* the timestamp of block b is BlockTime[b], from 0 on
  ToTimestamp,     \* the end of the epoch, as processArgs computes it at each time
  BlocksPerPeriod, SecondsPerPeriod,  \* blocks are assumed to come at this rate
  BatchSize,
  NoFile,
  MaxBalance,      \* bound: what the treasury gives the sender at most
  MaxUnusual       \* bound: how often something unusual happens

\* Ids of distributions; `fix' is the one of the correction.
Kinds == {"lp", "trading", "migration"}
Ids == Kinds \union {"fix"}

\* The stages of an epoch: it runs, has ended, has ended and its data has been
\* corrected, and is old.
Running == 0
Old == 3
Times == Running..Old

DistributionAssumption ==
  /\ BatchSize \in Nat \ {0}
  /\ MaxBalance \in Nat
  /\ NoFile \notin Distributions
ASSUME DistributionAssumption

\* Blocks come faster than seconds pass: 3.75 of them in the code.
BlocksAssumption ==
  /\ BlockTime \in Seq(Nat) /\ Len(BlockTime) > 0
  /\ ToTimestamp \in [Times -> Nat]
  /\ BlocksPerPeriod \in Nat /\ SecondsPerPeriod \in Nat \ {0}
  /\ BlocksPerPeriod >= SecondsPerPeriod
ASSUME BlocksAssumption

VARIABLES
  time, subgraph,
  files,        \* the distribution file of each id
  totals,       \* old.json and new.json: the rebates by key
  search,       \* the block that getBlockByTimestamp asks for next, and for whom
  migrations,   \* .migrations.json: the ids that are done
  progress,     \* .batchesInProgress.json: the last batch sent of each id, or -1
  balance,      \* of the sender, in reward tokens
  allowance,    \* of the batch sender contract
  runner,       \* the state of each process
  unusual,      \* counts what is bounded by MaxUnusual
  \* History: what was paid to each account, how often each batch was sent, how
  \* often a run of an id died before noting a batch, what its first run read,
  \* and whether a run of it was started against the rules.
  paid, sends, lost, readFirst, disturbed

disk == <<files, totals, migrations, progress>>
chain == <<balance, allowance, paid, sends>>
history == <<lost, readFirst, disturbed>>
vars == <<time, subgraph, search, runner, disk, chain, history, unusual>>

IdleRunner == [pc |-> "idle"]
NoSearch == [for |-> "nobody", timestamp |-> 0, block |-> 0]

\* What operators do while something else is in progress counts as unusual too, and
\* for two.
InProgress == Cardinality({r \in Runners : runner[r].pc # "idle"})
              + (IF search # NoSearch THEN 1 ELSE 0)

\* Something happens that operators do not do every day, or not at all.
Unusual(n) == unusual + n <= MaxUnusual /\ unusual' = unusual + n

NoTotals == [k \in Keys |-> 0]

\* The answers are of their types; nothing else is assumed of them.
AnswersAssumption ==
  \A h \in Subgraph, t \in Times :
    /\ h[t].lp \in LpAnswer
    /\ h[t].trading \in TradingAnswer
    /\ h[t].migration \in MigrationAnswer
ASSUME AnswersAssumption

Init ==
  /\ time = Running /\ subgraph \in Subgraph
  /\ files = [i \in Ids |-> NoFile]
  /\ totals = [old |-> NoTotals, new |-> NoTotals]
  /\ search = NoSearch
  /\ migrations = {} /\ progress = [i \in Ids |-> -1]
  /\ balance = 0 /\ allowance = 0
  /\ runner = [r \in Runners |-> IdleRunner]
  /\ unusual = 0
  /\ paid = [i \in Ids |-> [a \in Accounts |-> 0]]
  /\ sends = [i \in Ids |-> [b \in 0..(2 * NumAccounts) |-> 0]]
  /\ lost = [i \in Ids |-> 0]
  /\ readFirst = [i \in Ids |-> NoFile]
  /\ disturbed = [i \in Ids |-> FALSE]

Tick ==
  /\ time < Old
  /\ time' = time + 1
  /\ UNCHANGED <<subgraph, search, runner, disk, chain, history, unusual>>

(***************************************************************************)
(* The files.                                                              *)
(***************************************************************************)
\* processArgs: the epoch has ended, and lately, unless the operator insists.
EpochIsValid ==
  \/ time \notin {Running, Old} /\ Unusual(2 * InProgress)
  \/ time \in {Running, Old} /\ Unusual(2 * InProgress + 1)

Answer(kind) == subgraph[time][kind]

guessBlockNumberByTimestamp_HalfAsFar(b, timestamp) ==
  b - (((BlockTime[b] - timestamp) * BlocksPerPeriod) \div (2 * SecondsPerPeriod))

\* Where the block of a timestamp should be, seen from block b.
guessBlockNumberByTimestamp(b, timestamp) ==
  b - (((BlockTime[b] - timestamp) * BlocksPerPeriod) \div SecondsPerPeriod)

\* saveDistribution overwrites the file of an earlier call.
saveDistribution(kind, d) == files' = [files EXCEPT ![kind] = d]

\* The rebates and the liquidity incentives first look for the block of the
\* epoch's end, from the latest one.  The rebates look for the block of its
\* beginning too, for a figure they log: when that search fails, SearchFails.
BeginSearch(kind) ==
  /\ kind \in {"lp", "migration"} /\ search = NoSearch /\ EpochIsValid
  /\ search' = [for |-> kind, timestamp |-> ToTimestamp[time],
                block |-> guessBlockNumberByTimestamp(Len(BlockTime), ToTimestamp[time])]
  /\ UNCHANGED <<time, subgraph, runner, disk, chain, history>>

\* The distribution is computed with the answers of the subgraph at the block.
ComputeWithBlock(kind) ==
  \/ /\ kind = "lp" /\ LpSucceeds(Answer("lp"))
     /\ saveDistribution("lp", LpDistribution(Answer("lp")))
  \/ /\ kind = "migration" /\ GlpSucceeds(Answer("migration"))
     /\ saveDistribution("migration", GlpDistribution(Answer("migration")))

\* One turn of getBlockByTimestamp.  The tolerance is 0 and `less than', so only
\* a block whose own guess is itself ends the search.
SearchStep ==
  /\ search # NoSearch /\ search.block \in DOMAIN BlockTime
  /\ LET next == guessBlockNumberByTimestamp(search.block, search.timestamp) IN
     \/ /\ next # search.block
        /\ search' = [search EXCEPT !.block = next]
        /\ UNCHANGED files
     \/ /\ next = search.block
        /\ search' = NoSearch
        /\ ComputeWithBlock(search.for)
  /\ UNCHANGED <<time, subgraph, runner, totals, migrations, progress, chain, history, unusual>>

\* The script ends with an error: the guess is outside the chain, the data are
\* not good enough, a service does not answer, or the operator gives up.
SearchFails ==
  /\ search # NoSearch
  /\ search' = NoSearch
  /\ UNCHANGED <<time, subgraph, runner, disk, chain, history, unusual>>

ComputeTradingIncentives ==
  /\ EpochIsValid /\ TradingSucceeds(Answer("trading"))
  /\ saveDistribution("trading", TradingDistribution(Answer("trading")))
  /\ UNCHANGED <<time, subgraph, search, runner, totals, migrations, progress, chain, history>>

GetTotalRebates(name) ==
  /\ files["migration"] # NoFile
  /\ totals' = [totals EXCEPT ![name] = TotalRebates(files["migration"])]
  /\ UNCHANGED <<time, subgraph, search, runner, files, migrations, progress, chain, history, unusual>>

GetTotalRebatesDiff ==
  /\ totals.new # NoTotals
  /\ files' = [files EXCEPT !["fix"] = DiffDistribution(totals.old, totals.new)]
  /\ UNCHANGED <<time, subgraph, search, runner, totals, migrations, progress, chain, history, unusual>>

(***************************************************************************)
(* Payment.                                                                *)
(***************************************************************************)
Batches(d) == (Len(d) + BatchSize - 1) \div BatchSize

Batch(d, b) ==
  SubSeq(d, b * BatchSize + 1,
         IF (b + 1) * BatchSize < Len(d) THEN (b + 1) * BatchSize ELSE Len(d))

Writing(r) == runner[r].pc # "idle" /\ ~ runner[r].dryRun
Stop(r) == runner' = [runner EXCEPT ![r] = IdleRunner]
Goto(r, pc) == runner' = [runner EXCEPT ![r].pc = pc]

\* The file is there, and has the fields and the type of a distribution.
readDistributionFile(i) == files[i] # NoFile

\* A run begins: it reads the distribution and the migrations.
\* SKIP_MIGRATION_VALIDATION (skip) lets a distribution be sent again.  What
\* breaks the rules is remembered: a repeated distribution, a file that differs
\* from the one the first run has read, and a run beside another one.
StartRun(r, i, dryRun, skip) ==
  /\ runner[r].pc = "idle" /\ readDistributionFile(i)
  /\ i \in migrations => skip
  /\ skip => i \in migrations
  /\ Unusual(2 * InProgress + (IF skip THEN 1 ELSE 0) + (IF dryRun THEN 1 ELSE 0))
  /\ runner' = [runner EXCEPT ![r] =
                  [pc |-> "read balance", id |-> i, data |-> files[i], dryRun |-> dryRun,
                   next |-> 0, migrations |-> migrations, progress |-> progress]]
  /\ readFirst' = IF dryRun \/ readFirst[i] # NoFile THEN readFirst
                  ELSE [readFirst EXCEPT ![i] = files[i]]
  /\ disturbed' =
       LET others == {q \in Runners : Writing(q)} IN
       [j \in Ids |->
          \/ disturbed[j]
          \/ j = i /\ ~ dryRun /\ (skip \/ readFirst[i] \notin {NoFile, files[i]})
          \/ ~ dryRun /\ others # {} /\ j \in {i} \union {runner[q].id : q \in others}]
  /\ UNCHANGED <<time, subgraph, search, disk, chain, lost>>

\* The whole amount must be there and approved, however much of it was sent by
\* earlier runs.  A dry run approves too.  Whether to approve is decided by the
\* allowance that was read, and other runs may have used it up since.
ReadBalance(r) ==
  /\ runner[r].pc = "read balance" /\ balance >= AmountOf(runner[r].data)
  /\ Goto(r, "read allowance")
  /\ UNCHANGED <<time, subgraph, search, disk, chain, history, unusual>>

ReadAllowance_ApprovesOnce(r) ==
  /\ runner[r].pc = "read allowance"
  /\ Goto(r, IF allowance = 0 THEN "approve" ELSE "read progress")
  /\ UNCHANGED <<time, subgraph, search, disk, chain, history, unusual>>

ReadAllowance(r) ==
  /\ runner[r].pc = "read allowance"
  /\ Goto(r, IF allowance < AmountOf(runner[r].data) THEN "approve" ELSE "read progress")
  /\ UNCHANGED <<time, subgraph, search, disk, chain, history, unusual>>

Approve(r) ==
  /\ runner[r].pc = "approve"
  /\ allowance' = AmountOf(runner[r].data)
  /\ Goto(r, "read progress")
  /\ UNCHANGED <<time, subgraph, search, disk, balance, paid, sends, history, unusual>>

ReadProgress(r) ==
  /\ runner[r].pc = "read progress"
  /\ runner' = [runner EXCEPT ![r].pc = "send", ![r].progress = progress,
                              ![r].next = progress[runner[r].id] + 1]
  /\ UNCHANGED <<time, subgraph, search, disk, chain, history, unusual>>

MoreBatches_OneTooMany(r) == runner[r].next <= Batches(runner[r].data)
MoreBatches(r) == runner[r].next < Batches(runner[r].data)

\* A batch is one transaction of the batch sender: all entries are paid or none.
SendBatch(r) ==
  /\ runner[r].pc = "send" /\ ~ runner[r].dryRun /\ MoreBatches(r)
  /\ LET i == runner[r].id
         batch == Batch(runner[r].data, runner[r].next)
         amount == AmountOf(batch)
     IN /\ amount <= balance /\ amount <= allowance
        /\ balance' = balance - amount /\ allowance' = allowance - amount
        /\ paid' = [paid EXCEPT ![i] = [a \in Accounts |-> @[a] + ReceivedBy(batch, a)]]
        /\ sends' = [sends EXCEPT ![i][runner[r].next] = @ + 1]
  /\ Goto(r, "note")
  /\ UNCHANGED <<time, subgraph, search, disk, history, unusual>>

NoteBatch_OneAhead(r) ==
  /\ runner[r].pc = "note"
  /\ LET noted == [runner[r].progress EXCEPT ![runner[r].id] = runner[r].next + 1] IN
     /\ progress' = noted
     /\ runner' = [runner EXCEPT ![r].pc = "send", ![r].progress = noted, ![r].next = @ + 1]
  /\ UNCHANGED <<time, subgraph, search, files, totals, migrations, chain, history, unusual>>

NoteBatch_InMemoryOnly(r) ==
  /\ runner[r].pc = "note"
  /\ LET noted == [runner[r].progress EXCEPT ![runner[r].id] = runner[r].next] IN
     runner' = [runner EXCEPT ![r].pc = "send", ![r].progress = noted, ![r].next = @ + 1]
  /\ UNCHANGED <<time, subgraph, search, disk, chain, history, unusual>>

\* The batch is through: it is noted in memory and on disk.
NoteBatch(r) ==
  /\ runner[r].pc = "note"
  /\ LET noted == [runner[r].progress EXCEPT ![runner[r].id] = runner[r].next] IN
     /\ progress' = noted
     /\ runner' = [runner EXCEPT ![r].pc = "send", ![r].progress = noted, ![r].next = @ + 1]
  /\ UNCHANGED <<time, subgraph, search, files, totals, migrations, chain, history, unusual>>

\* A dry run calls the contract statically and ends.
FinishDryRun(r) ==
  /\ runner[r].pc = "send" /\ runner[r].dryRun
  /\ Stop(r)
  /\ UNCHANGED <<time, subgraph, search, disk, chain, history, unusual>>

SaveMigrations(r) ==
  /\ runner[r].pc = "send" /\ ~ runner[r].dryRun /\ ~ MoreBatches(r)
  /\ migrations' = runner[r].migrations \union {runner[r].id}
  /\ Goto(r, "clean up")
  /\ UNCHANGED <<time, subgraph, search, files, totals, progress, chain, history, unusual>>

DeleteProgress(r) ==
  /\ runner[r].pc = "clean up"
  /\ progress' = [runner[r].progress EXCEPT ![runner[r].id] = -1]
  /\ Stop(r)
  /\ UNCHANGED <<time, subgraph, search, files, totals, migrations, chain, history, unusual>>

\* The balance is too low, or the batch reverts: an error ends the run.
Refused(r) ==
  \/ runner[r].pc = "read balance" /\ balance < AmountOf(runner[r].data)
  \/ /\ runner[r].pc = "send" /\ MoreBatches(r)
     /\ LET amount == AmountOf(Batch(runner[r].data, runner[r].next)) IN
        amount > balance \/ amount > allowance

FailRun(r) ==
  /\ Refused(r)
  /\ Stop(r)
  /\ UNCHANGED <<time, subgraph, search, disk, chain, history, unusual>>

\* The process dies: the node does not answer, the terminal is closed.
Crash(r) ==
  /\ runner[r].pc # "idle" /\ Unusual(1)
  /\ lost' = IF runner[r].pc = "note" THEN [lost EXCEPT ![runner[r].id] = @ + 1] ELSE lost
  /\ Stop(r)
  /\ UNCHANGED <<time, subgraph, search, disk, chain, readFirst, disturbed>>

(***************************************************************************)
(* The sender's funds.                                                     *)
(***************************************************************************)
\* The treasury sends what is missing.
Fund ==
  /\ balance < MaxBalance
  /\ balance' = MaxBalance
  /\ UNCHANGED <<time, subgraph, search, runner, disk, allowance, paid, sends, history, unusual>>

\* Everything the sender has goes back, a distribution in progress or not.
SendResidualFundsBack ==
  /\ balance > 0 /\ Unusual(1)
  /\ balance' = 0
  /\ UNCHANGED <<time, subgraph, search, runner, disk, allowance, paid, sends, history>>

(***************************************************************************)
(* The specification.                                                      *)
(***************************************************************************)
RunStep(r) ==
  \/ ReadBalance(r) \/ ReadAllowance(r) \/ Approve(r)
  \/ ReadProgress(r) \/ SendBatch(r) \/ NoteBatch(r)
  \/ FinishDryRun(r) \/ SaveMigrations(r) \/ DeleteProgress(r) \/ FailRun(r)

Next ==
  \/ Tick
  \/ \E kind \in {"lp", "migration"} : BeginSearch(kind)
  \/ SearchStep
  \/ SearchFails
  \/ ComputeTradingIncentives
  \/ \E name \in {"old", "new"} : GetTotalRebates(name)
  \/ GetTotalRebatesDiff
  \/ \E r \in Runners, i \in Ids, dryRun, skip \in BOOLEAN : StartRun(r, i, dryRun, skip)
  \/ \E r \in Runners : RunStep(r) \/ Crash(r)
  \/ Fund
  \/ SendResidualFundsBack

Spec == Init /\ [][Next]_vars

\* A run goes on until it ends or dies; operators start what is unfinished again,
\* and give up a search that does not end; the treasury funds the sender.
Fairness ==
  /\ \A r \in Runners : WF_vars(RunStep(r))
  /\ \A i \in Ids : SF_vars(\E r \in Runners : StartRun(r, i, FALSE, FALSE))
  /\ WF_vars(SearchFails)
  /\ WF_vars(Fund)

FairSpec == Spec /\ Fairness
=============================================================================
