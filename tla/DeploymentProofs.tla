-------------------------- MODULE DeploymentProofs --------------------------
(***************************************************************************)
(* Proofs about Deployment, for any network, any edits and any tags that   *)
(* the operator uses.                                                      *)
(***************************************************************************)
EXTENDS DeploymentProperties, SequenceTheorems, FiniteSetTheorems, TLAPS

----------------------------------------------------------------------------
(* The tasks of a script *)

AfterTasks ==
  [kind : {"grant", "set", "handler", "tiers", "configured", "signers", "create"}, what : STRING]

LEMMA AfterType ==
  ASSUME NEW i \in DOMAIN Scripts
  PROVE  /\ Scripts[i].after \in Seq(AfterTasks)
         /\ \A k \in DOMAIN Scripts[i].after :
              /\ k \in 1 .. Len(Scripts[i].after)
              /\ Scripts[i].after[k] \in AfterTasks
              /\ HasTask(i, Scripts[i].after[k].kind)
<1>1. Scripts[i].after \in Seq(AfterTasks)
  BY ScriptsAreWellFormed DEF AfterTasks
<1>2. \A k \in DOMAIN Scripts[i].after : k \in 1 .. Len(Scripts[i].after) /\ Scripts[i].after[k] \in AfterTasks
  BY <1>1
<1>3. \A k \in DOMAIN Scripts[i].after : HasTask(i, Scripts[i].after[k].kind)
  BY DEF HasTask
<1> QED BY <1>1, <1>2, <1>3

LEMMA Joined ==
  ASSUME NEW S, NEW a \in Seq(S), NEW b \in Seq(S)
  PROVE  /\ a \o b \in Seq(S)
         /\ Len(a \o b) = Len(a) + Len(b)
         /\ \A n \in 1 .. Len(a) : (a \o b)[n] = a[n]
         /\ \A n \in 1 .. Len(b) : (a \o b)[Len(a) + n] = b[n]
<1>1. Len(a) \in Nat /\ Len(b) \in Nat
  OBVIOUS
<1>2. \A n \in 1 .. Len(a) : (a \o b)[n] = a[n]
  <2> TAKE n \in 1 .. Len(a)
  <2>1. n \in 1 .. Len(a) + Len(b) /\ n <= Len(a)
    BY <1>1
  <2> QED BY <2>1, ConcatProperties
<1>3. \A n \in 1 .. Len(b) : (a \o b)[Len(a) + n] = b[n]
  <2> TAKE n \in 1 .. Len(b)
  <2>1. Len(a) + n \in 1 .. Len(a) + Len(b) /\ ~ Len(a) + n <= Len(a) /\ Len(a) + n - Len(a) = n
    BY <1>1
  <2> QED BY <2>1, ConcatProperties
<1> QED BY <1>2, <1>3, ConcatProperties

\* The tasks of a script that deploys: the deployment, what is done afterwards,
\* the record of its id.
LEMMA HereTasks ==
  ASSUME NEW i \in Here
  PROVE  LET s == Scripts[i] tasks == Tasks[i] IN
         /\ DOMAIN tasks = 1 .. 1 + Len(s.after) + IF s.id = NoId THEN 0 ELSE 1
         /\ tasks[1] = [kind |-> "deploy", what |-> s.contract, contract |-> s.contract,
                        id |-> s.id, links |-> LinksOf(s)]
         /\ \A k \in DOMAIN s.after :
              tasks[k + 1] = [kind |-> s.after[k].kind, what |-> s.after[k].what,
                              contract |-> s.contract, id |-> s.id, links |-> LinksOf(s)]
         /\ s.id # NoId =>
              tasks[2 + Len(s.after)] = [kind |-> "record", what |-> s.id, contract |-> s.contract,
                                         id |-> s.id, links |-> LinksOf(s)]
<1> DEFINE s == Scripts[i]
           after == s.after
           own == TasksOf(s)
<1>1. i \in DOMAIN Scripts /\ s.contract # NoContract /\ Network \in s.networks
  BY DEF Here
<1>2. GrantConfigured \notin ToSet(after)
  <2>1. \A k \in DOMAIN after : after[k] # GrantConfigured
    <3>1. ASSUME NEW k \in DOMAIN after, after[k] = GrantConfigured PROVE FALSE
      <4>1. after[k].kind = "configured"
        BY <3>1 DEF GrantConfigured, Task
      <4>2. HasTask(i, "configured")
        BY <4>1 DEF HasTask
      <4> QED BY <1>1, <4>2, ScriptsAreWellFormed
    <3> QED BY <3>1
  <2>2. ToSet(after) = {after[k] : k \in DOMAIN after}
    BY DEF ToSet
  <2> QED BY <2>1, <2>2
<1>3. own = <<Task("deploy", s.contract)>> \o after \o RecordId(s)
  BY <1>1, <1>2 DEF TasksOf, DeployIt
<1>4. after \in Seq(AfterTasks) /\ \A k \in DOMAIN after : k \in 1 .. Len(after)
  BY <1>1, AfterType
<1> DEFINE T == {after[k] : k \in DOMAIN after} \union {Task("deploy", s.contract), Task("record", s.id)}
           first == <<Task("deploy", s.contract)>>
           last == RecordId(s)
<1>5. first \in Seq(T) /\ Len(first) = 1 /\ first[1] = Task("deploy", s.contract)
  <2>1. Task("deploy", s.contract) \in T
    OBVIOUS
  <2> HIDE DEF T
  <2> QED BY <2>1
<1>6. after \in Seq(T)
  <2>1. \A k \in 1 .. Len(after) : after[k] \in T
    BY <1>4
  <2> HIDE DEF T, after
  <2> QED BY <1>4, <2>1
<1>7. /\ last \in Seq(T)
      /\ Len(last) = IF s.id = NoId THEN 0 ELSE 1
      /\ s.id # NoId => last[1] = Task("record", s.id)
  <2>1. Task("record", s.id) \in T
    OBVIOUS
  <2> HIDE DEF T
  <2> QED BY <2>1 DEF RecordId
<1> HIDE DEF first, last, after, own, T
<1>8. own = first \o after \o last
  BY <1>3 DEF first, last
<1>9. /\ own \in Seq(T)
      /\ Len(own) = 1 + Len(after) + IF s.id = NoId THEN 0 ELSE 1
      /\ own[1] = first[1]
      /\ \A k \in DOMAIN after : own[k + 1] = after[k]
      /\ s.id # NoId => own[2 + Len(after)] = last[1]
  <2>1. PICK front : front = first \o after
    OBVIOUS
  <2>2. front \in Seq(T) /\ Len(front) = Len(first) + Len(after)
    BY <1>5, <1>6, <2>1, Joined
  <2>3. own = front \o last /\ front \in Seq(T) /\ Len(front) = 1 + Len(after)
    BY <1>5, <1>8, <2>1, <2>2
  <2>4. front[1] = first[1] /\ \A k \in 1 .. Len(after) : front[k + 1] = after[k]
    <3>1. 1 \in 1 .. Len(first) /\ \A k \in 1 .. Len(after) : k + 1 = Len(first) + k
      BY <1>5, <1>6
    <3>2. /\ \A n \in 1 .. Len(first) : front[n] = first[n]
          /\ \A n \in 1 .. Len(after) : front[Len(first) + n] = after[n]
      <4>1. first \in Seq(T) /\ after \in Seq(T)
        BY <1>5, <1>6
      <4> QED BY <2>1, <4>1, Joined
    <3> QED BY <3>1, <3>2, Zenon
  <2>5. Len(after) \in Nat
    BY <1>6
  <2>6. own \in Seq(T) /\ Len(own) = Len(front) + Len(last)
    BY <2>3, <1>7, Joined
  <2>7. \A m \in 1 .. Len(front) : own[m] = front[m]
    BY <2>3, <1>7, Joined
  <2>8. s.id # NoId => own[Len(front) + 1] = last[1]
    <3>1. s.id # NoId => 1 \in 1 .. Len(last)
      BY <1>7
    <3>2. \A n \in 1 .. Len(last) : own[Len(front) + n] = last[n]
      BY <2>3, <1>7, Joined
    <3> QED BY <3>1, <3>2, Zenon
  <2>9. Len(own) = 1 + Len(after) + IF s.id = NoId THEN 0 ELSE 1
    BY <1>7, <2>3, <2>5, <2>6
  <2>10. 1 \in 1 .. Len(front) /\ \A k \in 1 .. Len(after) : k + 1 \in 1 .. Len(front)
    BY <2>3, <2>5
  <2>11. 2 + Len(after) = Len(front) + 1
    BY <2>3, <2>5
  <2>12. own[1] = first[1] /\ \A k \in 1 .. Len(after) : own[k + 1] = after[k]
    BY <2>4, <2>7, <2>10, Zenon
  <2>13. s.id # NoId => own[2 + Len(after)] = last[1]
    BY <2>8, <2>11, Zenon
  <2> QED BY <1>4, <2>6, <2>9, <2>12, <2>13, Zenon
<1>10. /\ DOMAIN Tasks[i] = DOMAIN own
       /\ \A n \in DOMAIN own :
            Tasks[i][n] = [kind |-> own[n].kind, what |-> own[n].what, contract |-> s.contract,
                           id |-> s.id, links |-> LinksOf(s)]
  BY <1>1 DEF Tasks, own
<1>11. DOMAIN own = 1 .. Len(own) /\ Len(after) \in Nat /\ DOMAIN after = 1 .. Len(after)
  BY <1>6, <1>9
<1>12. 1 \in DOMAIN own /\ (\A k \in DOMAIN after : k + 1 \in DOMAIN own)
       /\ (s.id # NoId => 2 + Len(after) \in DOMAIN own)
  BY <1>9, <1>11
<1>13. /\ Tasks[i][1] = [kind |-> "deploy", what |-> s.contract, contract |-> s.contract,
                          id |-> s.id, links |-> LinksOf(s)]
       /\ s.id # NoId =>
            Tasks[i][2 + Len(after)] = [kind |-> "record", what |-> s.id, contract |-> s.contract,
                                        id |-> s.id, links |-> LinksOf(s)]
  BY <1>5, <1>7, <1>9, <1>10, <1>12 DEF Task
<1>14. \A k \in DOMAIN after :
         Tasks[i][k + 1] = [kind |-> after[k].kind, what |-> after[k].what,
                            contract |-> s.contract, id |-> s.id, links |-> LinksOf(s)]
  BY <1>9, <1>10, <1>12
<1>15. DOMAIN Tasks[i] = 1 .. 1 + Len(after) + IF s.id = NoId THEN 0 ELSE 1
  BY <1>9, <1>10, <1>11
<1> QED BY <1>13, <1>14, <1>15 DEF after

LEMMA RoleTasks ==
  \A n \in DOMAIN (GrantRoles \o RevokeRoles) :
    n \in Nat /\ (GrantRoles \o RevokeRoles)[n].kind \in {"configured", "revoke"}
<1> DEFINE T == {Task("configured", ConfiguredRoles[k]) : k \in DOMAIN ConfiguredRoles}
                \union {Task("revoke", "roles")}
<1>1. PICK m \in Nat : DOMAIN ConfiguredRoles = 1 .. m
  <2>1. DOMAIN hardhatRoles = 1 .. 6
    BY DEF hardhatRoles
  <2>2. DOMAIN rolluxtestRoles = 1 .. 11
    BY DEF rolluxtestRoles
  <2>3. DOMAIN <<>> = 1 .. 0
    OBVIOUS
  <2>4. ConfiguredRoles \in {hardhatRoles, rolluxtestRoles, <<>>}
    BY DEF ConfiguredRoles
  <2> QED BY <2>1, <2>2, <2>3, <2>4
<1>2. GrantRoles \in Seq(T)
  <2>1. \A k \in DOMAIN ConfiguredRoles : Task("configured", ConfiguredRoles[k]) \in T
    OBVIOUS
  <2> HIDE DEF T
  <2>2. GrantRoles \in [1 .. m -> T]
    BY <1>1, <2>1 DEF GrantRoles
  <2> QED BY <2>2, SeqDef
<1>3. RevokeRoles \in Seq(T)
  <2>1. Task("revoke", "roles") \in T
    OBVIOUS
  <2> HIDE DEF T
  <2> QED BY <2>1 DEF RevokeRoles
<1>4. \A t \in T : t.kind \in {"configured", "revoke"}
  BY DEF Task
<1> HIDE DEF T
<1>5. PICK own : own = GrantRoles \o RevokeRoles
  OBVIOUS
<1>6. own \in Seq(T)
  BY <1>2, <1>3, <1>5, Joined
<1>7. \A n \in DOMAIN own : n \in Nat /\ own[n] \in T
  BY <1>6
<1> QED BY <1>4, <1>5, <1>7

\* The tasks of a script that deploys nothing here: no contract is deployed, no id
\* recorded and no right of a contract granted.
LEMMA OtherTasks ==
  ASSUME NEW i \in DOMAIN Scripts \ Here, NEW n \in DOMAIN Tasks[i]
  PROVE  /\ n \in Nat
         /\ Tasks[i][n].kind \in {"configured", "revoke", "set", "create", "signers"}
         /\ Tasks[i][n].kind = "signers" => HasTask(i, "signers")
<1> DEFINE s == Scripts[i]
           own == TasksOf(s)
<1>1. /\ n \in DOMAIN own
      /\ Tasks[i][n] = [kind |-> own[n].kind, what |-> own[n].what, contract |-> s.contract,
                        id |-> s.id, links |-> LinksOf(s)]
  BY DEF Tasks
<1>2. SUFFICES /\ n \in Nat
               /\ own[n].kind \in {"configured", "revoke", "set", "create", "signers"}
               /\ own[n].kind = "signers" => HasTask(i, "signers")
  BY <1>1
<1>3. Network \in s.networks
  <2>1. ASSUME Network \notin s.networks PROVE FALSE
    <3>1. own = <<>>
      BY <2>1 DEF TasksOf
    <3>2. DOMAIN <<>> = {}
      OBVIOUS
    <3> QED BY <1>1, <3>1, <3>2
  <2> QED BY <2>1
<1>4. CASE GrantConfigured \in ToSet(s.after)
  <2>1. own = GrantRoles \o RevokeRoles
    BY <1>3, <1>4 DEF TasksOf
  <2> HIDE DEF own
  <2> QED BY <1>1, <2>1, RoleTasks
<1>5. CASE GrantConfigured \notin ToSet(s.after)
  <2>1. s.contract = NoContract /\ s.id = NoId
        /\ ~HasTask(i, "grant") /\ ~HasTask(i, "handler") /\ ~HasTask(i, "tiers")
    BY <1>3, ScriptsAreWellFormed DEF Here
  <2>2. own = <<>> \o s.after \o <<>>
    BY <1>3, <1>5, <2>1 DEF TasksOf, DeployIt, RecordId
  <2>3. own = s.after
    BY <2>2, AfterType, ConcatEmptySeq
  <2>4. /\ s.after[n] \in AfterTasks /\ HasTask(i, s.after[n].kind)
        /\ n \in 1 .. Len(s.after) /\ Len(s.after) \in Nat
    BY <1>1, <2>3, AfterType
  <2>5. n \in Nat
    BY <2>4
  <2> HIDE DEF own
  <2>6. own[n].kind \in {"configured", "set", "create", "signers"}
    BY <2>1, <2>3, <2>4 DEF AfterTasks
  <2> QED BY <2>3, <2>4, <2>5, <2>6
<1> QED BY <1>4, <1>5

LEMMA HereKinds ==
  ASSUME NEW i \in Here
  PROVE  LET s == Scripts[i] tasks == Tasks[i] IN
         /\ 1 \in DOMAIN tasks /\ tasks[1].kind = "deploy"
         /\ \A k \in DOMAIN s.after :
              /\ k + 1 \in DOMAIN tasks
              /\ tasks[k + 1].kind = s.after[k].kind /\ tasks[k + 1].what = s.after[k].what
         /\ s.id # NoId => \E n \in DOMAIN tasks : tasks[n].kind = "record"
<1> DEFINE s == Scripts[i]
           l == Len(s.after)
           task(kind, what) == [kind |-> kind, what |-> what, contract |-> s.contract,
                                id |-> s.id, links |-> LinksOf(s)]
<1>1. DOMAIN Tasks[i] = 1 .. 1 + l + IF s.id = NoId THEN 0 ELSE 1
  BY HereTasks, Zenon
<1>2. /\ Tasks[i][1] = task("deploy", s.contract)
      /\ \A k \in DOMAIN s.after : Tasks[i][k + 1] = task(s.after[k].kind, s.after[k].what)
      /\ s.id # NoId => Tasks[i][2 + l] = task("record", s.id)
  BY HereTasks, Zenon
<1>3. \A kind, what : task(kind, what).kind = kind /\ task(kind, what).what = what
  OBVIOUS
<1>4. l \in Nat /\ DOMAIN s.after = 1 .. l
  BY AfterType DEF Here
<1> HIDE DEF task, l
<1>5. 1 \in DOMAIN Tasks[i] /\ (\A k \in DOMAIN s.after : k + 1 \in DOMAIN Tasks[i])
      /\ (s.id # NoId => 2 + l \in DOMAIN Tasks[i])
  BY <1>1, <1>4
<1> QED BY <1>2, <1>3, <1>5

LEMMA TaskFacts ==
  ASSUME NEW i \in DOMAIN Scripts, NEW n \in DOMAIN Tasks[i]
  PROVE  LET s == Scripts[i] t == Tasks[i][n] IN
         /\ n \in Nat
         /\ t.contract = s.contract /\ t.id = s.id /\ t.links = LinksOf(s)
         /\ t.kind \in {"deploy", "handler", "tiers", "grant", "record"} => i \in Here
         /\ t.kind = "record" =>
              t.what = s.id /\ s.id # NoId /\ \A m \in DOMAIN Tasks[i] : m # n => m < n
         /\ t.kind \in {"grant", "handler", "tiers"} => 1 \in DOMAIN Tasks[i] /\ 1 < n
         /\ t.kind \in {"grant", "signers"} => HasTask(i, t.kind)
<1> DEFINE s == Scripts[i]
           t == Tasks[i][n]
<1>1. t.contract = s.contract /\ t.id = s.id /\ t.links = LinksOf(s)
  BY DEF Tasks
<1>2. CASE i \notin Here
  BY <1>1, <1>2, OtherTasks
<1>3. CASE i \in Here
  <2> DEFINE l == Len(s.after)
  <2>1. l \in Nat /\ DOMAIN s.after = 1 .. l
    BY AfterType
  <2>2. /\ DOMAIN Tasks[i] = 1 .. 1 + l + IF s.id = NoId THEN 0 ELSE 1
        /\ Tasks[i][1].kind = "deploy"
        /\ \A k \in DOMAIN s.after : Tasks[i][k + 1].kind = s.after[k].kind
        /\ s.id # NoId => Tasks[i][2 + l].kind = "record" /\ Tasks[i][2 + l].what = s.id
    <3>1. DOMAIN Tasks[i] = 1 .. 1 + l + IF s.id = NoId THEN 0 ELSE 1
      BY <1>3, HereTasks, Zenon
    <3> DEFINE task(kind, what) == [kind |-> kind, what |-> what, contract |-> s.contract,
                                    id |-> s.id, links |-> LinksOf(s)]
    <3>2. /\ Tasks[i][1] = task("deploy", s.contract)
          /\ \A k \in DOMAIN s.after : Tasks[i][k + 1] = task(s.after[k].kind, s.after[k].what)
          /\ s.id # NoId => Tasks[i][2 + l] = task("record", s.id)
      BY <1>3, HereTasks, Zenon
    <3>3. \A kind, what : task(kind, what).kind = kind /\ task(kind, what).what = what
      OBVIOUS
    <3> HIDE DEF task
    <3> QED BY <3>1, <3>2, <3>3
  <2>3. \A k \in DOMAIN s.after :
          s.after[k].kind \notin {"deploy", "record"} /\ HasTask(i, s.after[k].kind)
    BY AfterType DEF AfterTasks
  <2> HIDE DEF l
  <2>4. n \in Nat
    BY <2>1, <2>2
  <2>5. CASE n = 1
    BY <1>1, <1>3, <2>2, <2>4, <2>5
  <2>6. CASE n \in 2 .. 1 + l
    <3>1. n - 1 \in DOMAIN s.after /\ n = (n - 1) + 1 /\ 1 \in DOMAIN Tasks[i] /\ 1 < n
      BY <2>1, <2>2, <2>6
    <3>2. t.kind = s.after[n - 1].kind
      BY <2>2, <3>1
    <3>3. t.kind \notin {"deploy", "record"} /\ HasTask(i, t.kind)
      BY <2>3, <3>1, <3>2
    <3> QED BY <1>1, <1>3, <2>4, <3>1, <3>3
  <2>7. CASE n = 2 + l
    <3>1. s.id # NoId
      BY <2>1, <2>2, <2>7
    <3>2. t.kind = "record" /\ t.what = s.id
      BY <2>2, <2>7, <3>1
    <3>3. \A m \in DOMAIN Tasks[i] : m # n => m < n
      BY <2>1, <2>2, <2>7, <3>1
    <3> QED BY <1>1, <1>3, <2>4, <3>1, <3>2, <3>3
  <2> QED BY <2>1, <2>2, <2>5, <2>6, <2>7
<1> QED BY <1>2, <1>3

\* A contract is that of one script.
LEMMA ContractScripts ==
  ASSUME NEW c \in Contracts
  PROVE  /\ ScriptOf(c) \in DOMAIN Scripts /\ Scripts[ScriptOf(c)].contract = c
         /\ \A i \in DOMAIN Scripts : Scripts[i].contract = c => i = ScriptOf(c)
<1>1. \E i \in DOMAIN Scripts : Scripts[i].contract = c
  BY DEF Contracts
<1>2. ScriptOf(c) \in DOMAIN Scripts /\ Scripts[ScriptOf(c)].contract = c
  BY <1>1 DEF ScriptOf
<1>3. c # NoContract
  BY DEF Contracts
<1> QED BY <1>2, <1>3, ScriptsAreDifferent

LEMMA StoreScripts ==
  ASSUME NEW store \in Stores
  PROVE  /\ store \in Contracts
         /\ ScriptOf(store) \in Here
         /\ Scripts[ScriptOf(store)].id # NoId
<1>1. store \in Contracts /\ Scripts[ScriptOf(store)].networks = AllNetworks /\ Scripts[ScriptOf(store)].id # NoId
  BY StoresAreRecorded
<1>2. store # NoContract
  BY <1>1 DEF Contracts
<1> QED BY <1>1, <1>2, ContractScripts, NetworkAssumption DEF Here

LEMMA HereContracts ==
  ASSUME NEW i \in Here
  PROVE  /\ i \in DOMAIN Scripts /\ Scripts[i].contract \in Contracts
         /\ i = ScriptOf(Scripts[i].contract)
         /\ LinksOf(Scripts[i]) \subseteq MayLink(Scripts[i])
         /\ MayLink(Scripts[i]) \subseteq Contracts
<1>1. i \in DOMAIN Scripts /\ Scripts[i].contract \in Contracts
  BY DEF Here, Contracts
<1>2. LinksOf(Scripts[i]) \subseteq MayLink(Scripts[i])
  BY DEF LinksOf, MayLink
<1> QED BY <1>1, <1>2, ContractScripts, ScriptsAreWellFormed

----------------------------------------------------------------------------
(* The inductive invariant *)

Types ==
  /\ TypeOK
  /\ NoId \notin recorded
  /\ DOMAIN deployed = Contracts
  /\ \A c \in Contracts :
       deployed[c] = [at |-> deployed[c].at, source |-> deployed[c].source,
                      links |-> deployed[c].links]
  /\ \A r \in rights : r[1] = "configured" \/ r[1] \in Contracts
  /\ run \in [tag : TagChoices \union {"none"}, existing : BOOLEAN, todo : Seq(DOMAIN Scripts), sent : BOOLEAN]

TheOrder == Order(run.tag, run.existing)

\* How many scripts the run has left behind.
Passed == Len(TheOrder) - Len(run.todo)

\* What a run still has to do is the rest of its order.
RunsGoOn ==
  /\ run.tag \in TagChoices
  /\ Passed \in Nat
  /\ \A m \in 1 .. Len(run.todo) : run.todo[m] = TheOrder[Passed + m]

\* A script that the run has left behind is recorded, or done.
Ready(i) ==
  i \in Here =>
    /\ Scripts[i].id # NoId => Scripts[i].id \in recorded
    /\ run.tag = "all" /\ ~run.existing /\ Scripts[i].id = NoId => HasRoles(i) /\ IsCurrent(i)
PassedAreReady == \A m \in 1 .. Passed : Ready(TheOrder[m])

\* A contract that is not deployed again keeps its roles, because neither is the RoleStore.
RecordedHaveRoles ==
  \A i \in Here : Scripts[i].id \in recorded \ marked =>
    HasRoles(i) /\ (HasTask(i, "grant") => IdOf("RoleStore") \in recorded)

SettledAreReady ==
  settled => \A i \in Here :
    /\ Scripts[i].id \notin marked => HasRoles(i)
    /\ Scripts[i].id = NoId => IsCurrent(i)

\* The OracleStore that keeps the signers is not deployed again.
SignersStay ==
  minSigners = minOracleSigners =>
    IdOf("OracleStore") \in recorded /\ Cardinality(signers) >= minOracleSigners

Inv ==
  /\ Types
  /\ Idle \/ (RunsGoOn /\ PassedAreReady)
  /\ RecordedHaveRoles
  /\ SettledAreReady
  /\ SignersStay

----------------------------------------------------------------------------
(* What a script without work has done *)

NoWork(i) == \A n \in DOMAIN Tasks[i] : ~HasWork(Tasks[i][n])

LEMMA NothingToGrant ==
  ASSUME Types, NEW i \in Here, Scripts[i].id \notin recorded, ~run.existing,
         \A n \in DOMAIN Tasks[i] : Tasks[i][n].kind = "grant" => ~HasWork(Tasks[i][n])
  PROVE  HasRoles(i)
<1> SUFFICES ASSUME NEW k \in DOMAIN Scripts[i].after, Scripts[i].after[k].kind = "grant"
             PROVE  <<Scripts[i].contract, deployed[Scripts[i].contract].at, Scripts[i].after[k].what>>
                      \in rights
  BY DEF HasRoles
<1> DEFINE t == Tasks[i][k + 1]
<1>1. /\ k + 1 \in DOMAIN Tasks[i] /\ t.kind = "grant" /\ t.what = Scripts[i].after[k].what
      /\ i \in DOMAIN Scripts
  BY HereKinds DEF Here
<1>2. t.contract = Scripts[i].contract /\ t.id = Scripts[i].id
  BY <1>1, TaskFacts
<1>3. ~HasWork(t)
  BY <1>1
<1> HIDE DEF t
<1>4. Has(t.contract, t.what)
  BY <1>1, <1>2, <1>3 DEF HasWork
<1> QED BY <1>1, <1>2, <1>4 DEF Has

LEMMA NothingToDo ==
  ASSUME Types, NEW i \in Here, NoWork(i)
  PROVE  /\ Scripts[i].id # NoId => Scripts[i].id \in recorded
         /\ Scripts[i].id = NoId => IsCurrent(i)
         /\ Scripts[i].id = NoId /\ ~run.existing => HasRoles(i)
<1>1. i \in DOMAIN Scripts
  BY DEF Here
<1>2. ASSUME Scripts[i].id # NoId PROVE Scripts[i].id \in recorded
  <2>1. PICK n \in DOMAIN Tasks[i] : Tasks[i][n].kind = "record"
    BY <1>2, HereKinds
  <2>2. Tasks[i][n].id = Scripts[i].id /\ ~HasWork(Tasks[i][n])
    BY <1>1, <2>1, TaskFacts DEF NoWork
  <2> QED BY <2>1, <2>2 DEF HasWork
<1>3. ASSUME Scripts[i].id = NoId PROVE IsCurrent(i)
  <2> DEFINE t == Tasks[i][1]
             c == Scripts[i].contract
  <2>1. /\ 1 \in DOMAIN Tasks[i] /\ t.kind = "deploy" /\ t.contract = c /\ t.id = NoId
        /\ t.links = LinksOf(Scripts[i]) /\ ~HasWork(t)
    BY <1>1, <1>3, HereKinds, TaskFacts DEF NoWork
  <2> HIDE DEF t
  <2>2. ~Outdated(t)
    BY <2>1 DEF HasWork, Types
  <2>3. c \in Contracts
    BY HereContracts
  <2>4. deployed[c] = [at |-> deployed[c].at, source |-> deployed[c].source,
                       links |-> deployed[c].links]
    BY <2>3 DEF Types
  <2> HIDE DEF c
  <2>5. Build(t) = [deployed[c] EXCEPT !.at = @ + 1]
    BY <2>1, <2>2 DEF Outdated
  <2>6. [deployed[c] EXCEPT !.at = @ + 1] =
          [at |-> deployed[c].at + 1, source |-> deployed[c].source, links |-> deployed[c].links]
    BY <2>4
  <2>7. Build(t) = [at |-> deployed[c].at + 1, source |-> IF c \in Edited THEN source[c] ELSE 0,
                    links |-> [d \in LinksOf(Scripts[i]) |-> deployed[d].at]]
    BY <2>1 DEF Build
  <2>8. /\ deployed[c].source = IF c \in Edited THEN source[c] ELSE 0
        /\ deployed[c].links = [d \in LinksOf(Scripts[i]) |-> deployed[d].at]
    BY <2>5, <2>6, <2>7
  <2> QED BY <2>8 DEF IsCurrent, c
<1>4. ASSUME Scripts[i].id = NoId, ~run.existing PROVE HasRoles(i)
  BY <1>4, NothingToGrant DEF NoWork, Types
<1> QED BY <1>2, <1>3, <1>4

\* The run is at the script in place p of its order, and at its task n.
At(p, n) ==
  /\ run.tag \in TagChoices
  /\ p \in 1 .. Len(TheOrder) /\ TheOrder[p] \in DOMAIN Scripts
  /\ n \in DOMAIN Tasks[TheOrder[p]]
  /\ HasWork(Tasks[TheOrder[p]][n])
  /\ \A m \in DOMAIN Tasks[TheOrder[p]] : m < n => ~HasWork(Tasks[TheOrder[p]][m])
  /\ \A m \in 1 .. p - 1 : Ready(TheOrder[m])

LEMMA OrderFacts ==
  ASSUME run.tag \in TagChoices, run.existing \in BOOLEAN
  PROVE  /\ TheOrder \in Seq(DOMAIN Scripts)
         /\ \A m, n \in 1 .. Len(TheOrder) : TheOrder[m] = TheOrder[n] => m = n
         /\ run.tag = "all" => \A i \in DOMAIN Scripts : \E m \in 1 .. Len(TheOrder) : TheOrder[m] = i
         /\ \A i \in DOMAIN Scripts :
              /\ HasTask(i, "signers") => Precedes(ScriptOf("OracleStore"), i, TheOrder)
              /\ ~run.existing /\ HasTask(i, "grant") => Precedes(ScriptOf("RoleStore"), i, TheOrder)
              /\ ~run.existing => \A c \in MayLink(Scripts[i]) : Precedes(ScriptOf(c), i, TheOrder)
              /\ run.tag # "SubaccountRouter" \/ Scripts[i].contract # "SubaccountRouter" =>
                   \A store \in Stores \intersect MayLink(Scripts[i]) :
                     Precedes(ScriptOf(store), i, TheOrder)
<1>1. run.tag \in Tags
  BY TagsAssumption
<1>2. PICK order : order = TheOrder
  OBVIOUS
<1>3. /\ order \in Seq(DOMAIN Scripts)
      /\ \A m, n \in DOMAIN order : order[m] = order[n] => m = n
      /\ run.tag = "all" => ToSet(order) = DOMAIN Scripts
      /\ \A i \in DOMAIN Scripts :
           /\ HasTask(i, "signers") => Precedes(ScriptOf("OracleStore"), i, order)
           /\ ~run.existing /\ HasTask(i, "grant") => Precedes(ScriptOf("RoleStore"), i, order)
           /\ ~run.existing => \A c \in MayLink(Scripts[i]) : Precedes(ScriptOf(c), i, order)
           /\ run.tag # "SubaccountRouter" \/ Scripts[i].contract # "SubaccountRouter" =>
                \A store \in Stores \intersect MayLink(Scripts[i]) : Precedes(ScriptOf(store), i, order)
  BY <1>1, <1>2, OrdersAreSound DEF TheOrder
<1>4. DOMAIN order = 1 .. Len(order)
  BY <1>3
<1>5. ToSet(order) = {order[m] : m \in DOMAIN order}
  BY DEF ToSet
<1> QED BY <1>2, <1>3, <1>4, <1>5

\* A script that precedes the present one has been passed; one with an id is recorded.
LEMMA Preceding ==
  ASSUME run.existing \in BOOLEAN, NEW p, NEW n, At(p, n),
         NEW i, Precedes(i, TheOrder[p], TheOrder)
  PROVE  /\ \E m \in 1 .. p - 1 : TheOrder[m] = i
         /\ i \in Here /\ Scripts[i].id # NoId => Scripts[i].id \in recorded
<1>1. run.tag \in TagChoices /\ p \in 1 .. Len(TheOrder)
  BY DEF At
<1>2. p \in DOMAIN TheOrder
  BY <1>1, OrderFacts
<1>3. PICK m \in 1 .. p - 1 : TheOrder[m] = i
  BY <1>2 DEF Precedes
<1> QED BY <1>3 DEF At, Ready

LEMMA NoWorkIsReady ==
  ASSUME Types, NEW i, NoWork(i)
  PROVE  Ready(i)
BY NothingToDo DEF Ready

\* The run goes on from the script in place p.
GoesOn(p) ==
  /\ run' \in [tag : TagChoices \union {"none"}, existing : BOOLEAN, todo : Seq(DOMAIN Scripts), sent : BOOLEAN]
  /\ run'.tag = run.tag /\ run'.existing = run.existing
  /\ RunsGoOn'
  /\ Passed' = p - 1

LEMMA SuffixGoesOn ==
  ASSUME Types, RunsGoOn, NEW k \in 1 .. Len(run.todo),
         NEW kind, run' = [run EXCEPT !.todo = SubSeq(@, k, Len(@)), !.sent = @ \/ kind = "handler"]
  PROVE  GoesOn(Passed + k)
<1> DEFINE todo == run.todo
           rest == SubSeq(todo, k, Len(todo))
<1>1. todo \in Seq(DOMAIN Scripts) /\ run.tag \in TagChoices /\ run.existing \in BOOLEAN /\ Len(todo) \in Nat
  BY DEF Types, RunsGoOn
<1>2. rest \in Seq(DOMAIN Scripts) /\ Len(rest) = Len(todo) - k + 1
      /\ \A j \in 1 .. Len(rest) : rest[j] = todo[k + j - 1]
  <2>1. k \in 1 .. Len(todo) + 1 /\ Len(todo) \in k - 1 .. Len(todo)
    BY <1>1
  <2> HIDE DEF todo
  <2>2. /\ rest \in Seq(DOMAIN Scripts)
        /\ Len(rest) = IF k <= Len(todo) THEN Len(todo) - k + 1 ELSE 0
        /\ \A j \in 1 .. Len(todo) - k + 1 : rest[j] = todo[k + j - 1]
    BY <1>1, <2>1, SubSeqProperties
  <2> QED BY <1>1, <2>2 DEF todo
<1>3. run'.tag = run.tag /\ run'.existing = run.existing /\ run'.todo = rest
      /\ run' \in [tag : TagChoices \union {"none"}, existing : BOOLEAN, todo : Seq(DOMAIN Scripts), sent : BOOLEAN]
  BY <1>2 DEF Types
<1>4. TheOrder' = TheOrder
  BY <1>3 DEF TheOrder
<1>5. TheOrder \in Seq(DOMAIN Scripts) /\ Len(TheOrder) \in Nat
  BY <1>1, OrderFacts
<1>6. Passed' = Passed + k - 1
  BY <1>1, <1>2, <1>3, <1>4, <1>5 DEF Passed
<1>7. Passed \in Nat /\ \A m \in 1 .. Len(todo) : todo[m] = TheOrder[Passed + m]
  BY DEF RunsGoOn
<1>8. ASSUME NEW j \in 1 .. Len(rest) PROVE rest[j] = TheOrder[Passed' + j]
  <2>1. k + j - 1 \in 1 .. Len(todo)
    BY <1>1, <1>2
  <2>2. rest[j] = todo[k + j - 1]
    BY <1>2
  <2>3. Passed' + j = Passed + (k + j - 1)
    BY <1>1, <1>2, <1>6, <1>7
  <2> QED BY <1>7, <2>1, <2>2, <2>3
<1>9. RunsGoOn'
  BY <1>1, <1>3, <1>4, <1>6, <1>7, <1>8 DEF RunsGoOn
<1> QED BY <1>1, <1>3, <1>6, <1>7, <1>9 DEF GoesOn

\* The step of a run is a task, in a place where all scripts before are ready.
LEMMA ProceedAt ==
  ASSUME Types, Idle \/ (RunsGoOn /\ PassedAreReady), Proceed
  PROVE  \E p, n : LET t == Tasks[TheOrder[p]][n] IN
           /\ At(p, n)
           /\ \/ DoTask(t) /\ GoesOn(p)
              \/ /\ Throws(t) /\ run' = NoRun
                 /\ UNCHANGED <<source, edition, deployed, recorded, marked, rights, settings,
                                signers, minSigners, settled, events>>
<1>0. PICK k \in Least[Todo] : \E t \in {Tasks[run.todo[k]][n] : n \in Least[WorkOf(run.todo[k])]} :
        \/ DoTask(t) /\ run' = [run EXCEPT !.todo = SubSeq(@, k, Len(@)), !.sent = @ \/ t.kind = "handler"]
        \/ /\ Throws(t) /\ run' = NoRun
           /\ UNCHANGED <<source, edition, deployed, recorded, marked, rights, settings,
                          signers, minSigners, settled, events>>
  BY DEF Proceed
<1>1. PICK t \in {Tasks[run.todo[k]][n] : n \in Least[WorkOf(run.todo[k])]} :
        \/ DoTask(t) /\ run' = [run EXCEPT !.todo = SubSeq(@, k, Len(@)), !.sent = @ \/ t.kind = "handler"]
        \/ /\ Throws(t) /\ run' = NoRun
           /\ UNCHANGED <<source, edition, deployed, recorded, marked, rights, settings,
                          signers, minSigners, settled, events>>
  BY <1>0
<1>2. PICK n \in Least[WorkOf(run.todo[k])] : t = Tasks[run.todo[k]][n]
  OBVIOUS
<1>3. /\ run.todo \in Seq(DOMAIN Scripts) /\ run.existing \in BOOLEAN
      /\ DOMAIN run.todo = 1 .. Len(run.todo) /\ Len(run.todo) \in Nat
  BY DEF Types
<1>4. Todo \in SUBSET Nat
  BY <1>3 DEF Todo
<1>5. k \in Todo /\ \A other \in Todo : k <= other
  BY <1>4 DEF Least
<1>6. k \in 1 .. Len(run.todo) /\ run.todo[k] \in DOMAIN Scripts
  BY <1>3, <1>5 DEF Todo
<1>7. WorkOf(run.todo[k]) \in SUBSET Nat
  BY <1>6, TaskFacts DEF WorkOf
<1>8. n \in WorkOf(run.todo[k]) /\ \A other \in WorkOf(run.todo[k]) : n <= other
  BY <1>7 DEF Least
<1>9. /\ n \in DOMAIN Tasks[run.todo[k]] /\ HasWork(Tasks[run.todo[k]][n])
      /\ \A m \in DOMAIN Tasks[run.todo[k]] : m < n => ~HasWork(Tasks[run.todo[k]][m])
  <2>1. n \in Nat /\ \A m \in DOMAIN Tasks[run.todo[k]] : m \in Nat
    BY <1>6, <1>7, <1>8, TaskFacts
  <2> QED BY <1>8, <2>1 DEF WorkOf
<1>10. ~Idle
  <2>1. Len(run.todo) >= 1
    BY <1>3, <1>6
  <2>2. Len(NoRun.todo) = 0
    BY DEF NoRun
  <2> QED BY <2>1, <2>2 DEF Idle
<1>11. RunsGoOn /\ PassedAreReady
  BY <1>10
<1> DEFINE p == Passed + k
<1>12. /\ run.tag \in TagChoices /\ Passed \in Nat
       /\ \A m \in 1 .. Len(run.todo) : run.todo[m] = TheOrder[Passed + m]
  BY <1>11 DEF RunsGoOn
<1>13. TheOrder[p] = run.todo[k]
  BY <1>6, <1>12
<1>14. p \in 1 .. Len(TheOrder)
  <2>1. TheOrder \in Seq(DOMAIN Scripts)
    BY <1>3, <1>12, OrderFacts
  <2>2. Len(TheOrder) \in Nat /\ Len(TheOrder) = Passed + Len(run.todo)
    BY <1>3, <1>12, <2>1 DEF Passed
  <2> QED BY <1>3, <1>6, <1>12, <2>2
<1>15. ASSUME NEW m \in 1 .. p - 1 PROVE Ready(TheOrder[m])
  <2>1. CASE m <= Passed
    BY <1>11, <1>12, <2>1 DEF PassedAreReady
  <2>2. CASE m > Passed
    <3> DEFINE j == m - Passed
    <3>1. j \in 1 .. Len(run.todo) /\ j < k /\ Passed + j = m
      BY <1>3, <1>6, <1>12, <2>2
    <3> HIDE DEF j
    <3>2. TheOrder[m] = run.todo[j]
      BY <1>12, <3>1
    <3>3. j \notin Todo
      BY <1>3, <1>5, <1>6, <3>1
    <3>4. WorkOf(run.todo[j]) = {}
      BY <1>3, <3>1, <3>3 DEF Todo
    <3>5. NoWork(run.todo[j])
      BY <3>4 DEF WorkOf, NoWork
    <3> QED BY <3>2, <3>5, NoWorkIsReady
  <2> QED BY <1>12, <2>1, <2>2
<1>16. At(p, n)
  BY <1>6, <1>9, <1>12, <1>13, <1>14, <1>15 DEF At
<1>17. t = Tasks[TheOrder[p]][n]
  BY <1>2, <1>13
<1>18. run' = [run EXCEPT !.todo = SubSeq(@, k, Len(@)), !.sent = @ \/ t.kind = "handler"] => GoesOn(p)
  BY <1>6, <1>11, SuffixGoesOn
<1> HIDE DEF p
<1>19. \/ DoTask(t) /\ GoesOn(p)
       \/ /\ Throws(t) /\ run' = NoRun
          /\ UNCHANGED <<source, edition, deployed, recorded, marked, rights, settings,
                         signers, minSigners, settled, events>>
  BY <1>1, <1>18
<1> QED BY <1>16, <1>17, <1>19

----------------------------------------------------------------------------
(* What a task leaves of the invariant *)

LEMMA SameOrder ==
  ASSUME NEW p, GoesOn(p)
  PROVE  TheOrder' = TheOrder
BY DEF GoesOn, TheOrder

\* The scripts that have been passed are others than the present one, and so are
\* those that precede them.
LEMMA NotAgain ==
  ASSUME run.existing \in BOOLEAN, NEW p, NEW n, At(p, n), NEW m \in 1 .. p - 1
  PROVE  /\ TheOrder[m] \in DOMAIN Scripts
         /\ TheOrder[m] # TheOrder[p]
         /\ ~Precedes(TheOrder[p], TheOrder[m], TheOrder)
<1>1. run.tag \in TagChoices /\ p \in 1 .. Len(TheOrder)
  BY DEF At
<1>2. /\ TheOrder \in Seq(DOMAIN Scripts) /\ Len(TheOrder) \in Nat
      /\ \A j, k \in 1 .. Len(TheOrder) : TheOrder[j] = TheOrder[k] => j = k
  BY <1>1, OrderFacts
<1>3. m \in 1 .. Len(TheOrder) /\ m < p /\ DOMAIN TheOrder = 1 .. Len(TheOrder)
  BY <1>1, <1>2
<1>4. TheOrder[m] \in DOMAIN Scripts
  BY <1>2, <1>3
<1>5. TheOrder[m] # TheOrder[p]
  BY <1>1, <1>2, <1>3
<1>6. ASSUME Precedes(TheOrder[p], TheOrder[m], TheOrder) PROVE FALSE
  <2>1. PICK l \in 1 .. m - 1 : TheOrder[l] = TheOrder[p]
    BY <1>3, <1>6 DEF Precedes
  <2>2. l \in 1 .. Len(TheOrder) /\ l < p
    BY <1>1, <1>2, <1>3, <2>1
  <2> QED BY <1>1, <1>2, <2>1, <2>2
<1> QED BY <1>4, <1>5, <1>6

\* The scripts behind the run stay ready if each of them keeps what it did.
LEMMA StayReady ==
  ASSUME NEW p, NEW n, At(p, n), GoesOn(p), recorded \subseteq recorded',
         \A m \in 1 .. p - 1 : LET i == TheOrder[m] IN
           run.tag = "all" /\ ~run.existing /\ i \in Here /\ Scripts[i].id = NoId
             /\ HasRoles(i) /\ IsCurrent(i)
           => HasRoles(i)' /\ IsCurrent(i)'
  PROVE  PassedAreReady'
<1>1. TheOrder' = TheOrder /\ Passed' = p - 1 /\ run'.tag = run.tag /\ run'.existing = run.existing
  BY SameOrder DEF GoesOn
<1>2. ASSUME NEW m \in 1 .. p - 1 PROVE Ready(TheOrder[m])'
  BY <1>1, <1>2 DEF At, Ready
<1> QED BY <1>1, <1>2 DEF PassedAreReady

LEMMA MoreRights ==
  ASSUME NEW i, deployed' = deployed, rights \subseteq rights', HasRoles(i)
  PROVE  HasRoles(i)'
BY DEF HasRoles

LEMMA StayCurrent ==
  ASSUME NEW i, deployed' = deployed, source' = source, IsCurrent(i)
  PROVE  IsCurrent(i)'
BY DEF IsCurrent

\* A deployment leaves the roles and the links of other contracts alone.
LEMMA DeployRest ==
  ASSUME Types, NEW t, DeployContract(t), t.contract \in Contracts,
         NEW i \in Here, Scripts[i].contract # t.contract
  PROVE  /\ HasRoles(i) /\ (t.contract = "RoleStore" => ~HasTask(i, "grant")) => HasRoles(i)'
         /\ IsCurrent(i) /\ t.contract \notin LinksOf(Scripts[i]) => IsCurrent(i)'
<1> DEFINE c == Scripts[i].contract
<1>1. c \in Contracts /\ LinksOf(Scripts[i]) \subseteq Contracts
  BY HereContracts
<1>2. /\ deployed' = [deployed EXCEPT ![t.contract] = Build(t)] /\ source' = source
      /\ rights' = IF t.contract = "RoleStore" THEN {r \in rights : r[3] \in {"HANDLER", "TIERS"}} ELSE rights
  BY DEF DeployContract, Does
<1>3. \A d \in Contracts : d # t.contract => deployed'[d] = deployed[d]
  BY <1>2 DEF Types
<1>4. ASSUME HasRoles(i), t.contract = "RoleStore" => ~HasTask(i, "grant") PROVE HasRoles(i)'
  <2> SUFFICES ASSUME NEW k \in DOMAIN Scripts[i].after, Scripts[i].after[k].kind = "grant"
               PROVE  <<c, deployed'[c].at, Scripts[i].after[k].what>> \in rights'
    BY DEF HasRoles
  <2>1. HasTask(i, "grant")
    BY DEF HasTask
  <2>2. rights' = rights
    BY <1>2, <1>4, <2>1
  <2> QED BY <1>1, <1>3, <1>4, <2>2 DEF HasRoles
<1>5. ASSUME IsCurrent(i), t.contract \notin LinksOf(Scripts[i]) PROVE IsCurrent(i)'
  BY <1>1, <1>2, <1>3, <1>5 DEF IsCurrent
<1> QED BY <1>4, <1>5

\* The task of a run in place p of its order.
LEMMA PresentTask ==
  ASSUME run.existing \in BOOLEAN, NEW p, NEW n, At(p, n)
  PROVE  LET i == TheOrder[p] t == Tasks[i][n] IN
         /\ i \in DOMAIN Scripts /\ n \in DOMAIN Tasks[i]
         /\ t.contract = Scripts[i].contract /\ t.id = Scripts[i].id /\ t.links = LinksOf(Scripts[i])
         /\ Scripts[i].id \notin recorded
BY TaskFacts DEF At, HasWork

LEMMA DeployStep ==
  ASSUME Types, RecordedHaveRoles, SignersStay, NEW p, NEW n, At(p, n), GoesOn(p),
         DeployContract(Tasks[TheOrder[p]][n])
  PROVE  Inv'
<1>1. PICK i : i = TheOrder[p]
  OBVIOUS
<1>2. PICK t : t = Tasks[i][n]
  OBVIOUS
<1>3. run.existing \in BOOLEAN
  BY DEF Types
<1>4. /\ DeployContract(t) /\ t.kind = "deploy" /\ settled' = FALSE
      /\ source' = source /\ edition' = edition /\ recorded' = recorded /\ marked' = marked
      /\ deployed' = [deployed EXCEPT ![t.contract] = Build(t)]
      /\ rights' \subseteq rights
      /\ minSigners' = IF t.contract = "DataStore" THEN 0 ELSE minSigners
      /\ signers' = IF t.contract = "OracleStore" THEN {} ELSE signers
  BY <1>1, <1>2 DEF DeployContract, Does
<1>5. /\ i \in DOMAIN Scripts /\ n \in DOMAIN Tasks[i] /\ t.contract = Scripts[i].contract
      /\ Scripts[i].id \notin recorded
  BY <1>1, <1>2, <1>3, PresentTask
<1>6. i \in Here
  BY <1>2, <1>4, <1>5, TaskFacts
<1>7. t.contract \in Contracts /\ i = ScriptOf(t.contract)
  BY <1>5, <1>6, HereContracts
<1>8. ASSUME NEW j \in Here, j # i PROVE Scripts[j].contract # t.contract
  BY <1>7, <1>8, HereContracts
<1>9. ASSUME NEW store \in Stores, IdOf(store) \in recorded PROVE store # t.contract
  BY <1>5, <1>7, <1>9 DEF IdOf
<1>10. Types'
  <2>1. /\ DOMAIN deployed' = Contracts
        /\ \A c \in Contracts : c # t.contract => deployed'[c] = deployed[c]
        /\ deployed'[t.contract] = Build(t)
    BY <1>4, <1>7 DEF Types
  <2>2. /\ Build(t) = [at |-> Build(t).at, source |-> Build(t).source, links |-> Build(t).links]
        /\ Build(t).at = deployed[t.contract].at + 1
        /\ Build(t).source = IF t.contract \in Edited THEN source[t.contract] ELSE 0
    BY DEF Build
  <2>3. deployed[t.contract].at \in Nat /\ Build(t).source \in Nat
    BY <1>7, <2>2, BoundsAssumption DEF Types, TypeOK
  <2>4. \A c \in Contracts :
          /\ deployed'[c] = [at |-> deployed'[c].at, source |-> deployed'[c].source,
                             links |-> deployed'[c].links]
          /\ deployed[c].at \in Nat /\ deployed'[c].at \in Nat /\ deployed[c].at <= deployed'[c].at
          /\ deployed'[c].source \in Nat
    <3> TAKE c \in Contracts
    <3>1. CASE c = t.contract
      BY <2>1, <2>2, <2>3, <3>1
    <3>2. CASE c # t.contract
      BY <2>1, <3>2 DEF Types, TypeOK
    <3> QED BY <3>1, <3>2
  <2>5. \A r \in rights' :
          /\ r[1] = "configured" \/ r[1] \in Contracts
          /\ r[1] = "configured" \/ r[2] \in 1 .. deployed'[r[1]].at
    <3> TAKE r \in rights'
    <3>1. r[1] = "configured" \/ (r[1] \in Contracts /\ r[2] \in 1 .. deployed[r[1]].at)
      BY <1>4 DEF Types, TypeOK
    <3>2. \A c \in Contracts : 1 .. deployed[c].at \subseteq 1 .. deployed'[c].at
      <4> TAKE c \in Contracts
      <4>1. deployed[c].at \in Nat /\ deployed'[c].at \in Nat /\ deployed[c].at <= deployed'[c].at
        BY <2>4
      <4> QED BY <4>1
    <3> QED BY <3>1, <3>2, Zenon
  <2>6. signers' \subseteq 1 .. 3 /\ minSigners' \in {0, minOracleSigners}
    BY <1>4 DEF Types, TypeOK
  <2>7. run'.todo \in Seq(DOMAIN Scripts)
    BY DEF GoesOn
  <2>8. ToSet(run'.todo) \subseteq DOMAIN Scripts
    BY <2>7 DEF ToSet
  <2> QED BY <1>4, <2>1, <2>4, <2>5, <2>6, <2>8 DEF Types, TypeOK, GoesOn
<1>11. PassedAreReady'
  <2>1. ASSUME NEW m \in 1 .. p - 1, NEW j, j = TheOrder[m],
               run.tag = "all", ~run.existing, j \in Here, HasRoles(j), IsCurrent(j)
        PROVE  HasRoles(j)' /\ IsCurrent(j)'
    <3>1. j # i /\ ~Precedes(i, j, TheOrder) /\ run.tag \in TagChoices
      BY <1>1, <1>3, <2>1, NotAgain DEF At
    <3>2. Scripts[j].contract # t.contract /\ j \in DOMAIN Scripts
      BY <1>8, <2>1, <3>1, HereContracts
    <3>3. t.contract = "RoleStore" => ~HasTask(j, "grant")
      BY <1>3, <1>7, <2>1, <3>1, <3>2, OrderFacts
    <3>4. t.contract \notin LinksOf(Scripts[j])
      BY <1>3, <1>7, <2>1, <3>1, <3>2, OrderFacts, HereContracts
    <3> QED BY <1>4, <1>7, <2>1, <3>2, <3>3, <3>4, DeployRest
  <2>2. TheOrder' = TheOrder
    BY SameOrder
  <2> QED BY <1>4, <2>1, <2>2, StayReady
<1>12. RecordedHaveRoles'
  <2> SUFFICES ASSUME NEW j \in Here, Scripts[j].id \in recorded \ marked
               PROVE  HasRoles(j)' /\ (HasTask(j, "grant") => IdOf("RoleStore") \in recorded)
    BY <1>4 DEF RecordedHaveRoles
  <2>1. HasRoles(j) /\ (HasTask(j, "grant") => IdOf("RoleStore") \in recorded)
    BY DEF RecordedHaveRoles
  <2>2. Scripts[j].contract # t.contract
    BY <1>5, <1>8
  <2>3. t.contract = "RoleStore" => ~HasTask(j, "grant")
    BY <1>9, <2>1 DEF Stores
  <2> QED BY <1>4, <1>7, <2>1, <2>2, <2>3, DeployRest
<1>13. SignersStay'
  BY <1>4, <1>9 DEF SignersStay, Stores, minOracleSigners
<1>14. SettledAreReady'
  BY <1>4 DEF SettledAreReady
<1>15. RunsGoOn'
  BY DEF GoesOn
<1> QED BY <1>10, <1>11, <1>12, <1>13, <1>14, <1>15 DEF Inv

\* A task that gives rights, sets settings or replaces signers.
LEMMA RestStep ==
  ASSUME Types, RecordedHaveRoles, SignersStay, NEW p, NEW n, At(p, n), GoesOn(p),
         rights \subseteq rights',
         \A r \in rights' \ rights :
           r[1] = "configured" \/ (r[1] \in Contracts /\ r[2] \in 1 .. deployed[r[1]].at),
         signers' \subseteq 1 .. 3, minSigners' \in {0, minOracleSigners}, settled' = FALSE,
         UNCHANGED <<source, edition, deployed, recorded, marked>>,
         SignersStay'
  PROVE  Inv'
<1>1. Types'
  <2>1. \A r \in rights' : r[1] = "configured" \/ (r[1] \in Contracts /\ r[2] \in 1 .. deployed[r[1]].at)
    BY DEF Types, TypeOK
  <2>2. run'.todo \in Seq(DOMAIN Scripts)
    BY DEF GoesOn
  <2>3. ToSet(run'.todo) \subseteq DOMAIN Scripts
    BY <2>2 DEF ToSet
  <2> QED BY <2>1, <2>3 DEF Types, TypeOK, GoesOn
<1>2. PassedAreReady'
  <2>1. TheOrder' = TheOrder
    BY SameOrder
  <2>2. ASSUME NEW j, HasRoles(j), IsCurrent(j) PROVE HasRoles(j)' /\ IsCurrent(j)'
    BY <2>2, MoreRights, StayCurrent
  <2>3. recorded \subseteq recorded'
    OBVIOUS
  <2>4. ASSUME NEW m \in 1 .. p - 1, HasRoles(TheOrder[m]), IsCurrent(TheOrder[m])
        PROVE  HasRoles(TheOrder[m])' /\ IsCurrent(TheOrder[m])'
    <3>1. PICK j : j = TheOrder[m]
      OBVIOUS
    <3> QED BY <2>1, <2>2, <2>4, <3>1
  <2> QED BY <2>3, <2>4, StayReady
<1>3. RecordedHaveRoles'
  BY MoreRights DEF RecordedHaveRoles, IdOf
<1>4. SettledAreReady'
  BY DEF SettledAreReady
<1> QED BY <1>1, <1>2, <1>3, <1>4 DEF Inv, GoesOn

LEMMA GrantStep ==
  ASSUME Types, RecordedHaveRoles, SignersStay, NEW p, NEW n, At(p, n), GoesOn(p),
         grantRoleIfNotGranted(Tasks[TheOrder[p]][n])
  PROVE  Inv'
<1>1. PICK i : i = TheOrder[p]
  OBVIOUS
<1>2. PICK t : t = Tasks[i][n]
  OBVIOUS
<1>3. grantRoleIfNotGranted(t)
  BY <1>1, <1>2
<1>4. PICK r : /\ rights' = rights \union {r}
               /\ r[1] = "configured" \/ (t.kind # "configured" /\ r[1] = t.contract
                                         /\ r[2] = deployed[t.contract].at)
  <2> DEFINE new == CASE t.kind = "configured" -> <<"configured", 0, t.what>>
                      [] t.kind = "handler" -> <<t.contract, deployed[t.contract].at, "HANDLER">>
                      [] t.kind = "tiers" -> <<t.contract, deployed[t.contract].at, "TIERS">>
                      [] OTHER -> <<t.contract, deployed[t.contract].at, t.what>>
  <2>1. rights' = rights \union {new}
    BY <1>3 DEF grantRoleIfNotGranted
  <2>2. CASE t.kind = "configured"
    <3>1. new = <<"configured", 0, t.what>>
      BY <2>2
    <3> QED BY <2>1, <3>1
  <2>3. CASE t.kind = "handler"
    <3>1. new = <<t.contract, deployed[t.contract].at, "HANDLER">>
      BY <2>3
    <3> QED BY <2>1, <2>3, <3>1
  <2>5. CASE t.kind = "tiers"
    <3>1. new = <<t.contract, deployed[t.contract].at, "TIERS">>
      BY <2>5
    <3> QED BY <2>1, <2>5, <3>1
  <2>4. CASE t.kind \notin {"configured", "handler", "tiers"}
    <3>1. new = <<t.contract, deployed[t.contract].at, t.what>>
      BY <2>4
    <3> QED BY <2>1, <2>4, <3>1
  <2> QED BY <2>2, <2>3, <2>4, <2>5
<1>5. t.kind \in {"grant", "configured", "handler", "tiers"} /\ settled' = FALSE
      /\ UNCHANGED <<source, edition, deployed, recorded, marked, signers, minSigners>>
  BY <1>3 DEF grantRoleIfNotGranted, Does
<1>6. run.existing \in BOOLEAN
  BY DEF Types
<1>7. /\ i \in DOMAIN Scripts /\ n \in DOMAIN Tasks[i] /\ t.contract = Scripts[i].contract
      /\ Scripts[i].id \notin recorded
  BY <1>1, <1>2, <1>6, PresentTask
<1>8. ASSUME t.kind # "configured"
      PROVE  t.contract \in Contracts /\ deployed[t.contract].at \in Nat /\ 1 <= deployed[t.contract].at
  <2>1. i \in Here /\ 1 \in DOMAIN Tasks[i] /\ 1 < n
    BY <1>2, <1>5, <1>7, <1>8, TaskFacts
  <2> DEFINE first == Tasks[i][1]
  <2>2. first.kind = "deploy" /\ first.contract = t.contract /\ first.id = Scripts[i].id
    BY <1>7, <2>1, HereKinds, TaskFacts
  <2>3. ~HasWork(first)
    BY <1>1, <2>1 DEF At
  <2> HIDE DEF first
  <2>4. deployed[t.contract].at # 0
    BY <1>7, <2>2, <2>3 DEF HasWork, Outdated
  <2>5. t.contract \in Contracts
    BY <1>7, <2>1, HereContracts
  <2>6. deployed[t.contract].at \in Nat
    BY <2>5 DEF Types, TypeOK
  <2> QED BY <2>4, <2>5, <2>6
<1>9. r[1] = "configured" \/ (r[1] \in Contracts /\ r[2] \in 1 .. deployed[r[1]].at)
  <2>1. CASE t.kind # "configured" /\ r[1] = t.contract /\ r[2] = deployed[t.contract].at
    <3>1. deployed[t.contract].at \in 1 .. deployed[t.contract].at
      BY <1>8, <2>1
    <3> QED BY <1>8, <2>1, <3>1, Zenon
  <2> QED BY <1>4, <2>1
<1>10. signers' \subseteq 1 .. 3 /\ minSigners' \in {0, minOracleSigners} /\ SignersStay'
  BY <1>5 DEF Types, TypeOK, SignersStay, IdOf
<1> QED BY <1>4, <1>5, <1>9, <1>10, RestStep

LEMMA SettingsStep ==
  ASSUME Types, RecordedHaveRoles, SignersStay, NEW p, NEW n, At(p, n), GoesOn(p),
         SetSettings(Tasks[TheOrder[p]][n])
  PROVE  Inv'
<1>1. UNCHANGED <<source, edition, deployed, recorded, marked, rights, signers, minSigners>>
      /\ settled' = FALSE
  BY DEF SetSettings, Does
<1>2. signers' \subseteq 1 .. 3 /\ minSigners' \in {0, minOracleSigners} /\ SignersStay'
  BY <1>1 DEF Types, TypeOK, SignersStay, IdOf
<1> QED BY <1>1, <1>2, RestStep

\* Two signers stay while others come, and then while those go.
LEMMA SignersAreReplaced ==
  ASSUME signers \subseteq 1 .. 3, edition \in 1 .. 2, signers' \in NextSigners
  PROVE  /\ signers' \subseteq 1 .. 3
         /\ Cardinality(signers) >= 2 => Cardinality(signers') >= 2
<1> DEFINE gone == signers \ SignersIn(edition)
           missing == SignersIn(edition) \ signers
<1>1. SignersIn(edition) \subseteq 1 .. 3 /\ SignersIn(edition) = {edition, edition + 1}
  BY DEF SignersIn
<1>2. IsFiniteSet(1 .. 3)
  <2>1. 1 \in Int /\ 3 \in Int
    OBVIOUS
  <2> QED BY <2>1, FS_Interval, Zenon
<1>3. CASE missing # {}
  <2>1. PICK x \in missing : signers' = signers \union {x}
    BY <1>3 DEF NextSigners
  <2>2. signers' \subseteq 1 .. 3 /\ signers \subseteq signers'
    BY <1>1, <2>1
  <2>3. IsFiniteSet(signers') /\ Cardinality(signers) <= Cardinality(signers')
    BY <1>2, <2>2, FS_Subset
  <2>4. Cardinality(signers') \in Nat /\ Cardinality(signers) \in Nat
    BY <1>2, <2>2, FS_Subset, FS_CardinalityType
  <2> QED BY <2>2, <2>3, <2>4
<1>4. CASE missing = {}
  <2>1. PICK x \in gone : signers' = signers \ {x}
    BY <1>4 DEF NextSigners
  <2>2. signers' \subseteq 1 .. 3 /\ SignersIn(edition) \subseteq signers'
    BY <1>4, <2>1
  <2>3. IsFiniteSet(signers') /\ Cardinality(SignersIn(edition)) <= Cardinality(signers')
    BY <1>2, <2>2, FS_Subset
  <2>4. Cardinality(SignersIn(edition)) = 2
    <3>1. Cardinality({edition}) = 1 /\ IsFiniteSet({edition})
      BY FS_Singleton
    <3>2. {edition, edition + 1} = {edition} \union {edition + 1} /\ edition + 1 \notin {edition}
      OBVIOUS
    <3>3. Cardinality({edition} \union {edition + 1}) = Cardinality({edition}) + 1
      BY <3>1, <3>2, FS_AddElement
    <3> QED BY <1>1, <3>1, <3>2, <3>3
  <2>5. Cardinality(signers') \in Nat
    BY <2>3, FS_CardinalityType
  <2> QED BY <2>2, <2>3, <2>4, <2>5
<1> QED BY <1>3, <1>4

LEMMA SignersStep ==
  ASSUME Types, RecordedHaveRoles, SignersStay, NEW p, NEW n, At(p, n), GoesOn(p),
         SetOracleSigners(Tasks[TheOrder[p]][n])
  PROVE  Inv'
<1>1. PICK i : i = TheOrder[p]
  OBVIOUS
<1>2. PICK t : t = Tasks[i][n]
  OBVIOUS
<1>3. /\ t.kind = "signers" /\ settled' = FALSE
      /\ UNCHANGED <<source, edition, deployed, recorded, marked, rights>>
      /\ IF signers # SignersIn(edition)
         THEN signers' \in NextSigners /\ minSigners' = minSigners
         ELSE minSigners' = minOracleSigners /\ signers' = signers
  BY <1>1, <1>2 DEF SetOracleSigners, Does
<1>4. run.existing \in BOOLEAN /\ signers \subseteq 1 .. 3 /\ edition \in 1 .. 2
      /\ minSigners \in {0, minOracleSigners}
  BY DEF Types, TypeOK
<1>5. i \in DOMAIN Scripts /\ HasTask(i, "signers")
  BY <1>1, <1>2, <1>3, <1>4, PresentTask, TaskFacts
<1>6. IdOf("OracleStore") \in recorded
  <2>1. Precedes(ScriptOf("OracleStore"), i, TheOrder)
    BY <1>4, <1>5, OrderFacts DEF At
  <2>2. "OracleStore" \in Stores
    BY DEF Stores
  <2> QED BY <1>1, <1>4, <2>1, <2>2, Preceding, StoreScripts DEF IdOf
<1>7. SignersStay' /\ signers' \subseteq 1 .. 3
  <2>1. CASE signers # SignersIn(edition)
    BY <1>3, <1>4, <1>6, <2>1, SignersAreReplaced DEF SignersStay, IdOf, minOracleSigners
  <2>2. CASE signers = SignersIn(edition)
    <3>1. Cardinality({edition}) = 1 /\ IsFiniteSet({edition})
      BY FS_Singleton
    <3>2. {edition, edition + 1} = {edition} \union {edition + 1} /\ edition + 1 \notin {edition}
      BY <1>4
    <3>3. Cardinality({edition} \union {edition + 1}) = Cardinality({edition}) + 1
      BY <3>1, <3>2, FS_AddElement
    <3>4. Cardinality(signers) = 2
      BY <2>2, <3>1, <3>2, <3>3 DEF SignersIn
    <3> QED BY <1>3, <1>4, <1>6, <2>2, <3>4 DEF SignersStay, IdOf, minOracleSigners
  <2> QED BY <2>1, <2>2
<1>8. minSigners' \in {0, minOracleSigners}
  BY <1>3, <1>4
<1> QED BY <1>3, <1>7, <1>8, RestStep

LEMMA RecordStep ==
  ASSUME Types, RecordedHaveRoles, SignersStay, NEW p, NEW n, At(p, n), GoesOn(p),
         RecordScript(Tasks[TheOrder[p]][n])
  PROVE  Inv'
<1>1. PICK i : i = TheOrder[p]
  OBVIOUS
<1>2. PICK t : t = Tasks[i][n]
  OBVIOUS
<1>3. /\ t.kind = "record" /\ settled' = FALSE
      /\ recorded' = recorded \union {t.what}
      /\ marked' = IF run.existing THEN marked \union {t.what} ELSE marked
      /\ UNCHANGED <<source, edition, deployed, rights, signers, minSigners>>
  BY <1>1, <1>2 DEF RecordScript, Does
<1>4. run.existing \in BOOLEAN
  BY DEF Types
<1>5. i \in DOMAIN Scripts /\ n \in DOMAIN Tasks[i] /\ Scripts[i].id \notin recorded
  BY <1>1, <1>2, <1>4, PresentTask
<1>6. /\ i \in Here /\ t.what = Scripts[i].id /\ Scripts[i].id # NoId
      /\ \A m \in DOMAIN Tasks[i] : m # n => m < n
  BY <1>2, <1>3, <1>5, TaskFacts
<1>7. Types'
  <2>1. recorded' \subseteq {Scripts[j].id : j \in Here} /\ NoId \notin recorded' /\ marked' \subseteq recorded'
    BY <1>3, <1>6 DEF Types, TypeOK
  <2>2. run'.todo \in Seq(DOMAIN Scripts)
    BY DEF GoesOn
  <2>3. ToSet(run'.todo) \subseteq DOMAIN Scripts
    BY <2>2 DEF ToSet
  <2> QED BY <1>3, <2>1, <2>3 DEF Types, TypeOK, GoesOn
<1>8. PassedAreReady'
  <2>1. TheOrder' = TheOrder
    BY SameOrder
  <2>2. ASSUME NEW m \in 1 .. p - 1, HasRoles(TheOrder[m]), IsCurrent(TheOrder[m])
        PROVE  HasRoles(TheOrder[m])' /\ IsCurrent(TheOrder[m])'
    <3>1. PICK j : j = TheOrder[m]
      OBVIOUS
    <3>2. HasRoles(j)' /\ IsCurrent(j)'
      BY <1>3, <2>2, <3>1, MoreRights, StayCurrent
    <3> QED BY <2>1, <3>1, <3>2
  <2>3. recorded \subseteq recorded'
    BY <1>3
  <2> QED BY <2>2, <2>3, StayReady
<1>9. RecordedHaveRoles'
  <2> SUFFICES ASSUME NEW j \in Here, Scripts[j].id \in recorded' \ marked'
               PROVE  HasRoles(j)' /\ (HasTask(j, "grant") => IdOf("RoleStore") \in recorded')
    BY DEF RecordedHaveRoles, IdOf
  <2>1. CASE Scripts[j].id \in recorded
    <3>1. Scripts[j].id \in recorded \ marked
      BY <1>3, <2>1
    <3> QED BY <1>3, <3>1, MoreRights DEF RecordedHaveRoles
  <2>2. CASE Scripts[j].id \notin recorded
    <3>1. Scripts[j].id = Scripts[i].id /\ ~run.existing
      BY <1>3, <1>6, <2>2
    <3>2. j = i
      BY <1>5, <1>6, <3>1, ScriptsAreDifferent DEF Here
    <3>3. \A m \in DOMAIN Tasks[i] : Tasks[i][m].kind = "grant" => ~HasWork(Tasks[i][m])
      BY <1>1, <1>2, <1>3, <1>6 DEF At
    <3>4. HasRoles(i)
      BY <1>5, <1>6, <3>1, <3>3, NothingToGrant
    <3>5. ASSUME HasTask(i, "grant") PROVE IdOf("RoleStore") \in recorded
      <4>1. Precedes(ScriptOf("RoleStore"), i, TheOrder)
        BY <1>4, <1>5, <3>1, <3>5, OrderFacts DEF At
      <4>2. "RoleStore" \in Stores
        BY DEF Stores
      <4> QED BY <1>1, <1>4, <4>1, <4>2, Preceding, StoreScripts DEF IdOf
    <3> QED BY <1>3, <3>2, <3>4, <3>5, MoreRights
  <2> QED BY <2>1, <2>2
<1>10. SettledAreReady' /\ SignersStay'
  BY <1>3 DEF SettledAreReady, SignersStay, IdOf
<1> QED BY <1>7, <1>8, <1>9, <1>10 DEF Inv, GoesOn

----------------------------------------------------------------------------
(* The other steps *)

LEMMA NoRunType ==
  /\ NoRun \in [tag : TagChoices \union {"none"}, existing : BOOLEAN, todo : Seq(DOMAIN Scripts), sent : BOOLEAN]
  /\ NoRun.todo = <<>>
BY DEF NoRun

\* A run ends, whether it has completed or not.
LEMMA EndStep ==
  ASSUME Inv, run' = NoRun, SettledAreReady',
         UNCHANGED <<source, edition, deployed, recorded, marked, rights, signers, minSigners>>
  PROVE  Inv'
<1>1. Idle'
  BY DEF Idle, NoRun
<1>2. Types'
  BY <1>1, NoRunType DEF Inv, Types, TypeOK
<1>3. RecordedHaveRoles'
  BY MoreRights DEF Inv, RecordedHaveRoles, IdOf
<1>4. SignersStay'
  BY DEF Inv, SignersStay, IdOf
<1> QED BY <1>1, <1>2, <1>3, <1>4 DEF Inv

LEMMA UnsettledEndStep ==
  ASSUME Inv, run' = NoRun,
         UNCHANGED <<source, edition, deployed, recorded, marked, rights, signers, minSigners, settled>>
  PROVE  Inv'
<1>1. SettledAreReady'
  BY MoreRights, StayCurrent DEF Inv, SettledAreReady
<1> QED BY <1>1, EndStep

LEMMA StartStep ==
  ASSUME Inv, NEW tag \in TagChoices, NEW forExisting \in BOOLEAN, StartRun(tag, forExisting)
  PROVE  Inv'
<1>1. /\ run' = [tag |-> tag, existing |-> forExisting, todo |-> Orders[tag][forExisting],
                  sent |-> FALSE]
      /\ UNCHANGED <<source, edition, deployed, recorded, marked, rights, signers, minSigners, settled>>
  BY DEF StartRun
<1>2. run'.tag = tag /\ run'.existing = forExisting /\ run'.todo = Order(tag, forExisting)
  BY <1>1 DEF Orders
<1>3. tag \in Tags
  BY TagsAssumption
<1>4. PICK order : order = Order(tag, forExisting)
  OBVIOUS
<1>5. order \in Seq(DOMAIN Scripts)
  BY <1>3, <1>4, OrdersAreSound
<1>6. TheOrder' = order /\ run'.todo = order
  BY <1>2, <1>4 DEF TheOrder
<1>7. Passed' = 0
  BY <1>5, <1>6 DEF Passed
<1>8. RunsGoOn' /\ PassedAreReady'
  BY <1>2, <1>5, <1>6, <1>7 DEF RunsGoOn, PassedAreReady
<1>9. ToSet(run'.todo) \subseteq DOMAIN Scripts
  BY <1>5, <1>6 DEF ToSet
<1>10. run' \in [tag : TagChoices \union {"none"}, existing : BOOLEAN, todo : Seq(DOMAIN Scripts), sent : BOOLEAN]
  BY <1>1, <1>2, <1>5, <1>6
<1>11. Types'
  BY <1>1, <1>9, <1>10 DEF Inv, Types, TypeOK
<1>12. RecordedHaveRoles' /\ SignersStay'
  BY <1>1, MoreRights DEF Inv, RecordedHaveRoles, SignersStay, IdOf
<1>13. SettledAreReady'
  BY <1>1, MoreRights, StayCurrent DEF Inv, SettledAreReady
<1> QED BY <1>8, <1>11, <1>12, <1>13 DEF Inv

\* A run of all scripts that has nothing left to do has every contract current
\* and every role granted.
LEMMA FinishStep ==
  ASSUME Inv, Finish
  PROVE  Inv'
<1>1. /\ ~Idle /\ Todo = {} /\ run' = NoRun
      /\ settled' = (settled \/ (run.tag = "all" /\ ~run.existing))
      /\ UNCHANGED <<source, edition, deployed, recorded, marked, rights, signers, minSigners>>
  BY DEF Finish
<1>2. /\ Types /\ RunsGoOn /\ PassedAreReady /\ RecordedHaveRoles
      /\ run.existing \in BOOLEAN /\ run.todo \in Seq(DOMAIN Scripts)
  BY <1>1 DEF Inv, Types
<1>3. ASSUME run.tag = "all", ~run.existing, NEW i \in Here
      PROVE  /\ Scripts[i].id \notin marked => HasRoles(i)
             /\ Scripts[i].id = NoId => IsCurrent(i)
  <2>1. run.tag \in TagChoices /\ Passed \in Nat
        /\ \A m \in 1 .. Len(run.todo) : run.todo[m] = TheOrder[Passed + m]
    BY <1>2 DEF RunsGoOn
  <2>2. PICK m \in 1 .. Len(TheOrder) : TheOrder[m] = i
    BY <1>2, <1>3, <2>1, OrderFacts DEF Here
  <2>3. Ready(i)
    <3>1. CASE m <= Passed
      BY <1>2, <2>1, <2>2, <3>1 DEF PassedAreReady
    <3>2. CASE m > Passed
      <4>1. TheOrder \in Seq(DOMAIN Scripts) /\ Len(TheOrder) \in Nat
            /\ Len(run.todo) \in Nat /\ DOMAIN run.todo = 1 .. Len(run.todo)
        BY <1>2, <2>1, OrderFacts
      <4> DEFINE l == Len(TheOrder)
                 rest == Len(run.todo)
      <4>2. Passed = l - rest /\ l \in Nat /\ rest \in Nat /\ m \in 1 .. l /\ Passed \in Nat
        BY <2>1, <2>2, <4>1 DEF Passed
      <4> HIDE DEF l, rest
      <4>6. m - Passed \in 1 .. rest /\ Passed + (m - Passed) = m
        BY <3>2, <4>2
      <4>7. m - Passed \in 1 .. Len(run.todo) /\ Passed + (m - Passed) = m
        BY <4>6 DEF rest
      <4>3. run.todo[m - Passed] = i
        BY <2>1, <2>2, <4>7
      <4>4. WorkOf(i) = {}
        BY <1>1, <4>1, <4>7, <4>3 DEF Todo
      <4>5. NoWork(i)
        BY <4>4 DEF WorkOf, NoWork
      <4> QED BY <1>2, <4>5, NoWorkIsReady
    <3> QED BY <2>1, <3>1, <3>2
  <2>4. CASE Scripts[i].id = NoId
    BY <1>3, <2>3, <2>4 DEF Ready
  <2>5. CASE Scripts[i].id # NoId
    BY <1>2, <2>3, <2>5 DEF Ready, RecordedHaveRoles
  <2> QED BY <2>4, <2>5
<1>4. SettledAreReady'
  <2>1. settled' => \A i \in Here :
          /\ Scripts[i].id \notin marked => HasRoles(i)
          /\ Scripts[i].id = NoId => IsCurrent(i)
    BY <1>1, <1>3 DEF Inv, SettledAreReady
  <2> QED BY <1>1, <2>1, MoreRights, StayCurrent DEF SettledAreReady
<1> QED BY <1>1, <1>4, EndStep

LEMMA EditStep ==
  ASSUME Inv, UNCHANGED <<deployed, recorded, marked, rights, signers, minSigners, run>>,
         Idle, settled' = FALSE, source' \in [Edited -> Nat], edition' \in 1 .. 2
  PROVE  Inv'
<1>1. Idle'
  BY DEF Idle, NoRun
<1>2. Types'
  BY <1>1 DEF Inv, Types, TypeOK
<1>3. RecordedHaveRoles' /\ SignersStay'
  BY MoreRights DEF Inv, RecordedHaveRoles, SignersStay, IdOf
<1>4. SettledAreReady'
  BY DEF SettledAreReady
<1> QED BY <1>1, <1>2, <1>3, <1>4 DEF Inv
----------------------------------------------------------------------------
(* Every step *)

LEMMA InvInit == Init => Inv
<1> SUFFICES ASSUME Init PROVE Inv
  OBVIOUS
<1>1. /\ source = [c \in Edited |-> 0] /\ edition = 1
      /\ deployed = [c \in Contracts |-> [at |-> IF c \in getExistingContractAddresses THEN 1 ELSE 0,
                                         source |-> 0, links |-> <<>>]]
      /\ recorded = {} /\ marked = {} /\ rights = {} /\ signers = {} /\ minSigners = 0
      /\ run = NoRun /\ settled = FALSE
  BY DEF Init
<1>2. Idle
  BY <1>1 DEF Idle
<1>3. Types
  <2>1. \A c \in Contracts : deployed[c].at \in {0, 1} /\ deployed[c].source = 0
          /\ deployed[c] = [at |-> deployed[c].at, source |-> deployed[c].source,
                            links |-> deployed[c].links]
    BY <1>1
  <2>2. source \in [Edited -> Nat] /\ 0 \in Nat
    BY <1>1, BoundsAssumption
  <2>3. TypeOK
    BY <1>1, <1>2, <2>1, <2>2 DEF TypeOK
  <2> QED BY <1>1, <2>1, <2>3, NoRunType DEF Types
<1>4. RecordedHaveRoles /\ SettledAreReady /\ SignersStay
  BY <1>1 DEF RecordedHaveRoles, SettledAreReady, SignersStay, minOracleSigners
<1> QED BY <1>2, <1>3, <1>4 DEF Inv

LEMMA ProceedStep ==
  ASSUME Inv, Proceed
  PROVE  Inv'
<1>1. Types /\ RecordedHaveRoles /\ SettledAreReady /\ SignersStay
      /\ (Idle \/ (RunsGoOn /\ PassedAreReady))
  BY DEF Inv
<1>2. PICK p, n : LET t == Tasks[TheOrder[p]][n] IN
        /\ At(p, n)
        /\ \/ DoTask(t) /\ GoesOn(p)
           \/ /\ Throws(t) /\ run' = NoRun
              /\ UNCHANGED <<source, edition, deployed, recorded, marked, rights, settings,
                             signers, minSigners, settled, events>>
  BY <1>1, ProceedAt, Zenon
<1> DEFINE t == Tasks[TheOrder[p]][n]
<1>3. CASE DoTask(t) /\ GoesOn(p)
  <2>1. CASE DeployContract(t)
    BY <1>1, <1>2, <1>3, <2>1, DeployStep
  <2>2. CASE grantRoleIfNotGranted(t)
    BY <1>1, <1>2, <1>3, <2>2, GrantStep
  <2>3. CASE SetSettings(t)
    BY <1>1, <1>2, <1>3, <2>3, SettingsStep
  <2>4. CASE SetOracleSigners(t)
    BY <1>1, <1>2, <1>3, <2>4, SignersStep
  <2>5. CASE RecordScript(t)
    BY <1>1, <1>2, <1>3, <2>5, RecordStep
  <2> QED BY <1>3, <2>1, <2>2, <2>3, <2>4, <2>5 DEF DoTask
<1>4. CASE /\ run' = NoRun
           /\ UNCHANGED <<source, edition, deployed, recorded, marked, rights, settings,
                          signers, minSigners, settled, events>>
  BY <1>4, UnsettledEndStep
<1> QED BY <1>2, <1>3, <1>4

LEMMA InvStep == Inv /\ [Next]_vars => Inv'
<1> SUFFICES ASSUME Inv, [Next]_vars PROVE Inv'
  OBVIOUS
<1>1. CASE \E tag \in TagChoices, forExisting \in BOOLEAN : StartRun(tag, forExisting)
  BY <1>1, StartStep
<1>2. CASE Proceed
  BY <1>2, ProceedStep
<1>3. CASE Finish
  BY <1>3, FinishStep
<1>4. CASE Crash
  BY <1>4, UnsettledEndStep DEF Crash
<1>5. CASE \E c \in Edited : EditSource(c)
  <2>1. PICK c \in Edited : EditSource(c)
    BY <1>5
  <2>2. source \in [Edited -> Nat] /\ edition \in 1 .. 2
    BY DEF Inv, Types, TypeOK
  <2>3. source[c] + 1 \in Nat
    BY <2>1, <2>2, BoundsAssumption DEF EditSource
  <2>4. source' \in [Edited -> Nat]
    BY <2>1, <2>2, <2>3 DEF EditSource
  <2> QED BY <2>1, <2>2, <2>4, EditStep DEF EditSource
<1>6. CASE EditSigners
  <2>1. source \in [Edited -> Nat]
    BY DEF Inv, Types, TypeOK
  <2>2. /\ Idle /\ settled' = FALSE /\ source' = source /\ edition' \in 1 .. 2
        /\ UNCHANGED <<deployed, recorded, marked, rights, signers, minSigners, run>>
    BY <1>6 DEF EditSigners
  <2> QED BY <2>1, <2>2, EditStep
<1>7. CASE UNCHANGED vars
  <2>1. UNCHANGED <<source, edition, deployed, recorded, marked, rights, signers, minSigners, run, settled>>
    BY <1>7 DEF vars
  <2>2. Types'
    BY <2>1 DEF Inv, Types, TypeOK, Idle
  <2>3. (Idle \/ (RunsGoOn /\ PassedAreReady))'
    BY <2>1 DEF Inv, Idle, RunsGoOn, PassedAreReady, Passed, TheOrder, Ready, HasRoles, IsCurrent
  <2>4. RecordedHaveRoles' /\ SettledAreReady' /\ SignersStay'
    BY <2>1, MoreRights, StayCurrent DEF Inv, RecordedHaveRoles, SettledAreReady, SignersStay, IdOf
  <2> QED BY <2>2, <2>3, <2>4 DEF Inv
<1> QED BY <1>1, <1>2, <1>3, <1>4, <1>5, <1>6, <1>7 DEF Next

LEMMA Invariance == Spec => []Inv
BY InvInit, InvStep, PTL DEF Spec

----------------------------------------------------------------------------
(* The stores that a contract is built with *)

\* A store that a contract holds is recorded, so it is not deployed again.
HoldsRecorded(c) ==
  \A store \in Stores \intersect DOMAIN deployed[c].links :
    deployed[c].links[store] = deployed[store].at /\ IdOf(store) \in recorded
HeldStoresStay == \A c \in Sharing : HoldsRecorded(c)

LEMMA HeldInit == Init => HeldStoresStay
<1> SUFFICES ASSUME Init PROVE HeldStoresStay
  OBVIOUS
<1>1. ASSUME NEW c \in Contracts PROVE DOMAIN deployed[c].links = {}
  <2>1. deployed[c].links = <<>>
    BY DEF Init
  <2> QED BY <2>1
<1> QED BY <1>1 DEF HeldStoresStay, HoldsRecorded, Sharing

LEMMA HeldRest ==
  ASSUME HeldStoresStay, UNCHANGED <<deployed, recorded, marked>>
  PROVE  HeldStoresStay'
BY DEF HeldStoresStay, HoldsRecorded, Sharing, IdOf

\* A run that records an id for which it has looked at the stores has built the
\* contract with the present ones.
LEMMA HeldRecord ==
  ASSUME Types, HeldStoresStay, NEW p, NEW n, At(p, n), RecordScript(Tasks[TheOrder[p]][n])
  PROVE  HeldStoresStay'
<1>1. PICK i : i = TheOrder[p]
  OBVIOUS
<1>2. PICK t : t = Tasks[i][n]
  OBVIOUS
<1>3. run.existing \in BOOLEAN /\ run.tag \in TagChoices
  BY DEF Types, At
<1>4. /\ t.kind = "record" /\ deployed' = deployed
      /\ recorded' = recorded \union {t.what}
      /\ marked' = IF run.existing THEN marked \union {t.what} ELSE marked
  BY <1>1, <1>2 DEF RecordScript, Does
<1>5. i \in DOMAIN Scripts /\ n \in DOMAIN Tasks[i] /\ Scripts[i].id \notin recorded
  BY <1>1, <1>2, <1>3, PresentTask
<1>6. /\ i \in Here /\ t.what = Scripts[i].id
      /\ \A m \in DOMAIN Tasks[i] : m # n => m < n
  BY <1>2, <1>4, <1>5, TaskFacts
<1> SUFFICES ASSUME NEW c \in Sharing', NEW store \in Stores \intersect DOMAIN deployed[c].links
             PROVE  deployed[c].links[store] = deployed[store].at /\ IdOf(store) \in recorded'
  BY <1>4 DEF HeldStoresStay, HoldsRecorded, IdOf
<1>7. CASE c \in Sharing
  BY <1>4, <1>7 DEF HeldStoresStay, HoldsRecorded
<1>8. CASE c \notin Sharing
  <2>1. /\ c = "SubaccountRouter" /\ c \in Contracts
        /\ IdOf(c) \in recorded' \ marked' /\ IdOf(c) \notin recorded \ marked
    BY <1>8 DEF Sharing, IdOf
  <2>2. IdOf(c) = Scripts[i].id /\ ~run.existing
    BY <1>3, <1>4, <1>6, <2>1
  <2>3. ScriptOf(c) \in DOMAIN Scripts /\ Scripts[ScriptOf(c)].contract = c
    BY <2>1, ContractScripts
  <2>4. Scripts[i].id # NoId
    BY <1>2, <1>4, <1>5, TaskFacts
  <2>5. i = ScriptOf(c) /\ Scripts[i].contract = c
    BY <1>5, <2>2, <2>3, <2>4, ScriptsAreDifferent DEF IdOf
  <2> DEFINE first == Tasks[i][1]
  <2>6. /\ 1 \in DOMAIN Tasks[i] /\ first.kind = "deploy" /\ first.contract = c
        /\ first.id = Scripts[i].id /\ first.links = LinksOf(Scripts[i])
    BY <1>5, <1>6, <2>5, HereKinds, TaskFacts
  <2>7. ~HasWork(first)
    <3>1. 1 # n => 1 < n
      BY <1>6, <2>6
    <3>2. n # 1
      BY <1>2, <1>4, <2>6
    <3> QED BY <1>1, <2>6, <3>1, <3>2 DEF At
  <2> HIDE DEF first
  <2>8. ~Outdated(first)
    BY <1>5, <2>6, <2>7 DEF HasWork
  <2>9. deployed[c].links = [d \in LinksOf(Scripts[i]) |-> deployed[d].at]
    <3>1. Build(first) = [deployed[c] EXCEPT !.at = @ + 1]
      BY <2>6, <2>8 DEF Outdated
    <3>2. deployed[c] = [at |-> deployed[c].at, source |-> deployed[c].source,
                         links |-> deployed[c].links]
      BY <2>1 DEF Types
    <3>3. [deployed[c] EXCEPT !.at = @ + 1] =
            [at |-> deployed[c].at + 1, source |-> deployed[c].source, links |-> deployed[c].links]
      BY <3>2
    <3>4. Build(first) = [at |-> deployed[c].at + 1,
                          source |-> IF c \in Edited THEN source[c] ELSE 0,
                          links |-> [d \in LinksOf(Scripts[i]) |-> deployed[d].at]]
      BY <2>6 DEF Build
    <3> QED BY <3>1, <3>3, <3>4
  <2>10. store \in LinksOf(Scripts[i]) /\ deployed[c].links[store] = deployed[store].at
    BY <2>9
  <2>11. store \in MayLink(Scripts[i])
    BY <1>6, <2>10, HereContracts
  <2>12. Precedes(ScriptOf(store), i, TheOrder)
    BY <1>3, <1>5, <2>2, <2>11, OrderFacts
  <2>13. IdOf(store) \in recorded
    BY <1>1, <1>3, <2>12, Preceding, StoreScripts DEF IdOf
  <2> QED BY <1>4, <2>10, <2>13
<1> QED BY <1>7, <1>8

LEMMA HeldDeploy ==
  ASSUME Types, HeldStoresStay, NEW p, NEW n, At(p, n), DeployContract(Tasks[TheOrder[p]][n])
  PROVE  HeldStoresStay'
<1>1. PICK i : i = TheOrder[p]
  OBVIOUS
<1>2. PICK t : t = Tasks[i][n]
  OBVIOUS
<1>3. run.existing \in BOOLEAN /\ run.tag \in TagChoices
  BY DEF Types, At
<1>4. t.kind = "deploy" /\ recorded' = recorded /\ marked' = marked
      /\ deployed' = [deployed EXCEPT ![t.contract] = Build(t)]
  BY <1>1, <1>2 DEF DeployContract, Does
<1>5. /\ i \in DOMAIN Scripts /\ n \in DOMAIN Tasks[i] /\ t.contract = Scripts[i].contract
      /\ t.links = LinksOf(Scripts[i]) /\ Scripts[i].id \notin recorded
  BY <1>1, <1>2, <1>3, PresentTask
<1>6. i \in Here
  BY <1>2, <1>4, <1>5, TaskFacts
<1>7. t.contract \in Contracts /\ i = ScriptOf(t.contract) /\ t.links \subseteq MayLink(Scripts[i])
  BY <1>5, <1>6, HereContracts
<1>8. /\ \A c \in Contracts : c # t.contract => deployed'[c] = deployed[c]
      /\ deployed'[t.contract] = Build(t)
  BY <1>4, <1>7 DEF Types
<1>9. ASSUME NEW store \in Stores, IdOf(store) \in recorded
      PROVE  store # t.contract /\ deployed'[store] = deployed[store]
  <2>1. store # t.contract
    BY <1>5, <1>7, <1>9 DEF IdOf
  <2> QED BY <1>8, <2>1, StoreScripts
<1> SUFFICES ASSUME NEW c \in Sharing, NEW store \in Stores \intersect DOMAIN deployed'[c].links
             PROVE  deployed'[c].links[store] = deployed'[store].at /\ IdOf(store) \in recorded
  BY <1>4 DEF HeldStoresStay, HoldsRecorded, Sharing, IdOf
<1>10. CASE c # t.contract
  <2>1. deployed'[c] = deployed[c]
    BY <1>8, <1>10 DEF Sharing
  <2>2. deployed[c].links[store] = deployed[store].at /\ IdOf(store) \in recorded
    BY <2>1 DEF HeldStoresStay, HoldsRecorded
  <2> QED BY <1>9, <2>1, <2>2
<1>11. CASE c = t.contract
  <2>1. deployed'[c].links = [d \in t.links |-> deployed[d].at]
    BY <1>8, <1>11 DEF Build
  <2>2. store \in Stores \intersect MayLink(Scripts[i])
    BY <1>7, <2>1
  <2>3. run.tag # "SubaccountRouter" \/ Scripts[i].contract # "SubaccountRouter"
    BY <1>5, <1>7, <1>11 DEF Sharing, IdOf
  <2>4. Precedes(ScriptOf(store), i, TheOrder)
    BY <1>3, <1>5, <2>2, <2>3, OrderFacts
  <2>5. IdOf(store) \in recorded
    BY <1>1, <1>3, <2>2, <2>4, Preceding, StoreScripts DEF IdOf
  <2> QED BY <1>9, <2>1, <2>5
<1> QED BY <1>10, <1>11

LEMMA HeldStep == Inv /\ HeldStoresStay /\ [Next]_vars => HeldStoresStay'
<1> SUFFICES ASSUME Inv, HeldStoresStay, [Next]_vars PROVE HeldStoresStay'
  OBVIOUS
<1>1. CASE Proceed
  <2>1. PICK p, n : LET t == Tasks[TheOrder[p]][n] IN
          /\ At(p, n)
          /\ \/ DoTask(t) /\ GoesOn(p)
             \/ /\ Throws(t) /\ run' = NoRun
                /\ UNCHANGED <<source, edition, deployed, recorded, marked, rights, settings,
                               signers, minSigners, settled, events>>
    BY <1>1, ProceedAt, Zenon DEF Inv
  <2> DEFINE t == Tasks[TheOrder[p]][n]
  <2>2. CASE DeployContract(t)
    BY <2>1, <2>2, HeldDeploy DEF Inv
  <2>3. CASE RecordScript(t)
    BY <2>1, <2>3, HeldRecord DEF Inv
  <2>4. CASE ~DeployContract(t) /\ ~RecordScript(t)
    <3>1. UNCHANGED <<deployed, recorded, marked>>
      BY <2>1, <2>4 DEF DoTask, grantRoleIfNotGranted, SetSettings, SetOracleSigners
    <3> QED BY <3>1, HeldRest
  <2> QED BY <2>2, <2>3, <2>4
<1>2. CASE ~Proceed
  <2>1. UNCHANGED <<deployed, recorded, marked>>
    BY <1>2 DEF Next, StartRun, Finish, Crash, EditSource, EditSigners, vars
  <2> QED BY <2>1, HeldRest
<1> QED BY <1>1, <1>2

LEMMA HeldInvariance == Spec => []HeldStoresStay
BY Invariance, HeldInit, HeldStep, PTL DEF Spec

----------------------------------------------------------------------------
(* What the scripts promise *)

\* Whatever runs are started, throw and crash, the deployments, rights and
\* records keep their types, and no right belongs to a deployment that was never made.
THEOREM TypeCorrect == Spec => []TypeOK
<1>1. Inv => TypeOK
  BY DEF Inv, Types
<1> QED BY <1>1, Invariance, PTL

\* After a run of all scripts every contract has its roles (RolesFollowContracts),
\* whichever ids earlier runs have recorded: a script that is not run again did
\* grant its contract's roles, and they are in a RoleStore that stays.
THEOREM RolesFollow == Spec => []RolesFollowContracts
<1>1. Inv => RolesFollowContracts
  BY DEF Inv, SettledAreReady, RolesFollowContracts
<1> QED BY <1>1, Invariance, PTL

\* After a run of all scripts the contracts without an id are built from the
\* present sources and linked with the present contracts (CurrentCode).
THEOREM CodeIsCurrent == Spec => []CurrentCode
<1>1. Inv => CurrentCode
  BY DEF Inv, SettledAreReady, CurrentCode
<1> QED BY <1>1, Invariance, PTL

\* There are always as many signers as the oracle asks for (EnoughSigners),
\* while they are replaced one by one and wherever that stops.
THEOREM AlwaysEnoughSigners == Spec => []EnoughSigners
<1>1. ASSUME Inv PROVE EnoughSigners
  <2>1. signers \subseteq 1 .. 3 /\ minSigners \in {0, minOracleSigners}
    BY <1>1 DEF Inv, Types, TypeOK
  <2>2. IsFiniteSet(1 .. 3)
    <3>1. 1 \in Int /\ 3 \in Int
      OBVIOUS
    <3> QED BY <3>1, FS_Interval, Zenon
  <2>3. Cardinality(signers) \in Nat
    BY <2>1, <2>2, FS_Subset, FS_CardinalityType
  <2> QED BY <1>1, <2>1, <2>3 DEF Inv, SignersStay, EnoughSigners, minOracleSigners
<1> QED BY <1>1, Invariance, PTL

\* Every contract holds the present stores and vaults, whatever is redeployed
\* later (StoresAreShared).  The subaccount router does once its id is recorded,
\* unless by a run for an existing deployment: if Router's script stops before its
\* id is recorded, such a run can build the subaccount router with a Router that
\* the next run replaces.
THEOREM StoresStay == Spec => []StoresAreShared
<1>1. HeldStoresStay => StoresAreShared
  BY DEF HeldStoresStay, HoldsRecorded, StoresAreShared, SharesStores
<1> QED BY <1>1, HeldInvariance, PTL
=============================================================================
