----------------------------- MODULE Deployment -----------------------------
(***************************************************************************)
(* How the contracts of a network are deployed: an operator runs           *)
(* `hardhat deploy`, for all scripts or for those of one tag, again and    *)
(* again while the sources and the configuration change.  hardhat-deploy   *)
(* puts the scripts in an order, keeps the last deployment of every        *)
(* contract and the ids of the scripts that are not to run again; a run    *)
(* may throw or crash between any two transactions.                        *)
(*                                                                         *)
(* The scripts are those of DeployScripts.  A task that finds nothing to   *)
(* do only reads and is passed over.  A group of settings is one task:     *)
(* Listing models how the markets' values are set one by one.              *)
(***************************************************************************)
EXTENDS DeployScripts, TLC

CONSTANTS
  Network,     \* where the operator deploys
  Edited,      \* contracts whose source changes
  MaxEdits,    \* bound: edits of the sources and of the signers
  MaxCrashes,  \* bound: crashes
  MaxExisting, \* bound: runs for an existing deployment
  TagChoices   \* the tags the operator uses, "all" for a run without tags

Tags == {"all"} \union {Scripts[i].tag : i \in DOMAIN Scripts}

\* config/overwrite.ts: the contracts whose address is given to the constructors.
\* hardhat-deploy has no record of them.
getExistingContractAddresses ==
  IF Network \in {"arbitrum", "avalanche", "zktest", "rolluxtest"} THEN {"ReferralStorage"} ELSE {}

ASSUME NetworkAssumption == Network \in AllNetworks
ASSUME EditedAssumption == Edited \intersect getExistingContractAddresses = {}
ASSUME TagsAssumption == TagChoices \subseteq Tags
ASSUME BoundsAssumption == MaxEdits \in Nat /\ MaxCrashes \in Nat /\ MaxExisting \in Nat

VARIABLES
  source,    \* the version of each edited contract's source
  edition,   \* the version of the oracle signers' configuration
  deployed,  \* for each contract its last deployment: [at, source, links]
  recorded,  \* the ids of the scripts that are not to run again
  marked,    \* those of them that a run for an existing deployment recorded
  rights,    \* <<contract, at, role>>: the roles, the handler and the tiers of the ReferralStorage
  settings,  \* the groups of settings in the DataStore
  signers,   \* the signers in the OracleStore
  minSigners,
  run,       \* the run: [tag, existing, todo, sent], todo the scripts from the present one on,
             \* sent whether it has called setHandler, which is sent without a look at what is set
  settled,   \* whether a run of all scripts has completed since the last change
  events     \* how many edits, crashes and runs for an existing deployment there have been

vars == <<source, edition, deployed, recorded, marked, rights, settings, signers, minSigners, run,
          settled, events>>

(***************************************************************************)
(* The order of hardhat-deploy: file by file, a script's dependencies      *)
(* before it, the scripts that are to run at the end after all others.     *)
(* A dependency that is no script's tag is ignored.                        *)
(***************************************************************************)
Dependencies(script, forExisting) ==
  (IF forExisting THEN script.existing ELSE script.args \o script.libs) \o script.more

WithTag(tag) ==
  SelectSeq([i \in DOMAIN Scripts |-> i], LAMBDA i : tag \in {"all", Scripts[i].tag})

\* The scripts that run directly before the i-th.
Before(forExisting) ==
  [i \in DOMAIN Scripts |->
     LET names == Dependencies(Scripts[i], forExisting)
     IN FlattenSeq([k \in DOMAIN names |-> WithTag(names[k])])]

Visit(before) ==
  LET visit[todo \in Seq(DOMAIN Scripts), order \in Seq(DOMAIN Scripts)] ==
        IF todo = <<>> THEN order
        ELSE LET i == Head(todo)
             IN visit[Tail(todo), IF i \in ToSet(order) THEN order
                                  ELSE Append(visit[before[i], order], i)]
  IN visit

Order(tag, forExisting) ==
  LET order == Visit(Before(forExisting))[WithTag(tag), <<>>]
  IN SelectSeq(order, LAMBDA i : ~Scripts[i].atEnd) \o SelectSeq(order, LAMBDA i : Scripts[i].atEnd)

Orders == [tag \in TagChoices |-> [forExisting \in BOOLEAN |-> Order(tag, forExisting)]]

(***************************************************************************)
(* What TLC evaluates over the table of the scripts and over the order of  *)
(* every tag, whatever the network: the proofs rest on it.                 *)
(***************************************************************************)
Contracts == {Scripts[i].contract : i \in DOMAIN Scripts} \ {NoContract}
ScriptOf(contract) == CHOOSE i \in DOMAIN Scripts : Scripts[i].contract = contract
HasTask(i, kind) == \E k \in DOMAIN Scripts[i].after : Scripts[i].after[k].kind = kind

\* What a contract may be built with.
MayLink(script) ==
  ToSet(script.args) \union ToSet(script.libs)
  \union (IF script.contract = "Oracle" THEN {"MockRealtimeFeedVerifier"} ELSE {})

Stores ==
  {"RoleStore", "DataStore", "EventEmitter", "OracleStore", "Router", "OrderVault",
   "DepositVault", "WithdrawalVault"}

\* Contracts, ids and tags are those of one script.
ASSUME ScriptsAreDifferent ==
  \A i, j \in DOMAIN Scripts : i # j =>
    /\ Scripts[i].tag # Scripts[j].tag
    /\ Scripts[i].contract # Scripts[j].contract \/ Scripts[i].contract = NoContract
    /\ Scripts[i].id # Scripts[j].id \/ Scripts[i].id = NoId

\* A script without a contract has no id and gives nobody a right; the one that
\* grants the configured roles does nothing else.
ASSUME ScriptsAreWellFormed ==
  \A i \in DOMAIN Scripts :
    /\ Scripts[i].after \in Seq([kind : {"grant", "set", "handler", "tiers", "configured", "signers", "create"},
                                 what : STRING])
    /\ MayLink(Scripts[i]) \subseteq Contracts
    /\ Scripts[i].contract = NoContract =>
         /\ Scripts[i].id = NoId
         /\ \A kind \in {"grant", "handler", "tiers"} : ~HasTask(i, kind)
    /\ HasTask(i, "configured") => Scripts[i].contract = NoContract

\* The stores are deployed on every network, and not again once they are recorded.
ASSUME StoresAreRecorded ==
  \A store \in Stores :
    /\ store \in Contracts
    /\ Scripts[ScriptOf(store)].id # NoId /\ Scripts[ScriptOf(store)].networks = AllNetworks

Precedes(first, second, order) ==
  \A n \in DOMAIN order : order[n] = second => \E m \in 1 .. n - 1 : order[m] = first

\* A script runs at most once, and after those that deploy what it needs; with
\* FOR_EXISTING_MAINNET_DEPLOYMENT the subaccount router needs no store.
ASSUME OrdersAreSound ==
  \A tag \in Tags, forExisting \in BOOLEAN :
    LET order == Order(tag, forExisting) IN
    /\ order \in Seq(DOMAIN Scripts)
    /\ \A m, n \in DOMAIN order : order[m] = order[n] => m = n
    /\ tag = "all" => ToSet(order) = DOMAIN Scripts
    /\ \A i \in DOMAIN Scripts :
         /\ HasTask(i, "signers") => Precedes(ScriptOf("OracleStore"), i, order)
         /\ ~forExisting /\ HasTask(i, "grant") => Precedes(ScriptOf("RoleStore"), i, order)
         /\ ~forExisting => \A c \in MayLink(Scripts[i]) : Precedes(ScriptOf(c), i, order)
         /\ tag # "SubaccountRouter" \/ Scripts[i].contract # "SubaccountRouter" =>
              \A store \in Stores \intersect MayLink(Scripts[i]) : Precedes(ScriptOf(store), i, order)

(***************************************************************************)
(* The tasks of a script, and of a run.                                    *)
(***************************************************************************)
rolluxtestRoles ==
  <<"ADL_KEEPER", "FROZEN_ORDER_KEEPER", "LIQUIDATION_KEEPER", "ORDER_KEEPER", "CONFIG_KEEPER",
    "FEE_KEEPER", "MARKET_KEEPER", "ROLE_ADMIN", "ROUTER_PLUGIN", "TIMELOCK_ADMIN", "CONTROLLER">>
hardhatRoles ==
  <<"CONTROLLER", "ORDER_KEEPER", "ADL_KEEPER", "LIQUIDATION_KEEPER", "MARKET_KEEPER",
    "FROZEN_ORDER_KEEPER">>
\* config/roles.ts has no list for the other networks.
ConfiguredRoles ==
  CASE Network = "hardhat" -> hardhatRoles
    [] Network = "rolluxtest" -> rolluxtestRoles
    [] OTHER -> <<>>

\* The deployer is one of the accounts of the configured roles.
GrantRoles == [k \in DOMAIN ConfiguredRoles |-> Task("configured", ConfiguredRoles[k])]

\* No roles are listed for removal; a network without a list makes the script throw.
WithRolesToRemove == AllNetworks \ {"localhost", "zktest"}
RevokeRoles == IF Network \in WithRolesToRemove THEN <<>> ELSE <<Task("revoke", "roles")>>

DeployIt(script) == IF script.contract = NoContract THEN <<>> ELSE <<Task("deploy", script.contract)>>

\* An id that is the contract's name would be:
RecordId_ByName(script) ==
  IF script.id = NoId THEN <<>> ELSE <<Task("record", script.contract)>>

RecordId(script) == IF script.id = NoId THEN <<>> ELSE <<Task("record", script.id)>>

\* A function that gave its id back too early, or not at all:
TasksOf_RecordedFirst(script) ==
  IF Network \notin script.networks THEN <<>>
  ELSE IF GrantConfigured \in ToSet(script.after) THEN GrantRoles \o RevokeRoles
  ELSE DeployIt(script) \o RecordId(script) \o script.after

TasksOf_NeverRecorded(script) ==
  IF Network \notin script.networks THEN <<>>
  ELSE IF GrantConfigured \in ToSet(script.after) THEN GrantRoles \o RevokeRoles
  ELSE DeployIt(script) \o script.after

TasksOf(script) ==
  IF Network \notin script.networks THEN <<>>
  ELSE IF GrantConfigured \in ToSet(script.after) THEN GrantRoles \o RevokeRoles
  ELSE DeployIt(script) \o script.after \o RecordId(script)

\* What a contract is built with.
LinksOf(script) ==
  ToSet(script.args) \union ToSet(script.libs)
  \union (IF Network = "hardhat" /\ script.contract = "Oracle" THEN {"MockRealtimeFeedVerifier"} ELSE {})

Tasks ==
  [i \in DOMAIN Scripts |->
     LET own == TasksOf(Scripts[i])
     IN [n \in DOMAIN own |->
           [kind |-> own[n].kind, what |-> own[n].what, contract |-> Scripts[i].contract,
            id |-> Scripts[i].id, links |-> LinksOf(Scripts[i])]]]

(***************************************************************************)
(* What a task finds.                                                      *)
(***************************************************************************)
Known(contract) == deployed[contract].at > 0
HasRecord(contract) == Known(contract) /\ contract \notin getExistingContractAddresses

\* A grant that was remembered by the contract's name would be:
Has_ByName(contract, role) == \E r \in rights : r[1] = contract /\ r[3] = role

Has(contract, role) == <<contract, deployed[contract].at, role>> \in rights
IsConfigured(role) == <<"configured", 0, role>> \in rights

\* config/oracle.ts: one signer is replaced in the second edition.
SignersIn(e) == {e, e + 1}
minOracleSigners == 2

Build(t) ==
  [at |-> deployed[t.contract].at + 1,
   source |-> IF t.contract \in Edited THEN source[t.contract] ELSE 0,
   links |-> [c \in t.links |-> deployed[c].at]]

\* A deploy that did not compare what a contract is linked with:
Outdated_SourceOnly(t) ==
  LET now == deployed[t.contract] IN now.at = 0 \/ Build(t).source # now.source

\* hardhat-deploy compares the code with its libraries and the arguments.
Outdated(t) ==
  LET now == deployed[t.contract] IN now.at = 0 \/ Build(t) # [now EXCEPT !.at = @ + 1]

\* With FOR_EXISTING_MAINNET_DEPLOYMENT roles and settings are left alone.
HasWork(t) ==
  /\ t.id \notin recorded
  /\ CASE t.kind = "deploy" -> Outdated(t)
       [] t.kind \in {"record", "revoke"} -> TRUE
       [] t.kind = "grant" -> ~run.existing /\ ~Has(t.contract, t.what)
       [] t.kind = "configured" -> ~run.existing /\ ~IsConfigured(t.what)
       [] t.kind = "set" -> ~run.existing /\ t.what \notin settings
       [] t.kind = "handler" -> Network \notin {"arbitrum", "avalanche"} /\ ~run.sent
       [] t.kind = "tiers" -> ~Has(t.contract, "TIERS")
       [] t.kind = "create" -> "CreatedMarkets" \notin settings
       [] t.kind = "signers" ->
            signers # SignersIn(edition) \/ (~run.existing /\ minSigners # minOracleSigners)

\* A task throws if a contract is missing, or a right of the caller; the call of
\* setHandler looks for the record of its contract.
Throws(t) ==
  CASE t.kind = "deploy" -> \E c \in t.links : ~Known(c)
    [] t.kind \in {"grant", "configured"} -> ~Known("RoleStore")
    [] t.kind = "set" -> ~Known("DataStore") \/ ~IsConfigured("CONTROLLER")
    [] t.kind = "handler" -> ~HasRecord("ReferralStorage")
    [] t.kind = "create" ->
         \/ ~Known("Reader") \/ ~Known("MarketFactory")
         \/ ~Has("MarketFactory", "CONTROLLER") \/ ~IsConfigured("MARKET_KEEPER")
    [] t.kind = "signers" -> ~IsConfigured("CONTROLLER") \/ ~Has("OracleStore", "CONTROLLER")
    [] t.kind = "revoke" -> TRUE
    [] OTHER -> FALSE

(***************************************************************************)
(* Runs.                                                                   *)
(***************************************************************************)
NoRun == [tag |-> "none", existing |-> FALSE, todo |-> <<>>, sent |-> FALSE]
Idle == run = NoRun

Init ==
  /\ source = [c \in Edited |-> 0]
  /\ edition = 1
  /\ deployed = [c \in Contracts |-> [at |-> IF c \in getExistingContractAddresses THEN 1 ELSE 0, source |-> 0,
                                      links |-> <<>>]]
  /\ recorded = {} /\ marked = {} /\ rights = {} /\ settings = {} /\ signers = {}
  /\ minSigners = 0
  /\ run = NoRun
  /\ settled = FALSE
  /\ events = [edits |-> 0, crashes |-> 0, existing |-> 0]

StartRun(tag, forExisting) ==
  /\ Idle
  /\ forExisting => events.existing < MaxExisting
  /\ events' = IF forExisting THEN [events EXCEPT !.existing = @ + 1] ELSE events
  /\ run' = [tag |-> tag, existing |-> forExisting, todo |-> Orders[tag][forExisting],
             sent |-> FALSE]
  /\ UNCHANGED <<source, edition, deployed, recorded, marked, rights, settings, signers,
                 minSigners, settled>>

WorkOf(i) == {n \in DOMAIN Tasks[i] : HasWork(Tasks[i][n])}

\* The places in run.todo of the scripts that have something to do.
Todo == {k \in DOMAIN run.todo : WorkOf(run.todo[k]) # {}}

Least[S \in SUBSET Nat] == {k \in S : \A other \in S : k <= other}

\* The run does a task of one of some kinds.
Does(t, kinds) ==
  /\ t.kind \in kinds
  /\ ~Throws(t)
  /\ settled' = FALSE
  /\ UNCHANGED <<source, edition, events>>

\* A new RoleStore knows no roles, a new DataStore no settings, a new OracleStore no signers.
DeployContract(t) ==
  /\ Does(t, {"deploy"})
  /\ deployed' = [deployed EXCEPT ![t.contract] = Build(t)]
  /\ rights' = IF t.contract = "RoleStore" THEN {r \in rights : r[3] \in {"HANDLER", "TIERS"}}
               ELSE rights
  /\ settings' = IF t.contract = "DataStore" THEN {} ELSE settings
  /\ minSigners' = IF t.contract = "DataStore" THEN 0 ELSE minSigners
  /\ signers' = IF t.contract = "OracleStore" THEN {} ELSE signers
  /\ UNCHANGED <<recorded, marked>>

grantRoleIfNotGranted(t) ==
  /\ Does(t, {"grant", "configured", "handler", "tiers"})
  /\ rights' = rights \union
       {CASE t.kind = "configured" -> <<"configured", 0, t.what>>
          [] t.kind = "handler" -> <<t.contract, deployed[t.contract].at, "HANDLER">>
          [] t.kind = "tiers" -> <<t.contract, deployed[t.contract].at, "TIERS">>
          [] OTHER -> <<t.contract, deployed[t.contract].at, t.what>>}
  /\ UNCHANGED <<deployed, recorded, marked, settings, signers, minSigners>>

SetSettings(t) ==
  /\ Does(t, {"set", "create"})
  /\ settings' = settings \union {IF t.kind = "create" THEN "CreatedMarkets" ELSE t.what}
  /\ UNCHANGED <<deployed, recorded, marked, rights, signers, minSigners>>

\* A script that removed the old signers first would be:
NextSigners_RemovedFirst ==
  LET gone == signers \ SignersIn(edition)
      missing == SignersIn(edition) \ signers
  IN IF gone # {} THEN {signers \ {x} : x \in gone} ELSE {signers \union {x} : x \in missing}

\* The new signers are added one by one, then the old are removed.
NextSigners ==
  LET gone == signers \ SignersIn(edition)
      missing == SignersIn(edition) \ signers
  IN IF missing # {} THEN {signers \union {x} : x \in missing} ELSE {signers \ {x} : x \in gone}

SetOracleSigners(t) ==
  /\ Does(t, {"signers"})
  /\ IF signers # SignersIn(edition)
     THEN signers' \in NextSigners /\ UNCHANGED minSigners
     ELSE minSigners' = minOracleSigners /\ UNCHANGED signers
  /\ UNCHANGED <<deployed, recorded, marked, rights, settings>>

RecordScript(t) ==
  /\ Does(t, {"record"})
  /\ recorded' = recorded \union {t.what}
  /\ marked' = IF run.existing THEN marked \union {t.what} ELSE marked
  /\ UNCHANGED <<deployed, rights, settings, signers, minSigners>>

DoTask(t) ==
  \/ DeployContract(t) \/ grantRoleIfNotGranted(t) \/ SetSettings(t) \/ SetOracleSigners(t)
  \/ RecordScript(t)

\* hardhat-deploy runs the scripts one after the other, and a script its tasks.
Proceed ==
  \E k \in Least[Todo] : \E t \in {Tasks[run.todo[k]][n] : n \in Least[WorkOf(run.todo[k])]} :
    \/ /\ DoTask(t)
       /\ run' = [run EXCEPT !.todo = SubSeq(@, k, Len(@)), !.sent = @ \/ t.kind = "handler"]
    \/ /\ Throws(t)
       /\ run' = NoRun
       /\ UNCHANGED <<source, edition, deployed, recorded, marked, rights, settings, signers,
                      minSigners, settled, events>>

Finish ==
  /\ ~Idle
  /\ Todo = {}
  /\ run' = NoRun
  /\ settled' = (settled \/ (run.tag = "all" /\ ~run.existing))
  /\ UNCHANGED <<source, edition, deployed, recorded, marked, rights, settings, signers,
                 minSigners, events>>

Crash ==
  /\ ~Idle
  /\ events.crashes < MaxCrashes
  /\ events' = [events EXCEPT !.crashes = @ + 1]
  /\ run' = NoRun
  /\ UNCHANGED <<source, edition, deployed, recorded, marked, rights, settings, signers,
                 minSigners, settled>>

(***************************************************************************)
(* Edits; a run that has started has read the sources.                     *)
(***************************************************************************)
EditSource(c) ==
  /\ Idle
  /\ events.edits < MaxEdits
  /\ events' = [events EXCEPT !.edits = @ + 1]
  /\ source' = [source EXCEPT ![c] = @ + 1]
  /\ settled' = FALSE
  /\ UNCHANGED <<edition, deployed, recorded, marked, rights, settings, signers, minSigners, run>>

EditSigners ==
  /\ Idle
  /\ edition = 1
  /\ events.edits < MaxEdits
  /\ events' = [events EXCEPT !.edits = @ + 1]
  /\ edition' = 2
  /\ settled' = FALSE
  /\ UNCHANGED <<source, deployed, recorded, marked, rights, settings, signers, minSigners, run>>

Next ==
  \/ \E tag \in TagChoices, forExisting \in BOOLEAN : StartRun(tag, forExisting)
  \/ Proceed \/ Finish \/ Crash
  \/ \E c \in Edited : EditSource(c)
  \/ EditSigners

Spec == Init /\ [][Next]_vars

\* A run goes on, and the operator runs all scripts again and again.
Fairness ==
  /\ WF_vars(Proceed \/ Finish)
  /\ SF_vars(StartRun("all", FALSE))

FairSpec == Spec /\ Fairness
=============================================================================
