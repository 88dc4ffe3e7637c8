------------------------ MODULE DeploymentProperties ------------------------
(***************************************************************************)
(* What the deployment scripts promise.                                    *)
(***************************************************************************)
EXTENDS Deployment

Here == {i \in DOMAIN Scripts : Scripts[i].contract # NoContract /\ Network \in Scripts[i].networks}

TypeOK ==
  /\ source \in [Edited -> Nat] /\ edition \in 1 .. 2
  /\ recorded \subseteq {Scripts[i].id : i \in Here} /\ marked \subseteq recorded
  /\ \A c \in Contracts : deployed[c].at \in Nat /\ deployed[c].source \in Nat
  /\ \A r \in rights : r[1] = "configured" \/ r[2] \in 1 .. deployed[r[1]].at
  /\ signers \subseteq 1 .. 3 /\ minSigners \in {0, minOracleSigners}
  /\ Idle \/ ToSet(run.todo) \subseteq DOMAIN Scripts

\* All contracts are built with the same stores and vaults: the ids keep a
\* later run, of whatever tags, from replacing a store that others hold.  Not the
\* subaccount router, before its id is recorded and where a run for an existing
\* deployment has recorded it: such a run does not deploy its stores first, so it
\* can build it with a store without an id that a later run replaces.
IdOf(c) == Scripts[ScriptOf(c)].id
Sharing == {c \in Contracts : c # "SubaccountRouter" \/ IdOf(c) \in recorded \ marked}
SharesStores(c) ==
  \A store \in Stores \intersect DOMAIN deployed[c].links :
    deployed[c].links[store] = deployed[store].at
StoresAreShared == \A c \in Sharing : SharesStores(c)

HasRoles(i) ==
  \A k \in DOMAIN Scripts[i].after :
    LET t == Scripts[i].after[k] c == Scripts[i].contract
    IN t.kind = "grant" => <<c, deployed[c].at, t.what>> \in rights

\* After a run of all scripts every contract has its roles, wherever earlier
\* runs have crashed; only a run for an existing deployment can leave a
\* contract without, because it records the id of a script whose grants it skips.
RolesFollowContracts == settled => \A i \in Here : Scripts[i].id \notin marked => HasRoles(i)

IsCurrent(i) ==
  LET c == Scripts[i].contract IN
  /\ c \in Edited => deployed[c].source = source[c]
  /\ \A d \in LinksOf(Scripts[i]) : deployed[c].links[d] = deployed[d].at

\* After a run of all scripts every contract whose script has no id is built
\* from its present source and linked with the present contracts: no script
\* runs before the ones that it is linked with.
CurrentCode == settled => \A i \in Here : Scripts[i].id = NoId => IsCurrent(i)

\* While the signers are replaced there are always enough of them to sign.
EnoughSigners == Cardinality(signers) >= minSigners

\* Whatever crashes, throws and runs of single tags there have been, the
\* operator who runs all scripts again has everything deployed in the end,
\* unless a run for an existing deployment has recorded an id too early.
Groups == {t.what : t \in {u \in UNION {ToSet(Scripts[i].after) : i \in DOMAIN Scripts} :
                            u.kind = "set"}}
Complete ==
  /\ {Scripts[i].contract : i \in Here} \subseteq {c \in Contracts : Known(c)}
  /\ settings = Groups \union {"CreatedMarkets"}
  /\ signers = SignersIn(edition)
EventuallyDeployed == <>[](marked = {} => Complete)
=============================================================================
