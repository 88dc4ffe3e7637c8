-------------------------- MODULE ListingInvariant --------------------------
(***************************************************************************)
(* What the safety of the listing of markets rests on: facts of the tables *)
(* of config/*.ts and of the order of the writes of each script, and the   *)
(* inductive invariant.  The theorems of ListingProofs use these facts and *)
(* no other of the tables; TLC evaluates them for the lists that a run     *)
(* follows.  The test network hardhat is excluded: it has no value for one *)
(* general setting, so that its update never runs.                         *)
(***************************************************************************)
EXTENDS ListingProperties

Scripts == Deployments \union Updates
Sets(task, key) == task.kind = "set" /\ task.key = key
Given(task) == task.kind = "set" => task.value # Undefined

LimitKeys(m) == {maxOpenInterestKey(m.tokens, isLong) : isLong \in BOOLEAN}

----------------------------------------------------------------------------
(* The tables *)

ASSUME ListsAreSequences ==
  \A n \in Networks :
    /\ Len(MarketList[n]) \in Nat
    /\ DOMAIN MarketList[n] = 1 .. Len(MarketList[n])
    /\ \A e \in DOMAIN Editions[n], s \in Scripts :
         /\ Len(Plan[n][e][s]) \in Nat
         /\ DOMAIN Plan[n][e][s] = 1 .. Len(Plan[n][e][s])

ASSUME MarketsDiffer ==
  \A n \in Networks : \A i, j \in DOMAIN MarketList[n] :
    MarketList[n][i].tokens = MarketList[n][j].tokens => i = j

\* Each setting has one value, whichever script writes it.
ASSUME OneValue ==
  \A n \in Networks : \A v, w \in Settings[n] : v[1] = w[1] => v[2] = w[2]

\* No script writes what trades count.
ASSUME TradesCount ==
  \A n \in Networks : \A w \in Settings[n] :
    w[1][1] \notin {"POOL_AMOUNT", "OPEN_INTEREST", "VIRTUAL_INVENTORY_FOR_SWAPS",
                    "VIRTUAL_INVENTORY_FOR_POSITIONS"}

ASSUME IdsAreListed ==
  \A n \in Networks : \A w \in Settings[n] :
    /\ w[1][1] = "VIRTUAL_MARKET_ID" => w[2] \in SwapIds[n] \union {HashZero}
    /\ w[1][1] = "VIRTUAL_TOKEN_ID" => w[2] \in PositionIds[n] \union {HashZero}

\* A market of a single token has one pool amount for both sides: it takes no id for swaps.
ASSUME IdsNeedTwoTokens ==
  \A n \in Networks : \A w \in Settings[n], m \in AllMarkets[n] :
    w[1] = virtualMarketIdKey(m.tokens) /\ w[2] # HashZero => longOf(m) # shortOf(m)

ASSUME CollateralIsPositive ==
  \A n \in Networks : \A w \in Settings[n] : w[1][1] = "MIN_COLLATERAL_FACTOR" => w[2] # 0

\* A deployment sets the ids of a market before it lets tokens in, and the
\* minimum of collateral before the limits of the open interest; it does not
\* get past a missing value.  (On Fuji the second market has the index token of
\* the third, and no id of its own: what saves it are the missing limits of the first.)
IsOrdered(tasks, markets, settings) ==
  \A i \in DOMAIN tasks : (\A k \in 1 .. i : Given(tasks[k])) => \A m \in markets :
    /\ (\E key \in CapKeys(m) : Sets(tasks[i], key))
         => \A w \in settings : w[1] \in IdKeys(m) => \E k \in 1 .. i - 1 : Sets(tasks[k], w[1])
    /\ (\E key \in LimitKeys(m) : Sets(tasks[i], key))
         => \E k \in 1 .. i - 1 : Sets(tasks[k], minCollateralFactorKey(m.tokens))

ASSUME DeploymentsAreOrdered ==
  \A n \in Networks : \A e \in DOMAIN Editions[n], s \in Deployments :
    IsOrdered(Plan[n][e][s], AllMarkets[n], Settings[n])

\* An update sets the minimum of collateral together with the limits of the open interest.
IsComplete(tasks, markets) ==
  \A i \in DOMAIN tasks :
    /\ tasks[i].kind = "set"
    /\ (\A k \in DOMAIN tasks : Given(tasks[k])) => \A m \in markets :
         (\E key \in LimitKeys(m) : Sets(tasks[i], key))
           => \E k \in DOMAIN tasks : Sets(tasks[k], minCollateralFactorKey(m.tokens))

ASSUME UpdatesAreComplete ==
  \A n \in Networks : \A e \in DOMAIN Editions[n], s \in Updates :
    IsComplete(Plan[n][e][s], AllMarkets[n])

\* What one script sets the other sets to the same value, but for what only one of them sets.
Covers(n, e, done, left) ==
  \A i \in DOMAIN Plan[n][e][left] :
    LET t == Plan[n][e][left][i]
    IN t.kind = "set" =>
         \/ t.key[1] \in OnlyDeployed \/ OnlyUpdated(t)
         \/ <<t.key, Stored(t.value)>> \in SettingsOf(Plan[n][e][done])

ASSUME ScriptsCover ==
  \A n \in Networks : \A e \in DOMAIN Editions[n] :
    /\ Covers(n, e, "Markets", "updateMarketConfig")
    /\ Covers(n, e, "updateMarketConfig", "Markets")
    /\ Covers(n, e, "GeneralSettings", "updateGeneralConfig")
    /\ Covers(n, e, "updateGeneralConfig", "GeneralSettings")

----------------------------------------------------------------------------
(* The inductive invariant *)

Holds(w) == store[w[1]] = w[2]

\* The names of the keys that keepers write by themselves.
HandNames ==
  {"MAX_POOL_AMOUNT", "POSITION_IMPACT_POOL_DISTRIBUTION_RATE", "MIN_POSITION_IMPACT_POOL_AMOUNT"}

IdNames == {"VIRTUAL_MARKET_ID", "VIRTUAL_TOKEN_ID"}

\* A value is as configured, or a keeper has changed it while the script ran.
Kept(t) ==
  \/ InPlace(t)
  \/ ~job.clean /\ t.key[1] \in HandNames
  \/ ~job.clean /\ t.key[1] \in IdNames /\ Stored(t.value) \in untracked

StoreTyped ==
  /\ DOMAIN store = KeysOf[network]
  /\ \A m \in AllMarkets[network] :
       /\ \A isLong \in BOOLEAN :
            store[Pool(m, isLong)] \in Nat /\ store[openInterestKey(m.tokens, isLong)] \in Nat
       /\ store[virtualMarketIdKey(m.tokens)] \in SwapIds[network] \union {HashZero}
       /\ store[virtualTokenIdKey(m.tokens[1])] \in PositionIds[network] \union {HashZero}

JobTyped ==
  /\ job \in [script : Scripts \union {"none"}, at : Nat, todo : SUBSET Nat,
              dry : BOOLEAN, skipNew : BOOLEAN, clean : BOOLEAN]
  /\ job.script = "none" => job = NoJob
  /\ job.script \in Deployments => job.at \in DOMAIN Tasks(job.script)
  /\ job.script \in Updates => job.todo \subseteq DOMAIN Tasks(job.script)
  /\ settled \in Scripts \union {"none"}

TypeInvariant ==
  /\ network \in Networks
  /\ edition \in DOMAIN Editions[network]
  /\ StoreTyped
  /\ JobTyped

\* Tokens get into a market only when its ids are set, or nobody keeps track of the id.
Opened(m) ==
  \E isLong \in BOOLEAN :
    \/ store[Pool(m, isLong)] # 0 \/ store[openInterestKey(m.tokens, isLong)] # 0
    \/ store[maxPoolAmountKey(m.tokens, tokenOf(m, isLong))] # 0
ClosedUntilIds ==
  \A m \in AllMarkets[network] : Opened(m) =>
    \A w \in Settings[network] : w[1] \in IdKeys(m) => Holds(w) \/ w[2] \in untracked

\* A key that has a configured id has it, no id, or one that nobody keeps track of.
IdsSettled ==
  \A w \in Settings[network] : w[1][1] \in IdNames =>
    Holds(w) \/ store[w[1]] \in untracked \union {HashZero}

\* A market of a single token has no id for swaps.
IdsHaveTwoTokens ==
  \A m \in AllMarkets[network] :
    store[virtualMarketIdKey(m.tokens)] \notin untracked \union {HashZero} => longOf(m) # shortOf(m)

\* What a deployment has set is still set.
Done ==
  job.script \in Deployments /\ ~job.dry =>
    \A k \in 1 .. job.at - 1 :
      LET t == Tasks(job.script)[k] IN t.kind = "set" => t.value # Undefined /\ Kept(t)

\* An update sends what is not in place.
Prepared ==
  job.script \in Updates =>
    \A k \in DOMAIN Tasks(job.script) :
      LET t == Tasks(job.script)[k] IN t.value # Undefined /\ (k \in job.todo \/ Kept(t))

SettledInPlace ==
  settled # "none" =>
    \A k \in DOMAIN Tasks(settled) : Tasks(settled)[k].kind = "set" => InPlace(Tasks(settled)[k])

SwapsTracked ==
  \A id \in SwapIds[network] \ (untracked \union {HashZero}), isLong \in BOOLEAN :
    store[virtualInventoryForSwapsKey(id, isLong)] = SwapInventory(id, isLong)
PositionsTracked ==
  \A id \in PositionIds[network] \ (untracked \union {HashZero}) :
    store[virtualInventoryForPositionsKey(id)] = PositionInventory(id)

LimitsNeedCollateral ==
  \A m \in AllMarkets[network] :
    store[minCollateralFactorKey(m.tokens)] = 0 =>
      \A isLong \in BOOLEAN :
        store[openInterestKey(m.tokens, isLong)] = 0 /\ store[maxOpenInterestKey(m.tokens, isLong)] = 0

InductiveInvariant ==
  /\ TypeInvariant
  /\ ClosedUntilIds
  /\ IdsSettled
  /\ IdsHaveTwoTokens
  /\ Done
  /\ Prepared
  /\ SettledInPlace
  /\ SwapsTracked
  /\ PositionsTracked
  /\ LimitsNeedCollateral
=============================================================================
