----------------------------- MODULE Governance -----------------------------
(***************************************************************************)
(* Who may change what, and how soon: the roles (RoleStore), the timelock  *)
(* through which roles, oracle signers, price feeds and the fee receiver   *)
(* change (Timelock), and the parameters that keepers set at once          *)
(* (Config).                                                               *)
(*                                                                         *)
(* Every call is one step and comes from an account; the timelock is       *)
(* itself an account, the one that calls the stores after a delay.  A      *)
(* multicall is a sequence of such steps.                                  *)
(*                                                                         *)
(* The data store is a function over the entries that matter here: those   *)
(* the timelock sets, for one token, and three of the parameters: one with *)
(* a range, one for limited keepers, and one the timelock sets as well.    *)
(***************************************************************************)
EXTENDS Integers, FiniteSets

CONSTANTS
  Accounts,              \* the accounts that call the contracts
  Timelock,              \* the timelock contract
  Addresses,             \* oracle signers and fee receivers, but for address(0)
  Feeds,                 \* price feeds with their multipliers and stable prices
  RealtimeFeeds,         \* ids of realtime feeds with their multipliers
  Precision,             \* FLOAT_PRECISION
  ParameterValues,       \* the values each parameter may get
  InitialMembers,        \* the members of each role after the deployment
  InitialSigners,        \* the oracle signers after the deployment
  InitialDelay,          \* the constructor's _timelockDelay
  MAX_TIMELOCK_DELAY,
  Actions,               \* the actions that are signalled
  DirectRoles,           \* the roles that their admins change without the timelock
  \* Bounds
  MaxTime, MaxPending

Roles == {"ROLE_ADMIN", "CONTROLLER", "TIMELOCK_ADMIN", "TIMELOCK_MULTISIG",
          "CONFIG_KEEPER", "LIMITED_CONFIG_KEEPER"}
Holders == Accounts \cup {Timelock}
NoAddress == "no address"

Parameters == {"SWAP_FEE_FACTOR", "MAX_POOL_AMOUNT", "PRICE_FEED_HEARTBEAT_DURATION"}

\* What is hashed to the key of an action.
Action ==
  [label : {"addOracleSigner", "removeOracleSigner", "setFeeReceiver"}, account : Addresses]
    \cup [label : {"grantRole", "revokeRole"}, account : Holders, role : Roles]
    \cup [label : {"setPriceFeed"}, feed : Feeds,
          heartbeat : ParameterValues["PRICE_FEED_HEARTBEAT_DURATION"]]
    \cup [label : {"setRealtimeFeed"}, feed : RealtimeFeeds]

\* The entries of the data store, and what each may hold.
Entries == Parameters \cup {"FEE_RECEIVER", "PRICE_FEED", "REALTIME_FEED", "IN_STRICT_PRICE_FEED_MODE"}
ValuesOf(k) ==
  CASE k \in Parameters -> ParameterValues[k]
    [] k = "FEE_RECEIVER" -> Addresses \cup {NoAddress}
    [] k = "PRICE_FEED" -> Feeds \cup {NoAddress}
    [] k = "REALTIME_FEED" -> RealtimeFeeds \cup {NoAddress}
    [] OTHER -> BOOLEAN

ASSUME ConstantsAssumption ==
  /\ Timelock \notin Accounts
  /\ Precision \in Nat
  /\ ParameterValues \in [Parameters -> SUBSET Nat]
  /\ \A k \in Parameters : 0 \in ParameterValues[k]
  /\ InitialMembers \in [Roles -> SUBSET Holders]
  /\ InitialMembers["ROLE_ADMIN"] # {}
  /\ InitialSigners \subseteq Addresses
  /\ InitialDelay \in Nat
  /\ MAX_TIMELOCK_DELAY \in Nat
  /\ InitialDelay <= MAX_TIMELOCK_DELAY
  /\ Actions \subseteq Action
  /\ DirectRoles \subseteq Holders \X Roles
  /\ MaxTime \in Nat
  /\ MaxPending \in Nat

VARIABLES
  now,              \* block.timestamp
  timelockDelay,
  pendingActions,   \* pendingActions[k]: when action k may be taken, 0 if it was not signalled
  roleMembers,
  roleCache,
  signers,
  data,             \* the entries of the data store
  signalledAt       \* history: when the pending action k was signalled, or 0

storeVars == <<roleMembers, roleCache, signers, data>>
vars == <<now, timelockDelay, pendingActions, storeVars, signalledAt>>

----------------------------------------------------------------------------
(* RoleStore *)

HasRole(h, role) == roleCache[h][role]

GrantRole(caller, h, role) ==
  /\ HasRole(caller, "ROLE_ADMIN")
  /\ roleMembers' = [roleMembers EXCEPT ![role] = @ \cup {h}]
  /\ roleCache' = [roleCache EXCEPT ![h][role] = TRUE]
  /\ UNCHANGED <<signers, data>>

RevokeRole_MayBeTheLast(caller, h, role) ==
  /\ HasRole(caller, "ROLE_ADMIN")
  /\ roleMembers' = [roleMembers EXCEPT ![role] = @ \ {h}]
  /\ roleCache' = [roleCache EXCEPT ![h][role] = FALSE]
  /\ role = "TIMELOCK_MULTISIG" => roleMembers'[role] # {}
  /\ UNCHANGED <<signers, data>>

\* It reverts when nobody is left to administrate roles or to sign for the multisig.
RevokeRole(caller, h, role) ==
  /\ HasRole(caller, "ROLE_ADMIN")
  /\ roleMembers' = [roleMembers EXCEPT ![role] = @ \ {h}]
  /\ roleCache' = [roleCache EXCEPT ![h][role] = FALSE]
  /\ role \in {"ROLE_ADMIN", "TIMELOCK_MULTISIG"} => roleMembers'[role] # {}
  /\ UNCHANGED <<signers, data>>

----------------------------------------------------------------------------
(* OracleStore and DataStore: any controller changes them. *)

AddSigner(caller, account) ==
  /\ HasRole(caller, "CONTROLLER")
  /\ signers' = signers \cup {account}
  /\ UNCHANGED <<roleMembers, roleCache, data>>

RemoveSigner(caller, account) ==
  /\ HasRole(caller, "CONTROLLER")
  /\ signers' = signers \ {account}
  /\ UNCHANGED <<roleMembers, roleCache, data>>

\* One or several entries are set.
SetData(caller, newData) ==
  /\ HasRole(caller, "CONTROLLER")
  /\ data' = newData
  /\ UNCHANGED <<roleMembers, roleCache, signers>>

----------------------------------------------------------------------------
(* Timelock *)

Signalled(k) == pendingActions[k] # 0

ClearAction_Not(k) ==
  /\ Signalled(k)
  /\ UNCHANGED <<pendingActions, signalledAt>>

\* _clearAction
ClearAction(k) ==
  /\ Signalled(k)
  /\ pendingActions' = [pendingActions EXCEPT ![k] = 0]
  /\ signalledAt' = [signalledAt EXCEPT ![k] = 0]

\* What taking action k asks of the stores (the part of each ...AfterSignal
\* between the clearing of the action and the event).
Take(k) ==
  \/ k.label = "addOracleSigner" /\ AddSigner(Timelock, k.account)
  \/ k.label = "removeOracleSigner" /\ RemoveSigner(Timelock, k.account)
  \/ k.label = "setFeeReceiver" /\ SetData(Timelock, [data EXCEPT !["FEE_RECEIVER"] = k.account])
  \/ k.label = "grantRole" /\ GrantRole(Timelock, k.account, k.role)
  \/ k.label = "revokeRole" /\ RevokeRole(Timelock, k.account, k.role)
  \/ /\ k.label = "setPriceFeed"
     /\ SetData(Timelock, [data EXCEPT !["PRICE_FEED"] = k.feed,
                                       !["PRICE_FEED_HEARTBEAT_DURATION"] = k.heartbeat])
  \/ k.label = "setRealtimeFeed" /\ SetData(Timelock, [data EXCEPT !["REALTIME_FEED"] = k.feed])

\* signalGrantRole, signalSetPriceFeed and the others
SignalPendingAction(caller, k) ==
  /\ HasRole(caller, "TIMELOCK_ADMIN")
  /\ ~ Signalled(k)
  /\ Cardinality({j \in Actions : Signalled(j)}) < MaxPending
  /\ pendingActions' = [pendingActions EXCEPT ![k] = now + timelockDelay]
  /\ signalledAt' = [signalledAt EXCEPT ![k] = now]
  /\ UNCHANGED <<now, timelockDelay, storeVars>>

\* grantRoleAfterSignal, setPriceFeedAfterSignal and the others
TakeAfterSignal(caller, k) ==
  /\ HasRole(caller, "TIMELOCK_ADMIN")
  /\ Signalled(k)
  /\ pendingActions[k] <= now
  /\ ClearAction(k)
  /\ Take(k)
  /\ UNCHANGED <<now, timelockDelay>>

CancelAction(caller, k) ==
  /\ HasRole(caller, "TIMELOCK_ADMIN")
  /\ ClearAction(k)
  /\ UNCHANGED <<now, timelockDelay, storeVars>>

IncreaseTimelockDelay_Unlimited(caller, delay) ==
  /\ HasRole(caller, "TIMELOCK_ADMIN")
  /\ delay > timelockDelay
  /\ timelockDelay' = delay
  /\ UNCHANGED <<now, pendingActions, storeVars, signalledAt>>

IncreaseTimelockDelay(caller, delay) ==
  /\ HasRole(caller, "TIMELOCK_ADMIN")
  /\ delay > timelockDelay
  /\ delay <= MAX_TIMELOCK_DELAY
  /\ timelockDelay' = delay
  /\ UNCHANGED <<now, pendingActions, storeVars, signalledAt>>

\* revokeRole of the timelock: the multisig needs no signal.
RevokeRoleAtOnce(caller, h, role) ==
  /\ HasRole(caller, "TIMELOCK_MULTISIG")
  /\ RevokeRole(Timelock, h, role)
  /\ UNCHANGED <<now, timelockDelay, pendingActions, signalledAt>>

SetInStrictPriceFeedMode(caller, value) ==
  /\ HasRole(caller, "TIMELOCK_MULTISIG")
  /\ SetData(Timelock, [data EXCEPT !["IN_STRICT_PRICE_FEED_MODE"] = value])
  /\ UNCHANGED <<now, timelockDelay, pendingActions, signalledAt>>

----------------------------------------------------------------------------
(* Config *)

AllowedBaseKeys_Everything == Entries

AllowedBaseKeys == Parameters

AllowedLimitedBaseKeys == {"MAX_POOL_AMOUNT"}

\* _validateKey
KeyAllowed(caller, k) ==
  IF HasRole(caller, "CONFIG_KEEPER") THEN k \in AllowedBaseKeys
  ELSE HasRole(caller, "LIMITED_CONFIG_KEEPER") /\ k \in AllowedLimitedBaseKeys

\* _validateRange, which bounds the other factors in the same way.
InRange(k, v) == k = "SWAP_FEE_FACTOR" => v <= (5 * Precision) \div 100

\* setUint, setAddress, setBool and the others; Config is a controller.
SetConfig(caller, k, v) ==
  /\ KeyAllowed(caller, k)
  /\ InRange(k, v)
  /\ data' = [data EXCEPT ![k] = v]
  /\ UNCHANGED <<now, timelockDelay, pendingActions, roleMembers, roleCache, signers, signalledAt>>

----------------------------------------------------------------------------
Init ==
  /\ now = 1
  /\ timelockDelay = InitialDelay
  /\ pendingActions = [k \in Actions |-> 0]
  /\ roleMembers = InitialMembers
  /\ roleCache = [h \in Holders |-> [role \in Roles |-> h \in InitialMembers[role]]]
  /\ signers = InitialSigners
  /\ data = [k \in Entries |-> IF k \in Parameters THEN 0
                               ELSE IF k = "IN_STRICT_PRICE_FEED_MODE" THEN FALSE ELSE NoAddress]
  /\ signalledAt = [k \in Actions |-> 0]

Tick ==
  /\ now < MaxTime
  /\ now' = now + 1
  /\ UNCHANGED <<timelockDelay, pendingActions, storeVars, signalledAt>>

TimelockStep(a) ==
  \/ \E k \in Actions : SignalPendingAction(a, k) \/ TakeAfterSignal(a, k) \/ CancelAction(a, k)
  \/ \E delay \in 0..(MAX_TIMELOCK_DELAY + 1) : IncreaseTimelockDelay(a, delay)
  \/ \E hr \in DirectRoles : RevokeRoleAtOnce(a, hr[1], hr[2])
  \/ \E value \in BOOLEAN : SetInStrictPriceFeedMode(a, value)

ConfigStep(a) ==
  \E k \in AllowedBaseKeys : \E v \in ValuesOf(k) : SetConfig(a, k, v)

\* An account with the role calls a store itself.
DirectStep(a) ==
  /\ \/ \E hr \in DirectRoles : GrantRole(a, hr[1], hr[2]) \/ RevokeRole(a, hr[1], hr[2])
     \/ \E account \in Addresses : AddSigner(a, account) \/ RemoveSigner(a, account)
     \/ \E k \in Entries : \E v \in ValuesOf(k) : SetData(a, [data EXCEPT ![k] = v])
  /\ UNCHANGED <<now, timelockDelay, pendingActions, signalledAt>>

Next ==
  \/ Tick
  \/ \E a \in Accounts : TimelockStep(a) \/ ConfigStep(a) \/ DirectStep(a)

Spec == Init /\ [][Next]_vars

=============================================================================
