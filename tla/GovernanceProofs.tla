-------------------------- MODULE GovernanceProofs --------------------------
(* The theorems about the roles and the timelock, with their proofs. *)
EXTENDS GovernanceProperties, TLAPS

\* The permissions that are read are those of the lists of members.
RolesAgree == \A h \in Holders, role \in Roles : HasRole(h, role) <=> h \in roleMembers[role]

\* What is pending was signalled, and waits for the first delay at least.
DelayKept ==
  \A k \in Actions :
    /\ pendingActions[k] = 0 => signalledAt[k] = 0
    /\ pendingActions[k] # 0 => pendingActions[k] >= signalledAt[k] + InitialDelay /\ signalledAt[k] # 0

Invariant == TypeOK /\ RolesAgree /\ DelayKept

\* The entries of the data store keep their types when one is set.
LEMMA DataTyped ==
  ASSUME TypeOK, NEW k \in Entries, NEW v \in ValuesOf(k)
  PROVE  LET d == [data EXCEPT ![k] = v] IN DOMAIN d = Entries /\ \A j \in Entries : d[j] \in ValuesOf(j)
BY DEF TypeOK

LEMMA InitInvariant == Init => Invariant
<1> SUFFICES ASSUME Init PROVE Invariant
  OBVIOUS
<1> USE ConstantsAssumption
<1>1. TypeOK
  <2>1. \A k \in Entries : data[k] \in ValuesOf(k)
    BY DEF Init, ValuesOf, Entries, Parameters
  <2>2. roleCache \in [Holders -> [Roles -> BOOLEAN]]
    <3>1. \A h \in Holders : [role \in Roles |-> h \in InitialMembers[role]] \in [Roles -> BOOLEAN]
      OBVIOUS
    <3> QED BY <3>1 DEF Init
  <2>3. roleMembers \in [Roles -> SUBSET Holders] /\ signers \subseteq Addresses
    BY DEF Init
  <2>4. /\ now \in Nat \ {0} /\ timelockDelay \in InitialDelay..MAX_TIMELOCK_DELAY
        /\ pendingActions \in [Actions -> Nat] /\ signalledAt \in [Actions -> Nat]
        /\ DOMAIN data = Entries
    BY DEF Init
  <2> QED BY <2>1, <2>2, <2>3, <2>4 DEF TypeOK
<1>2. RolesAgree
  BY DEF Init, RolesAgree, HasRole
<1>3. DelayKept
  BY DEF Init, DelayKept
<1> QED BY <1>1, <1>2, <1>3 DEF Invariant

\* A grant keeps the two representations of the roles together.
LEMMA GrantKeeps ==
  ASSUME TypeOK, RolesAgree, NEW caller, NEW h \in Holders, NEW role \in Roles, GrantRole(caller, h, role)
  PROVE  /\ RolesAgree'
         /\ roleMembers' \in [Roles -> SUBSET Holders]
         /\ roleCache' \in [Holders -> [Roles -> BOOLEAN]]
         /\ \A g \in Holders, r \in Roles : HasRole(g, r)' => HasRole(g, r) \/ (g = h /\ r = role)
         /\ \A g \in Holders, r \in Roles : HasRole(g, r) => HasRole(g, r)'
<1>1. \A g \in Holders, r \in Roles : roleCache'[g][r] = IF g = h /\ r = role THEN TRUE ELSE roleCache[g][r]
  BY DEF TypeOK, GrantRole
<1>2. \A r \in Roles : roleMembers'[r] = IF r = role THEN roleMembers[r] \cup {h} ELSE roleMembers[r]
  BY DEF TypeOK, GrantRole
<1>3. RolesAgree'
  <2> SUFFICES ASSUME NEW g \in Holders, NEW r \in Roles
               PROVE  HasRole(g, r)' <=> g \in roleMembers'[r]
    BY DEF RolesAgree
  <2>1. HasRole(g, r)' <=> (g = h /\ r = role) \/ HasRole(g, r)
    BY <1>1 DEF HasRole
  <2>2. g \in roleMembers'[r] <=> (g = h /\ r = role) \/ g \in roleMembers[r]
    BY <1>2
  <2> QED BY <2>1, <2>2 DEF RolesAgree
<1>4. roleCache' \in [Holders -> [Roles -> BOOLEAN]] /\ roleMembers' \in [Roles -> SUBSET Holders]
  <2>1. roleMembers' \in [Roles -> SUBSET Holders]
    BY DEF TypeOK, GrantRole
  <2>2. [roleCache[h] EXCEPT ![role] = TRUE] \in [Roles -> BOOLEAN]
    BY Zenon DEF TypeOK
  <2>3. roleCache' = [roleCache EXCEPT ![h] = [roleCache[h] EXCEPT ![role] = TRUE]]
    BY DEF GrantRole
  <2>4. [roleCache EXCEPT ![h] = [roleCache[h] EXCEPT ![role] = TRUE]] \in [Holders -> [Roles -> BOOLEAN]]
    BY <2>2 DEF TypeOK
  <2> QED BY <2>1, <2>3, <2>4
<1> QED BY <1>1, <1>3, <1>4 DEF HasRole

\* So does a revocation, and it leaves the two offices occupied.
LEMMA RevokeKeeps ==
  ASSUME TypeOK, RolesAgree, NEW caller, NEW h \in Holders, NEW role \in Roles, RevokeRole(caller, h, role)
  PROVE  /\ RolesAgree'
         /\ roleMembers' \in [Roles -> SUBSET Holders]
         /\ roleCache' \in [Holders -> [Roles -> BOOLEAN]]
         /\ \A g \in Holders, r \in Roles : HasRole(g, r)' => HasRole(g, r)
         /\ \A r \in {"ROLE_ADMIN", "TIMELOCK_MULTISIG"} :
              (\E g \in Holders : HasRole(g, r)) => (\E g \in Holders : HasRole(g, r)')
<1>1. \A g \in Holders, r \in Roles : roleCache'[g][r] = IF g = h /\ r = role THEN FALSE ELSE roleCache[g][r]
  BY DEF TypeOK, RevokeRole
<1>2. \A r \in Roles : roleMembers'[r] = IF r = role THEN roleMembers[r] \ {h} ELSE roleMembers[r]
  BY DEF TypeOK, RevokeRole
<1>3. RolesAgree'
  <2> SUFFICES ASSUME NEW g \in Holders, NEW r \in Roles
               PROVE  HasRole(g, r)' <=> g \in roleMembers'[r]
    BY DEF RolesAgree
  <2>1. HasRole(g, r)' <=> ~ (g = h /\ r = role) /\ HasRole(g, r)
    BY <1>1 DEF HasRole
  <2>2. g \in roleMembers'[r] <=> ~ (g = h /\ r = role) /\ g \in roleMembers[r]
    BY <1>2
  <2> QED BY <2>1, <2>2 DEF RolesAgree
<1>4. roleCache' \in [Holders -> [Roles -> BOOLEAN]] /\ roleMembers' \in [Roles -> SUBSET Holders]
  <2>1. roleMembers' \in [Roles -> SUBSET Holders]
    BY DEF TypeOK, RevokeRole
  <2>2. [roleCache[h] EXCEPT ![role] = FALSE] \in [Roles -> BOOLEAN]
    BY Zenon DEF TypeOK
  <2>3. roleCache' = [roleCache EXCEPT ![h] = [roleCache[h] EXCEPT ![role] = FALSE]]
    BY DEF RevokeRole
  <2>4. [roleCache EXCEPT ![h] = [roleCache[h] EXCEPT ![role] = FALSE]] \in [Holders -> [Roles -> BOOLEAN]]
    BY <2>2 DEF TypeOK
  <2> QED BY <2>1, <2>3, <2>4
<1>5. ASSUME NEW r \in {"ROLE_ADMIN", "TIMELOCK_MULTISIG"}, NEW f \in Holders, HasRole(f, r)
      PROVE  \E g \in Holders : HasRole(g, r)'
  <2>1. r \in Roles
    BY DEF Roles
  <2>2. CASE r = role
    <3>1. roleMembers'[r] # {}
      BY <1>5, <2>2 DEF RevokeRole
    <3>2. PICK g \in roleMembers'[r] : TRUE
      BY <3>1
    <3>3. g \in Holders
      BY <1>4, <2>1, <3>2
    <3> QED BY <1>3, <2>1, <3>2, <3>3 DEF RolesAgree
  <2>3. CASE r # role
    BY <1>1, <1>5, <2>1, <2>3 DEF HasRole
  <2> QED BY <2>2, <2>3
<1> QED BY <1>1, <1>3, <1>4, <1>5 DEF HasRole

\* Of what an action is made.
LEMMA ActionFields ==
  ASSUME NEW k \in Actions
  PROVE  /\ k.label \in {"addOracleSigner", "removeOracleSigner", "setFeeReceiver"}
              => k = [label |-> k.label, account |-> k.account] /\ k.account \in Addresses
         /\ k.label \in {"grantRole", "revokeRole"}
              => /\ k = [label |-> k.label, account |-> k.account, role |-> k.role]
                 /\ k.account \in Holders /\ k.role \in Roles
         /\ k.label = "setPriceFeed"
              => /\ k = [label |-> k.label, feed |-> k.feed, heartbeat |-> k.heartbeat]
                 /\ k.feed \in Feeds /\ k.heartbeat \in ParameterValues["PRICE_FEED_HEARTBEAT_DURATION"]
         /\ k.label = "setRealtimeFeed"
              => k = [label |-> k.label, feed |-> k.feed] /\ k.feed \in RealtimeFeeds
<1>1. k \in Action
  BY ConstantsAssumption
<1> QED BY <1>1 DEF Action

StoresTyped ==
  /\ roleMembers \in [Roles -> SUBSET Holders]
  /\ roleCache \in [Holders -> [Roles -> BOOLEAN]]
  /\ signers \subseteq Addresses
  /\ DOMAIN data = Entries /\ \A k \in Entries : data[k] \in ValuesOf(k)
  /\ RolesAgree

LEMMA GrantTyped ==
  ASSUME TypeOK, RolesAgree, NEW caller, NEW h \in Holders, NEW role \in Roles, GrantRole(caller, h, role)
  PROVE  StoresTyped'
<1>1. signers' = signers /\ data' = data
  BY DEF GrantRole
<1> QED BY <1>1, GrantKeeps DEF StoresTyped, TypeOK

LEMMA RevokeTyped ==
  ASSUME TypeOK, RolesAgree, NEW caller, NEW h \in Holders, NEW role \in Roles, RevokeRole(caller, h, role)
  PROVE  StoresTyped'
<1>1. signers' = signers /\ data' = data
  BY DEF RevokeRole
<1> QED BY <1>1, RevokeKeeps DEF StoresTyped, TypeOK

LEMMA RolesStay ==
  ASSUME RolesAgree, UNCHANGED <<roleMembers, roleCache>>
  PROVE  RolesAgree' /\ \A h, role : HasRole(h, role)' <=> HasRole(h, role)
BY DEF RolesAgree, HasRole

LEMMA SignersTyped ==
  ASSUME TypeOK, RolesAgree, NEW caller, NEW account \in Addresses,
         AddSigner(caller, account) \/ RemoveSigner(caller, account)
  PROVE  StoresTyped'
BY RolesStay DEF StoresTyped, TypeOK, AddSigner, RemoveSigner

LEMMA SetDataTyped ==
  ASSUME TypeOK, RolesAgree, NEW caller, NEW d, SetData(caller, d),
         DOMAIN d = Entries, \A k \in Entries : d[k] \in ValuesOf(k)
  PROVE  StoresTyped'
BY RolesStay DEF StoresTyped, TypeOK, SetData

LEMMA SetEntryTyped ==
  ASSUME TypeOK, RolesAgree, NEW caller, NEW k \in Entries, NEW v \in ValuesOf(k),
         SetData(caller, [data EXCEPT ![k] = v])
  PROVE  StoresTyped'
BY DataTyped, SetDataTyped

LEMMA TakeTyped ==
  ASSUME TypeOK, RolesAgree, NEW k \in Actions, Take(k)
  PROVE  StoresTyped'
<1>1. CASE k.label = "addOracleSigner" /\ AddSigner(Timelock, k.account)
  BY <1>1, ActionFields, SignersTyped
<1>2. CASE k.label = "removeOracleSigner" /\ RemoveSigner(Timelock, k.account)
  BY <1>2, ActionFields, SignersTyped
<1>3. CASE k.label = "setFeeReceiver" /\ SetData(Timelock, [data EXCEPT !["FEE_RECEIVER"] = k.account])
  <2>1. "FEE_RECEIVER" \in Entries /\ k.account \in ValuesOf("FEE_RECEIVER")
    BY <1>3, ActionFields DEF Entries, ValuesOf, Parameters
  <2> QED BY <1>3, <2>1, SetEntryTyped
<1>4. CASE k.label = "grantRole" /\ GrantRole(Timelock, k.account, k.role)
  BY <1>4, ActionFields, GrantTyped
<1>5. CASE k.label = "revokeRole" /\ RevokeRole(Timelock, k.account, k.role)
  BY <1>5, ActionFields, RevokeTyped
<1>6. CASE /\ k.label = "setPriceFeed"
           /\ SetData(Timelock, [data EXCEPT !["PRICE_FEED"] = k.feed,
                                             !["PRICE_FEED_HEARTBEAT_DURATION"] = k.heartbeat])
  <2> DEFINE d == [data EXCEPT !["PRICE_FEED"] = k.feed, !["PRICE_FEED_HEARTBEAT_DURATION"] = k.heartbeat]
  <2>1. DOMAIN d = Entries
    BY DEF TypeOK
  <2>2. ASSUME NEW j \in Entries PROVE d[j] \in ValuesOf(j)
    <3>1. CASE j = "PRICE_FEED"
      BY <1>6, <3>1, ActionFields DEF TypeOK, ValuesOf, Entries, Parameters
    <3>2. CASE j = "PRICE_FEED_HEARTBEAT_DURATION"
      BY <1>6, <3>2, ActionFields DEF TypeOK, ValuesOf, Entries, Parameters
    <3>3. CASE j \notin {"PRICE_FEED", "PRICE_FEED_HEARTBEAT_DURATION"}
      BY <3>3 DEF TypeOK
    <3> QED BY <3>1, <3>2, <3>3
  <2> QED BY <1>6, <2>1, <2>2, SetDataTyped
<1>7. CASE k.label = "setRealtimeFeed" /\ SetData(Timelock, [data EXCEPT !["REALTIME_FEED"] = k.feed])
  <2>1. "REALTIME_FEED" \in Entries /\ k.feed \in ValuesOf("REALTIME_FEED")
    BY <1>7, ActionFields DEF Entries, ValuesOf, Parameters
  <2> QED BY <1>7, <2>1, SetEntryTyped
<1> QED BY <1>1, <1>2, <1>3, <1>4, <1>5, <1>6, <1>7 DEF Take

LEMMA DirectTyped ==
  ASSUME TypeOK, RolesAgree, NEW a \in Accounts, DirectStep(a)
  PROVE  StoresTyped'
<1>1. CASE \E hr \in DirectRoles : GrantRole(a, hr[1], hr[2]) \/ RevokeRole(a, hr[1], hr[2])
  <2>1. PICK hr \in DirectRoles : GrantRole(a, hr[1], hr[2]) \/ RevokeRole(a, hr[1], hr[2])
    BY <1>1
  <2>2. hr[1] \in Holders /\ hr[2] \in Roles
    BY ConstantsAssumption
  <2> QED BY <2>1, <2>2, GrantTyped, RevokeTyped
<1>2. CASE \E account \in Addresses : AddSigner(a, account) \/ RemoveSigner(a, account)
  BY <1>2, SignersTyped
<1>3. CASE \E k \in Entries : \E v \in ValuesOf(k) : SetData(a, [data EXCEPT ![k] = v])
  BY <1>3, SetEntryTyped
<1> QED BY <1>1, <1>2, <1>3 DEF DirectStep

ClockTyped ==
  /\ now \in Nat \ {0}
  /\ timelockDelay \in InitialDelay..MAX_TIMELOCK_DELAY
  /\ pendingActions \in [Actions -> Nat]
  /\ signalledAt \in [Actions -> Nat]
  /\ DelayKept

LEMMA InvariantParts == Invariant <=> StoresTyped /\ ClockTyped
BY DEF Invariant, TypeOK, StoresTyped, ClockTyped

LEMMA InvariantPartsNext == Invariant' <=> StoresTyped' /\ ClockTyped'
BY DEF Invariant, TypeOK, StoresTyped, ClockTyped

LEMMA StoresStay ==
  ASSUME StoresTyped, UNCHANGED storeVars
  PROVE  StoresTyped'
BY DEF StoresTyped, storeVars, RolesAgree, HasRole

LEMMA ClockStays ==
  ASSUME ClockTyped, UNCHANGED <<now, timelockDelay, pendingActions, signalledAt>>
  PROVE  ClockTyped'
BY DEF ClockTyped, DelayKept

LEMMA ClearTyped ==
  ASSUME ClockTyped, NEW k \in Actions, ClearAction(k), UNCHANGED <<now, timelockDelay>>
  PROVE  ClockTyped'
<1> USE ConstantsAssumption
<1>1. /\ pendingActions' \in [Actions -> Nat] /\ signalledAt' \in [Actions -> Nat]
      /\ now' \in Nat \ {0} /\ timelockDelay' \in InitialDelay..MAX_TIMELOCK_DELAY
  BY DEF ClockTyped, ClearAction
<1>2. DelayKept'
  BY DEF ClockTyped, ClearAction, DelayKept
<1> QED BY <1>1, <1>2 DEF ClockTyped

LEMMA InvariantStep == Invariant /\ [Next]_vars => Invariant'
<1> SUFFICES ASSUME Invariant, [Next]_vars PROVE Invariant'
  OBVIOUS
<1>1. StoresTyped /\ ClockTyped /\ TypeOK /\ RolesAgree
  BY InvariantParts DEF Invariant
<1>2. CASE UNCHANGED vars
  BY <1>1, <1>2, StoresStay, ClockStays, InvariantPartsNext DEF vars, storeVars
<1>3. CASE Tick
  <2>1. StoresTyped'
    BY <1>1, <1>3, StoresStay DEF Tick
  <2>2. ClockTyped'
    BY <1>1, <1>3 DEF Tick, ClockTyped, DelayKept
  <2> QED BY <2>1, <2>2, InvariantPartsNext
<1>4. ASSUME NEW a \in Accounts, TimelockStep(a)
      PROVE  Invariant'
  <2>1. ASSUME NEW k \in Actions, SignalPendingAction(a, k)
        PROVE  Invariant'
    <3> USE <2>1, ConstantsAssumption
    <3>1. StoresTyped'
      BY <1>1, StoresStay DEF SignalPendingAction
    <3>2. now + timelockDelay \in Nat /\ now + timelockDelay # 0 /\ now \in Nat
          /\ now + timelockDelay >= now + InitialDelay /\ now # 0
      BY <1>1 DEF ClockTyped
    <3>3. /\ pendingActions' = [pendingActions EXCEPT ![k] = now + timelockDelay]
          /\ signalledAt' = [signalledAt EXCEPT ![k] = now]
          /\ now' = now /\ timelockDelay' = timelockDelay
      BY DEF SignalPendingAction
    <3>4. pendingActions' \in [Actions -> Nat] /\ signalledAt' \in [Actions -> Nat]
      BY <1>1, <3>2, <3>3 DEF ClockTyped
    <3>5. DelayKept'
      BY <1>1, <3>2, <3>3 DEF ClockTyped, DelayKept
    <3>6. ClockTyped'
      BY <1>1, <3>3, <3>4, <3>5 DEF ClockTyped
    <3> QED BY <3>1, <3>6, InvariantPartsNext
  <2>2. ASSUME NEW k \in Actions, TakeAfterSignal(a, k)
        PROVE  Invariant'
    BY <1>1, <2>2, TakeTyped, ClearTyped, InvariantPartsNext DEF TakeAfterSignal
  <2>3. ASSUME NEW k \in Actions, CancelAction(a, k)
        PROVE  Invariant'
    BY <1>1, <2>3, StoresStay, ClearTyped, InvariantPartsNext DEF CancelAction
  <2>4. ASSUME NEW delay \in 0..(MAX_TIMELOCK_DELAY + 1), IncreaseTimelockDelay(a, delay)
        PROVE  Invariant'
    <3>1. StoresTyped'
      BY <1>1, <2>4, StoresStay DEF IncreaseTimelockDelay
    <3>2. timelockDelay' \in InitialDelay..MAX_TIMELOCK_DELAY
      BY <1>1, <2>4, ConstantsAssumption DEF IncreaseTimelockDelay, ClockTyped
    <3>3. ClockTyped'
      BY <1>1, <2>4, <3>2 DEF IncreaseTimelockDelay, ClockTyped, DelayKept
    <3> QED BY <3>1, <3>3, InvariantPartsNext
  <2>5. ASSUME NEW hr \in DirectRoles, RevokeRoleAtOnce(a, hr[1], hr[2])
        PROVE  Invariant'
    <3>1. hr[1] \in Holders /\ hr[2] \in Roles
      BY ConstantsAssumption
    <3> QED BY <1>1, <2>5, <3>1, RevokeTyped, ClockStays, InvariantPartsNext DEF RevokeRoleAtOnce
  <2>6. ASSUME NEW value \in BOOLEAN, SetInStrictPriceFeedMode(a, value)
        PROVE  Invariant'
    <3>1. "IN_STRICT_PRICE_FEED_MODE" \in Entries /\ value \in ValuesOf("IN_STRICT_PRICE_FEED_MODE")
      BY DEF Entries, ValuesOf, Parameters
    <3>2. StoresTyped'
      BY <1>1, <2>6, <3>1, SetEntryTyped DEF SetInStrictPriceFeedMode
    <3> QED BY <1>1, <2>6, <3>2, ClockStays, InvariantPartsNext DEF SetInStrictPriceFeedMode
  <2> QED BY <1>4, <2>1, <2>2, <2>3, <2>4, <2>5, <2>6 DEF TimelockStep
<1>5. ASSUME NEW a \in Accounts, ConfigStep(a)
      PROVE  Invariant'
  <2> PICK k \in AllowedBaseKeys : \E v \in ValuesOf(k) : SetConfig(a, k, v)
    BY <1>5 DEF ConfigStep
  <2>1. PICK v \in ValuesOf(k) : SetConfig(a, k, v)
    OBVIOUS
  <2>2. k \in Entries
    BY DEF AllowedBaseKeys, Entries
  <2>3. DOMAIN data' = Entries /\ \A j \in Entries : data'[j] \in ValuesOf(j)
    BY <1>1, <2>1, <2>2, DataTyped DEF SetConfig
  <2>4. StoresTyped'
    BY <1>1, <2>1, <2>3, RolesStay DEF SetConfig, StoresTyped
  <2> QED BY <1>1, <2>1, <2>4, ClockStays, InvariantPartsNext DEF SetConfig
<1>6. ASSUME NEW a \in Accounts, DirectStep(a)
      PROVE  Invariant'
  <2>1. UNCHANGED <<now, timelockDelay, pendingActions, signalledAt>>
    BY <1>6 DEF DirectStep
  <2> QED BY <1>1, <1>6, <2>1, DirectTyped, ClockStays, InvariantPartsNext
<1> QED BY <1>2, <1>3, <1>4, <1>5, <1>6 DEF Next

\* Type correctness for any accounts, delays, actions and parameters.
THEOREM Typed == Spec => []TypeOK
<1>1. Invariant => TypeOK
  BY DEF Invariant
<1> QED BY <1>1, InitInvariant, InvariantStep, PTL DEF Spec

----------------------------------------------------------------------------
(* What a step does to the roles and to what the timelock guards *)

\* An action that is taken has waited.
LEMMA TakenHasWaited ==
  ASSUME Invariant, NEW a \in Accounts, NEW k \in Actions, TakeAfterSignal(a, k)
  PROVE  TakenAfterDelay(k)
<1>1. /\ pendingActions[k] # 0 /\ pendingActions[k] <= now
      /\ signalledAt' = [signalledAt EXCEPT ![k] = 0]
  BY DEF TakeAfterSignal, Signalled, ClearAction
<1>2. /\ signalledAt[k] # 0 /\ pendingActions[k] >= signalledAt[k] + InitialDelay
      /\ now \in Nat /\ pendingActions[k] \in Nat /\ signalledAt[k] \in Nat
      /\ signalledAt \in [Actions -> Nat]
  BY <1>1 DEF Invariant, TypeOK, DelayKept
<1> QED BY <1>1, <1>2, ConstantsAssumption DEF TakenAfterDelay

\* The other steps of the timelock, and those of Config, grant no role.
LEMMA OthersGrantNothing ==
  ASSUME Invariant, NEW a \in Accounts,
         \/ \E k \in Actions : SignalPendingAction(a, k) \/ CancelAction(a, k)
         \/ \E delay \in 0..(MAX_TIMELOCK_DELAY + 1) : IncreaseTimelockDelay(a, delay)
         \/ \E hr \in DirectRoles : RevokeRoleAtOnce(a, hr[1], hr[2])
         \/ \E value \in BOOLEAN : SetInStrictPriceFeedMode(a, value)
         \/ ConfigStep(a)
  PROVE  \A h \in Holders, role \in Roles : HasRole(h, role)' => HasRole(h, role)
<1>1. CASE \E hr \in DirectRoles : RevokeRoleAtOnce(a, hr[1], hr[2])
  <2>1. PICK hr \in DirectRoles : RevokeRoleAtOnce(a, hr[1], hr[2])
    BY <1>1
  <2>2. hr[1] \in Holders /\ hr[2] \in Roles
    BY ConstantsAssumption
  <2> QED BY <2>1, <2>2, RevokeKeeps DEF RevokeRoleAtOnce, Invariant
<1>2. CASE roleCache' = roleCache
  BY <1>2 DEF HasRole
<1> QED BY <1>1, <1>2 DEF SignalPendingAction, CancelAction, IncreaseTimelockDelay,
      SetInStrictPriceFeedMode, SetData, ConfigStep, SetConfig, storeVars

LEMMA GrantsStep ==
  ASSUME Invariant, [Next]_vars, ~ SomeAccountIs("ROLE_ADMIN"),
         NEW h \in Holders, NEW role \in Roles, ~ HasRole(h, role), HasRole(h, role)'
  PROVE  TakenAfterDelay([label |-> "grantRole", account |-> h, role |-> role])
<1> DEFINE Result == TakenAfterDelay([label |-> "grantRole", account |-> h, role |-> role])
<1>1. CASE UNCHANGED vars
  BY <1>1 DEF vars, storeVars, HasRole
<1>2. CASE Tick
  BY <1>2 DEF Tick, storeVars, HasRole
<1>3. ASSUME NEW a \in Accounts, NEW k \in Actions, TakeAfterSignal(a, k)
      PROVE  Result
  <2>1. CASE k.label = "grantRole" /\ GrantRole(Timelock, k.account, k.role)
    <3>1. k = [label |-> "grantRole", account |-> k.account, role |-> k.role]
          /\ k.account \in Holders /\ k.role \in Roles
      BY <2>1, ActionFields
    <3>2. h = k.account /\ role = k.role
      BY <2>1, <3>1, GrantKeeps DEF Invariant
    <3> QED BY <1>3, <3>1, <3>2, TakenHasWaited
  <2>2. CASE k.label = "revokeRole" /\ RevokeRole(Timelock, k.account, k.role)
    BY <2>2, ActionFields, RevokeKeeps DEF Invariant
  <2>3. CASE roleCache' = roleCache
    BY <2>3 DEF HasRole
  <2> QED BY <1>3, <2>1, <2>2, <2>3 DEF TakeAfterSignal, Take, AddSigner, RemoveSigner, SetData
<1>4. ASSUME NEW a \in Accounts, DirectStep(a)
      PROVE  Result
  <2>1. ASSUME NEW hr \in DirectRoles, GrantRole(a, hr[1], hr[2])
        PROVE  FALSE
    BY <2>1 DEF GrantRole, SomeAccountIs
  <2>2. ASSUME NEW hr \in DirectRoles, RevokeRole(a, hr[1], hr[2])
        PROVE  FALSE
    BY <2>2 DEF RevokeRole, SomeAccountIs
  <2>3. CASE roleCache' = roleCache
    BY <2>3 DEF HasRole
  <2> QED BY <1>4, <2>1, <2>2, <2>3 DEF DirectStep, AddSigner, RemoveSigner, SetData
<1> QED BY <1>1, <1>2, <1>3, <1>4, OthersGrantNothing DEF Next, TimelockStep

\* Nobody gets a role by surprise, as long as the timelock alone administrates
\* the roles.
THEOREM Announced == Spec => GrantsAreAnnounced
<1>1. Invariant /\ [Next]_vars
      => [SomeAccountIs("ROLE_ADMIN")
          \/ \A h \in Holders, role \in Roles :
               ~ HasRole(h, role) /\ HasRole(h, role)'
               => TakenAfterDelay([label |-> "grantRole", account |-> h, role |-> role])]_vars
  BY GrantsStep
<1> QED BY <1>1, InitInvariant, InvariantStep, PTL DEF Spec, GrantsAreAnnounced

----------------------------------------------------------------------------
(* What a step does to the signers, the feeds and the fee receiver *)

\* What FeedsAreAnnounced says of a step.
FeedsChangeAsAnnounced ==
  /\ \A a \in signers' \ signers : TakenAfterDelay([label |-> "addOracleSigner", account |-> a])
  /\ \A a \in signers \ signers' : TakenAfterDelay([label |-> "removeOracleSigner", account |-> a])
  /\ data'["FEE_RECEIVER"] # data["FEE_RECEIVER"]
       => TakenAfterDelay([label |-> "setFeeReceiver", account |-> data'["FEE_RECEIVER"]])
  /\ data'["PRICE_FEED"] # data["PRICE_FEED"]
       => TakenAfterDelay([label |-> "setPriceFeed", feed |-> data'["PRICE_FEED"],
                           heartbeat |-> data'["PRICE_FEED_HEARTBEAT_DURATION"]])
  /\ data'["REALTIME_FEED"] # data["REALTIME_FEED"]
       => TakenAfterDelay([label |-> "setRealtimeFeed", feed |-> data'["REALTIME_FEED"]])

Guarded == {"FEE_RECEIVER", "PRICE_FEED", "REALTIME_FEED"}

LEMMA NoChangeNeedsNoSignal ==
  ASSUME signers' = signers, \A k \in Guarded : data'[k] = data[k]
  PROVE  FeedsChangeAsAnnounced
BY DEF FeedsChangeAsAnnounced, Guarded

LEMMA UnguardedEntry ==
  ASSUME TypeOK, NEW k, k \notin Guarded, NEW v, signers' = signers, data' = [data EXCEPT ![k] = v]
  PROVE  FeedsChangeAsAnnounced
<1>1. \A j \in Guarded : j \in DOMAIN data
  BY DEF TypeOK, Guarded, Entries
<1>2. \A j \in Guarded : data'[j] = data[j]
  BY <1>1
<1> QED BY <1>2, NoChangeNeedsNoSignal

LEMMA TakeAnnounced ==
  ASSUME Invariant, NEW a \in Accounts, NEW k \in Actions, TakeAfterSignal(a, k)
  PROVE  FeedsChangeAsAnnounced
<1> USE TakenHasWaited
<1>0. TypeOK /\ TakenAfterDelay(k) /\ Take(k)
  BY DEF Invariant, TakeAfterSignal
<1>1. CASE k.label = "addOracleSigner" /\ AddSigner(Timelock, k.account)
  <2>1. k = [label |-> "addOracleSigner", account |-> k.account]
    BY <1>1, ActionFields
  <2>2. signers' = signers \cup {k.account} /\ data' = data
    BY <1>1 DEF AddSigner
  <2> QED BY <1>0, <2>1, <2>2 DEF FeedsChangeAsAnnounced
<1>2. CASE k.label = "removeOracleSigner" /\ RemoveSigner(Timelock, k.account)
  <2>1. k = [label |-> "removeOracleSigner", account |-> k.account]
    BY <1>2, ActionFields
  <2>2. signers' = signers \ {k.account} /\ data' = data
    BY <1>2 DEF RemoveSigner
  <2> QED BY <1>0, <2>1, <2>2 DEF FeedsChangeAsAnnounced
<1>3. CASE k.label = "setFeeReceiver" /\ SetData(Timelock, [data EXCEPT !["FEE_RECEIVER"] = k.account])
  <2>1. k = [label |-> "setFeeReceiver", account |-> k.account]
    BY <1>3, ActionFields
  <2>2. signers' = signers /\ data' = [data EXCEPT !["FEE_RECEIVER"] = k.account]
    BY <1>3 DEF SetData
  <2>3. /\ data'["FEE_RECEIVER"] = k.account /\ data'["PRICE_FEED"] = data["PRICE_FEED"]
        /\ data'["REALTIME_FEED"] = data["REALTIME_FEED"]
    BY <1>0, <2>2 DEF TypeOK, Entries
  <2> QED BY <1>0, <2>1, <2>2, <2>3 DEF FeedsChangeAsAnnounced
<1>4. CASE k.label = "grantRole" /\ GrantRole(Timelock, k.account, k.role)
  BY <1>4, NoChangeNeedsNoSignal DEF GrantRole
<1>5. CASE k.label = "revokeRole" /\ RevokeRole(Timelock, k.account, k.role)
  BY <1>5, NoChangeNeedsNoSignal DEF RevokeRole
<1>6. CASE /\ k.label = "setPriceFeed"
           /\ SetData(Timelock, [data EXCEPT !["PRICE_FEED"] = k.feed,
                                             !["PRICE_FEED_HEARTBEAT_DURATION"] = k.heartbeat])
  <2>1. k = [label |-> "setPriceFeed", feed |-> k.feed, heartbeat |-> k.heartbeat]
    BY <1>6, ActionFields
  <2>2. /\ signers' = signers
        /\ data' = [data EXCEPT !["PRICE_FEED"] = k.feed, !["PRICE_FEED_HEARTBEAT_DURATION"] = k.heartbeat]
    BY <1>6 DEF SetData
  <2>3. /\ data'["FEE_RECEIVER"] = data["FEE_RECEIVER"] /\ data'["REALTIME_FEED"] = data["REALTIME_FEED"]
        /\ data'["PRICE_FEED"] = k.feed /\ data'["PRICE_FEED_HEARTBEAT_DURATION"] = k.heartbeat
    BY <1>0, <2>2 DEF TypeOK, Entries, Parameters
  <2> QED BY <1>0, <2>1, <2>2, <2>3 DEF FeedsChangeAsAnnounced
<1>7. CASE k.label = "setRealtimeFeed" /\ SetData(Timelock, [data EXCEPT !["REALTIME_FEED"] = k.feed])
  <2>1. k = [label |-> "setRealtimeFeed", feed |-> k.feed]
    BY <1>7, ActionFields
  <2>2. signers' = signers /\ data' = [data EXCEPT !["REALTIME_FEED"] = k.feed]
    BY <1>7 DEF SetData
  <2>3. /\ data'["FEE_RECEIVER"] = data["FEE_RECEIVER"] /\ data'["PRICE_FEED"] = data["PRICE_FEED"]
        /\ data'["REALTIME_FEED"] = k.feed
    BY <1>0, <2>2 DEF TypeOK, Entries
  <2> QED BY <1>0, <2>1, <2>2, <2>3 DEF FeedsChangeAsAnnounced
<1> QED BY <1>0, <1>1, <1>2, <1>3, <1>4, <1>5, <1>6, <1>7 DEF Take

LEMMA FeedsStep ==
  ASSUME Invariant, [Next]_vars, ~ SomeAccountIs("CONTROLLER")
  PROVE  FeedsChangeAsAnnounced
<1>1. CASE UNCHANGED <<signers, data>>
  BY <1>1, NoChangeNeedsNoSignal
<1>2. ASSUME NEW a \in Accounts, NEW k \in Actions, TakeAfterSignal(a, k)
      PROVE  FeedsChangeAsAnnounced
  BY <1>2, TakeAnnounced
<1>3. ASSUME NEW a \in Accounts, NEW value \in BOOLEAN, SetInStrictPriceFeedMode(a, value)
      PROVE  FeedsChangeAsAnnounced
  BY <1>3, UnguardedEntry DEF SetInStrictPriceFeedMode, SetData, Invariant, Guarded
<1>4. ASSUME NEW a \in Accounts, ConfigStep(a)
      PROVE  FeedsChangeAsAnnounced
  BY <1>4, UnguardedEntry DEF ConfigStep, SetConfig, Invariant, Guarded, AllowedBaseKeys, Parameters
<1>5. ASSUME NEW a \in Accounts, DirectStep(a)
      PROVE  FeedsChangeAsAnnounced
  <2>1. ~ HasRole(a, "CONTROLLER")
    BY DEF SomeAccountIs
  <2>2. UNCHANGED <<signers, data>>
    BY <1>5, <2>1 DEF DirectStep, GrantRole, RevokeRole, AddSigner, RemoveSigner, SetData
  <2> QED BY <2>2, <1>1
<1>6. ASSUME NEW a \in Accounts,
             \/ \E k \in Actions : SignalPendingAction(a, k) \/ CancelAction(a, k)
             \/ \E delay \in 0..(MAX_TIMELOCK_DELAY + 1) : IncreaseTimelockDelay(a, delay)
             \/ \E hr \in DirectRoles : RevokeRoleAtOnce(a, hr[1], hr[2])
      PROVE  FeedsChangeAsAnnounced
  BY <1>6, <1>1 DEF SignalPendingAction, CancelAction, IncreaseTimelockDelay, RevokeRoleAtOnce,
                    RevokeRole, storeVars
<1> QED BY <1>1, <1>2, <1>3, <1>4, <1>5, <1>6 DEF Next, TimelockStep, Tick, vars, storeVars

\* The signers, the feeds and the fee receiver change only as announced, as long
\* as no account is a controller.
THEOREM AnnouncedFeeds == Spec => FeedsAreAnnounced
<1>1. Invariant /\ [Next]_vars => [SomeAccountIs("CONTROLLER") \/ FeedsChangeAsAnnounced]_vars
  BY FeedsStep
<1>2. Spec => [][SomeAccountIs("CONTROLLER") \/ FeedsChangeAsAnnounced]_vars
  BY <1>1, InitInvariant, InvariantStep, PTL DEF Spec
<1> QED BY <1>2 DEF FeedsAreAnnounced, FeedsChangeAsAnnounced

----------------------------------------------------------------------------
(* Roles that stay occupied *)

LEMMA GovernedStep ==
  ASSUME Invariant, [Next]_vars, NEW role \in {"ROLE_ADMIN", "TIMELOCK_MULTISIG"},
         \E h \in Holders : HasRole(h, role)
  PROVE  \E h \in Holders : HasRole(h, role)'
<1> DEFINE Result == \E h \in Holders : HasRole(h, role)'
<1>0. role \in Roles /\ TypeOK /\ RolesAgree
  BY DEF Roles, Invariant
<1>1. CASE roleCache' = roleCache
  BY <1>1 DEF HasRole
<1>2. ASSUME NEW caller, NEW h \in Holders, NEW r \in Roles, GrantRole(caller, h, r)
      PROVE  Result
  BY <1>0, <1>2, GrantKeeps
<1>3. ASSUME NEW caller, NEW h \in Holders, NEW r \in Roles, RevokeRole(caller, h, r)
      PROVE  Result
  BY <1>0, <1>3, RevokeKeeps
<1>4. \A hr \in DirectRoles : hr[1] \in Holders /\ hr[2] \in Roles
  BY ConstantsAssumption
<1>5. ASSUME NEW a \in Accounts, DirectStep(a)
      PROVE  Result
  BY <1>5, <1>1, <1>2, <1>3, <1>4 DEF DirectStep, AddSigner, RemoveSigner, SetData
<1>6. ASSUME NEW a \in Accounts, NEW k \in Actions, TakeAfterSignal(a, k)
      PROVE  Result
  <2>1. k.label \in {"grantRole", "revokeRole"} => k.account \in Holders /\ k.role \in Roles
    BY ActionFields
  <2> QED BY <1>6, <1>1, <1>2, <1>3, <2>1 DEF TakeAfterSignal, Take, AddSigner, RemoveSigner, SetData
<1>7. ASSUME NEW a \in Accounts, NEW hr \in DirectRoles, RevokeRoleAtOnce(a, hr[1], hr[2])
      PROVE  Result
  BY <1>7, <1>3, <1>4 DEF RevokeRoleAtOnce
<1>8. CASE UNCHANGED vars \/ Tick
  BY <1>8, <1>1 DEF vars, Tick, storeVars
<1>9. ASSUME NEW a \in Accounts,
             \/ \E k \in Actions : SignalPendingAction(a, k) \/ CancelAction(a, k)
             \/ \E delay \in 0..(MAX_TIMELOCK_DELAY + 1) : IncreaseTimelockDelay(a, delay)
             \/ \E value \in BOOLEAN : SetInStrictPriceFeedMode(a, value)
             \/ ConfigStep(a)
      PROVE  Result
  BY <1>9, <1>1 DEF SignalPendingAction, CancelAction, IncreaseTimelockDelay,
                    SetInStrictPriceFeedMode, SetData, ConfigStep, SetConfig, storeVars
<1> QED BY <1>5, <1>6, <1>7, <1>8, <1>9 DEF Next, TimelockStep

\* Neither the last role admin nor the last signer of the multisig can go.
THEOREM Governed == Spec => AlwaysGoverned
<1>1. Invariant /\ [Next]_vars
      => [\A role \in {"ROLE_ADMIN", "TIMELOCK_MULTISIG"} :
            (\E h \in Holders : HasRole(h, role)) => (\E h \in Holders : HasRole(h, role)')]_vars
  BY GovernedStep
<1> QED BY <1>1, InitInvariant, InvariantStep, PTL DEF Spec, AlwaysGoverned
=============================================================================
