------------------------ MODULE GovernanceProperties ------------------------
(* What holds of the roles, the timelock and the configuration. *)
EXTENDS Governance

\* Every variable has its type.
TypeOK ==
  /\ now \in Nat \ {0}
  /\ timelockDelay \in InitialDelay..MAX_TIMELOCK_DELAY
  /\ pendingActions \in [Actions -> Nat]
  /\ roleMembers \in [Roles -> SUBSET Holders]
  /\ roleCache \in [Holders -> [Roles -> BOOLEAN]]
  /\ signers \subseteq Addresses
  /\ DOMAIN data = Entries /\ \A k \in Entries : data[k] \in ValuesOf(k)
  /\ signalledAt \in [Actions -> Nat]

\* Action k is taken in this step, and its signal, which nobody has cancelled
\* and no earlier step has used up, is as old as the timelock promised from the
\* beginning.
TakenAfterDelay(k) ==
  /\ k \in Actions
  /\ signalledAt[k] # 0
  /\ now - signalledAt[k] >= InitialDelay
  /\ signalledAt'[k] = 0

SomeAccountIs(role) == \E a \in Accounts : HasRole(a, role)

\* As long as the timelock is the only role admin, nobody gets a role by
\* surprise: each grant was announced for the whole delay, one signal allows one
\* grant, and a longer delay never shortens the wait of what is pending.
GrantsAreAnnounced ==
  [][SomeAccountIs("ROLE_ADMIN")
     \/ \A h \in Holders, role \in Roles :
          ~ HasRole(h, role) /\ HasRole(h, role)'
          => TakenAfterDelay([label |-> "grantRole", account |-> h, role |-> role])]_vars

\* As long as no account is a controller, the signers, the feeds and the fee
\* receiver change only as announced: the keepers of Config and the multisig
\* cannot reach them, and the value that is set is the one that was signalled.
FeedsAreAnnounced ==
  [][SomeAccountIs("CONTROLLER")
     \/ /\ \A a \in signers' \ signers : TakenAfterDelay([label |-> "addOracleSigner", account |-> a])
        /\ \A a \in signers \ signers' : TakenAfterDelay([label |-> "removeOracleSigner", account |-> a])
        /\ data'["FEE_RECEIVER"] # data["FEE_RECEIVER"]
             => TakenAfterDelay([label |-> "setFeeReceiver", account |-> data'["FEE_RECEIVER"]])
        /\ data'["PRICE_FEED"] # data["PRICE_FEED"]
             => TakenAfterDelay([label |-> "setPriceFeed", feed |-> data'["PRICE_FEED"],
                                 heartbeat |-> data'["PRICE_FEED_HEARTBEAT_DURATION"]])
        /\ data'["REALTIME_FEED"] # data["REALTIME_FEED"]
             => TakenAfterDelay([label |-> "setRealtimeFeed", feed |-> data'["REALTIME_FEED"]])]_vars

\* Somebody can always administrate the roles, and somebody can always sign for
\* the multisig once somebody could: the revocations check the list of members,
\* the permissions are read from the cache.
AlwaysGoverned ==
  [][\A role \in {"ROLE_ADMIN", "TIMELOCK_MULTISIG"} :
       (\E h \in Holders : HasRole(h, role)) => (\E h \in Holders : HasRole(h, role)')]_vars
=============================================================================
