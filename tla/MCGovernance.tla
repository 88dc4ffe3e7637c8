---------------------------- MODULE MCGovernance ----------------------------
(* Instances of Governance for TLC. *)
EXTENDS GovernanceProperties

Members1 ==
  [role \in Roles |->
    CASE role \in {"ROLE_ADMIN", "CONTROLLER"} -> {"timelock"}
      [] role = "TIMELOCK_MULTISIG" -> {"multisig"}
      [] role = "TIMELOCK_ADMIN" -> {"admin"}
      [] role = "CONFIG_KEEPER" -> {"multisig"}
      [] role = "LIMITED_CONFIG_KEEPER" -> {"admin"}]

Values1 ==
  [k \in Parameters |->
    CASE k = "SWAP_FEE_FACTOR" -> {0, 5}
      [] k = "PRICE_FEED_HEARTBEAT_DURATION" -> {0, 1}
      [] k = "MAX_POOL_AMOUNT" -> {0}]

Grant(h, role) == [label |-> "grantRole", account |-> h, role |-> role]
Revoke(h, role) == [label |-> "revokeRole", account |-> h, role |-> role]

Actions1 ==
  {Grant("admin", "ROLE_ADMIN"), Revoke("timelock", "ROLE_ADMIN"),
   [label |-> "addOracleSigner", account |-> "s1"],
   [label |-> "removeOracleSigner", account |-> "s1"],
   [label |-> "setFeeReceiver", account |-> "s1"],
   [label |-> "setPriceFeed", feed |-> "feed", heartbeat |-> 1],
   [label |-> "setRealtimeFeed", feed |-> "id"]}

DirectRoles1 == {<<"admin", "CONTROLLER">>, <<"admin", "TIMELOCK_ADMIN">>, <<"multisig", "TIMELOCK_MULTISIG">>}

\* The entries of the data store that differ from the deployment.
Changed ==
  {k \in Entries : data[k] # (IF k \in Parameters THEN 0
                              ELSE IF k = "IN_STRICT_PRICE_FEED_MODE" THEN FALSE ELSE NoAddress)}

\* At most two entries have changed at any time, or one while an account is a
\* controller and may change all of them at will.
FewChanges == Cardinality(Changed) <= IF SomeAccountIs("CONTROLLER") THEN 1 ELSE 2
=============================================================================
