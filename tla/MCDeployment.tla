---------------------------- MODULE MCDeployment ----------------------------
(***************************************************************************)
(* The run deploys to the hardhat network, where the scripts deploy the    *)
(* referral contract as well and can come to an end.                       *)
(***************************************************************************)
EXTENDS DeploymentProperties

\* A run for a tag reaches the script of that tag.
ASSUME TagsReachTheirScripts ==
  \A i \in DOMAIN Scripts, forExisting \in BOOLEAN : i \in ToSet(Order(Scripts[i].tag, forExisting))
=============================================================================
