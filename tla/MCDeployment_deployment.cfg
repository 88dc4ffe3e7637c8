SPECIFICATION FairSpec
CONSTANTS
  Network = "hardhat"
  Edited = {"MarketUtils", "RoleStore", "Router"}
  MaxEdits = 1
  MaxCrashes = 1
  MaxExisting = 1
  TagChoices = {"all", "OrderHandler", "SubaccountRouter"}
INVARIANTS
  TypeOK
  StoresAreShared
  RolesFollowContracts
  CurrentCode
  EnoughSigners
PROPERTIES
  EventuallyDeployed
