--------------------------- MODULE DeployScripts ---------------------------
(***************************************************************************)
(* The scripts of deploy/*.ts, in the order of their file names: which     *)
(* contract each deploys, with what it is built (the contracts its         *)
(* constructor takes and the libraries it is linked with), what it does    *)
(* afterwards, and after which other scripts it runs.                      *)
(*                                                                         *)
(* Every library that a script names is taken to be linked.  The three     *)
(* fixVirtualInventory scripts, repairs of test networks, are left out,    *)
(* and so are the mock price feeds and the test tokens of hardhat, which   *)
(* no contract is built with.                                              *)
(***************************************************************************)
EXTENDS Integers, Sequences, FiniteSets, SequencesExt

NoId == "none"
NoContract == "none"
AllNetworks ==
  {"hardhat", "localhost", "arbitrum", "avalanche", "arbitrumGoerli", "avalancheFuji", "zktest",
   "rolluxtest"}

(***************************************************************************)
(* What a script does, task by task.                                       *)
(***************************************************************************)
Task(kind, what) == [kind |-> kind, what |-> what]
Grant(role) == Task("grant", role)       \* grantRoleIfNotGranted, for the contract just deployed
Set(group) == Task("set", group)         \* a group of settings of the DataStore
SetHandler == Task("handler", "ReferralStorage")
SetTiers == Task("tiers", "ReferralStorage")
GrantConfigured == Task("configured", "roles")
SetSigners == Task("signers", "OracleStore")
CreateMarkets == Task("create", "Markets")

\* A script of createDeployFunction; one with an id is not run again once it is recorded.
Contract(contract, args, libs, id, after) ==
  [contract |-> contract, args |-> args, libs |-> libs, id |-> id, after |-> after,
   tag |-> contract, more |-> <<>>, existing |-> args \o libs, atEnd |-> FALSE,
   networks |-> AllNetworks]
Library(contract, libs) == Contract(contract, <<>>, libs, NoId, <<>>)

\* A script that deploys nothing.
Script(tag, dependencies, tasks) ==
  [Contract(NoContract, <<>>, <<>>, NoId, tasks)
   EXCEPT !.tag = tag, !.more = dependencies]

configureGeneralSettings ==
  Script("GeneralSettings", <<"DataStore">>, <<Set("GeneralSettings")>>)
configureOracleSigners ==
  Script("OracleSigners", <<"RoleStore", "OracleStore", "DataStore">>, <<SetSigners>>)
configureOracleTokens ==
  Script("ConfigurePriceFeeds", <<"Tokens", "PriceFeeds", "DataStore">>, <<Set("PriceFeeds")>>)
configureRealtimeFeeds == Script("RealtimeFeeds", <<"Tokens">>, <<Set("RealtimeFeeds")>>)
configureRoles == Script("Roles", <<"RoleStore">>, <<GrantConfigured>>)
deployAdlHandler ==
  Contract("AdlHandler", <<"RoleStore", "DataStore", "EventEmitter", "OrderVault", "Oracle",
    "SwapHandler", "ReferralStorage">>, <<"GasUtils", "OrderUtils", "AdlUtils",
    "MarketStoreUtils", "PositionStoreUtils", "OrderStoreUtils">>, NoId, <<Grant("CONTROLLER")>>)
deployAdlUtils ==
  Library("AdlUtils", <<"MarketStoreUtils", "PositionStoreUtils", "OrderStoreUtils",
    "OrderEventUtils">>)
deployAndConfigureDataStore ==
  [Contract("DataStore", <<"RoleStore">>, <<"GasUtils", "OrderUtils", "AdlUtils",
    "PositionStoreUtils", "OrderStoreUtils">>, "DataStore_3", <<>>) EXCEPT !.more = <<"Roles">>]
deployAndConfigureMarkets ==
  [Script("Markets", <<"MarketFactory", "Tokens", "DataStore">>, <<CreateMarkets, Set("Markets")>>)
   EXCEPT !.atEnd = TRUE]
deployBaseOrderUtils == Library("BaseOrderUtils", <<>>)
deployCallbackUtils == Library("CallbackUtils", <<>>)
deployConfig ==
  Contract("Config", <<"RoleStore", "DataStore", "EventEmitter">>, <<"MarketUtils">>, NoId,
    <<Grant("CONTROLLER")>>)
deployDecreaseOrderUtils ==
  Library("DecreaseOrderUtils", <<"SwapUtils", "PositionStoreUtils", "DecreasePositionUtils",
    "OrderStoreUtils">>)
deployDecreasePositionCollateralUtils ==
  Library("DecreasePositionCollateralUtils", <<"BaseOrderUtils", "FeeUtils", "MarketEventUtils",
    "PositionUtils", "PositionPricingUtils", "PositionEventUtils", "OrderEventUtils",
    "DecreasePositionSwapUtils">>)
deployDecreasePositionSwapUtils == Library("DecreasePositionSwapUtils", <<>>)
deployDecreasePositionUtils ==
  Library("DecreasePositionUtils", <<"MarketUtils", "MarketEventUtils", "PositionUtils",
    "PositionStoreUtils", "PositionEventUtils", "OrderEventUtils", "PositionPricingUtils",
    "ReferralEventUtils", "DecreasePositionCollateralUtils", "DecreasePositionSwapUtils">>)
deployDepositEventUtils == Library("DepositEventUtils", <<>>)
deployDepositHandler ==
  Contract("DepositHandler", <<"RoleStore", "DataStore", "EventEmitter", "DepositVault",
    "Oracle">>, <<"DepositUtils", "ExecuteDepositUtils", "DepositStoreUtils", "GasUtils">>, NoId,
    <<Grant("CONTROLLER")>>)
deployDepositStoreUtils == Library("DepositStoreUtils", <<>>)
deployDepositUtils ==
  Library("DepositUtils", <<"GasUtils", "FeeUtils", "MarketStoreUtils", "MarketEventUtils",
    "DepositStoreUtils", "DepositEventUtils">>)
deployDepositVault ==
  Contract("DepositVault", <<"RoleStore", "DataStore">>, <<>>, "DepositVault_1", <<>>)
deployEventEmitter == Contract("EventEmitter", <<"RoleStore">>, <<>>, "EventEmitter_1", <<>>)
deployExchangeRouter ==
  Contract("ExchangeRouter", <<"Router", "RoleStore", "DataStore", "EventEmitter",
    "DepositHandler", "WithdrawalHandler", "OrderHandler">>, <<"CallbackUtils",
    "DepositStoreUtils", "FeeUtils", "MarketEventUtils", "MarketStoreUtils", "OrderStoreUtils",
    "ReferralUtils", "WithdrawalStoreUtils">>, NoId, <<Grant("CONTROLLER"),
    Grant("ROUTER_PLUGIN")>>)
deployExecuteDepositUtils ==
  Library("ExecuteDepositUtils", <<"GasUtils", "FeeUtils", "MarketUtils", "MarketStoreUtils",
    "MarketEventUtils", "DepositStoreUtils", "DepositEventUtils", "SwapUtils",
    "SwapPricingUtils">>)
deployExecuteWithdrawalUtils ==
  Library("ExecuteWithdrawalUtils", <<"GasUtils", "FeeUtils", "MarketUtils", "MarketStoreUtils",
    "MarketEventUtils", "WithdrawalStoreUtils", "WithdrawalEventUtils", "SwapUtils",
    "SwapPricingUtils">>)
deployFeeHandler ==
  Contract("FeeHandler", <<"RoleStore", "DataStore", "EventEmitter">>, <<"MarketUtils">>, NoId,
    <<Grant("CONTROLLER")>>)
deployFeeUtils == Library("FeeUtils", <<"MarketUtils">>)
deployGasUtils == Library("GasUtils", <<>>)
deployGovTimelockController ==
  Contract("GovTimelockController", <<>>, <<>>, "GovTimelockController_1", <<>>)
deployGovToken == Contract("GovToken", <<"RoleStore">>, <<>>, "GovToken_1", <<>>)
deployIncreaseOrderUtils ==
  Library("IncreaseOrderUtils", <<"SwapUtils", "PositionStoreUtils", "IncreasePositionUtils",
    "OrderStoreUtils", "MarketEventUtils">>)
deployIncreasePositionUtils ==
  Library("IncreasePositionUtils", <<"FeeUtils", "MarketUtils", "MarketEventUtils",
    "PositionUtils", "PositionStoreUtils", "PositionEventUtils", "ReferralEventUtils">>)
deployLiquidationHandler ==
  Contract("LiquidationHandler", <<"RoleStore", "DataStore", "EventEmitter", "OrderVault",
    "Oracle", "SwapHandler", "ReferralStorage">>, <<"OrderUtils", "LiquidationUtils",
    "MarketStoreUtils", "PositionStoreUtils", "OrderStoreUtils">>, NoId, <<Grant("CONTROLLER")>>)
deployLiquidationUtils ==
  Library("LiquidationUtils", <<"PositionStoreUtils", "OrderStoreUtils", "OrderEventUtils">>)
deployMarketEventUtils == Library("MarketEventUtils", <<>>)
deployMarketFactory ==
  [Contract("MarketFactory", <<"RoleStore", "DataStore", "EventEmitter">>, <<"MarketStoreUtils">>,
    "MarketFactory_3", <<Grant("CONTROLLER")>>) EXCEPT !.tag = "MFactory"]
deployMarketStoreUtils == Library("MarketStoreUtils", <<>>)
deployMarketUtils == Library("MarketUtils", <<"MarketEventUtils", "MarketStoreUtils">>)
deployMockPriceFeed == Library("MockPriceFeed", <<>>)
deployMockRealtimeFeedVerifier ==
  [Contract("MockRealtimeFeedVerifier", <<>>, <<>>, NoId, <<>>) EXCEPT !.networks = {"hardhat"}]
deployMulticall3 ==
  [Contract("Multicall3", <<>>, <<>>, "Multicall3", <<>>) EXCEPT !.tag = "Multicall"]
deployOracle ==
  [Contract("Oracle", <<"RoleStore", "OracleStore">>, <<>>, "Oracle_3", <<Set("Oracle"),
    Grant("CONTROLLER")>>)
   EXCEPT !.more = <<"Tokens", "MockRealtimeFeedVerifier">>]
deployOracleStore ==
  Contract("OracleStore", <<"RoleStore", "EventEmitter">>, <<>>, "OracleStore_3",
    <<Grant("CONTROLLER")>>)
deployOrderEventUtils == Library("OrderEventUtils", <<>>)
deployOrderHandler ==
  Contract("OrderHandler", <<"RoleStore", "DataStore", "EventEmitter", "OrderVault", "Oracle",
    "SwapHandler", "ReferralStorage">>, <<"MarketStoreUtils", "OrderUtils", "OrderStoreUtils",
    "OrderEventUtils">>, "OrderHandler_3", <<SetHandler, Grant("CONTROLLER")>>)
deployOrderStoreUtils == Library("OrderStoreUtils", <<>>)
deployOrderUtils ==
  Library("OrderUtils", <<"BaseOrderUtils", "MarketStoreUtils", "MarketUtils", "OrderStoreUtils",
    "OrderEventUtils", "IncreaseOrderUtils", "DecreaseOrderUtils", "SwapOrderUtils",
    "GasUtils">>)
deployOrderVault ==
  Contract("OrderVault", <<"RoleStore", "DataStore">>, <<>>, "OrderVault_1", <<>>)
deployPositionEventUtils == Library("PositionEventUtils", <<>>)
deployPositionPricingUtils == Library("PositionPricingUtils", <<>>)
deployPositionStoreUtils == Library("PositionStoreUtils", <<>>)
deployPositionUtils ==
  Library("PositionUtils", <<"MarketStoreUtils", "MarketUtils", "PositionPricingUtils">>)
deployProtocolGovernor ==
  Contract("ProtocolGovernor", <<"GovToken", "GovTimelockController">>, <<>>,
    "ProtocolGovernor_1", <<>>)
deployReader ==
  Library("Reader", <<"MarketUtils", "MarketStoreUtils", "DepositStoreUtils",
    "WithdrawalStoreUtils", "PositionStoreUtils", "PositionUtils", "OrderStoreUtils",
    "ReaderUtils", "ReaderDepositUtils", "ReaderWithdrawalUtils", "ReaderPricingUtils">>)
deployReaderDepositUtils ==
  Library("ReaderDepositUtils", <<"MarketUtils", "MarketStoreUtils", "PositionStoreUtils",
    "PositionUtils">>)
deployReaderPricingUtils ==
  Library("ReaderPricingUtils", <<"MarketStoreUtils", "PositionStoreUtils", "PositionUtils">>)
deployReaderUtils ==
  Library("ReaderUtils", <<"ReaderPricingUtils", "MarketStoreUtils", "PositionStoreUtils",
    "PositionUtils">>)
deployReaderWithdrawalUtils ==
  Library("ReaderWithdrawalUtils", <<"MarketUtils", "MarketStoreUtils", "PositionStoreUtils",
    "PositionUtils">>)
deployReferralEventUtils == Library("ReferralEventUtils", <<>>)
deployReferralStorage ==
  [Contract("ReferralStorage", <<>>, <<>>, "ReferralStorage_2", <<SetTiers>>)
   EXCEPT !.networks = {"avalancheFuji", "arbitrumGoerli", "hardhat"}]
deployReferralUtils == Library("ReferralUtils", <<"MarketUtils", "ReferralEventUtils">>)
deployRoleStore ==
  [Contract("RoleStore", <<>>, <<>>, "RoleStore_3", <<>>) EXCEPT !.more = <<"FundAccounts">>]
deployRouter == Contract("Router", <<"RoleStore">>, <<>>, "Router_1", <<>>)
deploySubaccountRouter ==
  [Contract("SubaccountRouter", <<"Router", "RoleStore", "DataStore", "EventEmitter",
    "OrderHandler", "OrderVault">>, <<"OrderStoreUtils">>, "SubaccountRouter_1",
    <<Grant("CONTROLLER"), Grant("ROUTER_PLUGIN")>>) EXCEPT !.existing = <<"OrderStoreUtils">>]
deploySwapHandler ==
  Contract("SwapHandler", <<"RoleStore">>, <<"SwapUtils">>, NoId, <<Grant("CONTROLLER")>>)
deploySwapOrderUtils == Library("SwapOrderUtils", <<"OrderStoreUtils", "SwapUtils">>)
deploySwapPricingUtils == Library("SwapPricingUtils", <<>>)
deploySwapUtils == Library("SwapUtils", <<"FeeUtils", "MarketEventUtils", "SwapPricingUtils">>)
deployTestPriceFeeds == Script("PriceFeeds", <<"Tokens", "DataStore">>, <<>>)
deployTestTokens == Script("Tokens", <<"DataStore">>, <<Set("Tokens")>>)
deployTimelock ==
  Contract("Timelock", <<"RoleStore", "DataStore", "EventEmitter", "OracleStore">>, <<>>, NoId,
    <<Grant("CONTROLLER"), Grant("ROLE_ADMIN")>>)
deployWithdrawalEventUtils == Library("WithdrawalEventUtils", <<>>)
deployWithdrawalHandler ==
  Contract("WithdrawalHandler", <<"RoleStore", "DataStore", "EventEmitter", "WithdrawalVault",
    "Oracle">>, <<"WithdrawalUtils", "ExecuteWithdrawalUtils", "WithdrawalStoreUtils",
    "GasUtils">>, NoId, <<Grant("CONTROLLER")>>)
deployWithdrawalStoreUtils == Library("WithdrawalStoreUtils", <<>>)
deployWithdrawalUtils ==
  Library("WithdrawalUtils", <<"GasUtils", "FeeUtils", "MarketUtils", "MarketStoreUtils",
    "MarketEventUtils", "WithdrawalStoreUtils", "WithdrawalEventUtils", "SwapUtils">>)
deployWithdrawalVault ==
  Contract("WithdrawalVault", <<"RoleStore", "DataStore">>, <<>>, "WithdrawalVault_1", <<>>)
fundAccounts == [Script("FundAccounts", <<>>, <<>>) EXCEPT !.networks = {"hardhat", "localhost"}]

Scripts ==
  <<configureGeneralSettings, configureOracleSigners, configureOracleTokens,
    configureRealtimeFeeds, configureRoles, deployAdlHandler, deployAdlUtils,
    deployAndConfigureDataStore, deployAndConfigureMarkets, deployBaseOrderUtils,
    deployCallbackUtils, deployConfig, deployDecreaseOrderUtils,
    deployDecreasePositionCollateralUtils, deployDecreasePositionSwapUtils,
    deployDecreasePositionUtils, deployDepositEventUtils, deployDepositHandler,
    deployDepositStoreUtils, deployDepositUtils, deployDepositVault, deployEventEmitter,
    deployExchangeRouter, deployExecuteDepositUtils, deployExecuteWithdrawalUtils,
    deployFeeHandler, deployFeeUtils, deployGasUtils, deployGovTimelockController,
    deployGovToken, deployIncreaseOrderUtils, deployIncreasePositionUtils,
    deployLiquidationHandler, deployLiquidationUtils, deployMarketEventUtils,
    deployMarketFactory, deployMarketStoreUtils, deployMarketUtils, deployMockPriceFeed,
    deployMockRealtimeFeedVerifier, deployMulticall3, deployOracle, deployOracleStore,
    deployOrderEventUtils, deployOrderHandler, deployOrderStoreUtils, deployOrderUtils,
    deployOrderVault, deployPositionEventUtils, deployPositionPricingUtils,
    deployPositionStoreUtils, deployPositionUtils, deployProtocolGovernor, deployReader,
    deployReaderDepositUtils, deployReaderPricingUtils, deployReaderUtils,
    deployReaderWithdrawalUtils, deployReferralEventUtils, deployReferralStorage,
    deployReferralUtils, deployRoleStore, deployRouter, deploySubaccountRouter,
    deploySwapHandler, deploySwapOrderUtils, deploySwapPricingUtils, deploySwapUtils,
    deployTestPriceFeeds, deployTestTokens, deployTimelock, deployWithdrawalEventUtils,
    deployWithdrawalHandler, deployWithdrawalStoreUtils, deployWithdrawalUtils,
    deployWithdrawalVault, fundAccounts>>
=============================================================================
