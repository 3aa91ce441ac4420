---------------------------- MODULE DeploymentTasks ----------------------------
(***************************************************************************)
(* The deployment tasks: what each index.ts does, and which addresses its  *)
(* input.ts takes from the outputs of other tasks.  An operation deploys a *)
(* contract, deploys and verifies it, or saves the address of a contract   *)
(* that another one created as it was deployed; "args" names the addresses *)
(* its constructor takes, inputs or contracts of the same task (for a      *)
(* saved contract, its creator).  The parameters that are not addresses    *)
(* are part of the version of the task, "builds" in module Deployments.    *)
(***************************************************************************)
EXTENDS Integers, Sequences, TLC

Deploy(name, args) == [op |-> "deploy", name |-> name, args |-> args]
DeployAndVerify(name, args) == [op |-> "deployAndVerify", name |-> name, args |-> args]
Save(name, creator) == [op |-> "save", name |-> name, args |-> <<creator>>]

\* An input that is a Task is the output of that task with the input's name; the
\* deprecated pools read the outputs themselves, and name their inputs freely.
From(task, name) == [task |-> task, name |-> name]
NoInput == [x \in {} |-> x]
VaultOnly == [Vault |-> From("20220811-vault", "Vault")]

-----------------------------------------------------------------------------
\* The core of the protocol: an Authorizer without Vault, the Vault, and then
\* the Authorizer that knows the Vault.
FirstAuthorizerTask == <<DeployAndVerify("TimelockAuthorizer", <<>>)>>
FirstAuthorizerInput == NoInput

FeeForwarderTask == <<DeployAndVerify("MockForwarder", <<>>)>>

VaultTask ==
  <<Deploy("Vault", <<"TimelockAuthorizer", "MockForwarder">>),
    Save("ProtocolFeesCollector", "Vault"),
    Deploy("BalancerHelpers", <<"Vault">>)>>
VaultInput ==
  [TimelockAuthorizer |-> From("20220810-timelock-authorizer", "TimelockAuthorizer"),
   MockForwarder |-> From("20220811-test-fee-forwarder", "MockForwarder")]

AuthorizerTask == <<DeployAndVerify("TimelockAuthorizer", <<"Vault">>)>>
AuthorizerInput == VaultOnly

\* What is built on the Vault.
RelayerTask == <<Deploy("Relayer", <<"Vault">>)>>
RelayerInput == VaultOnly

PercentagesProviderTask ==
  <<DeployAndVerify("ProtocolFeePercentagesProvider", <<"Vault">>)>>
PercentagesProviderInput == VaultOnly

WeightedPoolFactoryTask ==
  <<Deploy("InitializableWeightedPoolFactory", <<"Vault", "ProtocolFeePercentagesProvider">>)>>
WeightedPoolFactoryInput ==
  [Vault |-> From("20220811-vault", "Vault"),
   ProtocolFeePercentagesProvider |->
     From("20221226-protocol-fee-percentages-provider", "ProtocolFeePercentagesProvider")]

QueriesTask == <<DeployAndVerify("BalancerQueries", <<"Vault">>)>>
QueriesInput == VaultOnly

BatchRelayerTask ==
  <<DeployAndVerify("BatchRelayerLibrary", <<"Vault">>),
    Save("BalancerRelayer", "BatchRelayerLibrary")>>
BatchRelayerInput == VaultOnly

ChildChainHelperTask == <<DeployAndVerify("ChildChainGaugeRewardHelper", <<>>)>>

-----------------------------------------------------------------------------
\* Test tokens, the ERC4626 vault over one of them and its asset manager.
UsdcTask == <<Deploy("TestToken", <<>>)>>
UsdcInput == NoInput
KdaiTask == <<Deploy("TestToken", <<>>)>>
KdaiInput == NoInput
MistralTask == <<Deploy("TestToken", <<>>)>>
MistralInput == NoInput
UsdtTask == <<Deploy("TestToken", <<>>)>>
UsdtInput == NoInput
SKlayTask == <<Deploy("TestToken", <<>>)>>
SKlayInput == NoInput

WrappingVaultTask == <<DeployAndVerify("Mock4626VaultV2", <<"TestToken">>)>>
WrappingVaultInput == [TestToken |-> From("20220812-test-usdc", "TestToken")]

GaugeTask == <<Deploy("MockGague", <<"TestToken", "Mock4626VaultV2">>)>>
GaugeInput ==
  [TestToken |-> From("20220812-test-mistral", "TestToken"),
   Mock4626VaultV2 |-> From("20220812-test-4626-vault", "Mock4626VaultV2")]

AssetManagerTask ==
  <<Deploy("ERC4626AssetManager",
           <<"Vault", "Mock4626VaultV2", "TestToken", "MockForwarder", "MockGague">>)>>
AssetManagerInput ==
  [Vault |-> From("20220811-vault", "Vault"),
   Mock4626VaultV2 |-> From("20220812-test-4626-vault", "Mock4626VaultV2"),
   TestToken |-> From("20220812-test-usdc", "TestToken"),
   MockForwarder |-> From("20220811-test-fee-forwarder", "MockForwarder"),
   MockGague |-> From("20220812-test-gague", "MockGague")]

-----------------------------------------------------------------------------
\* The deprecated pools.  Their tokens are read from the outputs for one fixed
\* network, as the input module is loaded.
RelayedPoolTask ==
  <<Deploy("RelayedWeightedPool", <<"Vault", "Kdai", "Usdc", "Mistral", "UsdcManager", "Relayer">>)>>
RelayedPoolInput ==
  [Vault |-> From("20220811-vault", "Vault"),
   Kdai |-> From("20220812-test-kdai", "TestToken"),
   Usdc |-> From("20220812-test-usdc", "TestToken"),
   Mistral |-> From("20220812-test-mistral", "TestToken"),
   UsdcManager |-> From("20220814-test-usdc-asset-manager", "ERC4626AssetManager"),
   Relayer |-> From("20220812-relayer", "Relayer")]

StablePoolTask == <<Deploy("StablePool", <<"Vault", "Kdai", "Usdc", "Usdt">>)>>
StablePoolInput ==
  [Vault |-> From("20220811-vault", "Vault"),
   Kdai |-> From("20220812-test-kdai", "TestToken"),
   Usdc |-> From("20220812-test-usdc", "TestToken"),
   Usdt |-> From("20220812-test-usdt", "TestToken")]

WeightedPoolTask == <<Deploy("WeightedPool", <<"Vault", "Kdai", "Usdc", "Mistral">>)>>
WeightedPoolInput ==
  [Vault |-> From("20220811-vault", "Vault"),
   Kdai |-> From("20220812-test-kdai", "TestToken"),
   Usdc |-> From("20220812-test-usdc", "TestToken"),
   Mistral |-> From("20220812-test-mistral", "TestToken")]

-----------------------------------------------------------------------------
Of(script, inputs) == [script |-> script, inputs |-> inputs]

\* The directory of tasks: those in use, the deprecated ones and the scripts.
Directory ==
  ("20220810-timelock-authorizer" :> Of(FirstAuthorizerTask, FirstAuthorizerInput)) @@
  ("20220811-timelock-authorizer" :> Of(AuthorizerTask, AuthorizerInput)) @@
  ("20220811-vault" :> Of(VaultTask, VaultInput)) @@
  ("20220812-child-chain-reward-helper" :> Of(ChildChainHelperTask, NoInput)) @@
  ("20220812-relayer" :> Of(RelayerTask, RelayerInput)) @@
  ("20221226-protocol-fee-percentages-provider" :>
     Of(PercentagesProviderTask, PercentagesProviderInput)) @@
  ("20221230-weighted-pool-factory" :>
     Of(WeightedPoolFactoryTask, WeightedPoolFactoryInput)) @@
  ("20230221-balancer-queries" :> Of(QueriesTask, QueriesInput)) @@
  ("20230221-batch-relayer-v4" :> Of(BatchRelayerTask, BatchRelayerInput)) @@
  ("20220814-test-usdc-asset-manager" :> Of(AssetManagerTask, AssetManagerInput)) @@
  ("20220821-test-relayed-weighted-pool-1" :> Of(RelayedPoolTask, RelayedPoolInput)) @@
  ("20220824-test-stable-pool-1" :> Of(StablePoolTask, StablePoolInput)) @@
  ("20220824-test-weighted-pool-1" :> Of(WeightedPoolTask, WeightedPoolInput)) @@
  ("20220811-test-fee-forwarder" :> Of(FeeForwarderTask, NoInput)) @@
  ("20220812-test-4626-vault" :> Of(WrappingVaultTask, WrappingVaultInput)) @@
  ("20220812-test-gague" :> Of(GaugeTask, GaugeInput)) @@
  ("20220812-test-kdai" :> Of(KdaiTask, KdaiInput)) @@
  ("20220812-test-mistral" :> Of(MistralTask, MistralInput)) @@
  ("20220812-test-usdc" :> Of(UsdcTask, UsdcInput)) @@
  ("20220812-test-usdt" :> Of(UsdtTask, UsdtInput)) @@
  ("20230228-test-sKlay" :> Of(SKlayTask, SKlayInput))

\* A script names each contract once, and takes the addresses of inputs and of contracts
\* that it deployed before.  What it saves was created by one of these.
Operations == [op : {"deploy", "deployAndVerify", "save"}, name : STRING, args : Seq(STRING)]
ASSUME ScriptsInOrder ==
  \A t \in DOMAIN Directory :
    LET script == Directory[t].script
        inputs == DOMAIN Directory[t].inputs
        deployedBefore(i) == {script[j].name : j \in {l \in 1..(i - 1) : script[l].op # "save"}}
    IN  /\ script \in Seq(Operations) /\ script # <<>>
        /\ \A i, j \in DOMAIN script : script[i].name = script[j].name => i = j
        /\ \A i \in DOMAIN script :
             /\ script[i].name \notin inputs
             /\ \A k \in DOMAIN script[i].args :
                  script[i].args[k] \in inputs \cup deployedBefore(i)
             /\ script[i].op = "save" =>
                  Len(script[i].args) = 1 /\ script[i].args[1] \in deployedBefore(i)

\* Every input is an address that the task it names records.
ASSUME EveryInputIsAnOutput ==
  \A t \in DOMAIN Directory, k \in UNION {DOMAIN Directory[u].inputs : u \in DOMAIN Directory} :
    k \in DOMAIN Directory[t].inputs =>
      LET from == Directory[t].inputs[k]
      IN  /\ from.task \in DOMAIN Directory
          /\ \E i \in DOMAIN Directory[from.task].script :
               Directory[from.task].script[i].name = from.name

=============================================================================
