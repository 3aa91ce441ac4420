------------------------------- MODULE MCOffchain -------------------------------
(***************************************************************************)
(* The off-chain components, which share no state: a behavior is of one of *)
(* them, and the others stay as they start.                                *)
(***************************************************************************)
EXTENDS Deployments, TaskRecords, PoolClients, Signatures, MerkleTrees, SharedBeforeEach

VARIABLE component
components == {"deployments", "records", "pools", "signatures", "trees", "tests"}
offchainVars ==
  <<component, deployVars, recordVars, clientVars, signatureVars, merkleVars, sharedVars>>

MCEarlier == <<"20220810-timelock-authorizer", "20220811-test-fee-forwarder">>
MCSymbols == <<"DAI", "MKR", "SNX">>
MCMinings == {<<40, 20, 60>>}
MCEntryPoint == [swap |-> "Swap", exit |-> "ExitPool", flashLoan |-> "FlashLoan"]
MCCalls == DOMAIN MCEntryPoint

\* A factory with its Pools, whose functions change, and two contracts that depend on the
\* adaptor, with a function in common.
Artifact(abi, code) == [abi |-> abi, code |-> code]
File(name, sources) == [name |-> name, contracts |-> sources]
PoolFactory(function) ==
  File("PoolFactory", << "PoolFactory" :> Artifact({"getActionId", "disable"}, "factory"),
                         "Pool" :> Artifact({"getActionId", function}, "pool") >>)
MCBuildInfos ==
  [factory |-> << <<PoolFactory("pause")>>, <<PoolFactory("unpause")>> >>,
   gauges |->
     << <<File("Gauge", << "Gauge" :> Artifact({"mint"}, "gauge") >>),
          File("Token", << "Token" :> Artifact({"mint"}, "token") >>)>>,
        <<File("Gauge", << "Gauge" :> Artifact({}, "new gauge") >>),
          File("Token", << "Token" :> Artifact({"mint"}, "token"),
                           "Token" :> Artifact({"mint"}, "other") >>)>> >>]
MCOutputs == [factory |-> {"PoolFactory"}, gauges |-> {}]

\* Two suites under one that sets up a Vault, the first with a suite of its own and a
\* plain hook, and a last one by itself.
MCSchedule ==
  << <<"vault">>,
     <<"vault", "plain", "pool", "tokens">>,
     <<"vault", "plain", "pool", "tokens", "funds">>,
     <<"vault", "plain", "pool", "tokens", "funds">>,
     <<"vault", "other">>, <<"vault", "other">>,
     <<"lone">>, <<"lone">> >>

MCInit ==
  /\ component \in components
  /\ DeployInit /\ RecordsInit /\ ClientInit /\ SignaturesInit /\ MerkleInit /\ SharedInit
  /\ component # "records" => filesThere = {"adaptor"}

MCNext ==
  /\ UNCHANGED component
  /\ \/ /\ component = "deployments" /\ DeployNext
        /\ UNCHANGED <<recordVars, clientVars, signatureVars, merkleVars, sharedVars>>
     \/ /\ component = "records" /\ RecordsNext
        /\ UNCHANGED <<deployVars, clientVars, signatureVars, merkleVars, sharedVars>>
     \/ /\ component = "pools" /\ ClientNext
        /\ UNCHANGED <<deployVars, recordVars, signatureVars, merkleVars, sharedVars>>
     \/ /\ component = "signatures" /\ SignaturesNext
        /\ UNCHANGED <<deployVars, recordVars, clientVars, merkleVars, sharedVars>>
     \/ /\ component = "trees" /\ MerkleNext
        /\ UNCHANGED <<deployVars, recordVars, clientVars, signatureVars, sharedVars>>
     \/ /\ component = "tests" /\ SharedNext
        /\ UNCHANGED <<deployVars, recordVars, clientVars, signatureVars, merkleVars>>

MCSpec ==
  /\ MCInit /\ [][MCNext]_offchainVars
  /\ component = "deployments" => DeployFairness

\* Deployment tasks ever get what they deploy verified (see EverVerified).
TasksEverVerified == component = "deployments" => EverVerified

=============================================================================
