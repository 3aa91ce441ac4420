------------------------------ MODULE Deployments ------------------------------
(***************************************************************************)
(* Runs of the deployment tasks against one network: which contracts they  *)
(* create, what they record of them in the output and transaction files,   *)
(* and what later runs make of these records.  A run is cut wherever it    *)
(* awaits the network or has written a file, and may be interrupted at     *)
(* each of those points.                                                   *)
(***************************************************************************)
EXTENDS DeploymentTasks

CONSTANTS Tasks,            \* the tasks that are run, closed under their inputs
          Earlier,          \* a sequence of those run before, each of one contract
          NetworkVerified,  \* whether transaction hashes are kept for the network
          MaxTroubles       \* bound on runs interrupted or with --force, and tasks edited

VARIABLES chain,          \* the contracts created, an address being an index
          outputs,        \* task |-> contract name |-> address, for the network
          deploymentTxs,  \* address |-> transaction, itself an index of chain
          builds,         \* task |-> version of its build-info and parameters, 0 or 1
          verified,       \* contracts whose source the block explorer has published
          run,            \* the run in progress, or the last one
          troubles        \* how often runs were interrupted or forced, and tasks edited

records == <<outputs, deploymentTxs>>
deployVars == <<chain, records, builds, verified, run, troubles>>

Script(t) == Directory[t].script
InputsOf(t) == Directory[t].inputs

\* Earlier runs were of tasks that deploy one contract, which takes nothing.
ASSUME TasksAssumption ==
  /\ Tasks \subseteq DOMAIN Directory
  /\ \A t \in Tasks : \A k \in DOMAIN InputsOf(t) : InputsOf(t)[k].task \in Tasks
  /\ Earlier \in Seq(Tasks) /\ NetworkVerified \in BOOLEAN
  /\ \A i \in DOMAIN Earlier :
       /\ DOMAIN InputsOf(Earlier[i]) = {}
       /\ Len(Script(Earlier[i])) = 1 /\ Script(Earlier[i])[1].args = <<>>

Put(f, k, v) == [x \in DOMAIN f \cup {k} |-> IF x = k THEN v ELSE f[x]]
Empty == [x \in {} |-> 0]

Modes == {"LIVE", "TEST", "CHECK", "READ_ONLY"}
Stopped == run.at \in {"idle", "checked"}
NoRun == [task |-> "", mode |-> "READ_ONLY", force |-> FALSE, step |-> 0, at |-> "idle",
          inputs |-> Empty, instances |-> Empty, fork |-> 0]

-----------------------------------------------------------------------------
\* The operation a run has come to, the addresses it uses, and the contracts
\* that the transaction creates: a Vault comes with its fees collector and a
\* relayer library with its relayer, each at the address after its creator's.
Op == Script(run.task)[run.step]
Deploys == Op.op \in {"deploy", "deployAndVerify"}
ArgsOf(op, inputs, instances) ==
  [i \in DOMAIN op.args |-> IF op.args[i] \in DOMAIN inputs THEN inputs[op.args[i]]
                                                            ELSE instances[op.args[i]]]
Args == ArgsOf(Op, run.inputs, run.instances)
Contract(name, args, build) == [name |-> name, args |-> args, build |-> build]
ChildrenOf(t, name) ==
  {op.name : op \in {o \in {Script(t)[i] : i \in DOMAIN Script(t)} :
                       o.op = "save" /\ o.args = <<name>>}}
Created(t, name, args, address) ==
  <<Contract(name, args, builds[t])>> \o
    (IF ChildrenOf(t, name) = {} THEN <<>>
     ELSE <<Contract(CHOOSE c \in ChildrenOf(t, name) : TRUE, <<address>>, builds[t])>>)

\* Mutant: whatever contract is on record stays there.
save_KeepsRecorded(name, address) ==
  outputs' = IF run.mode = "LIVE" /\ name \notin DOMAIN outputs[run.task]
             THEN [outputs EXCEPT ![run.task] = Put(@, name, address)] ELSE outputs

\* Mutant: only fork tests have a file of their own.
save_ByChecks(name, address) ==
  outputs' = IF run.mode # "TEST"
             THEN [outputs EXCEPT ![run.task] = Put(@, name, address)] ELSE outputs
\* save writes to the file of the network in a live run, and to test.json in any
\* other, which only the fork test that wrote it reads.
save(name, address) ==
  outputs' = IF run.mode = "LIVE"
             THEN [outputs EXCEPT ![run.task] = Put(@, name, address)] ELSE outputs
AlreadyRecorded == Op.name \in DOMAIN outputs[run.task]

\* The addresses of the inputs, if the tasks they come from have recorded them.
HasInputs(t) ==
  \A k \in DOMAIN InputsOf(t) : InputsOf(t)[k].name \in DOMAIN outputs[InputsOf(t)[k].task]
input(t) == [k \in DOMAIN InputsOf(t) |-> outputs[InputsOf(t)[k].task][InputsOf(t)[k].name]]

At(place) == [run EXCEPT !.at = place]
Got(address) == Put(run.instances, Op.name, address)
Ended(r) == IF r.mode = "CHECK" THEN [NoRun EXCEPT !.at = "checked", !.task = r.task] ELSE NoRun
Advanced(r) == IF r.step = Len(Script(r.task)) THEN Ended(r)
               ELSE [r EXCEPT !.step = @ + 1, !.at = "ready"]
AfterDeploy(r) == IF Op.op = "deployAndVerify" THEN [r EXCEPT !.at = "verify"] ELSE Advanced(r)

-----------------------------------------------------------------------------
DeployInit ==
  /\ chain = [i \in DOMAIN Earlier |-> Contract(Script(Earlier[i])[1].name, <<>>, 0)]
  /\ outputs = [t \in Tasks |->
                  [n \in {chain[i].name : i \in {j \in DOMAIN Earlier : Earlier[j] = t}} |->
                     CHOOSE i \in DOMAIN Earlier : Earlier[i] = t]]
  /\ deploymentTxs = [i \in IF NetworkVerified THEN DOMAIN Earlier ELSE {} |-> i]
  /\ builds = [t \in Tasks |-> 0]
  /\ verified = {}
  /\ run = NoRun
  /\ troubles = 0

\* A run begins by reading its inputs.  Fork tests force their runs; nothing else
\* but a live run heeds --force.
Start(t, mode, force) ==
  /\ Stopped
  /\ force => mode \in {"LIVE", "TEST"}
  /\ mode = "TEST" => force
  /\ mode = "LIVE" /\ force => troubles < MaxTroubles
  /\ run' = IF HasInputs(t)
            THEN [NoRun EXCEPT !.task = t, !.mode = mode, !.force = force, !.step = 1,
                               !.at = "ready", !.inputs = input(t)]
            ELSE NoRun
  /\ troubles' = IF mode = "LIVE" /\ force THEN troubles + 1 ELSE troubles
  /\ UNCHANGED <<chain, records, builds, verified>>

\* deploy: the transaction is mined, on the network or on the fork of a test.
SendDeployment ==
  /\ run.at = "ready" /\ Deploys
  /\ run.mode \in {"LIVE", "TEST"}
  /\ run.force \/ ~AlreadyRecorded
  /\ LET address == Len(chain) + run.fork + 1
         created == Created(run.task, Op.name, Args, address)
     IN  IF run.mode = "LIVE"
         THEN /\ chain' = chain \o created
              /\ run' = [At("mined") EXCEPT !.instances = Got(address)]
         ELSE /\ run' = [At("mined") EXCEPT !.instances = Got(address), !.fork = @ + Len(created)]
              /\ UNCHANGED chain
  /\ UNCHANGED <<records, builds, verified, troubles>>

SaveInstance ==
  /\ run.at = "mined"
  /\ save(Op.name, run.instances[Op.name])
  /\ run' = At("saved")
  /\ UNCHANGED <<chain, deploymentTxs, builds, verified, troubles>>

\* saveContractDeploymentTransactionHash, for live runs.
SaveHash ==
  /\ run.at = "saved"
  /\ deploymentTxs' = IF run.mode = "LIVE" /\ NetworkVerified
                      THEN Put(deploymentTxs, run.instances[Op.name], run.instances[Op.name])
                      ELSE deploymentTxs
  /\ run' = AfterDeploy(run)
  /\ UNCHANGED <<chain, outputs, builds, verified, troubles>>

\* Mutant: nothing is verified that was deployed before.
AlreadyDeployed_NotVerified ==
  /\ run.at = "ready" /\ Deploys
  /\ run.mode = "LIVE" /\ ~run.force /\ AlreadyRecorded
  /\ run' = Advanced([run EXCEPT !.instances = Got(outputs[run.task][Op.name])])
  /\ UNCHANGED <<chain, records, builds, verified, troubles>>
AlreadyDeployed ==
  /\ run.at = "ready" /\ Deploys
  /\ run.mode = "LIVE" /\ ~run.force /\ AlreadyRecorded
  /\ run' = AfterDeploy([run EXCEPT !.instances = Got(outputs[run.task][Op.name])])
  /\ UNCHANGED <<chain, records, builds, verified, troubles>>

-----------------------------------------------------------------------------
\* verify: the explorer publishes the source of a live deployment if the source,
\* built from the task, gives that code with those arguments.  Whatever fails is
\* only logged: a key missing, the explorer down or yet to see the contract.
SourceMatches(address) ==
  chain[address] = Contract(Op.name, Args, builds[run.task])
VerifyContract ==
  /\ run.at = "verify" /\ run.mode = "LIVE"
  /\ SourceMatches(run.instances[Op.name])
  /\ verified' = verified \cup {run.instances[Op.name]}
  /\ run' = Advanced(run)
  /\ UNCHANGED <<chain, records, builds, troubles>>
SkipVerification ==
  /\ run.at = "verify"
  /\ run' = Advanced(run)
  /\ UNCHANGED <<chain, records, builds, verified, troubles>>

\* Which contracts a transaction hash is on file for.
HasHash(address) == NetworkVerified /\ address \in DOMAIN deploymentTxs

\* Mutant: the code is compared without the arguments that follow it.
CheckPasses_CodeOnly ==
  /\ AlreadyRecorded /\ HasHash(outputs[run.task][Op.name])
  /\ LET tx == deploymentTxs[outputs[run.task][Op.name]]
     IN  /\ outputs[run.task][Op.name] = tx
         /\ chain[tx].name = Op.name /\ chain[tx].build = builds[run.task]
\* check: the recorded address is the one the recorded transaction created, with
\* the code and the arguments the task would use now.
CheckPasses ==
  /\ AlreadyRecorded /\ HasHash(outputs[run.task][Op.name])
  /\ LET tx == deploymentTxs[outputs[run.task][Op.name]]
     IN  /\ outputs[run.task][Op.name] = tx
         /\ chain[tx] = Contract(Op.name, Args, builds[run.task])
check ==
  /\ run.at = "ready" /\ Deploys /\ run.mode = "CHECK"
  /\ run' = IF CheckPasses
            THEN Advanced([run EXCEPT !.instances = Got(outputs[run.task][Op.name])])
            ELSE NoRun
  /\ UNCHANGED <<chain, records, builds, verified, troubles>>

RefuseDeployment ==
  /\ run.at = "ready" /\ Deploys /\ run.mode = "READ_ONLY"
  /\ run' = NoRun
  /\ UNCHANGED <<chain, records, builds, verified, troubles>>

\* save, of the contract that a deployed one reports as its own creation.  It is
\* not kept from doing so by the mode: a check writes it to test.json.
SaveDerived ==
  /\ run.at = "ready" /\ Op.op = "save"
  /\ save(Op.name, run.instances[Op.args[1]] + 1)
  /\ run' = Advanced(run)
  /\ UNCHANGED <<chain, deploymentTxs, builds, verified, troubles>>

\* An error of the network, or the operator, ends a run early: of interest for live
\* runs, as no other leaves anything behind.
Interrupt ==
  /\ ~Stopped /\ run.mode = "LIVE" /\ troubles < MaxTroubles
  /\ run' = NoRun
  /\ troubles' = troubles + 1
  /\ UNCHANGED <<chain, records, builds, verified>>

-----------------------------------------------------------------------------
\* The developers change the build-info or a parameter of a task.
EditTask(t) ==
  /\ Stopped /\ builds[t] = 0
  /\ troubles < MaxTroubles
  /\ builds' = [builds EXCEPT ![t] = 1]
  /\ run' = NoRun
  /\ troubles' = troubles + 1
  /\ UNCHANGED <<chain, records, verified>>

RunStep ==
  \/ SendDeployment \/ SaveInstance \/ SaveHash \/ AlreadyDeployed
  \/ VerifyContract \/ SkipVerification \/ check \/ RefuseDeployment \/ SaveDerived

DeployNext ==
  \/ \E t \in Tasks, mode \in Modes, force \in BOOLEAN : Start(t, mode, force)
  \/ RunStep
  \/ Interrupt
  \/ \E t \in Tasks : EditTask(t)

DeploySpec == DeployInit /\ [][DeployNext]_deployVars

\* A run goes on unless it is interrupted, an operator runs a task again until its
\* contracts are verified, and the explorer, which gets to see each contract in
\* the end, does not fail every time.
DeployFairness ==
  /\ WF_deployVars(RunStep)
  /\ \A t \in Tasks : /\ SF_deployVars(Start(t, "LIVE", FALSE))
                     /\ SF_deployVars(run.task = t /\ VerifyContract)

-----------------------------------------------------------------------------
\* The contracts of a task that the files have, and the addresses on record for
\* the arguments of one of them.
OnRecord(t) == {i \in DOMAIN Script(t) : Script(t)[i].name \in DOMAIN outputs[t]}
RecordedAt(t, i) == outputs[t][Script(t)[i].name]
ArgsOnRecord(t, i) == ArgsOf(Script(t)[i], input(t), outputs[t])

\* What a task would deploy now, given the addresses on record.
UpToDate(t, i) ==
  /\ i \in OnRecord(t) /\ HasInputs(t)
  /\ chain[RecordedAt(t, i)] = Contract(Script(t)[i].name, ArgsOnRecord(t, i), builds[t])

\* The records hang together: each contract on record was created with the addresses
\* that its inputs have on record, unless one of them was replaced by a later
\* deployment (which a run without --force never repairs).  No order of forced,
\* interrupted and repeated runs leaves a contract on record that refers to a newer
\* one than the files know of.
StaleOnlyByLaterDeployment ==
  \A t \in Tasks : \A i \in OnRecord(t) :
    /\ HasInputs(t)
    /\ \A k \in DOMAIN Script(t)[i].args :
         chain[RecordedAt(t, i)].args[k] <= ArgsOnRecord(t, i)[k]

\* check-deployments is not fooled: after it passed a task, running that task anew
\* with the recorded inputs would create, one for one, the contracts on record that
\* it deploys itself (those it only saves are not compared with anything).
CheckedTasksReproduce ==
  run.at = "checked" =>
    \A i \in DOMAIN Script(run.task) :
      Script(run.task)[i].op # "save" => UpToDate(run.task, i)

\* Fork tests, checks and read-only runs leave the network and its records alone,
\* even where they save the contract that another one created.
OnlyLiveRunsRecord == [][run.mode # "LIVE" => UNCHANGED <<chain, records>>]_deployVars

\* The advice for a run whose verification failed is to run the task again.  It
\* works, forced and interrupted runs notwithstanding, as long as the contract on
\* record is the one the task would deploy: the source it gives is published.
EverVerified ==
  \A t \in Tasks : \A i \in DOMAIN Script(t) :
    Script(t)[i].op = "deployAndVerify" =>
      (<>[]UpToDate(t, i) => []<>(UpToDate(t, i) /\ RecordedAt(t, i) \in verified))

=============================================================================
