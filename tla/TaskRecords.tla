------------------------------ MODULE TaskRecords ------------------------------
(***************************************************************************)
(* What is on file about the contracts of the deployment tasks besides     *)
(* their addresses: their ABI and bytecode, taken from the build-info, and *)
(* the ids of their actions, as the Authorizer knows them, taken from the  *)
(* contracts themselves; and the checks of both.                           *)
(***************************************************************************)
EXTENDS Integers, Sequences, SequencesExt, TLC

CONSTANTS BuildInfos,       \* task |-> its build-info directory, as it may be at one time
                            \* and another: a sequence of files, in each
                            \* source (a number) |-> contract |-> [abi, code]
          Outputs,          \* task |-> the contracts that it deploys
          Pools,            \* contracts that belong to the family of their creator
          Views,            \* functions that need no permission
          Ignored,          \* those that ignored-functions.json is to name
          MaxRecordChanges  \* bound on contracts created and files written

VARIABLES infos,       \* task |-> its build-info directory as it is
          artifacts,   \* task |-> contract |-> [abi, code], of the files on either
          contracts,   \* those created, an address being an index
          deployed,    \* task |-> contract |-> address, the outputs
          actionIds,   \* task |-> contract |-> its entry in action-ids.json
          collisions,  \* the ids shared, as expected and as last found
          filesThere,  \* which of the files are there that action ids depend on
          passed,      \* the tasks that passed the last check, if nothing has changed since
          changed      \* how many changes there were

onFile == <<artifacts, actionIds, collisions>>
recordVars == <<infos, onFile, contracts, deployed, filesThere, passed, changed>>

TaskIds == DOMAIN BuildInfos
Nobody == 0       \* whoever deploys, and the address that is not given
Adaptor == -1     \* the AuthorizerAdaptor, output of a task of its own
NoArtifact == [abi |-> {}, code |-> ""]
Nowhere == [x \in {} |-> 0]
With(f, k, v) == [x \in {k} \cup DOMAIN f |-> IF x = k THEN v ELSE f[x]]
NonePassed == [artifacts |-> {}, ids |-> {}]
Change == changed < MaxRecordChanges /\ changed' = changed + 1 /\ passed' = NonePassed

-----------------------------------------------------------------------------
\* The source of a contract: the only one for a build-info to be extracted from, the
\* first one for a task.
SourcesWith(builds, name) == {s \in DOMAIN builds : name \in DOMAIN builds[s]}
findContractSourceName(builds, name) ==
  CHOOSE s \in SourcesWith(builds, name) : \A r \in SourcesWith(builds, name) : s <= r

FilesFor(t, name) == {i \in DOMAIN infos[t] : infos[t][i].name = name}
anyOf(files) == CHOOSE i \in files : TRUE
buildsOf(files) == FoldLeft(LAMBDA result, info : info.contracts @@ result, Nowhere, files)
buildsFor(t, name) ==
  IF FilesFor(t, name) # {} THEN infos[t][anyOf(FilesFor(t, name))].contracts
  ELSE buildsOf(infos[t])
HasArtifact(t, name) == SourcesWith(buildsFor(t, name), name) # {}
artifact(t, name) ==
  LET builds == buildsFor(t, name) IN builds[findContractSourceName(builds, name)][name]

Extractable(t, i) ==
  \E s \in DOMAIN infos[t][i].contracts :
    SourcesWith(infos[t][i].contracts, infos[t][i].name) = {s}
extractContractArtifact(t, i) ==
  LET info == infos[t][i]
  IN  info.contracts[findContractSourceName(info.contracts, info.name)][info.name]

readContractABIAndBytecode(t, name) ==
  IF name \in DOMAIN artifacts[t] THEN artifacts[t][name] ELSE NoArtifact

\* An ABI without anything in it is not written, so that what was there stays.
writeContractArtifact(t, name, extracted) ==
  [abi |-> IF extracted.abi = {} THEN readContractABIAndBytecode(t, name).abi ELSE extracted.abi,
   code |-> extracted.code]

\* One file after the other, up to one that names a contract it does not have, or has
\* more than once.
extractArtifact(t) ==
  LET done == {i \in DOMAIN infos[t] : \A j \in 1..i : Extractable(t, j)}
      nth(name) == CHOOSE i \in done : infos[t][i].name = name
  IN  [name \in {infos[t][i].name : i \in done} |->
         writeContractArtifact(t, name, extractContractArtifact(t, nth(name)))] @@ artifacts[t]
checkArtifact(t) ==
  \A i \in DOMAIN infos[t] :
    /\ Extractable(t, i)
    /\ readContractABIAndBytecode(t, infos[t][i].name) = extractContractArtifact(t, i)

ExtractArtifacts(t) ==
  /\ artifacts' = [artifacts EXCEPT ![t] = extractArtifact(t)]
  /\ Change
  /\ UNCHANGED <<infos, contracts, deployed, actionIds, collisions, filesThere>>
CheckArtifacts(t) ==
  /\ checkArtifact(t)
  /\ passed' = [NonePassed EXCEPT !.artifacts = {t}]
  /\ UNCHANGED <<infos, onFile, contracts, deployed, filesThere, changed>>

-----------------------------------------------------------------------------
\* A contract hashes its own address, or that of its family, with the function.
disambiguator(address) ==
  IF address = Adaptor THEN Adaptor
  ELSE IF contracts[address].name \in Pools THEN contracts[address].creator ELSE address
getActionId(address, function) == <<disambiguator(address), function>>
isPoolFromFactory(factory, address) == contracts[address].creator = factory

authorizerAware(t, name) == "getActionId" \in artifact(t, name).abi
contractFunctions(t, name) == artifact(t, name).abi \ (Views \cup Ignored)

\* Mutant: a Pool is taken to be of the task's factory.
checkFactoryOutput_Dropped(t, name, factoryOutput) == TRUE
checkFactoryOutput(t, name, factoryOutput) ==
  /\ name \o "Factory" \in DOMAIN deployed[t]
  /\ isPoolFromFactory(deployed[t][name \o "Factory"], factoryOutput)

actionIdSource(t, name, factoryOutput) ==
  IF ~authorizerAware(t, name) THEN Adaptor
  ELSE IF factoryOutput # Nobody THEN factoryOutput ELSE deployed[t][name]
HasSource(t, name, factoryOutput) ==
  IF ~authorizerAware(t, name) THEN "adaptor" \in filesThere
  ELSE IF factoryOutput # Nobody THEN checkFactoryOutput(t, name, factoryOutput)
  ELSE name \in DOMAIN deployed[t]
Answers(address) == address # Adaptor => "getActionId" \in contracts[address].abi

\* Nothing can be found out of a contract with functions unless the file of those to
\* be ignored is there.
CanGetActionIds(t, name, factoryOutput) ==
  /\ HasArtifact(t, name)
  /\ artifact(t, name).abi \subseteq Views \/ "ignored functions" \in filesThere
  /\ HasSource(t, name, factoryOutput)
  /\ contractFunctions(t, name) # {} => Answers(actionIdSource(t, name, factoryOutput))
getActionIds(t, name, factoryOutput) ==
  [useAdaptor |-> ~authorizerAware(t, name),
   factoryOutput |-> factoryOutput,
   actionIds |-> [f \in contractFunctions(t, name) |->
                    getActionId(actionIdSource(t, name, factoryOutput), f)]]

saveActionIds(t, name, factoryOutput) ==
  actionIds' = [actionIds EXCEPT ![t] = With(@, name, getActionIds(t, name, factoryOutput))]

\* What is recorded of functions that are gone is not compared.
checkActionIds(t) ==
  \A name \in DOMAIN actionIds[t] :
    LET recorded == actionIds[t][name]
        expected == getActionIds(t, name, recorded.factoryOutput)
    IN  /\ CanGetActionIds(t, name, recorded.factoryOutput)
        /\ recorded.useAdaptor = expected.useAdaptor
        /\ \A f \in DOMAIN expected.actionIds :
             /\ f \in DOMAIN recorded.actionIds
             /\ recorded.actionIds[f] = expected.actionIds[f]

getDuplicateActionIds ==
  LET instances == UNION {UNION {{<<t, name, f>> : f \in DOMAIN actionIds[t][name].actionIds} :
                            name \in DOMAIN actionIds[t]} : t \in TaskIds}
      idOf(i) == actionIds[i[1]][i[2]].actionIds[i[3]]
      sharing(id) == {i \in instances : idOf(i) = id}
      ids == {id \in {idOf(i) : i \in instances} :
                \E i, j \in sharing(id) : i # j}
  IN  [id \in ids |-> {<<i, actionIds[i[1]][i[2]].useAdaptor>> : i \in sharing(id)}]
checkActionIdUniqueness == getDuplicateActionIds = collisions.expected

\* Contracts of the outputs are saved one by one, a Pool with the address it has.
SaveActionIds(t, name, address) ==
  /\ CanGetActionIds(t, name, address)
  /\ saveActionIds(t, name, address)
  /\ Change
  /\ UNCHANGED <<infos, artifacts, contracts, deployed, collisions, filesThere>>
CheckActionIds(tasks) ==
  /\ \A t \in tasks : checkActionIds(t)
  /\ IF checkActionIdUniqueness
     THEN passed' = [NonePassed EXCEPT !.ids = tasks] /\ UNCHANGED collisions
     ELSE collisions' = [collisions EXCEPT !.new = getDuplicateActionIds] /\ passed' = NonePassed
  /\ UNCHANGED <<infos, artifacts, contracts, deployed, actionIds, filesThere, changed>>

\* The file of new collisions takes the place of that of the expected ones.
AcceptCollisions ==
  /\ collisions' = [collisions EXCEPT !.expected = collisions.new]
  /\ Change
  /\ UNCHANGED <<infos, artifacts, contracts, deployed, actionIds, filesThere>>

\* What scripts and tests take an id from.
actionId(t, name, signature) == actionIds[t][name].actionIds[signature]

-----------------------------------------------------------------------------
RecordsInit ==
  /\ infos = [t \in TaskIds |-> BuildInfos[t][1]]
  /\ artifacts = [t \in TaskIds |-> Nowhere]
  /\ contracts = <<>>
  /\ deployed = [t \in TaskIds |-> Nowhere]
  /\ actionIds = [t \in TaskIds |-> Nowhere]
  /\ collisions = [expected |-> Nowhere, new |-> Nowhere]
  /\ filesThere \in {{"adaptor"}, {"adaptor", "ignored functions"}}
  /\ passed = NonePassed
  /\ changed = 0

Creates(name, abi, creator) ==
  /\ contracts' = Append(contracts, [name |-> name, abi |-> abi, creator |-> creator])
  /\ Change
  /\ UNCHANGED <<infos, onFile, filesThere>>
DeployAgain(t, name) ==
  /\ HasArtifact(t, name)
  /\ Creates(name, artifact(t, name).abi, Nobody)
  /\ deployed' = [deployed EXCEPT ![t] = With(@, name, Len(contracts) + 1)]
CreatePool(t, name, factory) ==
  /\ contracts[factory].name = name \o "Factory"
  /\ HasArtifact(t, name)
  /\ Creates(name, artifact(t, name).abi, factory)
  /\ UNCHANGED deployed

EditBuildInfos(t) ==
  /\ infos[t] # BuildInfos[t][2]
  /\ infos' = [infos EXCEPT ![t] = BuildInfos[t][2]]
  /\ Change
  /\ UNCHANGED <<onFile, contracts, deployed, filesThere>>

Names(t) == UNION {UNION {DOMAIN infos[t][i].contracts[s] : s \in DOMAIN infos[t][i].contracts} :
                     i \in DOMAIN infos[t]}
RecordsNext ==
  \/ \E t \in TaskIds : ExtractArtifacts(t) \/ CheckArtifacts(t) \/ EditBuildInfos(t)
  \/ \E t \in TaskIds : \E name \in Names(t) :
       \/ name \in Outputs[t] /\ DeployAgain(t, name)
       \/ name \in Pools /\ \E factory \in DOMAIN contracts : CreatePool(t, name, factory)
       \/ \E address \in {Nobody} \cup DOMAIN contracts : SaveActionIds(t, name, address)
  \/ \E tasks \in {TaskIds} \cup {{t} : t \in TaskIds} : CheckActionIds(tasks)
  \/ AcceptCollisions

RecordsSpec == RecordsInit /\ [][RecordsNext]_recordVars

-----------------------------------------------------------------------------
\* What the checks vouch for holds, whatever was extracted, deployed again, saved and
\* edited before.  What scripts read of a contract that has passed is what deployments
\* use: its ABI and bytecode files are those of the artifact of its task.  And an id of
\* a function that the contract still has is that of the contract on record, or of the
\* family of Pools of the factory on record (not of one that it has replaced).
FamilyOnRecord(t, name) ==
  IF actionIds[t][name].useAdaptor THEN Adaptor
  ELSE IF actionIds[t][name].factoryOutput # Nobody THEN deployed[t][name \o "Factory"]
  ELSE IF name \in Pools THEN Nobody ELSE deployed[t][name]
CheckedRecordsCurrent ==
  /\ \A t \in passed.artifacts : \A i \in DOMAIN infos[t] :
       readContractABIAndBytecode(t, infos[t][i].name) = artifact(t, infos[t][i].name)
  /\ \A t \in passed.ids : \A name \in DOMAIN actionIds[t] :
       \A f \in contractFunctions(t, name) : actionId(t, name, f) = <<FamilyOnRecord(t, name), f>>

=============================================================================
