--------------------------- MODULE DeploymentsProofs ---------------------------
(***************************************************************************)
(* What a passed check of a deployment task shows, and what only live runs *)
(* do, for every set of tasks and however runs are repeated; and what      *)
(* passed checks of artifacts and action ids vouch for.                    *)
(***************************************************************************)
EXTENDS Deployments, TaskRecords, SequenceTheorems, TLAPS

RunFields == {"task", "mode", "force", "step", "at", "inputs", "instances", "fork"}

\* What a check has compared so far: every contract that the task itself deploys is
\* the one it would deploy now, and the later ones take its address as it is on record.
Reproduces(t, i) == Script(t)[i].op # "save" => UpToDate(t, i)
Took(t, i) ==
  Script(t)[i].op # "save" =>
    /\ Script(t)[i].name \in DOMAIN run.instances
    /\ run.instances[Script(t)[i].name] = RecordedAt(t, i)

Checking(t) ==
  /\ run.at = "ready"
  /\ run.task = t /\ run.step \in DOMAIN Script(t)
  /\ HasInputs(t) /\ run.inputs = input(t)
  /\ \A i \in 1..(run.step - 1) : Reproduces(t, i) /\ Took(t, i)
Checked(t) ==
  run.task = t /\ \A i \in DOMAIN Script(t) : Reproduces(t, i)

IsRecord(r) == DOMAIN r = RunFields /\ r = [f \in RunFields |-> r[f]]
CheckInv ==
  /\ IsRecord(run)
  /\ run.mode = "CHECK" => \E t \in Tasks : Checking(t)
  /\ run.at = "checked" => run.mode # "CHECK" /\ \E t \in Tasks : Checked(t)

-----------------------------------------------------------------------------
\* What the scripts of the tasks in use have in common.
LEMMA ScriptFacts ==
  ASSUME NEW t \in Tasks
  PROVE  /\ Script(t) \in Seq(Operations) /\ Script(t) # <<>>
         /\ \A i, j \in DOMAIN Script(t) : Script(t)[i].name = Script(t)[j].name => i = j
         /\ \A i \in DOMAIN Script(t) : \A k \in DOMAIN Script(t)[i].args :
              \/ Script(t)[i].args[k] \in DOMAIN InputsOf(t)
              \/ \E j \in 1..(i - 1) : /\ Script(t)[j].op # "save"
                                       /\ Script(t)[i].args[k] = Script(t)[j].name
         /\ \A i \in DOMAIN Script(t) : Script(t)[i].name \notin DOMAIN InputsOf(t)
         /\ \A i \in DOMAIN Script(t) : Script(t)[i].op = "save" =>
              /\ Len(Script(t)[i].args) = 1
              /\ \E j \in 1..(i - 1) : /\ Script(t)[j].op # "save"
                                       /\ Script(t)[i].args[1] = Script(t)[j].name
PROOF
  <1>1. t \in DOMAIN Directory
    BY TasksAssumption
  <1>2. /\ Script(t) \in Seq(Operations) /\ Script(t) # <<>>
        /\ \A i, j \in DOMAIN Script(t) : Script(t)[i].name = Script(t)[j].name => i = j
    BY <1>1, ScriptsInOrder DEF Script
  <1>3. ASSUME NEW i \in DOMAIN Script(t), NEW k \in DOMAIN Script(t)[i].args
        PROVE  Script(t)[i].args[k] \in
                 DOMAIN InputsOf(t) \cup
                 {Script(t)[j].name : j \in {l \in 1..(i - 1) : Script(t)[l].op # "save"}}
    BY <1>1, ScriptsInOrder DEF Script, InputsOf
  <1>4. /\ \A i \in DOMAIN Script(t) : Script(t)[i].name \notin DOMAIN InputsOf(t)
        /\ \A i \in DOMAIN Script(t) : Script(t)[i].op = "save" =>
             /\ Len(Script(t)[i].args) = 1
             /\ Script(t)[i].args[1] \in
                  {Script(t)[j].name : j \in {l \in 1..(i - 1) : Script(t)[l].op # "save"}}
    BY <1>1, ScriptsInOrder DEF Script, InputsOf
  <1> QED
    BY <1>2, <1>3, <1>4

LEMMA NoRunFacts ==
  IsRecord(NoRun) /\ NoRun.mode = "READ_ONLY" /\ NoRun.at # "checked"
  BY DEF NoRun, RunFields, IsRecord

\* A run that advances keeps its mode or ends; a check that ends says of which task.
LEMMA AdvancedFacts ==
  ASSUME NEW r, IsRecord(r)
  PROVE  /\ IsRecord(Advanced(r))
         /\ r.mode # "CHECK" => Advanced(r).mode # "CHECK" /\ Advanced(r).at # "checked"
         /\ r.mode = "CHECK" /\ r.step = Len(Script(r.task)) =>
              /\ Advanced(r).at = "checked" /\ Advanced(r).task = r.task
              /\ Advanced(r).mode # "CHECK"
         /\ r.mode # "CHECK" /\ r.step = Len(Script(r.task)) => Advanced(r).mode = "READ_ONLY"
         /\ r.step # Len(Script(r.task)) =>
              /\ Advanced(r).at = "ready" /\ Advanced(r).mode = r.mode
              /\ Advanced(r).task = r.task /\ Advanced(r).step = r.step + 1
              /\ Advanced(r).inputs = r.inputs /\ Advanced(r).instances = r.instances
              /\ Advanced(r).fork = r.fork
PROOF
  <1>1. CASE r.step # Len(Script(r.task))
    <2>1. Advanced(r) = [r EXCEPT !.step = @ + 1, !.at = "ready"]
      BY <1>1 DEF Advanced
    <2> QED
      BY <1>1, <2>1 DEF RunFields, IsRecord
  <1>2. CASE r.step = Len(Script(r.task)) /\ r.mode = "CHECK"
    <2>1. Advanced(r) = [NoRun EXCEPT !.at = "checked", !.task = r.task]
      BY <1>2 DEF Advanced, Ended
    <2> QED
      BY <1>2, <2>1 DEF RunFields, NoRun, IsRecord
  <1>3. CASE r.step = Len(Script(r.task)) /\ r.mode # "CHECK"
    <2>1. Advanced(r) = NoRun
      BY <1>3 DEF Advanced, Ended
    <2> QED
      BY <1>3, <2>1, NoRunFacts
  <1> QED
    BY <1>1, <1>2, <1>3

\* A check that finds the contract on record to be the right one has found that the
\* task would deploy it: it took its arguments from the records itself.
LEMMA CheckedIsUpToDate ==
  ASSUME NEW t \in Tasks, Checking(t), CheckPasses
  PROVE  UpToDate(t, run.step)
PROOF
  <1> DEFINE n == run.step
  <1>1. /\ run.task = t /\ n \in DOMAIN Script(t) /\ HasInputs(t) /\ run.inputs = input(t)
        /\ \A i \in 1..(n - 1) : Took(t, i)
    BY DEF Checking
  <1>2. DOMAIN run.inputs = DOMAIN InputsOf(t)
    BY <1>1 DEF input
  <1>3. ASSUME NEW k \in DOMAIN Op.args, Op.args[k] \notin DOMAIN run.inputs
        PROVE  run.instances[Op.args[k]] = outputs[t][Op.args[k]]
    <2>1. PICK j \in 1..(n - 1) : Script(t)[j].op # "save" /\ Op.args[k] = Script(t)[j].name
      BY <1>1, <1>2, <1>3, ScriptFacts DEF Op
    <2> QED
      BY <2>1, <1>1 DEF Took, RecordedAt
  <1>4. Args = ArgsOnRecord(t, n)
    BY <1>1, <1>3 DEF Args, ArgsOnRecord, ArgsOf, Op
  <1>5. n \in OnRecord(t) /\ chain[RecordedAt(t, n)] = Contract(Op.name, Args, builds[t])
    BY <1>1 DEF CheckPasses, AlreadyRecorded, OnRecord, RecordedAt, Op
  <1> QED
    BY <1>1, <1>4, <1>5 DEF UpToDate, Op

-----------------------------------------------------------------------------
LEMMA InitCheckInv == DeployInit => CheckInv
  BY NoRunFacts DEF DeployInit, CheckInv

\* The state of a run that is not, or no longer, a check satisfies the invariant.
LEMMA NoCheck ==
  ASSUME IsRecord(run'), run'.mode # "CHECK", run'.at # "checked"
  PROVE  CheckInv'
  BY DEF CheckInv, IsRecord

LEMMA StartKeeps ==
  ASSUME CheckInv, NEW t \in Tasks, NEW mode \in Modes, NEW force \in BOOLEAN,
         Start(t, mode, force)
  PROVE  CheckInv'
PROOF
  <1>1. CASE ~HasInputs(t)
    BY <1>1, NoRunFacts, NoCheck DEF Start
  <1>2. CASE HasInputs(t)
    <2>1. run' = [NoRun EXCEPT !.task = t, !.mode = mode, !.force = force, !.step = 1,
                               !.at = "ready", !.inputs = input(t)]
      BY <1>2 DEF Start
    <2>2. /\ IsRecord(run') /\ run'.at = "ready" /\ run'.task = t /\ run'.step = 1
          /\ run'.inputs = input(t)
      BY <2>1 DEF NoRun, RunFields, IsRecord
    <2>3. 1 \in DOMAIN Script(t)
      BY ScriptFacts
    <2>4. UNCHANGED outputs
      BY DEF Start, records
    <2>5. HasInputs(t)' /\ run'.inputs = input(t)'
      BY <1>2, <2>2, <2>4 DEF HasInputs, input
    <2>6. \A i \in 1..(run'.step - 1) : FALSE
      BY <2>2
    <2>7. Checking(t)'
      BY <2>2, <2>3, <2>5, <2>6 DEF Checking
    <2> QED
      BY <2>2, <2>7 DEF CheckInv, IsRecord
  <1> QED
    BY <1>1, <1>2

\* What a check compared stays so, as a step of a check changes nothing but the run.
LEMMA ReproducesStays ==
  ASSUME UNCHANGED <<chain, outputs, builds>>, NEW t, NEW i, Reproduces(t, i)
  PROVE  Reproduces(t, i)'
  BY DEF Reproduces, UpToDate, OnRecord, HasInputs, RecordedAt, ArgsOnRecord, ArgsOf, input,
         Contract

\* A check that got past an operation has that behind it too.
LEMMA CheckAdvances ==
  ASSUME CheckInv, NEW t \in Tasks, NEW n, n = run.step, Checking(t), run.mode = "CHECK",
         UNCHANGED <<chain, outputs, builds>>,
         NEW instances,
         run' = Advanced([run EXCEPT !.instances = instances]),
         \A i \in 1..n : Script(t)[i].op # "save" =>
            /\ Script(t)[i].name \in DOMAIN instances
            /\ instances[Script(t)[i].name] = RecordedAt(t, i),
         Reproduces(t, n)
  PROVE  CheckInv'
PROOF
  <1> DEFINE r == [run EXCEPT !.instances = instances]
  <1>1. IsRecord(run) /\ run.task = t /\ n \in DOMAIN Script(t) /\ Script(t) \in Seq(Operations)
    BY ScriptFacts DEF Checking, CheckInv
  <1>2. n \in Nat \ {0} /\ DOMAIN Script(t) = 1..Len(Script(t)) /\ Len(Script(t)) \in Nat
    BY <1>1
  <1>3. /\ IsRecord(r) /\ r.task = t /\ r.step = n /\ r.mode = "CHECK"
        /\ r.inputs = run.inputs /\ r.instances = instances
    BY <1>1 DEF RunFields, IsRecord
  <1>4. \A i \in 1..(n - 1) : Reproduces(t, i)
    BY DEF Checking
  <1>5. ASSUME NEW i \in 1..n
        PROVE  Reproduces(t, i)'
    <2>1. Reproduces(t, i)
      BY <1>2, <1>4
    <2> QED
      BY <2>1, ReproducesStays
  <1> HIDE DEF r
  <1>6. CASE n = Len(Script(t))
    <2>1. IsRecord(run') /\ run'.at = "checked" /\ run'.task = t /\ run'.mode # "CHECK"
      BY <1>3, <1>6, AdvancedFacts DEF r
    <2>2. Checked(t)'
      BY <2>1, <1>2, <1>5, <1>6 DEF Checked
    <2> QED
      BY <2>1, <2>2 DEF CheckInv, IsRecord
  <1>7. CASE n # Len(Script(t))
    <2>1. /\ IsRecord(run') /\ run'.at = "ready" /\ run'.mode = "CHECK" /\ run'.task = t
          /\ run'.step = n + 1 /\ run'.inputs = run.inputs /\ run'.instances = instances
      BY <1>3, <1>7, AdvancedFacts DEF r
    <2>2. run'.step \in DOMAIN Script(t)
      BY <2>1, <1>1, <1>2, <1>7
    <2>3. HasInputs(t)' /\ run'.inputs = input(t)'
      BY <2>1 DEF Checking, HasInputs, input
    <2>4. ASSUME NEW i \in 1..n
          PROVE  Took(t, i)'
      BY <2>1 DEF Took, RecordedAt
    <2>5. run'.step - 1 = n
      BY <2>1, <1>2
    <2>6. Checking(t)'
      BY <1>5, <2>1, <2>2, <2>3, <2>4, <2>5 DEF Checking
    <2> QED
      BY <2>1, <2>6 DEF CheckInv, IsRecord
  <1> QED
    BY <1>6, <1>7

LEMMA CheckKeeps ==
  ASSUME CheckInv, check
  PROVE  CheckInv'
PROOF
  <1>1. run.mode = "CHECK" /\ UNCHANGED <<chain, outputs, builds>>
    BY DEF check, records
  <1>2. PICK t \in Tasks : Checking(t)
    BY <1>1 DEF CheckInv
  <1>3. CASE ~CheckPasses
    BY <1>3, NoRunFacts, NoCheck DEF check
  <1>4. CASE CheckPasses
    <2> DEFINE instances == Got(outputs[t][Op.name])
    <2>1. PICK n : n = run.step
      OBVIOUS
    <2>2. /\ run.task = t /\ n \in DOMAIN Script(t) /\ Script(t) \in Seq(Operations)
          /\ \A i \in 1..(n - 1) : Took(t, i)
      BY <1>2, <2>1, ScriptFacts DEF Checking
    <2>3. run' = Advanced([run EXCEPT !.instances = instances])
      BY <1>4, <2>2 DEF check
    <2>4. Reproduces(t, n)
      BY <1>2, <1>4, <2>1, CheckedIsUpToDate DEF Reproduces
    <2>5. ASSUME NEW i \in 1..n, Script(t)[i].op # "save"
          PROVE  /\ Script(t)[i].name \in DOMAIN instances
                 /\ instances[Script(t)[i].name] = RecordedAt(t, i)
      <3>1. CASE i = n
        BY <2>1, <2>2, <3>1 DEF Got, Put, RecordedAt, Op
      <3>2. CASE i # n
        <4>1. i \in 1..(n - 1) /\ i \in DOMAIN Script(t)
          BY <2>2, <3>2
        <4>2. Script(t)[i].name # Op.name
          BY <2>1, <2>2, <3>2, <4>1, ScriptFacts DEF Op
        <4> QED
          BY <2>2, <2>5, <4>1, <4>2 DEF Took, Got, Put
      <3> QED
        BY <3>1, <3>2
    <2> HIDE DEF instances
    <2> QED
      BY <1>1, <1>2, <2>1, <2>3, <2>4, <2>5, CheckAdvances
  <1> QED
    BY <1>3, <1>4

\* A contract that another one created is saved, not compared.
LEMMA SaveDerivedKeeps ==
  ASSUME CheckInv, SaveDerived
  PROVE  CheckInv'
PROOF
  <1>1. IsRecord(run) /\ run' = Advanced(run) /\ Op.op = "save"
    BY DEF SaveDerived, CheckInv
  <1>2. CASE run.mode # "CHECK"
    BY <1>1, <1>2, AdvancedFacts, NoCheck
  <1>3. CASE run.mode = "CHECK"
    <2>1. UNCHANGED <<chain, outputs, builds>>
      BY <1>3 DEF SaveDerived, save
    <2>2. PICK t \in Tasks : Checking(t)
      BY <1>3 DEF CheckInv
    <2>3. PICK n, instances : n = run.step /\ instances = run.instances
      OBVIOUS
    <2>4. /\ run.task = t /\ n \in DOMAIN Script(t) /\ Script(t) \in Seq(Operations)
          /\ \A i \in 1..(n - 1) : Took(t, i)
      BY <2>2, <2>3, ScriptFacts DEF Checking
    <2>5. run = [run EXCEPT !.instances = instances]
      BY <1>1, <2>3 DEF RunFields, IsRecord
    <2>6. Script(t)[n].op = "save" /\ Reproduces(t, n)
      BY <1>1, <2>3, <2>4 DEF Reproduces, Op
    <2>7. ASSUME NEW i \in 1..n, Script(t)[i].op # "save"
          PROVE  /\ Script(t)[i].name \in DOMAIN instances
                 /\ instances[Script(t)[i].name] = RecordedAt(t, i)
      <3>1. i \in 1..(n - 1)
        BY <2>4, <2>6, <2>7
      <3> QED
        BY <2>3, <2>4, <2>7, <3>1 DEF Took
    <2>8. run' = Advanced([run EXCEPT !.instances = instances])
      BY <1>1, <2>5
    <2> QED
      BY <1>3, <2>1, <2>2, <2>3, <2>6, <2>7, <2>8, CheckAdvances
  <1> QED
    BY <1>2, <1>3

\* The other steps are not those of a check, and a run that is none does not become one.
LEMMA OtherStepsKeep ==
  ASSUME CheckInv,
         \/ SendDeployment \/ SaveInstance \/ SaveHash \/ AlreadyDeployed
         \/ VerifyContract \/ SkipVerification \/ RefuseDeployment \/ Interrupt
  PROVE  CheckInv'
PROOF
  <1>1. IsRecord(run)
    BY DEF CheckInv
  <1>2. run.mode # "CHECK"
    BY DEF CheckInv, Checking, SendDeployment, SaveInstance, SaveHash, AlreadyDeployed,
           VerifyContract, SkipVerification, RefuseDeployment, Interrupt
  <1>3. CASE SendDeployment \/ SaveInstance
    BY <1>1, <1>2, <1>3, NoCheck DEF SendDeployment, SaveInstance, At, RunFields, IsRecord
  <1>4. CASE RefuseDeployment \/ Interrupt
    BY <1>4, NoRunFacts, NoCheck DEF RefuseDeployment, Interrupt
  <1>5. CASE VerifyContract \/ SkipVerification
    BY <1>1, <1>2, <1>5, AdvancedFacts, NoCheck DEF VerifyContract, SkipVerification
  <1>6. ASSUME NEW r, IsRecord(r), r.mode # "CHECK", run' = AfterDeploy(r)
        PROVE  CheckInv'
    <2>1. CASE Op.op = "deployAndVerify"
      BY <1>6, <2>1, NoCheck DEF AfterDeploy, RunFields, IsRecord
    <2>2. CASE Op.op # "deployAndVerify"
      BY <1>6, <2>2, AdvancedFacts, NoCheck DEF AfterDeploy
    <2> QED
      BY <2>1, <2>2
  <1>7. CASE SaveHash
    BY <1>1, <1>2, <1>6, <1>7 DEF SaveHash
  <1>8. CASE AlreadyDeployed
    <2> DEFINE r == [run EXCEPT !.instances = Got(outputs[run.task][Op.name])]
    <2>1. IsRecord(r) /\ r.mode # "CHECK"
      BY <1>1, <1>2 DEF RunFields, IsRecord
    <2>2. run' = AfterDeploy(r)
      BY <1>8 DEF AlreadyDeployed
    <2> HIDE DEF r
    <2> QED
      BY <2>1, <2>2, <1>6
  <1> QED
    BY <1>3, <1>4, <1>5, <1>7, <1>8

LEMMA StepKeepsCheckInv ==
  ASSUME CheckInv, [DeployNext]_deployVars
  PROVE  CheckInv'
PROOF
  <1>1. ASSUME NEW t \in Tasks, EditTask(t)
        PROVE  CheckInv'
    BY <1>1, NoRunFacts, NoCheck DEF EditTask
  <1>2. CASE UNCHANGED deployVars
    <2>1. UNCHANGED <<run, chain, outputs, builds>>
      BY <1>2 DEF deployVars, records
    <2>2. ASSUME NEW t \in Tasks, Checking(t)
          PROVE  Checking(t)'
      BY <2>1, <2>2, ReproducesStays DEF Checking, Took, HasInputs, RecordedAt, input
    <2>3. ASSUME NEW t \in Tasks, Checked(t)
          PROVE  Checked(t)'
      BY <2>1, <2>3, ReproducesStays DEF Checked
    <2> QED
      BY <2>1, <2>2, <2>3 DEF CheckInv, IsRecord
  <1> QED
    BY <1>1, <1>2, StartKeeps, CheckKeeps, SaveDerivedKeeps, OtherStepsKeep
    DEF DeployNext, RunStep

\* A check of deployment-tasks that passes shows that the task, run anew with the inputs
\* on record, would deploy exactly the contracts on record: scripts/check-deployments
\* rests on it, whatever runs were forced, interrupted or repeated before.
THEOREM PassedChecksReproduce == DeploySpec => []CheckedTasksReproduce
PROOF
  <1>1. CheckInv => CheckedTasksReproduce
    BY DEF CheckInv, Checked, CheckedTasksReproduce, Reproduces
  <1> QED
    BY <1>1, InitCheckInv, StepKeepsCheckInv, PTL DEF DeploySpec

-----------------------------------------------------------------------------
\* The contract at an address is one that the i-th operation of a task created, or the
\* one that it saves, and refers to no newer ones than are on record.  A contract that
\* creates another is followed by it.
Made(t, i, address) ==
  LET op == Script(t)[i]
  IN  /\ address \in 1..Len(chain)
      /\ DOMAIN chain[address].args = DOMAIN op.args
      /\ \A k \in DOMAIN op.args :
           /\ op.args[k] \in DOMAIN InputsOf(t) \cup DOMAIN outputs[t]
           /\ chain[address].args[k] \in 1..Len(chain)
           /\ chain[address].args[k] <= ArgsOnRecord(t, i)[k]
      /\ op.op = "save" => chain[address].args[1] = address - 1
      /\ op.op # "save" /\ ChildrenOf(t, op.name) # {} =>
           address + 1 \in 1..Len(chain) /\ chain[address + 1].args = <<address>>

RecordsInv ==
  /\ outputs = [t \in Tasks |-> outputs[t]]
  /\ \E S : chain \in Seq(S)
  /\ \A t \in Tasks : \A n \in DOMAIN outputs[t] : outputs[t][n] \in 1..Len(chain)
  /\ \A t \in Tasks : \A i \in OnRecord(t) : HasInputs(t) /\ Made(t, i, RecordedAt(t, i))

\* A live run has the addresses that its earlier operations put on record, and inputs
\* that were on record when it began.
Has(t, i) ==
  LET name == Script(t)[i].name
  IN  /\ name \in DOMAIN run.instances /\ name \in DOMAIN outputs[t]
      /\ run.instances[name] = outputs[t][name]
Newest(address) ==
  \A u \in Tasks : \A n \in DOMAIN outputs[u] : outputs[u][n] < address

Deploying(t) ==
  /\ run.task = t /\ run.step \in DOMAIN Script(t) /\ run.fork = 0
  /\ run.at \in {"ready", "mined", "saved", "verify"}
  /\ HasInputs(t) /\ DOMAIN run.inputs = DOMAIN InputsOf(t)
  /\ \A k \in DOMAIN InputsOf(t) :
       run.inputs[k] \in 1..Len(chain) /\ run.inputs[k] <= input(t)[k]
  /\ \A i \in 1..(run.step - 1) : Script(t)[i].op # "save" => Has(t, i)
  /\ run.at # "ready" => Script(t)[run.step].op # "save"
  /\ run.at \in {"saved", "verify"} => Has(t, run.step)
  /\ run.at = "mined" =>
       LET name == Script(t)[run.step].name
       IN  /\ name \in DOMAIN run.instances
           /\ Made(t, run.step, run.instances[name])
           /\ Newest(run.instances[name])

DeployInv ==
  /\ RecordsInv
  /\ run.mode = "LIVE" => \E t \in Tasks : Deploying(t)

\* Addresses on record only become newer, and contracts stay what they are.
Grows ==
  /\ Len(chain) \in Nat /\ Len(chain') \in Nat /\ Len(chain) <= Len(chain')
  /\ \A a \in 1..Len(chain) : chain'[a] = chain[a]
  /\ \A u \in Tasks :
       /\ DOMAIN outputs[u] \subseteq DOMAIN outputs'[u]
       /\ \A n \in DOMAIN outputs[u] : /\ outputs[u][n] \in Nat /\ outputs'[u][n] \in Nat
                                      /\ outputs[u][n] <= outputs'[u][n]

LEMMA InputsGrow ==
  ASSUME Grows, NEW t \in Tasks, HasInputs(t)
  PROVE  /\ HasInputs(t)'
         /\ \A k \in DOMAIN InputsOf(t) : /\ input(t)[k] \in Nat /\ input(t)'[k] \in Nat
                                          /\ input(t)[k] <= input(t)'[k]
PROOF
  <1>1. \A k \in DOMAIN InputsOf(t) :
          /\ InputsOf(t)[k].task \in Tasks
          /\ InputsOf(t)[k].name \in DOMAIN outputs[InputsOf(t)[k].task]
    BY TasksAssumption DEF HasInputs
  <1> QED
    BY <1>1 DEF Grows, HasInputs, input

LEMMA MadeStays ==
  ASSUME Grows, NEW t \in Tasks, HasInputs(t), NEW i \in DOMAIN Script(t), NEW address,
         Made(t, i, address)
  PROVE  Made(t, i, address)'
PROOF
  <1> DEFINE op == Script(t)[i]
  <1>1. address \in 1..Len(chain) /\ address \in 1..Len(chain') /\ chain'[address] = chain[address]
    BY DEF Made, Grows
  <1>2. ASSUME NEW k \in DOMAIN op.args
        PROVE  /\ op.args[k] \in DOMAIN InputsOf(t) \cup DOMAIN outputs'[t]
               /\ chain[address].args[k] \in 1..Len(chain')
               /\ chain[address].args[k] <= ArgsOnRecord(t, i)'[k]
    <2>1. /\ op.args[k] \in DOMAIN InputsOf(t) \cup DOMAIN outputs[t]
          /\ chain[address].args[k] \in 1..Len(chain)
          /\ chain[address].args[k] <= ArgsOnRecord(t, i)[k]
      BY DEF Made
    <2>2. DOMAIN input(t) = DOMAIN InputsOf(t) /\ DOMAIN input(t)' = DOMAIN InputsOf(t)
      BY DEF input
    <2>3. CASE op.args[k] \in DOMAIN InputsOf(t)
      BY <2>1, <2>2, <2>3, InputsGrow DEF ArgsOnRecord, ArgsOf, Grows
    <2>4. CASE op.args[k] \notin DOMAIN InputsOf(t)
      BY <2>1, <2>2, <2>4 DEF ArgsOnRecord, ArgsOf, Grows
    <2> QED
      BY <2>3, <2>4
  <1>3. ASSUME op.op # "save", ChildrenOf(t, op.name) # {}
        PROVE  address + 1 \in 1..Len(chain') /\ chain'[address + 1].args = <<address>>
    BY <1>3 DEF Made, Grows
  <1>4. DOMAIN chain[address].args = DOMAIN op.args
    BY DEF Made
  <1>5. op.op = "save" => chain[address].args[1] = address - 1
    BY DEF Made
  <1> QED
    BY <1>1, <1>2, <1>3, <1>4, <1>5 DEF Made

\* If what is put on record for an operation is newer than what was there, and made
\* by it, the records stay in order.
LEMMA PutKeepsRecords ==
  ASSUME RecordsInv, UNCHANGED chain, NEW t \in Tasks, NEW n \in DOMAIN Script(t),
         NEW name, name = Script(t)[n].name, NEW address, HasInputs(t),
         Made(t, n, address),
         outputs' = [outputs EXCEPT ![t] = Put(@, name, address)],
         name \in DOMAIN outputs[t] => outputs[t][name] <= address
  PROVE  RecordsInv' /\ Grows
PROOF
  <1>1. outputs' = [u \in Tasks |-> IF u = t THEN Put(outputs[t], name, address) ELSE outputs[u]]
    BY DEF RecordsInv
  <1>2. /\ DOMAIN outputs'[t] = DOMAIN outputs[t] \cup {name} /\ outputs'[t][name] = address
        /\ \A m \in DOMAIN outputs[t] : m # name => outputs'[t][m] = outputs[t][m]
        /\ \A u \in Tasks : u # t => outputs'[u] = outputs[u]
    BY <1>1 DEF Put
  <1>3. address \in 1..Len(chain) /\ Len(chain) \in Nat /\ Len(chain') = Len(chain)
    BY DEF Made, RecordsInv
  <1>4. \A u \in Tasks : \A m \in DOMAIN outputs[u] : outputs[u][m] \in 1..Len(chain)
    BY DEF RecordsInv
  <1>5. Grows
    <2>1. ASSUME NEW u \in Tasks, NEW m \in DOMAIN outputs[u]
          PROVE  /\ m \in DOMAIN outputs'[u]
                 /\ outputs[u][m] \in Nat /\ outputs'[u][m] \in Nat
                 /\ outputs[u][m] <= outputs'[u][m]
      BY <1>2, <1>3, <1>4
    <2> QED
      BY <1>3, <2>1 DEF Grows
  <1>6. ASSUME NEW u \in Tasks, NEW i \in OnRecord(u)'
        PROVE  HasInputs(u)' /\ Made(u, i, RecordedAt(u, i))'
    <2>1. i \in DOMAIN Script(u) /\ Script(u)[i].name \in DOMAIN outputs'[u]
      BY <1>6 DEF OnRecord
    <2>2. CASE u = t /\ i = n
      <3>1. PICK a : a = address
        OBVIOUS
      <3>2. RecordedAt(u, i)' = a
        BY <1>2, <2>2, <3>1 DEF RecordedAt
      <3>3. Made(t, n, a)'
        BY <1>5, <3>1, MadeStays
      <3> QED
        BY <1>5, <2>2, <3>2, <3>3, InputsGrow DEF Made
    <2>3. CASE u # t \/ i # n
      <3>1. u = t => Script(u)[i].name # name
        BY <2>1, <2>3, ScriptFacts
      <3>2. /\ Script(u)[i].name \in DOMAIN outputs[u]
            /\ outputs'[u][Script(u)[i].name] = outputs[u][Script(u)[i].name]
        BY <1>2, <2>1, <3>1
      <3>3. PICK a : a = RecordedAt(u, i)
        OBVIOUS
      <3>4. HasInputs(u) /\ Made(u, i, a)
        BY <2>1, <3>2, <3>3 DEF RecordsInv, OnRecord
      <3>5. HasInputs(u)' /\ Made(u, i, a)'
        BY <1>5, <2>1, <3>4, InputsGrow, MadeStays
      <3>6. RecordedAt(u, i)' = a
        BY <3>2, <3>3 DEF RecordedAt
      <3> QED
        BY <3>5, <3>6 DEF Made
    <2> QED
      BY <2>2, <2>3
  <1>7. \A u \in Tasks : \A m \in DOMAIN outputs'[u] : outputs'[u][m] \in 1..Len(chain')
    BY <1>2, <1>3, <1>4
  <1>8. outputs' = [u \in Tasks |-> outputs'[u]]
    BY <1>1
  <1>9. \E S : chain' \in Seq(S)
    BY DEF RecordsInv
  <1> QED
    BY <1>5, <1>6, <1>7, <1>8, <1>9 DEF RecordsInv

LEMMA GrowingKeepsRecords ==
  ASSUME RecordsInv, Grows, UNCHANGED outputs, \E S : chain' \in Seq(S)
  PROVE  RecordsInv'
PROOF
  <1>1. ASSUME NEW u \in Tasks, NEW i \in OnRecord(u)'
        PROVE  HasInputs(u)' /\ Made(u, i, RecordedAt(u, i))'
    <2>1. PICK a : a = RecordedAt(u, i)
      OBVIOUS
    <2>2. i \in OnRecord(u) /\ i \in DOMAIN Script(u) /\ RecordedAt(u, i)' = a
      BY <1>1, <2>1 DEF OnRecord, RecordedAt
    <2>3. HasInputs(u) /\ Made(u, i, a)
      BY <2>1, <2>2 DEF RecordsInv
    <2>4. HasInputs(u)' /\ Made(u, i, a)'
      BY <2>2, <2>3, InputsGrow, MadeStays
    <2> QED
      BY <2>2, <2>4 DEF Made
  <1>2. \A u \in Tasks : \A m \in DOMAIN outputs'[u] : outputs'[u][m] \in 1..Len(chain')
    BY DEF RecordsInv, Grows
  <1> QED
    BY <1>1, <1>2 DEF RecordsInv

LEMMA SameRecords ==
  ASSUME RecordsInv, UNCHANGED <<chain, outputs>>
  PROVE  RecordsInv' /\ Grows
PROOF
  <1>1. Grows
    BY DEF RecordsInv, Grows
  <1> QED
    BY <1>1, GrowingKeepsRecords DEF RecordsInv

\* A live run goes on with what it has: its inputs, and what is on record of its own.
HasAll(t, n, instances) ==
  \A i \in 1..n : Script(t)[i].op # "save" =>
    /\ Script(t)[i].name \in DOMAIN instances /\ Script(t)[i].name \in DOMAIN outputs[t]
    /\ instances[Script(t)[i].name] = outputs[t][Script(t)[i].name]
HasItsInputs(t, inputs) ==
  /\ HasInputs(t) /\ DOMAIN inputs = DOMAIN InputsOf(t)
  /\ \A k \in DOMAIN InputsOf(t) : inputs[k] \in 1..Len(chain) /\ inputs[k] <= input(t)[k]

LEMMA InputsStay ==
  ASSUME Grows, NEW t \in Tasks, NEW inputs, HasItsInputs(t, inputs)
  PROVE  HasItsInputs(t, inputs)'
PROOF
  <1>1. HasInputs(t)
    BY DEF HasItsInputs
  <1>2. ASSUME NEW k \in DOMAIN InputsOf(t)
        PROVE  inputs[k] \in 1..Len(chain') /\ inputs[k] <= input(t)'[k]
    BY <1>1, InputsGrow DEF HasItsInputs, Grows
  <1> QED
    BY <1>1, <1>2, InputsGrow DEF HasItsInputs

LEMMA LiveAdvances ==
  ASSUME NEW t \in Tasks, NEW r, IsRecord(r), r.mode = "LIVE", r.task = t, r.fork = 0,
         r.step \in DOMAIN Script(t), HasItsInputs(t, r.inputs)',
         HasAll(t, r.step, r.instances)', run' = Advanced(r), run'.mode = "LIVE"
  PROVE  Deploying(t)'
PROOF
  <1>1. r.step # Len(Script(t)) /\ Script(t) \in Seq(Operations)
    BY AdvancedFacts, ScriptFacts
  <1>2. /\ run'.task = t /\ run'.fork = 0 /\ run'.at = "ready" /\ run'.step = r.step + 1
        /\ run'.inputs = r.inputs /\ run'.instances = r.instances
    BY <1>1, AdvancedFacts
  <1>3. run'.step \in DOMAIN Script(t) /\ run'.step - 1 = r.step
    BY <1>1, <1>2
  <1>4. \A i \in 1..(run'.step - 1) : Script(t)[i].op # "save" => Has(t, i)'
    BY <1>2, <1>3 DEF HasAll, Has
  <1>5. HasInputs(t)' /\ DOMAIN run'.inputs = DOMAIN InputsOf(t)
    BY <1>2 DEF HasItsInputs
  <1>6. \A k \in DOMAIN InputsOf(t) :
          run'.inputs[k] \in 1..Len(chain') /\ run'.inputs[k] <= input(t)'[k]
    BY <1>2 DEF HasItsInputs
  <1> QED
    BY <1>2, <1>3, <1>4, <1>5, <1>6 DEF Deploying

LEMMA LiveAfterDeploy ==
  ASSUME NEW t \in Tasks, NEW r, IsRecord(r), r.mode = "LIVE", r.task = t, r.fork = 0,
         r.step \in DOMAIN Script(t), HasItsInputs(t, r.inputs)',
         HasAll(t, r.step, r.instances)', Script(t)[r.step].op # "save",
         run' = AfterDeploy(r), run'.mode = "LIVE"
  PROVE  Deploying(t)'
PROOF
  <1>1. CASE run' = Advanced(r)
    BY <1>1, LiveAdvances
  <1>2. CASE run' = [r EXCEPT !.at = "verify"]
    <2>1. /\ run'.task = t /\ run'.fork = 0 /\ run'.at = "verify" /\ run'.step = r.step
          /\ run'.inputs = r.inputs /\ run'.instances = r.instances
      BY <1>2 DEF IsRecord, RunFields
    <2>2. Script(t) \in Seq(Operations) /\ r.step \in 1..Len(Script(t))
      BY ScriptFacts
    <2>3. \A i \in 1..run'.step : Script(t)[i].op # "save" => Has(t, i)'
      BY <2>1 DEF HasAll, Has
    <2>4. Has(t, r.step)'
      BY <2>1, <2>2, <2>3
    <2>5. HasInputs(t)' /\ DOMAIN run'.inputs = DOMAIN InputsOf(t)
      BY <2>1 DEF HasItsInputs
    <2>6. \A k \in DOMAIN InputsOf(t) :
            run'.inputs[k] \in 1..Len(chain') /\ run'.inputs[k] <= input(t)'[k]
      BY <2>1 DEF HasItsInputs
    <2>7. \A i \in 1..(run'.step - 1) : Script(t)[i].op # "save" => Has(t, i)'
      BY <2>1, <2>2, <2>3
    <2> QED
      BY <2>1, <2>4, <2>5, <2>6, <2>7 DEF Deploying, Has
  <1> QED
    BY <1>1, <1>2 DEF AfterDeploy

\* What a live run has to go on with, at an operation: its own earlier contracts, and
\* with them the addresses that the operation takes.
LEMMA LiveFacts ==
  ASSUME CheckInv, DeployInv, NEW t \in Tasks, Deploying(t), run.mode = "LIVE"
  PROVE  /\ IsRecord(run) /\ run.task = t /\ run.fork = 0
         /\ run.step \in DOMAIN Script(t) /\ Op = Script(t)[run.step]
         /\ HasItsInputs(t, run.inputs)
         /\ HasAll(t, run.step - 1, run.instances)
         /\ run.at \in {"saved", "verify"} => HasAll(t, run.step, run.instances)
PROOF
  <1>1. /\ IsRecord(run) /\ run.task = t /\ run.fork = 0
        /\ run.step \in DOMAIN Script(t) /\ Op = Script(t)[run.step]
    BY DEF CheckInv, Deploying, Op
  <1>2. HasItsInputs(t, run.inputs)
    BY DEF Deploying, HasItsInputs
  <1>3. HasAll(t, run.step - 1, run.instances)
    BY DEF Deploying, HasAll, Has
  <1>4. run.step \in Nat \ {0}
    BY <1>1, ScriptFacts
  <1>5. ASSUME run.at \in {"saved", "verify"}, NEW i \in 1..run.step, Script(t)[i].op # "save"
        PROVE  Has(t, i)
    <2>1. i = run.step \/ i \in 1..(run.step - 1)
      BY <1>4
    <2> QED
      BY <1>5, <2>1 DEF Deploying
  <1> QED
    BY <1>1, <1>2, <1>3, <1>5 DEF HasAll, Has

LEMMA TakesRecorded ==
  ASSUME CheckInv, DeployInv, NEW t \in Tasks, Deploying(t), run.mode = "LIVE",
         NEW k \in DOMAIN Op.args
  PROVE  /\ Op.args[k] \in DOMAIN InputsOf(t) \cup DOMAIN outputs[t]
         /\ Args[k] \in 1..Len(chain) /\ Args[k] <= ArgsOnRecord(t, run.step)[k]
PROOF
  <1>1. /\ run.step \in DOMAIN Script(t) /\ Op = Script(t)[run.step]
        /\ HasItsInputs(t, run.inputs) /\ HasAll(t, run.step - 1, run.instances)
    BY LiveFacts
  <1>2. DOMAIN run.inputs = DOMAIN InputsOf(t) /\ DOMAIN input(t) = DOMAIN InputsOf(t)
    BY <1>1 DEF HasItsInputs, input
  <1>3. CASE Op.args[k] \in DOMAIN InputsOf(t)
    BY <1>1, <1>2, <1>3 DEF HasItsInputs, Args, ArgsOf, ArgsOnRecord
  <1>4. CASE Op.args[k] \notin DOMAIN InputsOf(t)
    <2>1. PICK j \in 1..(run.step - 1) :
            Script(t)[j].op # "save" /\ Op.args[k] = Script(t)[j].name
      BY <1>1, <1>4, ScriptFacts
    <2>2. /\ Op.args[k] \in DOMAIN outputs[t]
          /\ run.instances[Op.args[k]] = outputs[t][Op.args[k]]
      BY <1>1, <2>1 DEF HasAll
    <2>3. outputs[t][Op.args[k]] \in 1..Len(chain) /\ Len(chain) \in Nat
      BY <2>2 DEF DeployInv, RecordsInv
    <2>4. Args[k] = outputs[t][Op.args[k]] /\ ArgsOnRecord(t, run.step)[k] = outputs[t][Op.args[k]]
      BY <1>1, <1>2, <1>4, <2>2 DEF Args, ArgsOf, ArgsOnRecord
    <2> QED
      BY <2>2, <2>3, <2>4
  <1> QED
    BY <1>3, <1>4

LEMMA SendKeeps ==
  ASSUME CheckInv, DeployInv, NEW t \in Tasks, Deploying(t), run.mode = "LIVE",
         SendDeployment
  PROVE  RecordsInv' /\ Deploying(t)'
PROOF
  <1>1. PICK n, address : n = run.step /\ address = Len(chain) + 1
    OBVIOUS
  <1>2. /\ IsRecord(run) /\ run.task = t /\ run.fork = 0
        /\ n \in DOMAIN Script(t) /\ Op = Script(t)[n]
        /\ HasItsInputs(t, run.inputs) /\ HasAll(t, n - 1, run.instances)
    BY <1>1, LiveFacts
  <1>3. Len(chain) \in Nat /\ address = Len(chain) + run.fork + 1
    BY <1>1, <1>2 DEF DeployInv, RecordsInv
  <1>4. /\ chain' = chain \o Created(t, Op.name, Args, address)
        /\ run' = [At("mined") EXCEPT !.instances = Got(address)]
        /\ UNCHANGED outputs /\ Op.op # "save"
    BY <1>2, <1>3 DEF SendDeployment, Deploys, records
  <1>5. PICK S : chain \in Seq(S)
    BY DEF DeployInv, RecordsInv
  <1>6. /\ \E U : chain' \in Seq(U)
        /\ Len(chain') \in Nat /\ address <= Len(chain')
        /\ \A a \in 1..Len(chain) : chain'[a] = chain[a]
        /\ chain'[address] = Contract(Op.name, Args, builds[t])
        /\ ChildrenOf(t, Op.name) # {} =>
             address + 1 <= Len(chain') /\ chain'[address + 1].args = <<address>>
    <2> DEFINE first == Contract(Op.name, Args, builds[t])
               child == Contract(CHOOSE c \in ChildrenOf(t, Op.name) : TRUE, <<address>>, builds[t])
               U == S \cup {first, child}
    <2>1. chain \in Seq(U) /\ <<first>> \in Seq(U) /\ <<child>> \in Seq(U)
      <3>1. S \subseteq U /\ first \in U /\ child \in U
        OBVIOUS
      <3> HIDE DEF first, child, U
      <3> QED
        BY <1>5, <3>1, SeqMonotonic
    <2>2. child.args = <<address>>
      BY DEF Contract
    <2> HIDE DEF first, child, U
    <2>3. CASE ChildrenOf(t, Op.name) = {}
      <3>1. chain' = chain \o (<<first>> \o <<>>)
        BY <1>4, <2>3 DEF Created, first
      <3>2. chain' = Append(chain, first)
        BY <2>1, <3>1
      <3> QED
        BY <1>1, <1>3, <2>1, <2>3, <3>2 DEF first
    <2>4. CASE ChildrenOf(t, Op.name) # {}
      <3>1. chain' = chain \o (<<first>> \o <<child>>)
        BY <1>4, <2>4 DEF Created, first, child
      <3> DEFINE both == <<first>> \o <<child>>
      <3>2. both \in Seq(U) /\ Len(both) = 2 /\ both[1] = first /\ both[2] = child
        BY <2>1
      <3> HIDE DEF both
      <3>3. /\ chain' \in Seq(U) /\ Len(chain') = Len(chain) + 2
            /\ \A a \in 1..Len(chain) : chain'[a] = chain[a]
            /\ chain'[Len(chain) + 1] = first /\ chain'[Len(chain) + 2] = child
        BY <1>3, <2>1, <3>1, <3>2 DEF both
      <3> QED
        BY <1>1, <1>3, <2>2, <3>3 DEF first
    <2> QED
      BY <2>3, <2>4
  <1>7. Grows
    BY <1>1, <1>3, <1>4, <1>6 DEF Grows, DeployInv, RecordsInv
  <1>8. RecordsInv'
    BY <1>4, <1>6, <1>7, GrowingKeepsRecords DEF DeployInv
  <1>9. Made(t, n, address)'
    <2>1. ASSUME NEW k \in DOMAIN Op.args
          PROVE  /\ Op.args[k] \in DOMAIN InputsOf(t) \cup DOMAIN outputs'[t]
                 /\ Args[k] \in 1..Len(chain') /\ Args[k] <= ArgsOnRecord(t, n)'[k]
      <3>1. ArgsOnRecord(t, n)' = ArgsOnRecord(t, run.step)
        BY <1>1, <1>4 DEF ArgsOnRecord, ArgsOf, input
      <3> QED
        BY <1>3, <1>4, <1>7, <3>1, TakesRecorded DEF Grows
    <2>2. chain'[address].args = Args /\ DOMAIN Args = DOMAIN Op.args
      BY <1>6 DEF Contract, Args, ArgsOf
    <2>3. /\ Script(t)[n] = Op /\ Op.op # "save" /\ address \in 1..Len(chain')
          /\ ChildrenOf(t, Op.name) # {} =>
               address + 1 \in 1..Len(chain') /\ chain'[address + 1].args = <<address>>
      BY <1>1, <1>2, <1>3, <1>4, <1>6
    <2> HIDE DEF Op, Args
    <2> QED
      BY <2>1, <2>2, <2>3 DEF Made
  <1>10. PICK inputs, instances :
           inputs = run.inputs /\ instances = Put(run.instances, Op.name, address)
    OBVIOUS
  <1>11. /\ run'.task = t /\ run'.fork = 0 /\ run'.at = "mined" /\ run'.step = n
         /\ run'.inputs = inputs /\ run'.instances = instances
    BY <1>1, <1>2, <1>4, <1>10 DEF IsRecord, RunFields, At, Got
  <1>12. HasItsInputs(t, inputs)'
    BY <1>2, <1>7, <1>10, InputsStay
  <1>13. ASSUME NEW i \in 1..(n - 1), Script(t)[i].op # "save"
         PROVE  Has(t, i)'
    <2>1. i \in DOMAIN Script(t) /\ i # n
      BY <1>2, ScriptFacts
    <2>2. Script(t)[i].name # Op.name
      BY <1>2, <2>1, ScriptFacts
    <2> QED
      BY <1>2, <1>4, <1>10, <1>11, <1>13, <2>2 DEF HasAll, Has, Put
  <1>14. Newest(address)'
    BY <1>1, <1>3, <1>4 DEF Newest, DeployInv, RecordsInv
  <1>15. Op.name \in DOMAIN instances /\ instances[Op.name] = address
    BY <1>10 DEF Put
  <1> QED
    BY <1>2, <1>4, <1>8, <1>9, <1>11, <1>12, <1>13, <1>14, <1>15, ZenonT(60)
    DEF Deploying, HasItsInputs, Made, Newest

LEMMA SaveInstanceKeeps ==
  ASSUME CheckInv, DeployInv, NEW t \in Tasks, Deploying(t), run.mode = "LIVE", SaveInstance
  PROVE  RecordsInv' /\ Deploying(t)'
PROOF
  <1>1. PICK n, inputs, instances :
          n = run.step /\ inputs = run.inputs /\ instances = run.instances
    OBVIOUS
  <1>2. PICK name, address : name = Op.name /\ address = instances[name]
    OBVIOUS
  <1>3. /\ IsRecord(run) /\ run.task = t /\ run.fork = 0 /\ run.at = "mined"
        /\ n \in DOMAIN Script(t) /\ name = Script(t)[n].name /\ Script(t)[n].op # "save"
        /\ HasItsInputs(t, inputs) /\ HasAll(t, n - 1, instances)
    BY <1>1, <1>2, LiveFacts DEF SaveInstance, Deploying
  <1>4. HasInputs(t) /\ name \in DOMAIN instances /\ Made(t, n, address) /\ Newest(address)
    BY <1>1, <1>2, <1>3 DEF Deploying
  <1>5. outputs' = [outputs EXCEPT ![t] = Put(@, name, address)] /\ UNCHANGED chain
    BY <1>1, <1>2, <1>3 DEF SaveInstance, save
  <1>6. name \in DOMAIN outputs[t] => outputs[t][name] <= address
    BY <1>4 DEF Newest, DeployInv, RecordsInv, Made
  <1>7. RecordsInv' /\ Grows
    BY <1>3, <1>4, <1>5, <1>6, PutKeepsRecords DEF DeployInv
  <1>8. /\ run'.task = t /\ run'.fork = 0 /\ run'.at = "saved" /\ run'.step = n
        /\ run'.inputs = inputs /\ run'.instances = instances
    BY <1>1, <1>3 DEF SaveInstance, At, IsRecord, RunFields
  <1>9. HasItsInputs(t, inputs)'
    BY <1>3, <1>7, InputsStay
  <1>10. outputs'[t] = Put(outputs[t], name, address)
    BY <1>5 DEF DeployInv, RecordsInv
  <1>11. ASSUME NEW i \in 1..(n - 1), Script(t)[i].op # "save"
         PROVE  Has(t, i)'
    <2>1. i \in DOMAIN Script(t) /\ i # n
      BY <1>3, ScriptFacts
    <2>2. Script(t)[i].name # name
      BY <1>3, <2>1, ScriptFacts
    <2> QED
      BY <1>3, <1>8, <1>10, <1>11, <2>2 DEF HasAll, Has, Put
  <1>12. Has(t, n)'
    BY <1>2, <1>3, <1>4, <1>8, <1>10 DEF Has, Put
  <1> QED
    BY <1>3, <1>7, <1>8, <1>9, <1>11, <1>12 DEF Deploying, HasItsInputs, Has

\* Steps that change nothing but the run.
LEMMA SaveHashKeeps ==
  ASSUME CheckInv, DeployInv, NEW t \in Tasks, Deploying(t), run.mode = "LIVE", SaveHash,
         run'.mode = "LIVE"
  PROVE  RecordsInv' /\ Deploying(t)'
PROOF
  <1>1. RecordsInv' /\ Grows /\ UNCHANGED outputs /\ run' = AfterDeploy(run) /\ run.at = "saved"
    BY SameRecords DEF SaveHash, DeployInv
  <1>2. PICK r : r = run
    OBVIOUS
  <1>3. /\ IsRecord(r) /\ r.task = t /\ r.fork = 0 /\ r.mode = "LIVE"
        /\ r.step \in DOMAIN Script(t) /\ Script(t)[r.step].op # "save"
        /\ HasItsInputs(t, r.inputs) /\ HasAll(t, r.step, r.instances)
    BY <1>1, <1>2, LiveFacts DEF Deploying
  <1>4. HasItsInputs(t, r.inputs)' /\ HasAll(t, r.step, r.instances)'
    BY <1>1, <1>3, InputsStay DEF HasAll
  <1> QED
    BY <1>1, <1>2, <1>3, <1>4, LiveAfterDeploy

LEMMA AlreadyDeployedKeeps ==
  ASSUME CheckInv, DeployInv, NEW t \in Tasks, Deploying(t), run.mode = "LIVE",
         AlreadyDeployed, run'.mode = "LIVE"
  PROVE  RecordsInv' /\ Deploying(t)'
PROOF
  <1>1. RecordsInv' /\ Grows /\ UNCHANGED outputs
    BY SameRecords DEF AlreadyDeployed, DeployInv, records
  <1>2. PICK n, r : n = run.step /\ r = [run EXCEPT !.instances = Got(outputs[t][Op.name])]
    OBVIOUS
  <1>3. /\ IsRecord(run) /\ run.task = t /\ run.fork = 0
        /\ n \in DOMAIN Script(t) /\ Op = Script(t)[n]
        /\ HasItsInputs(t, run.inputs) /\ HasAll(t, n - 1, run.instances)
    BY <1>2, LiveFacts
  <1>4. run' = AfterDeploy(r) /\ Op.op # "save" /\ Op.name \in DOMAIN outputs[t]
    BY <1>2, <1>3 DEF AlreadyDeployed, Deploys, AlreadyRecorded
  <1>5. /\ IsRecord(r) /\ r.task = t /\ r.fork = 0 /\ r.mode = "LIVE" /\ r.step = n
        /\ r.inputs = run.inputs /\ r.instances = Got(outputs[t][Op.name])
    BY <1>2, <1>3 DEF IsRecord, RunFields
  <1>6. HasItsInputs(t, r.inputs)'
    <2>1. HasItsInputs(t, r.inputs)
      BY <1>3, <1>5
    <2> QED
      BY <1>1, <2>1, InputsStay
  <1>7. HasAll(t, n, r.instances)'
    <2>1. ASSUME NEW i \in 1..n, Script(t)[i].op # "save"
          PROVE  LET name == Script(t)[i].name
                 IN  /\ name \in DOMAIN r.instances /\ name \in DOMAIN outputs[t]
                     /\ r.instances[name] = outputs[t][name]
      <3>1. CASE i = n
        BY <1>3, <1>4, <1>5, <3>1 DEF Got, Put
      <3>2. CASE i # n
        <4>1. i \in 1..(n - 1) /\ i \in DOMAIN Script(t)
          BY <1>3, <3>2, ScriptFacts
        <4>2. Script(t)[i].name # Op.name
          BY <1>3, <3>2, <4>1, ScriptFacts
        <4> QED
          BY <1>3, <1>5, <2>1, <4>1, <4>2 DEF HasAll, Got, Put
      <3> QED
        BY <3>1, <3>2
    <2> QED
      BY <1>1, <2>1 DEF HasAll
  <1> QED
    BY <1>1, <1>3, <1>4, <1>5, <1>6, <1>7, LiveAfterDeploy

LEMMA VerificationKeeps ==
  ASSUME CheckInv, DeployInv, NEW t \in Tasks, Deploying(t), run.mode = "LIVE",
         VerifyContract \/ SkipVerification, run'.mode = "LIVE"
  PROVE  RecordsInv' /\ Deploying(t)'
PROOF
  <1>1. /\ RecordsInv' /\ Grows /\ UNCHANGED outputs
        /\ run' = Advanced(run) /\ run.at = "verify"
    BY SameRecords DEF VerifyContract, SkipVerification, DeployInv, records
  <1>2. PICK r : r = run
    OBVIOUS
  <1>3. /\ IsRecord(r) /\ r.task = t /\ r.fork = 0 /\ r.mode = "LIVE"
        /\ r.step \in DOMAIN Script(t)
        /\ HasItsInputs(t, r.inputs) /\ HasAll(t, r.step, r.instances)
    BY <1>1, <1>2, LiveFacts
  <1>4. HasItsInputs(t, r.inputs)' /\ HasAll(t, r.step, r.instances)'
    BY <1>1, <1>3, InputsStay DEF HasAll
  <1> QED
    BY <1>1, <1>2, <1>3, <1>4, LiveAdvances

\* The contract that another one created is saved next to the one that is on record,
\* which replaces a child of the same or of an older one.
LEMMA LiveSaveDerivedKeeps ==
  ASSUME CheckInv, DeployInv, NEW t \in Tasks, Deploying(t), run.mode = "LIVE", SaveDerived
  PROVE  RecordsInv' /\ (run'.mode = "LIVE" => Deploying(t)')
PROOF
  <1>1. PICK n, r, name, creator :
          n = run.step /\ r = run /\ name = Op.name /\ creator = Op.args[1]
    OBVIOUS
  <1>2. /\ IsRecord(r) /\ r.task = t /\ r.fork = 0 /\ r.mode = "LIVE" /\ r.step = n
        /\ n \in DOMAIN Script(t) /\ Op = Script(t)[n]
        /\ HasItsInputs(t, r.inputs) /\ HasAll(t, n - 1, r.instances)
    BY <1>1, LiveFacts
  <1>3. Op.op = "save" /\ run' = Advanced(r) /\ UNCHANGED chain
    BY <1>1 DEF SaveDerived
  <1>4. PICK j \in 1..(n - 1) : Script(t)[j].op # "save" /\ creator = Script(t)[j].name
    BY <1>1, <1>2, <1>3, ScriptFacts
  <1>5. /\ j \in DOMAIN Script(t) /\ j # n /\ creator # name
        /\ creator \notin DOMAIN InputsOf(t)
    BY <1>1, <1>2, <1>4, ScriptFacts
  <1>6. DOMAIN Op.args = {1} /\ Op.args = <<creator>>
    <2>1. Op \in Operations
      BY <1>2, ScriptFacts
    <2>2. Op.args \in Seq(STRING) /\ Len(Op.args) = 1
      BY <1>2, <1>3, <2>1, ScriptFacts DEF Operations
    <2> QED
      BY <1>1, <2>2
  <1>7. PICK a : a = outputs[t][creator]
    OBVIOUS
  <1>8. creator \in DOMAIN outputs[t] /\ r.instances[creator] = a
    BY <1>2, <1>4, <1>7 DEF HasAll
  <1>9. Made(t, j, a) /\ HasInputs(t)
    BY <1>4, <1>5, <1>7, <1>8 DEF DeployInv, RecordsInv, OnRecord, RecordedAt
  <1>10. ChildrenOf(t, creator) # {}
    <2>1. Op \in {Script(t)[i] : i \in DOMAIN Script(t)}
      BY <1>2
    <2>2. Op \in {o \in {Script(t)[i] : i \in DOMAIN Script(t)} :
                   o.op = "save" /\ o.args = <<creator>>}
      BY <1>3, <1>6, <2>1
    <2> QED
      BY <2>2 DEF ChildrenOf
  <1>11. a \in 1..Len(chain) /\ a + 1 \in 1..Len(chain) /\ chain[a + 1].args = <<a>>
    BY <1>4, <1>9, <1>10 DEF Made
  <1>12. ArgsOnRecord(t, n)[1] = a
    <2>1. DOMAIN input(t) = DOMAIN InputsOf(t)
      BY DEF input
    <2> QED
      BY <1>1, <1>2, <1>5, <1>6, <1>7, <2>1 DEF ArgsOnRecord, ArgsOf
  <1>13. Made(t, n, a + 1)
    <2>1. DOMAIN chain[a + 1].args = {1} /\ chain[a + 1].args[1] = a
      BY <1>11
    <2>2. Len(chain) \in Nat
      BY DEF DeployInv, RecordsInv
    <2> QED
      BY <1>2, <1>3, <1>6, <1>8, <1>11, <1>12, <2>1, <2>2 DEF Made
  <1>14. name \in DOMAIN outputs[t] => outputs[t][name] <= a + 1
    <2>1. SUFFICES ASSUME name \in DOMAIN outputs[t]
                   PROVE  outputs[t][name] <= a + 1
      OBVIOUS
    <2>2. outputs[t][name] = RecordedAt(t, n) /\ n \in OnRecord(t)
      BY <1>1, <1>2, <2>1 DEF OnRecord, RecordedAt
    <2>3. Made(t, n, outputs[t][name])
      BY <2>2 DEF DeployInv, RecordsInv
    <2>4. chain[outputs[t][name]].args[1] = outputs[t][name] - 1
      BY <1>2, <1>3, <2>3 DEF Made
    <2>5. chain[outputs[t][name]].args[1] <= a /\ outputs[t][name] \in 1..Len(chain)
      BY <1>2, <1>6, <1>12, <2>3 DEF Made
    <2> QED
      BY <1>11, <2>4, <2>5
  <1>15. outputs' = [outputs EXCEPT ![t] = Put(@, name, a + 1)]
    BY <1>1, <1>2, <1>8 DEF SaveDerived, save
  <1>16. RecordsInv' /\ Grows
    BY <1>1, <1>2, <1>3, <1>9, <1>13, <1>14, <1>15, PutKeepsRecords DEF DeployInv
  <1>17. HasItsInputs(t, r.inputs)'
    BY <1>2, <1>16, InputsStay
  <1>18. HasAll(t, n, r.instances)'
    <2>1. outputs'[t] = Put(outputs[t], name, a + 1)
      BY <1>15 DEF DeployInv, RecordsInv
    <2>2. ASSUME NEW i \in 1..n, Script(t)[i].op # "save"
          PROVE  LET own == Script(t)[i].name
                 IN  /\ own \in DOMAIN r.instances /\ own \in DOMAIN outputs'[t]
                     /\ r.instances[own] = outputs'[t][own]
      <3>1. i \in 1..(n - 1) /\ i \in DOMAIN Script(t) /\ i # n
        BY <1>2, <1>3, <2>2, ScriptFacts
      <3>2. Script(t)[i].name # name
        BY <1>1, <1>2, <3>1, ScriptFacts
      <3> QED
        BY <1>2, <2>1, <2>2, <3>1, <3>2 DEF HasAll, Put
    <2> QED
      BY <2>2 DEF HasAll
  <1> QED
    BY <1>2, <1>3, <1>16, <1>17, <1>18, LiveAdvances

LEMMA LiveStartKeeps ==
  ASSUME DeployInv, NEW t \in Tasks, NEW mode \in Modes, NEW force \in BOOLEAN,
         Start(t, mode, force), run'.mode = "LIVE"
  PROVE  RecordsInv' /\ Deploying(t)'
PROOF
  <1>1. RecordsInv' /\ Grows /\ UNCHANGED <<chain, outputs>>
    BY SameRecords DEF Start, DeployInv, records
  <1>2. HasInputs(t)
    BY NoRunFacts DEF Start
  <1>3. run' = [NoRun EXCEPT !.task = t, !.mode = mode, !.force = force, !.step = 1,
                             !.at = "ready", !.inputs = input(t)]
    BY <1>2 DEF Start
  <1>4. /\ run'.task = t /\ run'.step = 1 /\ run'.fork = 0 /\ run'.at = "ready"
        /\ run'.inputs = input(t)
    BY <1>3 DEF NoRun
  <1>5. 1 \in DOMAIN Script(t)
    BY ScriptFacts
  <1>6. ASSUME NEW k \in DOMAIN InputsOf(t)
        PROVE  input(t)[k] \in 1..Len(chain)
    BY <1>2, TasksAssumption DEF HasInputs, input, DeployInv, RecordsInv
  <1>7. HasInputs(t)' /\ input(t)' = input(t) /\ DOMAIN input(t) = DOMAIN InputsOf(t)
    BY <1>1, <1>2 DEF HasInputs, input
  <1>8. Len(chain) \in Nat
    BY DEF DeployInv, RecordsInv
  <1>9. \A i \in 1..(run'.step - 1) : FALSE
    BY <1>4
  <1>10. \A k \in DOMAIN InputsOf(t) :
           run'.inputs[k] \in 1..Len(chain') /\ run'.inputs[k] <= input(t)'[k]
    BY <1>1, <1>4, <1>6, <1>7, <1>8
  <1> QED
    BY <1>1, <1>4, <1>5, <1>7, <1>9, <1>10 DEF Deploying

\* A run that is not live leaves the records alone, and does not become live.
LEMMA OnlyLiveSteps ==
  ASSUME [DeployNext]_deployVars, run.mode # "LIVE"
  PROVE  UNCHANGED <<chain, records>>
PROOF
  <1>1. CASE SendDeployment \/ AlreadyDeployed \/ VerifyContract \/ SkipVerification
    BY <1>1 DEF SendDeployment, AlreadyDeployed, VerifyContract, SkipVerification
  <1>2. CASE SaveInstance \/ SaveDerived \/ SaveHash
    BY <1>2 DEF SaveInstance, SaveDerived, SaveHash, save, records
  <1>3. CASE check \/ RefuseDeployment \/ Interrupt
    BY <1>3 DEF check, RefuseDeployment, Interrupt
  <1>4. ASSUME NEW t \in Tasks, EditTask(t) \/ \E mode \in Modes, force \in BOOLEAN :
                                                 Start(t, mode, force)
        PROVE  UNCHANGED <<chain, records>>
    BY <1>4 DEF EditTask, Start
  <1>5. CASE UNCHANGED deployVars
    BY <1>5 DEF deployVars
  <1> QED
    BY <1>1, <1>2, <1>3, <1>4, <1>5 DEF DeployNext, RunStep

LEMMA OthersStayOthers ==
  ASSUME CheckInv, RunStep, run.mode # "LIVE"
  PROVE  run'.mode # "LIVE"
PROOF
  <1>1. IsRecord(run)
    BY DEF CheckInv
  <1>2. ASSUME NEW r, IsRecord(r), r.mode = run.mode
        PROVE  Advanced(r).mode # "LIVE" /\ AfterDeploy(r).mode # "LIVE"
    <2>1. Advanced(r).mode # "LIVE"
      <3>1. CASE r.step = Len(Script(r.task)) /\ r.mode = "CHECK"
        BY <3>1 DEF Advanced, Ended, NoRun
      <3>2. CASE r.step # Len(Script(r.task)) \/ r.mode # "CHECK"
        BY <1>2, <3>2, AdvancedFacts
      <3> QED
        BY <3>1, <3>2
    <2>2. [r EXCEPT !.at = "verify"].mode = r.mode
      BY <1>2 DEF IsRecord, RunFields
    <2> QED
      BY <1>2, <2>1, <2>2 DEF AfterDeploy
  <1>3. CASE SendDeployment \/ SaveInstance
    BY <1>1, <1>3 DEF SendDeployment, SaveInstance, At, IsRecord, RunFields
  <1>4. CASE SaveHash \/ VerifyContract \/ SkipVerification \/ SaveDerived
    BY <1>1, <1>2, <1>4 DEF SaveHash, VerifyContract, SkipVerification, SaveDerived
  <1>5. CASE AlreadyDeployed
    BY <1>5 DEF AlreadyDeployed
  <1>6. CASE check
    <2> DEFINE r == [run EXCEPT !.instances = Got(outputs[run.task][Op.name])]
    <2>1. IsRecord(r) /\ r.mode = run.mode
      BY <1>1 DEF IsRecord, RunFields
    <2>2. run' = Advanced(r) \/ run' = NoRun
      BY <1>6 DEF check
    <2> HIDE DEF r
    <2> QED
      BY <1>2, <2>1, <2>2, NoRunFacts
  <1>7. CASE RefuseDeployment
    BY <1>7, NoRunFacts DEF RefuseDeployment
  <1> QED
    BY <1>3, <1>4, <1>5, <1>6, <1>7 DEF RunStep

LEMMA StepKeepsDeployInv ==
  ASSUME CheckInv, DeployInv, [DeployNext]_deployVars
  PROVE  DeployInv'
PROOF
  <1>1. ASSUME NEW t \in Tasks, NEW mode \in Modes, NEW force \in BOOLEAN,
               Start(t, mode, force)
        PROVE  DeployInv'
    <2>1. RecordsInv'
      BY <1>1, SameRecords DEF Start, DeployInv, records
    <2> QED
      BY <1>1, <2>1, LiveStartKeeps DEF DeployInv
  <1>2. CASE Interrupt \/ \E t \in Tasks : EditTask(t)
    <2>1. run' = NoRun /\ UNCHANGED <<chain, outputs>>
      BY <1>2 DEF Interrupt, EditTask, records
    <2> QED
      BY <2>1, SameRecords, NoRunFacts DEF DeployInv
  <1>3. CASE RunStep /\ run.mode # "LIVE"
    <2>1. UNCHANGED <<chain, outputs>> /\ run'.mode # "LIVE"
      BY <1>3, OnlyLiveSteps, OthersStayOthers DEF records
    <2> QED
      BY <2>1, SameRecords DEF DeployInv
  <1>4. CASE RunStep /\ run.mode = "LIVE"
    <2>1. PICK t \in Tasks : Deploying(t)
      BY <1>4 DEF DeployInv
    <2>2. RunStep => \/ SendDeployment \/ SaveInstance \/ SaveHash \/ AlreadyDeployed
                     \/ VerifyContract \/ SkipVerification \/ SaveDerived
      BY <1>4 DEF RunStep, check, RefuseDeployment
    <2>3. CASE SendDeployment
      BY <1>4, <2>1, <2>3, SendKeeps DEF DeployInv
    <2>4. CASE SaveInstance
      BY <1>4, <2>1, <2>4, SaveInstanceKeeps DEF DeployInv
    <2>5. CASE SaveDerived
      BY <1>4, <2>1, <2>5, LiveSaveDerivedKeeps DEF DeployInv
    <2>6. CASE SaveHash
      BY <1>4, <2>1, <2>6, SaveHashKeeps, SameRecords DEF DeployInv, SaveHash
    <2>7. CASE AlreadyDeployed
      BY <1>4, <2>1, <2>7, AlreadyDeployedKeeps, SameRecords
      DEF DeployInv, AlreadyDeployed, records
    <2>8. CASE VerifyContract \/ SkipVerification
      BY <1>4, <2>1, <2>8, VerificationKeeps, SameRecords
      DEF DeployInv, VerifyContract, SkipVerification, records
    <2> QED
      BY <1>4, <2>2, <2>3, <2>4, <2>5, <2>6, <2>7, <2>8
  <1>5. CASE UNCHANGED deployVars
    <2>1. UNCHANGED <<chain, outputs, run>>
      BY <1>5 DEF deployVars, records
    <2>2. RecordsInv' /\ Grows
      BY <2>1, SameRecords DEF DeployInv
    <2>3. ASSUME NEW t \in Tasks, Deploying(t)
          PROVE  Deploying(t)'
      BY <2>1, <2>3, ZenonT(60) DEF Deploying, Made, Has, Newest, HasInputs, input, ArgsOnRecord, ArgsOf
    <2> QED
      BY <2>1, <2>2, <2>3 DEF DeployInv
  <1> QED
    BY <1>1, <1>2, <1>3, <1>4, <1>5 DEF DeployNext

LEMMA InitDeployInv == DeployInit => DeployInv
PROOF
  <1> SUFFICES ASSUME DeployInit
               PROVE  RecordsInv
    BY NoRunFacts DEF DeployInv, DeployInit
  <1>1. Earlier \in Seq(Tasks) /\ Len(Earlier) \in Nat /\ DOMAIN Earlier = 1..Len(Earlier)
    BY TasksAssumption
  <1>2. chain = [i \in 1..Len(Earlier) |-> Contract(Script(Earlier[i])[1].name, <<>>, 0)]
    BY <1>1 DEF DeployInit
  <1>3. /\ \E S : chain \in Seq(S)
        /\ Len(chain) = Len(Earlier)
    <2> DEFINE S == {Contract(Script(Earlier[i])[1].name, <<>>, 0) : i \in 1..Len(Earlier)}
    <2>1. \A i \in 1..Len(Earlier) : Contract(Script(Earlier[i])[1].name, <<>>, 0) \in S
      OBVIOUS
    <2> HIDE DEF S
    <2>2. chain \in Seq(S)
      BY <1>1, <1>2, <2>1, IsASeq
    <2>3. 1..Len(chain) = 1..Len(Earlier) /\ Len(chain) \in Nat
      BY <1>2, <2>2, LenProperties
    <2>4. \A m, n \in Nat : 1..m = 1..n => m = n
      <3>1. \A m, n \in Nat : 1..m = 1..n => m <= n
        <4>1. ASSUME NEW m \in Nat, NEW n \in Nat, 1..m = 1..n, ~(m <= n)
              PROVE  FALSE
          <5>1. m \in 1..m
            BY <4>1
          <5> QED
            BY <4>1, <5>1
        <4> QED
          BY <4>1
      <3> QED
        BY <3>1
    <2>5. Len(chain) = Len(Earlier)
      BY <1>1, <2>3, <2>4
    <2> QED
      BY <2>2, <2>5
  <1>4. \A i \in 1..Len(Earlier) : chain[i].args = <<>>
    BY <1>2 DEF Contract
  <1>5. ASSUME NEW t \in Tasks
        PROVE  outputs[t] = [n \in {chain[i].name : i \in {j \in DOMAIN Earlier : Earlier[j] = t}} |->
                               CHOOSE i \in DOMAIN Earlier : Earlier[i] = t]
    BY DEF DeployInit
  <1>6. ASSUME NEW t \in Tasks, NEW n \in DOMAIN outputs[t]
        PROVE  outputs[t][n] \in 1..Len(chain) /\ Earlier[outputs[t][n]] = t
    <2>1. \E i \in DOMAIN Earlier : Earlier[i] = t
      <3>1. DOMAIN outputs[t] = {chain[i].name : i \in {j \in DOMAIN Earlier : Earlier[j] = t}}
        BY <1>5
      <3> QED
        BY <1>6, <3>1
    <2>2. outputs[t][n] = CHOOSE j \in DOMAIN Earlier : Earlier[j] = t
      <3> DEFINE first == CHOOSE j \in DOMAIN Earlier : Earlier[j] = t
                 names == {chain[i].name : i \in {j \in DOMAIN Earlier : Earlier[j] = t}}
      <3>1. outputs[t] = [m \in names |-> first]
        BY <1>5
      <3> HIDE DEF first, names
      <3>2. n \in names
        BY <1>6, <3>1
      <3>3. outputs[t][n] = first
        BY <3>1, <3>2
      <3> QED
        BY <3>3 DEF first
    <2> QED
      BY <1>1, <1>3, <2>1, <2>2
  <1>7. ASSUME NEW t \in Tasks, NEW i \in OnRecord(t)
        PROVE  HasInputs(t) /\ Made(t, i, RecordedAt(t, i))
    <2>1. PICK a : a = RecordedAt(t, i)
      OBVIOUS
    <2>2. i \in DOMAIN Script(t) /\ a \in 1..Len(Earlier) /\ Earlier[a] = t
      BY <1>3, <1>6, <1>7, <2>1 DEF OnRecord, RecordedAt
    <2>3. DOMAIN InputsOf(t) = {} /\ Len(Script(t)) = 1 /\ Script(t)[1].args = <<>>
      BY <1>1, <2>2, TasksAssumption
    <2>4. i = 1 /\ DOMAIN Script(t) = {1} /\ Script(t)[i].args = <<>>
      BY <2>2, <2>3, ScriptFacts
    <2>5. Script(t)[i].op # "save"
      BY <2>2, <2>4, ScriptFacts
    <2>6. \A name : ChildrenOf(t, name) = {}
      BY <2>4, <2>5 DEF ChildrenOf
    <2> QED
      BY <1>1, <1>3, <1>4, <2>1, <2>2, <2>3, <2>4, <2>5, <2>6 DEF Made, HasInputs
  <1> QED
    BY <1>3, <1>6, <1>7 DEF RecordsInv, DeployInit

\* The records of deployment-tasks hang together: whatever runs are forced, interrupted
\* or repeated, a contract on record was created with the addresses that are on record
\* for its arguments, or with older ones that a later deployment replaced.
THEOREM RecordsHangTogether == DeploySpec => []StaleOnlyByLaterDeployment
PROOF
  <1>1. DeployInv => StaleOnlyByLaterDeployment
    BY DEF DeployInv, RecordsInv, Made, StaleOnlyByLaterDeployment, OnRecord
  <1> QED
    BY <1>1, InitCheckInv, StepKeepsCheckInv, InitDeployInv, StepKeepsDeployInv, PTL
    DEF DeploySpec

\* No run but a live one changes the network or the files kept of it, though save does
\* not look at the mode before it writes, and a fork test deploys as a live run does.
THEOREM RecordsAreOfLiveRuns == DeploySpec => OnlyLiveRunsRecord
PROOF
  <1>1. [DeployNext]_deployVars => [run.mode # "LIVE" => UNCHANGED <<chain, records>>]_deployVars
    BY OnlyLiveSteps
  <1> QED
    BY <1>1, PTL DEF DeploySpec, OnlyLiveRunsRecord

-----------------------------------------------------------------------------
\* A sequence of anything.
Listed(s) == \E S : s \in Seq(S)

\* A contract that is created gets the next address, and leaves the others theirs.
LEMMA ListedAppend ==
  ASSUME NEW s, Listed(s), NEW e
  PROVE  /\ Listed(Append(s, e)) /\ Len(s) \in Nat /\ Len(Append(s, e)) = Len(s) + 1
         /\ \A x \in 1..Len(s) : Append(s, e)[x] = s[x]
         /\ Append(s, e)[Len(s) + 1] = e
<1>1. PICK S : s \in Seq(S)
  BY DEF Listed
<1> DEFINE R == S \cup {e}
<1>2. s \in Seq(R) /\ e \in R
  <2>1. S \subseteq R /\ e \in R
    OBVIOUS
  <2> HIDE DEF R
  <2> QED BY <1>1, <2>1, SeqMonotonic
<1> HIDE DEF R
<1>3. Append(s, e) \in Seq(R)
  BY <1>2, AppendProperties
<1> QED BY <1>2, <1>3, AppendProperties, LenProperties DEF Listed

\* Addresses on record are of contracts; what a task deployed is of that name and created
\* by nobody else, and only Pools are created by others.
ContractsInv ==
  /\ Listed(contracts)
  /\ \A c \in 1..Len(contracts) : contracts[c].creator # Nobody => contracts[c].name \in Pools
  /\ DOMAIN deployed = TaskIds /\ deployed = [t \in TaskIds |-> deployed[t]]
  /\ DOMAIN actionIds = TaskIds /\ actionIds = [t \in TaskIds |-> actionIds[t]]
  /\ \A t \in TaskIds : \A name \in DOMAIN deployed[t] :
       /\ deployed[t][name] \in 1..Len(contracts)
       /\ contracts[deployed[t][name]].name = name
       /\ contracts[deployed[t][name]].creator = Nobody
  /\ \A t \in TaskIds : \A name \in DOMAIN actionIds[t] :
       actionIds[t][name].factoryOutput \in {Nobody} \cup (1..Len(contracts))

\* Addresses are numbers from 1.
LEMMA ListedDomain == ASSUME NEW s, Listed(s) PROVE DOMAIN s = 1..Len(s) /\ Len(s) \in Nat
BY DEF Listed

\* A contract that a task deploys again, or a Pool that a factory creates, has an address
\* that nothing on record has been given before.
LEMMA CreatesKeeps ==
  ASSUME ContractsInv, NEW t \in TaskIds, NEW name, NEW abi, NEW creator, Creates(name, abi, creator),
         creator # Nobody => name \in Pools,
         UNCHANGED deployed \/ (creator = Nobody /\ deployed' = [deployed EXCEPT ![t] = With(@, name, Len(contracts) + 1)])
  PROVE  ContractsInv'
<1> DEFINE new == [name |-> name, abi |-> abi, creator |-> creator]
<1>1. contracts' = Append(contracts, new) /\ actionIds' = actionIds
  BY DEF Creates, onFile
<1>2. new.name = name /\ new.creator = creator
  OBVIOUS
<1> HIDE DEF new
<1>3. /\ Listed(contracts') /\ Len(contracts) \in Nat /\ Len(contracts') = Len(contracts) + 1
      /\ \A x \in 1..Len(contracts) : contracts'[x] = contracts[x]
      /\ contracts'[Len(contracts) + 1] = new
  BY <1>1, ListedAppend DEF ContractsInv
<1>4. \A c \in 1..Len(contracts') : c \in 1..Len(contracts) \/ c = Len(contracts) + 1
  BY <1>3
<1>5. \A c \in 1..Len(contracts') : contracts'[c].creator # Nobody => contracts'[c].name \in Pools
  BY <1>2, <1>3, <1>4 DEF ContractsInv
<1>6. \A u \in TaskIds : \A m \in DOMAIN actionIds'[u] :
        actionIds'[u][m].factoryOutput \in {Nobody} \cup (1..Len(contracts'))
  BY <1>1, <1>3 DEF ContractsInv
<1>7. \A u \in TaskIds : \A m \in DOMAIN deployed[u] :
        /\ deployed[u][m] \in 1..Len(contracts')
        /\ contracts'[deployed[u][m]].name = m
        /\ contracts'[deployed[u][m]].creator = Nobody
  BY <1>3 DEF ContractsInv
<1>8. CASE UNCHANGED deployed
  BY <1>1, <1>3, <1>5, <1>6, <1>7, <1>8 DEF ContractsInv
<1>9. CASE creator = Nobody /\ deployed' = [deployed EXCEPT ![t] = With(@, name, Len(contracts) + 1)]
  <2> DEFINE put == With(deployed[t], name, Len(contracts) + 1)
  <2>1. /\ DOMAIN put = {name} \cup DOMAIN deployed[t] /\ put[name] = Len(contracts) + 1
        /\ \A x \in DOMAIN deployed[t] : x # name => put[x] = deployed[t][x]
    BY DEF With
  <2>2. /\ DOMAIN deployed' = TaskIds /\ deployed' = [u \in TaskIds |-> deployed'[u]]
        /\ \A u \in TaskIds : deployed'[u] = IF u = t THEN put ELSE deployed[u]
    BY <1>9 DEF ContractsInv
  <2> HIDE DEF put
  <2>3. ASSUME NEW u \in TaskIds, NEW m \in DOMAIN deployed'[u]
        PROVE  /\ deployed'[u][m] \in 1..Len(contracts')
               /\ contracts'[deployed'[u][m]].name = m
               /\ contracts'[deployed'[u][m]].creator = Nobody
    <3>1. CASE u = t /\ m = name
      <4>1. deployed'[u][m] = Len(contracts) + 1
        BY <3>1, <2>1, <2>2
      <4> QED BY <4>1, <3>1, <1>2, <1>3, <1>9
    <3>2. CASE ~(u = t /\ m = name)
      <4>1. m \in DOMAIN deployed[u] /\ deployed'[u][m] = deployed[u][m]
        BY <3>2, <2>1, <2>2, <2>3
      <4> QED BY <4>1, <1>7
    <3> QED BY <3>1, <3>2
  <2> QED BY <1>1, <1>3, <1>5, <1>6, <2>2, <2>3 DEF ContractsInv
<1> QED BY <1>8, <1>9

\* Ids are saved of an address that there is.
LEMMA SaveIdsKeeps ==
  ASSUME ContractsInv, NEW t \in TaskIds, NEW name, NEW address \in {Nobody} \cup DOMAIN contracts,
         SaveActionIds(t, name, address)
  PROVE  ContractsInv'
<1> DEFINE new == getActionIds(t, name, address)
           put == With(actionIds[t], name, new)
<1>1. /\ contracts' = contracts /\ deployed' = deployed
      /\ actionIds' = [actionIds EXCEPT ![t] = put]
  BY DEF SaveActionIds, saveActionIds
<1>2. new.factoryOutput = address
  BY DEF getActionIds
<1>3. address \in {Nobody} \cup (1..Len(contracts))
  BY ListedDomain DEF ContractsInv
<1> HIDE DEF new
<1>4. /\ DOMAIN put = {name} \cup DOMAIN actionIds[t] /\ put[name] = new
      /\ \A x \in DOMAIN actionIds[t] : x # name => put[x] = actionIds[t][x]
  BY DEF With
<1>5. /\ DOMAIN actionIds' = TaskIds /\ actionIds' = [u \in TaskIds |-> actionIds'[u]]
      /\ \A u \in TaskIds : actionIds'[u] = IF u = t THEN put ELSE actionIds[u]
  BY <1>1 DEF ContractsInv
<1> HIDE DEF put
<1>6. ASSUME NEW u \in TaskIds, NEW m \in DOMAIN actionIds'[u]
      PROVE  actionIds'[u][m].factoryOutput \in {Nobody} \cup (1..Len(contracts))
  <2>1. CASE u = t /\ m = name
    BY <2>1, <1>2, <1>3, <1>4, <1>5
  <2>2. CASE ~(u = t /\ m = name)
    <3>1. m \in DOMAIN actionIds[u] /\ actionIds'[u][m] = actionIds[u][m]
      BY <2>2, <1>4, <1>5, <1>6
    <3> QED BY <3>1 DEF ContractsInv
  <2> QED BY <2>1, <2>2
<1> QED BY <1>1, <1>5, <1>6 DEF ContractsInv

\* What passed the last check would pass it again.
PassedInv ==
  /\ \A t \in passed.artifacts : checkArtifact(t)
  /\ \A t \in passed.ids : t \in TaskIds /\ checkActionIds(t)

\* The check of artifacts reads the build-info and the artifacts only.
LEMMA ArtifactCheckStays ==
  ASSUME infos' = infos, artifacts' = artifacts, NEW t
  PROVE  checkArtifact(t)' <=> checkArtifact(t)
BY DEF checkArtifact, Extractable, readContractABIAndBytecode, extractContractArtifact,
       findContractSourceName, SourcesWith

\* The check of action ids reads the build-info, the contracts, the outputs and the ids.
LEMMA ActionIdsCheckStays ==
  ASSUME infos' = infos, contracts' = contracts, deployed' = deployed, actionIds' = actionIds,
         filesThere' = filesThere, NEW t
  PROVE  checkActionIds(t)' <=> checkActionIds(t)
<1>1. \A name : FilesFor(t, name)' = FilesFor(t, name)
  BY DEF FilesFor
<1>2. \A name : buildsFor(t, name)' = buildsFor(t, name)
  BY <1>1 DEF buildsFor
<1>3. \A name : /\ artifact(t, name)' = artifact(t, name)
                /\ HasArtifact(t, name)' <=> HasArtifact(t, name)
  BY <1>2 DEF artifact, HasArtifact
<1>4. \A name : /\ authorizerAware(t, name)' <=> authorizerAware(t, name)
                /\ contractFunctions(t, name)' = contractFunctions(t, name)
  BY <1>3 DEF authorizerAware, contractFunctions
<1>5. \A name, address : actionIdSource(t, name, address)' = actionIdSource(t, name, address)
  BY <1>4 DEF actionIdSource
<1>6. \A name, address : HasSource(t, name, address)' <=> HasSource(t, name, address)
  BY <1>4 DEF HasSource, checkFactoryOutput, isPoolFromFactory
<1>7. \A address : /\ Answers(address)' <=> Answers(address)
                   /\ disambiguator(address)' = disambiguator(address)
  BY DEF Answers, disambiguator
<1>8. \A name, address : CanGetActionIds(t, name, address)' <=> CanGetActionIds(t, name, address)
  BY <1>3, <1>4, <1>5, <1>6, <1>7 DEF CanGetActionIds
<1>9. \A name, address : getActionIds(t, name, address)' = getActionIds(t, name, address)
  BY <1>4, <1>5, <1>7 DEF getActionIds, getActionId
<1> QED BY <1>8, <1>9 DEF checkActionIds

\* Every step of the tasks' operations keeps what is on record of contracts.
LEMMA StepKeepsContracts == ContractsInv /\ [RecordsNext]_recordVars => ContractsInv'
<1> SUFFICES ASSUME ContractsInv, [RecordsNext]_recordVars PROVE ContractsInv'
  OBVIOUS
<1>1. ASSUME UNCHANGED <<contracts, deployed, actionIds>> PROVE ContractsInv'
  BY <1>1 DEF ContractsInv, Listed
<1>2. ASSUME NEW t \in TaskIds, ExtractArtifacts(t) \/ CheckArtifacts(t) \/ EditBuildInfos(t)
      PROVE  ContractsInv'
  BY <1>1, <1>2 DEF ExtractArtifacts, CheckArtifacts, EditBuildInfos, onFile
<1>3. ASSUME NEW t \in TaskIds, NEW name, DeployAgain(t, name) PROVE ContractsInv'
  <2> DEFINE abi == artifact(t, name).abi
  <2>1. /\ Creates(name, abi, Nobody)
        /\ deployed' = [deployed EXCEPT ![t] = With(@, name, Len(contracts) + 1)]
    BY <1>3 DEF DeployAgain
  <2> HIDE DEF abi
  <2> QED BY <2>1, CreatesKeeps
<1>4. ASSUME NEW t \in TaskIds, NEW name \in Pools, NEW factory, CreatePool(t, name, factory)
      PROVE  ContractsInv'
  <2> DEFINE abi == artifact(t, name).abi
  <2>1. Creates(name, abi, factory) /\ UNCHANGED deployed
    BY <1>4 DEF CreatePool
  <2> HIDE DEF abi
  <2> QED BY <2>1, <1>4, CreatesKeeps
<1>5. ASSUME NEW t \in TaskIds, NEW name, NEW address \in {Nobody} \cup DOMAIN contracts,
             SaveActionIds(t, name, address)
      PROVE  ContractsInv'
  BY <1>5, SaveIdsKeeps
<1>6. ASSUME NEW tasks, CheckActionIds(tasks) PROVE ContractsInv'
  BY <1>1, <1>6 DEF CheckActionIds
<1>7. ASSUME AcceptCollisions PROVE ContractsInv'
  BY <1>1, <1>7 DEF AcceptCollisions
<1>8. CASE UNCHANGED recordVars
  BY <1>1, <1>8 DEF recordVars, onFile
<1> QED BY <1>2, <1>3, <1>4, <1>5, <1>6, <1>7, <1>8 DEF RecordsNext

\* After a change no check has passed.
LEMMA ChangesForget ==
  ASSUME passed' = NonePassed
  PROVE  PassedInv'
BY DEF PassedInv, NonePassed

\* A check says so only of what it has checked, and changes nothing that it checked.
LEMMA StepKeepsPassed == PassedInv /\ [RecordsNext]_recordVars => PassedInv'
<1> SUFFICES ASSUME PassedInv, [RecordsNext]_recordVars PROVE PassedInv'
  OBVIOUS
<1>1. ASSUME NEW t \in TaskIds, CheckArtifacts(t) PROVE PassedInv'
  <2>1. infos' = infos /\ artifacts' = artifacts /\ checkArtifact(t)
    BY <1>1 DEF CheckArtifacts, onFile
  <2>2. checkArtifact(t)'
    BY <2>1, ArtifactCheckStays
  <2>3. passed'.artifacts = {t} /\ passed'.ids = {}
    BY <1>1 DEF CheckArtifacts, NonePassed
  <2> QED BY <2>2, <2>3 DEF PassedInv
<1>2. ASSUME NEW tasks \in SUBSET TaskIds, CheckActionIds(tasks) PROVE PassedInv'
  <2>1. CASE ~checkActionIdUniqueness
    BY <1>2, <2>1, ChangesForget DEF CheckActionIds
  <2>2. CASE checkActionIdUniqueness
    <3>1. /\ infos' = infos /\ contracts' = contracts /\ deployed' = deployed
          /\ actionIds' = actionIds /\ filesThere' = filesThere
          /\ \A t \in tasks : checkActionIds(t)
      BY <1>2 DEF CheckActionIds
    <3>2. \A t \in tasks : checkActionIds(t)'
      BY <3>1, ActionIdsCheckStays
    <3>3. passed'.artifacts = {} /\ passed'.ids = tasks
      BY <1>2, <2>2 DEF CheckActionIds, NonePassed
    <3> QED BY <3>2, <3>3 DEF PassedInv
  <2> QED BY <2>1, <2>2
<1>3. ASSUME Change PROVE PassedInv'
  BY <1>3, ChangesForget DEF Change
<1>4. ASSUME NEW t \in TaskIds, NEW name, NEW address,
             \/ ExtractArtifacts(t) \/ EditBuildInfos(t) \/ DeployAgain(t, name)
             \/ CreatePool(t, name, address) \/ SaveActionIds(t, name, address)
      PROVE  Change
  BY <1>4 DEF ExtractArtifacts, EditBuildInfos, DeployAgain, CreatePool, SaveActionIds, Creates
<1>5. AcceptCollisions => Change
  BY DEF AcceptCollisions
<1>6. CASE UNCHANGED recordVars
  <2>1. /\ infos' = infos /\ artifacts' = artifacts /\ contracts' = contracts
        /\ deployed' = deployed /\ actionIds' = actionIds /\ filesThere' = filesThere
        /\ passed' = passed
    BY <1>6 DEF recordVars, onFile
  <2>2. \A t : checkArtifact(t)' <=> checkArtifact(t)
    BY <2>1, ArtifactCheckStays
  <2>3. \A t : checkActionIds(t)' <=> checkActionIds(t)
    BY <2>1, ActionIdsCheckStays
  <2> QED BY <2>1, <2>2, <2>3 DEF PassedInv
<1>7. ASSUME NEW tasks \in {TaskIds} \cup {{t} : t \in TaskIds} PROVE tasks \in SUBSET TaskIds
  OBVIOUS
<1> QED BY <1>1, <1>2, <1>3, <1>4, <1>5, <1>6, <1>7 DEF RecordsNext

\* What the check of artifacts compares, file by file, is what the task finds by the name
\* of a contract, though it may look into another file of that name.
LEMMA ArtifactsAreCurrent ==
  ASSUME NEW t, checkArtifact(t), NEW i \in DOMAIN infos[t]
  PROVE  readContractABIAndBytecode(t, infos[t][i].name) = artifact(t, infos[t][i].name)
<1> DEFINE name == infos[t][i].name
           k == anyOf(FilesFor(t, name))
<1>1. i \in FilesFor(t, name)
  BY DEF FilesFor
<1>2. k \in FilesFor(t, name)
  BY <1>1 DEF anyOf
<1>3. k \in DOMAIN infos[t] /\ infos[t][k].name = name
  BY <1>2 DEF FilesFor
<1>4. buildsFor(t, name) = infos[t][k].contracts
  BY <1>1 DEF buildsFor
<1>5. readContractABIAndBytecode(t, infos[t][k].name) = extractContractArtifact(t, k)
  BY <1>3 DEF checkArtifact
<1> HIDE DEF k
<1>6. extractContractArtifact(t, k) = artifact(t, name)
  BY <1>3, <1>4 DEF extractContractArtifact, artifact
<1> QED BY <1>3, <1>5, <1>6

\* An id that is found again from the contract on record is that of its family: a Pool was
\* created by the factory on record, and another contract answers for its own address.
LEMMA IdsAreCurrent ==
  ASSUME ContractsInv, NEW t \in TaskIds, checkActionIds(t), NEW name \in DOMAIN actionIds[t],
         NEW f \in contractFunctions(t, name)
  PROVE  actionId(t, name, f) = <<FamilyOnRecord(t, name), f>>
<1> DEFINE output == actionIds[t][name].factoryOutput
           source == actionIdSource(t, name, output)
           aware == authorizerAware(t, name)
<1>1. /\ CanGetActionIds(t, name, output)
      /\ actionIds[t][name].useAdaptor <=> ~aware
      /\ actionIds[t][name].actionIds[f] = getActionId(source, f)
  BY DEF checkActionIds, getActionIds
<1>2. HasSource(t, name, output) /\ output \in {Nobody} \cup (1..Len(contracts)) /\ Len(contracts) \in Nat
  BY <1>1, ListedDomain DEF CanGetActionIds, ContractsInv
<1>3. disambiguator(source) = FamilyOnRecord(t, name)
  <2>1. CASE ~aware
    BY <2>1, <1>1 DEF actionIdSource, disambiguator, FamilyOnRecord
  <2>2. CASE aware /\ output # Nobody
    <3> DEFINE factory == name \o "Factory"
    <3> HIDE DEF factory
    <3>1. factory \in DOMAIN deployed[t] /\ contracts[output].creator = deployed[t][factory]
      BY <1>2, <2>2 DEF HasSource, checkFactoryOutput, isPoolFromFactory, factory
    <3>2. deployed[t][factory] \in 1..Len(contracts)
      BY <3>1 DEF ContractsInv
    <3>3. output \in 1..Len(contracts) /\ output # Adaptor /\ contracts[output].creator # Nobody
      BY <1>2, <2>2, <3>1, <3>2 DEF Nobody, Adaptor
    <3>4. contracts[output].name \in Pools
      BY <3>3 DEF ContractsInv
    <3>5. source = output
      BY <2>2 DEF actionIdSource
    <3>6. disambiguator(source) = deployed[t][factory]
      BY <3>1, <3>3, <3>4, <3>5 DEF disambiguator
    <3> QED BY <3>6, <2>2, <1>1 DEF FamilyOnRecord, factory
  <2>3. CASE aware /\ output = Nobody
    <3> DEFINE own == deployed[t][name]
    <3>1. name \in DOMAIN deployed[t]
      BY <1>2, <2>3 DEF HasSource
    <3>2. own \in 1..Len(contracts) /\ contracts[own].name = name /\ contracts[own].creator = Nobody
      BY <3>1 DEF ContractsInv
    <3>3. own # Adaptor
      BY <3>2, <1>2 DEF Adaptor
    <3>4. source = own
      BY <2>3 DEF actionIdSource
    <3> HIDE DEF own
    <3>5. disambiguator(source) = IF name \in Pools THEN Nobody ELSE own
      BY <3>2, <3>3, <3>4 DEF disambiguator
    <3> QED BY <3>5, <2>3, <1>1 DEF FamilyOnRecord, own
  <2> QED BY <2>1, <2>2, <2>3
<1> QED BY <1>1, <1>3 DEF actionId, getActionId

(***************************************************************************)
(* What the checks of a deployment task pass is current: artifacts on file *)
(* are those of the build-info, and every id of a function that a contract *)
(* has is that of the contract on record, or of its family, whatever was   *)
(* extracted, deployed again, created, saved and edited in between         *)
(* (task.ts, actionId.ts, artifact.ts).                                    *)
(***************************************************************************)
THEOREM ChecksVouchForRecords == RecordsSpec => []CheckedRecordsCurrent
<1>1. RecordsInit => ContractsInv /\ PassedInv
  <2> SUFFICES ASSUME RecordsInit PROVE ContractsInv /\ PassedInv
    OBVIOUS
  <2>1. contracts = <<>> /\ passed = NonePassed
    BY DEF RecordsInit
  <2>2. Listed(contracts) /\ Len(contracts) = 0
    <3>1. contracts \in Seq({})
      BY <2>1
    <3> QED BY <2>1, <3>1 DEF Listed
  <2>3. /\ deployed = [t \in TaskIds |-> Nowhere] /\ actionIds = [t \in TaskIds |-> Nowhere]
        /\ DOMAIN Nowhere = {}
    BY DEF RecordsInit, Nowhere
  <2>4. ContractsInv
    BY <2>2, <2>3 DEF ContractsInv
  <2> QED BY <2>1, <2>4 DEF PassedInv, NonePassed
<1>2. ContractsInv /\ PassedInv => CheckedRecordsCurrent
  BY ArtifactsAreCurrent, IdsAreCurrent DEF PassedInv, CheckedRecordsCurrent
<1> QED BY <1>1, <1>2, StepKeepsContracts, StepKeepsPassed, PTL DEF RecordsSpec

=============================================================================
