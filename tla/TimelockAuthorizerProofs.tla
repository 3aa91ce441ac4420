------------------------ MODULE TimelockAuthorizerProofs ------------------------
(***************************************************************************)
(* Proofs about the Authorizer, for any accounts, actions and delays.      *)
(***************************************************************************)
EXTENDS TimelockAuthorizer, SequenceTheorems, TLAPS

\* The ids an execution and a permission can be about.
LEMMA Ids ==
  /\ GENERAL \in Named /\ Named \subseteq ActionIds
  /\ \A a \in Named : grantId(a) \in ActionIds /\ revokeId(a) \in ActionIds
  /\ \A n \in Nat : executeId(n) \in ExecuteIds
  /\ Self \in Wheres /\ EVERYWHERE \in Wheres
BY DEF Named, ActionIds, ExecuteIds, executeId, Wheres

\* The id of any call is one with a delay.
LEMMA IdsOfCalls == ASSUME NEW c \in Calls PROVE idOf(c) \in ActionIds
<1>1. CASE c.call = "external"
  BY <1>1 DEF Calls, idOf, ActionIds
<1>2. CASE c.call # "external"
  <2>1. c.call \in SelfCalls
    BY <1>2 DEF Calls, SelfCalls
  <2> QED BY <1>2, <2>1 DEF idOf, ActionIds
<1> QED BY <1>1, <1>2

\* scheduleWithDelay appends one execution to those there are, pending and with
\* the delay it was given, and lets its executors execute it.
LEMMA Appended ==
  ASSUME TypeOK, NEW caller \in Accounts, NEW c \in Calls, NEW delay \in Nat,
         NEW executors \in ExecutorSets, scheduleWithDelay(caller, c, delay, executors)
  PROVE  /\ scheduled' \in Seq(Executions)
         /\ permissions' \subseteq Permissions
         /\ DOMAIN scheduled' = DOMAIN scheduled \union {Len(scheduled) + 1}
         /\ \A n \in DOMAIN scheduled : scheduled'[n] = scheduled[n]
         /\ scheduled'[Len(scheduled) + 1] =
              [data |-> c, executed |-> FALSE, cancelled |-> FALSE,
               protected |-> executors # {}, executableAt |-> time + delay,
               scheduler |-> caller, byRoot |-> caller = root,
               scheduledAt |-> time, ranAt |-> 0, alone |-> FALSE]
<1> DEFINE new == [data |-> c, executed |-> FALSE, cancelled |-> FALSE,
                   protected |-> executors # {}, executableAt |-> time + delay,
                   scheduler |-> caller, byRoot |-> caller = root,
                   scheduledAt |-> time, ranAt |-> 0, alone |-> FALSE]
<1>1. new \in Executions
  BY DEF TypeOK, Executions
<1>2. scheduled' = Append(scheduled, new)
  BY DEF scheduleWithDelay
<1>3. scheduled \in Seq(Executions)
  BY DEF TypeOK
<1> HIDE DEF new
<1>4. /\ scheduled' \in Seq(Executions)
      /\ DOMAIN scheduled' = DOMAIN scheduled \union {Len(scheduled) + 1}
      /\ \A n \in DOMAIN scheduled : scheduled'[n] = scheduled[n]
      /\ scheduled'[Len(scheduled) + 1] = new
  BY <1>1, <1>2, <1>3, AppendProperties
<1>5. Len(scheduled) + 1 \in Nat
  BY <1>3, LenProperties
<1>6. ASSUME NEW e \in executors
      PROVE  <<executeId(Len(scheduled) + 1), e, Self>> \in Permissions
  BY <1>5, Ids, AuthorizerAssumption DEF Permissions
<1>7. permissions' \subseteq Permissions
  BY <1>6 DEF scheduleWithDelay, TypeOK
<1> QED BY <1>4, <1>7 DEF new
-----------------------------------------------------------------------------
\* Execution n becomes the record new.
LEMMA Updated ==
  ASSUME TypeOK, NEW n \in DOMAIN scheduled, NEW new \in Executions,
         scheduled' = [scheduled EXCEPT ![n] = new]
  PROVE  /\ scheduled' \in Seq(Executions)
         /\ DOMAIN scheduled' = DOMAIN scheduled
         /\ scheduled'[n] = new
         /\ \A m \in DOMAIN scheduled \ {n} : scheduled'[m] = scheduled[m]
<1>1. scheduled \in Seq(Executions) /\ n \in 1..Len(scheduled)
  BY LenProperties DEF TypeOK
<1> QED BY <1>1, ExceptSeq, LenProperties

\* An execution runs: the history of its record is filled in.
LEMMA Ran ==
  ASSUME TypeOK, NEW caller \in Accounts, NEW n \in DOMAIN scheduled,
         execute(caller, n)
  PROVE  /\ scheduled' \in Seq(Executions)
         /\ DOMAIN scheduled' = DOMAIN scheduled
         /\ scheduled[n] \in Executions /\ scheduled'[n] \in Executions
         /\ scheduled'[n].data = scheduled[n].data
         /\ scheduled'[n].byRoot = scheduled[n].byRoot
         /\ scheduled'[n].scheduledAt = scheduled[n].scheduledAt
         /\ scheduled'[n].executableAt = scheduled[n].executableAt
         /\ scheduled'[n].cancelled = scheduled[n].cancelled
         /\ scheduled'[n].executed /\ scheduled'[n].ranAt = time
         /\ scheduled'[n].alone = ChangesAlone(n)
         /\ \A m \in DOMAIN scheduled \ {n} : scheduled'[m] = scheduled[m]
<1>1. scheduled[n] \in Executions
  BY ElementOfSeq, LenProperties DEF TypeOK
<1> DEFINE new == [scheduled[n] EXCEPT !.executed = TRUE, !.ranAt = time,
                                       !.alone = ChangesAlone(n)]
<1>2. ChangesAlone(n) \in BOOLEAN
  BY DEF ChangesAlone
<1>3. /\ new \in Executions
      /\ new.data = scheduled[n].data /\ new.byRoot = scheduled[n].byRoot
      /\ new.scheduledAt = scheduled[n].scheduledAt
      /\ new.executableAt = scheduled[n].executableAt
      /\ new.cancelled = scheduled[n].cancelled
      /\ new.executed /\ new.ranAt = time /\ new.alone = ChangesAlone(n)
  BY <1>1, <1>2 DEF Executions, TypeOK
<1>4. scheduled' = [scheduled EXCEPT ![n] = new]
  BY DEF execute
<1> HIDE DEF new
<1> QED BY <1>1, <1>3, <1>4, Updated

\* An execution is cancelled, one that has not run.
LEMMA Cancelled ==
  ASSUME TypeOK, NEW caller \in Accounts, NEW n \in DOMAIN scheduled,
         cancel(caller, n)
  PROVE  /\ scheduled' \in Seq(Executions)
         /\ DOMAIN scheduled' = DOMAIN scheduled
         /\ scheduled[n] \in Executions /\ scheduled'[n] \in Executions
         /\ scheduled'[n].data = scheduled[n].data
         /\ scheduled'[n].byRoot = scheduled[n].byRoot
         /\ scheduled'[n].scheduledAt = scheduled[n].scheduledAt
         /\ scheduled'[n].executableAt = scheduled[n].executableAt
         /\ scheduled'[n].ranAt = scheduled[n].ranAt
         /\ ~scheduled[n].executed /\ ~scheduled'[n].executed
         /\ \A m \in DOMAIN scheduled \ {n} : scheduled'[m] = scheduled[m]
<1>1. scheduled[n] \in Executions
  BY ElementOfSeq, LenProperties DEF TypeOK
<1> DEFINE new == [scheduled[n] EXCEPT !.cancelled = TRUE]
<1>2. /\ new \in Executions
      /\ new.data = scheduled[n].data /\ new.byRoot = scheduled[n].byRoot
      /\ new.scheduledAt = scheduled[n].scheduledAt
      /\ new.executableAt = scheduled[n].executableAt
      /\ new.ranAt = scheduled[n].ranAt
      /\ new.executed = scheduled[n].executed
  BY <1>1 DEF Executions
<1>3. scheduled' = [scheduled EXCEPT ![n] = new] /\ ~scheduled[n].executed
  BY DEF cancel
<1> HIDE DEF new
<1> QED BY <1>1, <1>2, <1>3, Updated
-----------------------------------------------------------------------------
\* What the executor is made to call in the Authorizer keeps the types.
LEMMA RunTyped ==
  ASSUME TypeOK, NEW c \in Calls, RunOnAuthorizer(c) \/ RunOnTarget(c)
  PROVE  /\ root' \in Accounts /\ pendingRoot' \in Accounts \union {NoAccount}
         /\ permissions' \subseteq Permissions
         /\ delays' \in [ActionIds -> 0..MAX_DELAY]
<1> USE DEF TypeOK
<1>1. CASE c.call = "setPendingRoot" /\ setPendingRoot(c.account)
  <2>1. c.account \in Accounts \union {NoAccount}
    BY <1>1 DEF Calls
  <2> QED BY <1>1, <2>1 DEF setPendingRoot
<1>2. CASE c.call = "setDelay" /\ setDelay(c.action, c.delay)
  <2>1. c.action \in ActionIds /\ c.delay \in 0..MAX_DELAY
    BY <1>2 DEF Calls
  <2> QED BY <1>2, <2>1 DEF setDelay, rootVars
<1>3. CASE \/ c.call = "grantPermissions" /\ grant(Executor, c.action, c.account, c.on)
           \/ c.call = "revokePermissions" /\ revoke(Executor, c.action, c.account, c.on)
  <2>1. c.action \in Named /\ c.account \in Accounts /\ c.on \in Wheres
    BY <1>3 DEF Calls
  <2>2. <<c.action, c.account, c.on>> \in Permissions
    BY <2>1, Ids DEF Permissions
  <2> QED BY <1>3, <2>2 DEF grant, revoke, rootVars
<1>4. CASE RunOnTarget(c)
  BY <1>4 DEF RunOnTarget, rootVars
<1> QED BY <1>1, <1>2, <1>3, <1>4 DEF RunOnAuthorizer

\* The delay of scheduled changes of a delay is one.
LEMMA ChangeDelayTyped ==
  ASSUME TypeOK, NEW action \in ActionIds, NEW newDelay \in 0..MAX_DELAY
  PROVE  changeDelay(action, newDelay) \in Nat /\ changeDelay(action, newDelay) >= MIN_DELAY
<1>1. delays[action] \in 0..MAX_DELAY
  BY DEF TypeOK
<1> QED BY <1>1, AuthorizerAssumption DEF changeDelay, Later

\* An action that schedules is scheduleWithDelay of some call and delay; as to
\* the Authorizer's privileged functions, only as the root asked.
LEMMA SchedulingActions ==
  ASSUME TypeOK, Scheduling
  PROVE  /\ UNCHANGED <<rootVars, delays, executing, time>>
         /\ \E caller \in Accounts, c \in Calls, delay \in Nat, executors \in ExecutorSets :
              /\ scheduleWithDelay(caller, c, delay, executors)
              /\ c.call = "setPendingRoot" => caller = root /\ delay = RootTransferDelay
              /\ c.call = "setDelay" => caller = root /\ delay >= MIN_DELAY
              /\ c.call \in {"grantPermissions", "revokePermissions"} => delay > 0
              /\ c.call = "setDelay" => delay = changeDelay(c.action, c.delay)
              /\ c.call \notin {"setPendingRoot", "setDelay"} => delay = delays[delayedId(c)]
<1> DEFINE Goal(caller, executors) ==
      /\ UNCHANGED <<rootVars, delays, executing, time>>
      /\ \E c \in Calls, delay \in Nat :
           /\ scheduleWithDelay(caller, c, delay, executors)
           /\ c.call = "setPendingRoot" => caller = root /\ delay = RootTransferDelay
           /\ c.call = "setDelay" => caller = root /\ delay >= MIN_DELAY
           /\ c.call \in {"grantPermissions", "revokePermissions"} => delay > 0
           /\ c.call = "setDelay" => delay = changeDelay(c.action, c.delay)
           /\ c.call \notin {"setPendingRoot", "setDelay"} => delay = delays[delayedId(c)]
<1>1. SUFFICES ASSUME NEW caller \in Accounts, NEW executors \in ExecutorSets,
                      \/ \E newRoot \in Accounts \union {NoAccount} :
                           scheduleRootChange(caller, newRoot, executors)
                      \/ \E action \in DelayedActions, delay \in Delays :
                           scheduleDelayChange(caller, action, delay, executors)
                      \/ \E c \in Calls : schedule(caller, c, executors)
                      \/ \E action \in NamedActions, account \in Accounts, where \in NamedWheres :
                           \/ scheduleGrantPermission(caller, action, account, where, executors)
                           \/ scheduleRevokePermission(caller, action, account, where, executors)
               PROVE  Goal(caller, executors)
  BY DEF Scheduling
<1>d. \A id \in ActionIds : delays[id] \in Nat
  BY AuthorizerAssumption DEF TypeOK
<1>2. ASSUME NEW newRoot \in Accounts \union {NoAccount},
             scheduleRootChange(caller, newRoot, executors)
      PROVE  Goal(caller, executors)
  <2> DEFINE c == [call |-> "setPendingRoot", where |-> Self, account |-> newRoot]
  <2>1. c \in Calls
    BY DEF Calls
  <2> QED BY <1>2, <2>1, AuthorizerAssumption DEF scheduleRootChange
<1>3. ASSUME NEW action \in DelayedActions, NEW delay \in Delays,
             scheduleDelayChange(caller, action, delay, executors)
      PROVE  Goal(caller, executors)
  <2> DEFINE c == [call |-> "setDelay", where |-> Self, action |-> action, delay |-> delay]
  <2>1. action \in ActionIds /\ delay \in 0..MAX_DELAY
    BY <1>3, AuthorizerAssumption DEF scheduleDelayChange
  <2>2. c \in Calls
    BY <2>1 DEF Calls
  <2> QED BY <1>3, <2>1, <2>2, ChangeDelayTyped DEF scheduleDelayChange
<1>4. ASSUME NEW c \in Calls, schedule(caller, c, executors)
      PROVE  Goal(caller, executors)
  <2>1. c.call \notin SelfCalls
    BY <1>4 DEF schedule, schedulable, Calls, SelfCalls
  <2>2. scheduleWithDelay(caller, c, delays[idOf(c)], executors)
    BY <1>4 DEF schedule, scheduleAction
  <2>3. c.call = "external" /\ delayedId(c) = idOf(c)
    BY <2>1 DEF Calls, SelfCalls, delayedId, idOf
  <2> QED BY <1>4, <1>d, <2>1, <2>2, <2>3, IdsOfCalls DEF schedule, SelfCalls
<1>5. ASSUME NEW action \in NamedActions, NEW account \in Accounts, NEW where \in NamedWheres,
             scheduleGrantPermission(caller, action, account, where, executors)
      PROVE  Goal(caller, executors)
  <2> DEFINE c == [call |-> "grantPermissions", where |-> Self, action |-> action,
                   account |-> account, on |-> where]
  <2>1. c \in Calls
    BY AuthorizerAssumption DEF Calls, Named
  <2>2. delays[grantId(action)] \in Nat
    BY <1>d, Ids DEF Named
  <2>3. delayedId(c) = grantId(action)
    BY DEF delayedId
  <2> QED BY <1>5, <2>1, <2>2, <2>3 DEF scheduleGrantPermission, scheduleAction
<1>6. ASSUME NEW action \in NamedActions, NEW account \in Accounts, NEW where \in NamedWheres,
             scheduleRevokePermission(caller, action, account, where, executors)
      PROVE  Goal(caller, executors)
  <2> DEFINE c == [call |-> "revokePermissions", where |-> Self, action |-> action,
                   account |-> account, on |-> where]
  <2>1. c \in Calls
    BY AuthorizerAssumption DEF Calls, Named
  <2>2. delays[revokeId(action)] \in Nat
    BY <1>d, Ids DEF Named
  <2>3. delayedId(c) = revokeId(action)
    BY DEF delayedId
  <2> QED BY <1>6, <2>1, <2>2, <2>3 DEF scheduleRevokePermission, scheduleAction
<1> QED BY <1>1, <1>2, <1>3, <1>4, <1>5, <1>6
-----------------------------------------------------------------------------
\* No call but an execution touches delays or executions, other than to
\* schedule or cancel.
LEMMA PermittingActions ==
  ASSUME TypeOK, Permitting
  PROVE  /\ UNCHANGED <<delays, scheduled, executing, time>>
         /\ permissions' \subseteq Permissions
         /\ \/ UNCHANGED rootVars
            \/ pendingRoot # NoAccount /\ root' = pendingRoot /\ pendingRoot' = NoAccount
<1> USE DEF TypeOK
<1>1. ASSUME NEW caller \in Accounts, claimRoot(caller)
      PROVE  /\ UNCHANGED <<delays, scheduled, executing, time>>
             /\ permissions' \subseteq Permissions
             /\ pendingRoot # NoAccount /\ root' = pendingRoot /\ pendingRoot' = NoAccount
  <2>1. /\ <<grantId(GENERAL), caller, EVERYWHERE>> \in Permissions
        /\ <<revokeId(GENERAL), caller, EVERYWHERE>> \in Permissions
    BY Ids DEF Permissions
  <2> QED BY <1>1, <2>1, AuthorizerAssumption DEF claimRoot
<1>2. ASSUME NEW caller \in Accounts, NEW action \in Named, NEW account \in Accounts,
             NEW where \in NamedWheres, NEW allowed \in BOOLEAN,
             \/ manageGranter(caller, action, account, where, allowed)
             \/ manageRevoker(caller, action, account, where, allowed)
      PROVE  /\ UNCHANGED <<rootVars, delays, scheduled, executing, time>>
             /\ permissions' \subseteq Permissions
  <2>1. /\ <<grantId(action), account, where>> \in Permissions
        /\ <<revokeId(action), account, where>> \in Permissions
    BY Ids, AuthorizerAssumption DEF Permissions
  <2> QED BY <1>2, <2>1 DEF manageGranter, manageRevoker, manage
<1>3. ASSUME NEW caller \in Accounts, NEW action \in NamedActions, NEW account \in Accounts,
             NEW where \in NamedWheres,
             \/ grantPermissions(caller, action, account, where)
             \/ revokePermissions(caller, action, account, where)
             \/ renouncePermissions(caller, action, where)
      PROVE  /\ UNCHANGED <<rootVars, delays, scheduled, executing, time>>
             /\ permissions' \subseteq Permissions
  <2>1. <<action, account, where>> \in Permissions
    BY Ids, AuthorizerAssumption DEF Permissions, Named
  <2> QED BY <1>3, <2>1 DEF grantPermissions, revokePermissions, renouncePermissions,
                            grant, revoke
<1> QED BY <1>1, <1>2, <1>3 DEF Permitting, rootVars

\* Every variable keeps its type: in particular no delay ever exceeds MAX_DELAY.
THEOREM TypeCorrect == Spec => []TypeOK
<1>1. Init => TypeOK
  <2> SUFFICES ASSUME Init PROVE TypeOK
    OBVIOUS
  <2>1. /\ <<grantId(GENERAL), Admin, EVERYWHERE>> \in Permissions
        /\ <<revokeId(GENERAL), Admin, EVERYWHERE>> \in Permissions
    BY Ids, AuthorizerAssumption DEF Permissions
  <2>2. << >> \in Seq(Executions)
    OBVIOUS
  <2> QED BY <2>1, <2>2, AuthorizerAssumption DEF Init, TypeOK
<1>2. TypeOK /\ [Next]_vars => TypeOK'
  <2> SUFFICES ASSUME TypeOK, [Next]_vars PROVE TypeOK'
    OBVIOUS
  <2>1. CASE Scheduling
    <3>1. PICK caller \in Accounts, c \in Calls, delay \in Nat, executors \in ExecutorSets :
            scheduleWithDelay(caller, c, delay, executors)
      BY <2>1, SchedulingActions
    <3>2. UNCHANGED <<rootVars, delays, executing, time>>
      BY <2>1, SchedulingActions
    <3> QED BY <3>1, <3>2, Appended DEF TypeOK, rootVars
  <2>2. CASE Permitting
    BY <2>2, PermittingActions DEF TypeOK, rootVars
  <2>3. ASSUME NEW caller \in Accounts, NEW n \in DOMAIN scheduled, execute(caller, n)
        PROVE  TypeOK'
    <3>1. scheduled[n].data \in Calls
      BY <2>3, Ran DEF Executions
    <3>2. RunOnAuthorizer(scheduled[n].data) \/ RunOnTarget(scheduled[n].data)
      BY <2>3 DEF execute
    <3>3. time' = time /\ executing' \in {None, n}
      BY <2>3 DEF execute
    <3> QED BY <2>3, <3>1, <3>2, <3>3, Ran, RunTyped DEF TypeOK
  <2>4. ASSUME NEW caller \in Accounts, NEW n \in DOMAIN scheduled, cancel(caller, n)
        PROVE  TypeOK'
    <3>1. UNCHANGED <<rootVars, permissions, delays, executing, time>>
      BY <2>4 DEF cancel
    <3> QED BY <2>4, <3>1, Cancelled DEF TypeOK, rootVars
  <2>5. CASE executeReturn
    BY <2>5 DEF executeReturn, TypeOK, rootVars
  <2>6. CASE Tick
    BY <2>6 DEF Tick, TypeOK, rootVars
  <2>7. CASE UNCHANGED vars
    BY <2>7 DEF vars, TypeOK
  <2> QED BY <2>1, <2>2, <2>3, <2>4, <2>5, <2>6, <2>7 DEF Next, Scheduled
<1> QED BY <1>1, <1>2, PTL DEF Spec
-----------------------------------------------------------------------------
\* What has run stays as it is.
LEMMA HistoryStays ==
  ASSUME TypeOK, [Next]_vars, NEW n \in DOMAIN scheduled, scheduled[n].executed
  PROVE  /\ n \in DOMAIN scheduled'
         /\ scheduled'[n].executed
         /\ scheduled'[n].data = scheduled[n].data
         /\ scheduled'[n].byRoot = scheduled[n].byRoot
         /\ scheduled'[n].scheduledAt = scheduled[n].scheduledAt
         /\ scheduled'[n].ranAt = scheduled[n].ranAt
         /\ scheduled'[n].alone = scheduled[n].alone
<1>1. CASE Scheduling
  BY <1>1, SchedulingActions, Appended
<1>2. CASE Permitting
  BY <1>2, PermittingActions
<1>3. ASSUME NEW caller \in Accounts, NEW m \in DOMAIN scheduled, execute(caller, m)
      PROVE  DOMAIN scheduled' = DOMAIN scheduled /\ scheduled'[n] = scheduled[n]
  <2>1. m # n
    BY <1>3 DEF execute, canExecute
  <2> QED BY <1>3, <2>1, Ran
<1>4. ASSUME NEW caller \in Accounts, NEW m \in DOMAIN scheduled, cancel(caller, m)
      PROVE  DOMAIN scheduled' = DOMAIN scheduled /\ scheduled'[n] = scheduled[n]
  <2>1. m # n
    BY <1>4 DEF cancel
  <2> QED BY <1>4, <2>1, Cancelled
<1>5. CASE executeReturn \/ Tick \/ UNCHANGED vars
  BY <1>5 DEF executeReturn, Tick, vars
<1> QED BY <1>1, <1>2, <1>3, <1>4, <1>5 DEF Next, Scheduled

\* Every execution comes from who may ask for it, and none ran early.
LEMMA ByRootOnlyKept ==
  ASSUME TypeOK, ByRootOnly, [Next]_vars
  PROVE  ByRootOnly'
<1> SUFFICES ASSUME NEW n \in DOMAIN scheduled' PROVE Provenance(n)'
  BY DEF ByRootOnly
<1>1. CASE Scheduling
  <2>1. PICK caller \in Accounts, c \in Calls, delay \in Nat, executors \in ExecutorSets :
          /\ scheduleWithDelay(caller, c, delay, executors)
          /\ c.call = "setPendingRoot" => caller = root /\ delay = RootTransferDelay
          /\ c.call = "setDelay" => caller = root /\ delay >= MIN_DELAY
    BY <1>1, SchedulingActions
  <2>0. scheduleWithDelay(caller, c, delay, executors)
    BY <2>1
  <2>2. CASE n \in DOMAIN scheduled
    BY <2>0, <2>2, Appended DEF ByRootOnly, Provenance
  <2>3. CASE n = Len(scheduled) + 1
    <3>0. scheduled'[n] =
            [data |-> c, executed |-> FALSE, cancelled |-> FALSE,
             protected |-> executors # {}, executableAt |-> time + delay,
             scheduler |-> caller, byRoot |-> caller = root,
             scheduledAt |-> time, ranAt |-> 0, alone |-> FALSE]
      BY <2>0, <2>3, Appended
    <3>1. /\ scheduled'[n].data = c /\ scheduled'[n].scheduledAt = time
          /\ scheduled'[n].executableAt = time + delay
      BY <3>0
    <3>3. ASSUME caller = root PROVE scheduled'[n].byRoot
      <4>1. scheduled'[n].byRoot = (caller = root)
        BY <3>0
      <4> QED BY <3>3, <4>1
    <3>4. ~scheduled'[n].executed
      BY <3>0
    <3>2. time \in Nat
      BY DEF TypeOK
    <3> QED BY <2>1, <3>1, <3>2, <3>3, <3>4, AuthorizerAssumption DEF Provenance
  <2>4. n \in DOMAIN scheduled \union {Len(scheduled) + 1}
    BY <2>0, Appended
  <2> QED BY <2>2, <2>3, <2>4
<1>2. CASE Permitting
  BY <1>2, PermittingActions DEF ByRootOnly, Provenance
<1>3. ASSUME NEW caller \in Accounts, NEW m \in DOMAIN scheduled, execute(caller, m)
      PROVE  Provenance(n)'
  <2>1. CASE n = m
    <3>1. time >= scheduled[m].executableAt
      BY <1>3 DEF execute, canExecute
    <3> QED BY <1>3, <2>1, <3>1, Ran DEF ByRootOnly, Provenance
  <2>2. CASE n # m
    BY <1>3, <2>2, Ran DEF ByRootOnly, Provenance
  <2> QED BY <2>1, <2>2
<1>4. ASSUME NEW caller \in Accounts, NEW m \in DOMAIN scheduled, cancel(caller, m)
      PROVE  Provenance(n)'
  BY <1>4, Cancelled DEF ByRootOnly, Provenance
<1>5. CASE executeReturn \/ Tick \/ UNCHANGED vars
  BY <1>5 DEF executeReturn, Tick, vars, ByRootOnly, Provenance
<1> QED BY <1>1, <1>2, <1>3, <1>4, <1>5 DEF Next, Scheduled

\* Being chosen is for good.
LEMMA ChosenStays ==
  ASSUME TypeOK, [Next]_vars, NEW account, ChosenByRoot(account)
  PROVE  ChosenByRoot(account)'
<1>1. PICK n \in DOMAIN scheduled :
        /\ MakesPending(n, account)
        /\ scheduled[n].byRoot
        /\ scheduled[n].ranAt >= scheduled[n].scheduledAt + RootTransferDelay
  BY DEF ChosenByRoot
<1> QED BY <1>1, HistoryStays DEF ChosenByRoot, MakesPending

\* How the root and the pending root, and how delays change.
LEMMA RootSteps ==
  ASSUME TypeOK, [Next]_vars, ~UNCHANGED rootVars
  PROVE  \/ pendingRoot # NoAccount /\ root' = pendingRoot /\ pendingRoot' = NoAccount
         \/ \E caller \in Accounts, n \in DOMAIN scheduled :
              /\ execute(caller, n)
              /\ scheduled[n].data.call = "setPendingRoot"
              /\ root' = root /\ pendingRoot' = scheduled[n].data.account
<1>1. ASSUME NEW caller \in Accounts, NEW n \in DOMAIN scheduled, execute(caller, n)
      PROVE  /\ scheduled[n].data.call = "setPendingRoot"
             /\ root' = root /\ pendingRoot' = scheduled[n].data.account
  <2>1. RunOnAuthorizer(scheduled[n].data) \/ RunOnTarget(scheduled[n].data)
    BY <1>1 DEF execute
  <2> QED BY <2>1 DEF RunOnAuthorizer, RunOnTarget, setPendingRoot, setDelay, grant,
                      revoke, rootVars
<1>2. ASSUME NEW caller \in Accounts, NEW n \in DOMAIN scheduled, cancel(caller, n)
      PROVE  FALSE
  BY <1>2 DEF cancel, rootVars
<1>3. Permitting =>
        pendingRoot # NoAccount /\ root' = pendingRoot /\ pendingRoot' = NoAccount
  BY PermittingActions
<1>4. ~Scheduling
  BY SchedulingActions
<1> QED BY <1>1, <1>2, <1>3, <1>4 DEF Next, Scheduled, executeReturn, Tick, vars, rootVars
\* Only an execution of setDelay changes a delay, and it ran in that very step.
LEMMA DelaySteps ==
  ASSUME TypeOK, [Next]_vars, delays' # delays
  PROVE  \E caller \in Accounts, n \in DOMAIN scheduled :
           /\ execute(caller, n)
           /\ scheduled[n].data.call = "setDelay"
           /\ delays' = [delays EXCEPT ![scheduled[n].data.action] = scheduled[n].data.delay]
<1>1. ASSUME NEW caller \in Accounts, NEW n \in DOMAIN scheduled, execute(caller, n)
      PROVE  /\ scheduled[n].data.call = "setDelay"
             /\ delays' = [delays EXCEPT ![scheduled[n].data.action] = scheduled[n].data.delay]
  <2>1. RunOnAuthorizer(scheduled[n].data) \/ RunOnTarget(scheduled[n].data)
    BY <1>1 DEF execute
  <2> QED BY <2>1 DEF RunOnAuthorizer, RunOnTarget, setPendingRoot, setDelay, grant, revoke
<1>2. ASSUME NEW caller \in Accounts, NEW n \in DOMAIN scheduled, cancel(caller, n)
      PROVE  FALSE
  BY <1>2 DEF cancel
<1>3. ~Permitting
  BY PermittingActions
<1>4. ~Scheduling
  BY SchedulingActions
<1> QED BY <1>1, <1>2, <1>3, <1>4 DEF Next, Scheduled, executeReturn, Tick, vars

\* The execution of a setPendingRoot was asked for by a root and has waited.
LEMMA RanForRoot ==
  ASSUME TypeOK, ByRootOnly, NEW caller \in Accounts, NEW n \in DOMAIN scheduled,
         execute(caller, n)
  PROVE  /\ n \in DOMAIN scheduled' /\ scheduled'[n].executed
         /\ scheduled'[n].data = scheduled[n].data
         /\ scheduled[n].data.call = "setPendingRoot" =>
              /\ scheduled'[n].byRoot
              /\ scheduled'[n].ranAt >= scheduled'[n].scheduledAt + RootTransferDelay
<1>1. time >= scheduled[n].executableAt
  BY DEF execute, canExecute
<1>2. Provenance(n)
  BY DEF ByRootOnly
<1>3. /\ time \in Nat /\ scheduled[n].executableAt \in Nat
      /\ scheduled[n].scheduledAt \in Nat
  BY Ran DEF Executions, TypeOK
<1> QED BY <1>1, <1>2, <1>3, Ran, AuthorizerAssumption DEF Provenance

\* The pending root is set by a timely execution, and the root was pending.
LEMMA RootChangesWaitKept ==
  ASSUME TypeOK, ByRootOnly, RootChangesWait, [Next]_vars
  PROVE  RootChangesWait'
<1>1. CASE UNCHANGED rootVars
  BY <1>1, ChosenStays DEF RootChangesWait, rootVars
<1>2. CASE pendingRoot # NoAccount /\ root' = pendingRoot /\ pendingRoot' = NoAccount
  BY <1>2, ChosenStays DEF RootChangesWait
<1>3. ASSUME NEW caller \in Accounts, NEW n \in DOMAIN scheduled, execute(caller, n),
             scheduled[n].data.call = "setPendingRoot", root' = root,
             pendingRoot' = scheduled[n].data.account
      PROVE  RootChangesWait'
  <2>1. ChosenByRoot(pendingRoot)'
    BY <1>3, RanForRoot DEF ChosenByRoot, MakesPending
  <2>2. root # Admin => ChosenByRoot(root)'
    <3>1. SUFFICES ASSUME NEW account, account = root, root # Admin
                   PROVE  ChosenByRoot(account)'
      BY <1>3 DEF ChosenByRoot, MakesPending
    <3> QED BY <3>1, ChosenStays DEF RootChangesWait
  <2> QED BY <1>3, <2>1, <2>2 DEF RootChangesWait
<1>4. CASE ~UNCHANGED rootVars
  <2>1. \/ pendingRoot # NoAccount /\ root' = pendingRoot /\ pendingRoot' = NoAccount
        \/ \E caller \in Accounts, n \in DOMAIN scheduled :
             /\ execute(caller, n)
             /\ scheduled[n].data.call = "setPendingRoot"
             /\ root' = root /\ pendingRoot' = scheduled[n].data.account
    BY <1>4, RootSteps
  <2> QED BY <1>2, <1>3, <2>1
<1> QED BY <1>1, <1>4

\* A step that changes a delay runs a root's change to just that, in its time.
LEMMA DelayChangeIsRoots ==
  ASSUME TypeOK, ByRootOnly, [Next]_vars
  PROVE  DelayChangedByRoot
<1> SUFFICES ASSUME NEW action \in ActionIds, delays'[action] # delays[action]
             PROVE  \E n \in DOMAIN scheduled :
                      RunsForRoot(n, DelayCall(action, delays'[action]))
  BY DEF DelayChangedByRoot
<1>1. PICK caller \in Accounts, n \in DOMAIN scheduled :
        /\ execute(caller, n)
        /\ scheduled[n].data.call = "setDelay"
        /\ delays' = [delays EXCEPT ![scheduled[n].data.action] = scheduled[n].data.delay]
  BY DelaySteps
<1>2. scheduled[n] \in Executions
  BY DEF TypeOK
<1>3. scheduled[n].data = DelayCall(action, delays'[action])
  <2>1. scheduled[n].data \in Calls
    BY <1>2 DEF Executions
  <2>2. scheduled[n].data \in [call: {"setDelay"}, where: {Self}, action: ActionIds,
                              delay: 0..MAX_DELAY]
    BY <1>1, <2>1 DEF Calls
  <2>3. scheduled[n].data.action = action /\ delays'[action] = scheduled[n].data.delay
    BY <1>1, <2>2 DEF TypeOK
  <2> QED BY <2>2, <2>3 DEF DelayCall
<1>4. ~scheduled[n].executed /\ scheduled'[n].executed
  BY <1>1, Ran DEF execute, canExecute
<1>5. scheduled[n].byRoot /\ time >= scheduled[n].scheduledAt + MIN_DELAY
  <2>1. time >= scheduled[n].executableAt
    BY <1>1 DEF execute, canExecute
  <2>2. Provenance(n)
    BY DEF ByRootOnly
  <2>3. /\ time \in Nat /\ scheduled[n].executableAt \in Nat
        /\ scheduled[n].scheduledAt \in Nat
    BY <1>2 DEF Executions, TypeOK
  <2> QED BY <1>1, <2>1, <2>2, <2>3, AuthorizerAssumption DEF Provenance
<1> QED BY <1>3, <1>4, <1>5 DEF RunsForRoot

\* execute and cancel both refuse what ran and what was cancelled.
LEMMA RunOrCancelledKept ==
  ASSUME TypeOK, RunOrCancelled, [Next]_vars
  PROVE  RunOrCancelled'
<1> SUFFICES ASSUME NEW n \in DOMAIN scheduled'
             PROVE  ~(scheduled'[n].executed /\ scheduled'[n].cancelled)
  BY DEF RunOrCancelled
<1>1. CASE Scheduling
  <2>1. PICK caller \in Accounts, c \in Calls, delay \in Nat, executors \in ExecutorSets :
          scheduleWithDelay(caller, c, delay, executors)
    BY <1>1, SchedulingActions
  <2>2. CASE n \in DOMAIN scheduled
    BY <2>1, <2>2, Appended DEF RunOrCancelled
  <2>3. CASE n = Len(scheduled) + 1
    <3>1. scheduled'[n] =
            [data |-> c, executed |-> FALSE, cancelled |-> FALSE,
             protected |-> executors # {}, executableAt |-> time + delay,
             scheduler |-> caller, byRoot |-> caller = root,
             scheduledAt |-> time, ranAt |-> 0, alone |-> FALSE]
      BY <2>1, <2>3, Appended
    <3>2. ~scheduled'[n].executed
      BY <3>1
    <3> QED BY <3>2
  <2>4. n \in DOMAIN scheduled \union {Len(scheduled) + 1}
    BY <2>1, Appended
  <2> QED BY <2>2, <2>3, <2>4
<1>2. ASSUME NEW caller \in Accounts, NEW m \in DOMAIN scheduled, execute(caller, m)
      PROVE  ~(scheduled'[n].executed /\ scheduled'[n].cancelled)
  <2>1. ~scheduled[m].cancelled
    BY <1>2 DEF execute, canExecute
  <2> QED BY <1>2, <2>1, Ran DEF RunOrCancelled
<1>3. ASSUME NEW caller \in Accounts, NEW m \in DOMAIN scheduled, cancel(caller, m)
      PROVE  ~(scheduled'[n].executed /\ scheduled'[n].cancelled)
  BY <1>3, Cancelled DEF RunOrCancelled
<1>4. CASE Permitting
  BY <1>4, PermittingActions DEF RunOrCancelled
<1>5. CASE executeReturn \/ Tick \/ UNCHANGED vars
  BY <1>5 DEF executeReturn, Tick, vars, RunOrCancelled
<1> QED BY <1>1, <1>2, <1>3, <1>4, <1>5 DEF Next, Scheduled
-----------------------------------------------------------------------------
\* The inductive invariant: what makes root and delay changes safe is where the
\* scheduled calls come from, and that none runs before its time.
IInv == ByRootOnly /\ RootChangesWait /\ RunOrCancelled

\* The inductive invariant, in all behaviours.
LEMMA Inductive == Spec => []IInv
<1>1. Init => IInv
  BY DEF Init, IInv, ByRootOnly, RootChangesWait, RunOrCancelled
<1>2. TypeOK /\ IInv /\ [Next]_vars => IInv'
  BY ByRootOnlyKept, RootChangesWaitKept, RunOrCancelledKept DEF IInv
<1> QED BY <1>1, <1>2, TypeCorrect, PTL DEF Spec

\* Nobody becomes root without a root's request and the root transfer delay.
THEOREM RootTransfersWait == Spec => []RootChangesWait
<1>1. IInv => RootChangesWait
  BY DEF IInv
<1> QED BY <1>1, Inductive, PTL

\* No delay changes but in a step that runs a root's change to just that delay, asked
\* for MIN_DELAY before.
THEOREM DelaysAreTheRoots == Spec => DelaysChangeByRoot
<1>1. TypeOK /\ IInv /\ [Next]_vars => [DelayChangedByRoot]_vars
  BY DelayChangeIsRoots DEF IInv
<1> QED BY <1>1, Inductive, TypeCorrect, PTL DEF Spec, DelaysChangeByRoot

\* No execution runs and is also cancelled, even by its own target while it runs.
THEOREM NeverBoth == Spec => []RunOrCancelled
<1>1. IInv => RunOrCancelled
  BY DEF IInv
<1> QED BY <1>1, Inductive, PTL
-----------------------------------------------------------------------------
\* What grants or revokes was scheduled with a delay, and so waits for it.
PowersWait ==
  \A n \in DOMAIN scheduled :
    scheduled[n].data.call \in {"grantPermissions", "revokePermissions"} =>
      scheduled[n].executableAt > scheduled[n].scheduledAt

LEMMA PowersWaitKept ==
  ASSUME TypeOK, PowersWait, [Next]_vars
  PROVE  PowersWait'
<1> SUFFICES ASSUME NEW n \in DOMAIN scheduled',
                    scheduled'[n].data.call \in {"grantPermissions", "revokePermissions"}
             PROVE  scheduled'[n].executableAt > scheduled'[n].scheduledAt
  BY DEF PowersWait
<1>1. CASE Scheduling
  <2>1. PICK caller \in Accounts, c \in Calls, delay \in Nat, executors \in ExecutorSets :
          /\ scheduleWithDelay(caller, c, delay, executors)
          /\ c.call \in {"grantPermissions", "revokePermissions"} => delay > 0
    BY <1>1, SchedulingActions
  <2>2. CASE n \in DOMAIN scheduled
    BY <2>1, <2>2, Appended DEF PowersWait
  <2>3. CASE n = Len(scheduled) + 1
    <3>1. scheduled'[n] =
            [data |-> c, executed |-> FALSE, cancelled |-> FALSE,
             protected |-> executors # {}, executableAt |-> time + delay,
             scheduler |-> caller, byRoot |-> caller = root,
             scheduledAt |-> time, ranAt |-> 0, alone |-> FALSE]
      BY <2>1, <2>3, Appended
    <3>2. /\ scheduled'[n].data = c /\ scheduled'[n].executableAt = time + delay
          /\ scheduled'[n].scheduledAt = time /\ time \in Nat
      BY <3>1 DEF TypeOK
    <3> QED BY <2>1, <3>2
  <2>4. n \in DOMAIN scheduled \union {Len(scheduled) + 1}
    BY <2>1, Appended
  <2> QED BY <2>2, <2>3, <2>4
<1>2. CASE Permitting
  BY <1>2, PermittingActions DEF PowersWait
<1>3. ASSUME NEW caller \in Accounts, NEW m \in DOMAIN scheduled,
             execute(caller, m) \/ cancel(caller, m)
      PROVE  scheduled'[n].executableAt > scheduled'[n].scheduledAt
  BY <1>3, Ran, Cancelled DEF PowersWait
<1>4. CASE executeReturn \/ Tick \/ UNCHANGED vars
  BY <1>4 DEF executeReturn, Tick, vars, PowersWait
<1> QED BY <1>1, <1>2, <1>3, <1>4 DEF Next, Scheduled

\* The permissions that change as calls schedule, claim the root or manage granters and
\* revokers are not those to perform a plain action; the others leave them alone.
LEMMA PlainPermissionSteps ==
  ASSUME TypeOK, [Next]_vars, NEW p, p[1] \in NamedActions,
         ~(p \in permissions <=> p \in permissions')
  PROVE  \/ \E caller \in Accounts, n \in DOMAIN scheduled : execute(caller, n)
         \/ \E caller \in Accounts, action \in NamedActions, account \in Accounts,
               where \in NamedWheres :
              /\ p = <<action, account, where>>
              /\ \/ grantPermissions(caller, action, account, where)
                 \/ revokePermissions(caller, action, account, where)
         \/ \E caller \in Accounts, action \in NamedActions, where \in NamedWheres :
              /\ p = <<action, caller, where>>
              /\ renouncePermissions(caller, action, where)
<1>1. CASE Scheduling
  <2>1. PICK caller \in Accounts, c \in Calls, delay \in Nat, executors \in ExecutorSets :
          scheduleWithDelay(caller, c, delay, executors)
    BY <1>1, SchedulingActions
  <2>2. PICK e \in executors : p = <<executeId(Len(scheduled) + 1), e, Self>>
    BY <2>1 DEF scheduleWithDelay
  <2>3. Len(scheduled) + 1 \in Nat
    BY LenProperties DEF TypeOK
  <2>4. p[1] = executeId(Len(scheduled) + 1)
    BY <2>2
  <2> QED BY <2>3, <2>4, Ids, PlainActions
<1>2. ASSUME NEW caller \in Accounts, claimRoot(caller)
      PROVE  FALSE
  <2>1. \/ p = <<grantId(GENERAL), caller, EVERYWHERE>>
        \/ p = <<revokeId(GENERAL), caller, EVERYWHERE>>
        \/ p = <<grantId(GENERAL), root, EVERYWHERE>>
        \/ p = <<revokeId(GENERAL), root, EVERYWHERE>>
    BY <1>2 DEF claimRoot
  <2>2. p[1] = grantId(GENERAL) \/ p[1] = revokeId(GENERAL)
    BY <2>1
  <2> QED BY <2>2, Ids, PlainActions
<1>3. ASSUME NEW caller \in Accounts, NEW action \in Named, NEW account \in Accounts,
             NEW where \in NamedWheres, NEW allowed \in BOOLEAN,
             \/ manageGranter(caller, action, account, where, allowed)
             \/ manageRevoker(caller, action, account, where, allowed)
      PROVE  FALSE
  <2>1. p = <<grantId(action), account, where>> \/ p = <<revokeId(action), account, where>>
    BY <1>3 DEF manageGranter, manageRevoker, manage
  <2>2. p[1] = grantId(action) \/ p[1] = revokeId(action)
    BY <2>1
  <2> QED BY <2>2, PlainActions
<1>4. ASSUME NEW caller \in Accounts, NEW action \in NamedActions, NEW account \in Accounts,
             NEW where \in NamedWheres,
             \/ grantPermissions(caller, action, account, where)
             \/ revokePermissions(caller, action, account, where)
      PROVE  p = <<action, account, where>>
  BY <1>4 DEF grantPermissions, revokePermissions, grant, revoke
<1>5. ASSUME NEW caller \in Accounts, NEW action \in NamedActions, NEW where \in NamedWheres,
             renouncePermissions(caller, action, where)
      PROVE  p = <<action, caller, where>>
  BY <1>5 DEF renouncePermissions
<1>6. ASSUME NEW caller \in Accounts, NEW n \in DOMAIN scheduled, cancel(caller, n)
      PROVE  FALSE
  BY <1>6 DEF cancel
<1>7. CASE executeReturn \/ Tick \/ UNCHANGED vars
  BY <1>7 DEF executeReturn, Tick, vars
<1> QED BY <1>1, <1>2, <1>3, <1>4, <1>5, <1>6, <1>7 DEF Next, Scheduled, Permitting

\* An execution that grants or revokes does so with the arguments that were scheduled,
\* later than they were.
LEMMA PowerRan ==
  ASSUME TypeOK, PowersWait, NEW caller \in Accounts, NEW n \in DOMAIN scheduled,
         execute(caller, n), NEW p, ~(p \in permissions <=> p \in permissions')
  PROVE  /\ ~scheduled[n].executed /\ scheduled'[n].executed
         /\ time > scheduled[n].scheduledAt
         /\ scheduled[n].data =
              [call |-> IF p \in permissions' THEN "grantPermissions" ELSE "revokePermissions",
               where |-> Self, action |-> p[1], account |-> p[2], on |-> p[3]]
<1> DEFINE c == scheduled[n].data
<1>1. /\ scheduled[n] \in Executions /\ scheduled'[n].executed
      /\ ~scheduled[n].executed /\ time >= scheduled[n].executableAt
  BY Ran DEF execute, canExecute
<1>2. c \in Calls /\ time \in Nat
      /\ scheduled[n].executableAt \in Nat /\ scheduled[n].scheduledAt \in Nat
  BY <1>1 DEF Executions, TypeOK
<1>3. RunOnAuthorizer(c) \/ RunOnTarget(c)
  BY DEF execute
<1>4. /\ c.call = IF p \in permissions' THEN "grantPermissions" ELSE "revokePermissions"
      /\ p = <<c.action, c.account, c.on>>
  BY <1>3 DEF RunOnAuthorizer, RunOnTarget, setPendingRoot, setDelay, grant, revoke
<1>5. scheduled[n].executableAt > scheduled[n].scheduledAt
  BY <1>4 DEF PowersWait
<1>6. c \in [call: {"grantPermissions", "revokePermissions"}, where: {Self},
             action: Named, account: Accounts, on: Wheres]
  BY <1>2, <1>4 DEF Calls
<1>7. /\ p[1] = c.action /\ p[2] = c.account /\ p[3] = c.on
  BY <1>4
<1>8. c = [call |-> c.call, where |-> Self, action |-> c.action, account |-> c.account,
           on |-> c.on]
  BY <1>6
<1> QED BY <1>1, <1>2, <1>4, <1>5, <1>7, <1>8

LEMMA PowersWaitAlways == Spec => []PowersWait
<1>1. Init => PowersWait
  BY DEF Init, PowersWait
<1> QED BY <1>1, PowersWaitKept, TypeCorrect, PTL DEF Spec

\* While granting an action is delayed (TimelockAuthorizer._canPerformSpecificallyOrGenerally),
\* nobody obtains it but by an execution scheduled with those arguments, which waited.
THEOREM GrantsTakeTheirTime == Spec => GrantsWait
<1>1. TypeOK /\ PowersWait /\ [Next]_vars => GrantedInTime
  <2> SUFFICES ASSUME TypeOK, PowersWait, [Next]_vars, NEW p \in permissions' \ permissions,
                      p[1] \in NamedActions, delays[grantId(p[1])] > 0
               PROVE  \E n \in DOMAIN scheduled : RunsInTime(n, PowerCall("grantPermissions", p))
    BY DEF GrantedInTime
  <2>1. CASE \E caller \in Accounts, n \in DOMAIN scheduled : execute(caller, n)
    BY <2>1, PowerRan DEF RunsInTime, PowerCall
  <2>2. ASSUME NEW caller \in Accounts, NEW action \in NamedActions, NEW account \in Accounts,
               NEW where \in NamedWheres, p = <<action, account, where>>,
               \/ grantPermissions(caller, action, account, where)
               \/ revokePermissions(caller, action, account, where)
        PROVE  FALSE
    <3>1. p[1] = action /\ canGrant(action, caller, where)
      BY <2>2 DEF grantPermissions, revokePermissions, grant, revoke
    <3> QED BY <3>1, AuthorizerAssumption DEF canGrant, canPerformEither
  <2>3. ASSUME NEW caller \in Accounts, NEW action \in NamedActions, NEW where \in NamedWheres,
               renouncePermissions(caller, action, where)
        PROVE  FALSE
    BY <2>3 DEF renouncePermissions
  <2> QED BY <2>1, <2>2, <2>3, PlainPermissionSteps
<1> QED BY <1>1, TypeCorrect, PowersWaitAlways, PTL DEF Spec, GrantsWait

\* Nor does anybody lose it, while revoking it is delayed, but so, or by renouncing it.
THEOREM RevocationsTakeTheirTime == Spec => RevocationsWait
<1>1. TypeOK /\ PowersWait /\ [Next]_vars => RevokedInTime
  <2> SUFFICES ASSUME TypeOK, PowersWait, [Next]_vars, NEW p \in permissions \ permissions',
                      p[1] \in NamedActions, delays[revokeId(p[1])] > 0
               PROVE  \/ renouncePermissions(p[2], p[1], p[3])
                      \/ \E n \in DOMAIN scheduled :
                           RunsInTime(n, PowerCall("revokePermissions", p))
    BY DEF RevokedInTime
  <2>1. CASE \E caller \in Accounts, n \in DOMAIN scheduled : execute(caller, n)
    BY <2>1, PowerRan DEF RunsInTime, PowerCall
  <2>2. ASSUME NEW caller \in Accounts, NEW action \in NamedActions, NEW account \in Accounts,
               NEW where \in NamedWheres, p = <<action, account, where>>,
               \/ grantPermissions(caller, action, account, where)
               \/ revokePermissions(caller, action, account, where)
        PROVE  FALSE
    <3>1. p[1] = action /\ canRevoke(action, caller, where)
      BY <2>2 DEF grantPermissions, revokePermissions, grant, revoke
    <3> QED BY <3>1, AuthorizerAssumption DEF canRevoke, canPerformEither
  <2>3. ASSUME NEW caller \in Accounts, NEW action \in NamedActions, NEW where \in NamedWheres,
               p = <<action, caller, where>>, renouncePermissions(caller, action, where)
        PROVE  renouncePermissions(p[2], p[1], p[3])
    <3>1. p[1] = action /\ p[2] = caller /\ p[3] = where
      BY <2>3
    <3> QED BY <2>3, <3>1
  <2> QED BY <2>1, <2>2, <2>3, PlainPermissionSteps
<1> QED BY <1>1, TypeCorrect, PowersWaitAlways, PTL DEF Spec, RevocationsWait
-----------------------------------------------------------------------------
\* A delay in force for an action since `since' holds until `until': what is scheduled now
\* would wait that long, and so does all that was scheduled since.  Nor can a change that
\* waits take more away than it waits for.
Held(action, since, until) ==
  /\ time + delays[action] >= until
  /\ \A m \in DOMAIN scheduled :
       /\ scheduled[m].data.call = "setDelay" /\ scheduled[m].data.action = action
       /\ ~scheduled[m].executed /\ ~scheduled[m].cancelled
       => scheduled[m].executableAt + scheduled[m].data.delay >= until
  /\ \A m \in DOMAIN scheduled :
       /\ scheduled[m].data.call \notin {"setPendingRoot", "setDelay"}
       /\ delayedId(scheduled[m].data) = action
       /\ scheduled[m].scheduledAt > since
       => scheduled[m].executableAt >= until

HeldInv ==
  /\ \A m \in DOMAIN scheduled : scheduled[m].scheduledAt <= time
  /\ \A action \in ActionIds : \A n \in DOMAIN scheduled :
       SetsDelay(n, action) /\ scheduled[n].alone =>
         Held(action, scheduled[n].ranAt, scheduled[n].ranAt + scheduled[n].data.delay)

\* A change of a delay that is scheduled takes away no more than it waits for.
LEMMA ChangesWait ==
  ASSUME TypeOK, NEW action \in ActionIds, NEW newDelay \in Nat
  PROVE  changeDelay(action, newDelay) + newDelay >= delays[action]
<1>1. delays[action] \in Nat
  BY AuthorizerAssumption DEF TypeOK
<1> QED BY <1>1, AuthorizerAssumption DEF changeDelay, Later

\* The records of executions hold calls and times.
LEMMA Recorded ==
  ASSUME TypeOK, NEW m \in DOMAIN scheduled
  PROVE  /\ scheduled[m] \in Executions /\ scheduled[m].data \in Calls
         /\ scheduled[m].scheduledAt \in Nat /\ scheduled[m].executableAt \in Nat
         /\ scheduled[m].ranAt \in Nat
<1>1. scheduled[m] \in Executions
  BY ElementOfSeq, LenProperties DEF TypeOK
<1> QED BY <1>1 DEF Executions

\* What is scheduled waits for the delay in force.
LEMMA Adds ==
  ASSUME TypeOK, Scheduling
  PROVE  /\ UNCHANGED <<delays, time>>
         /\ \E new \in Nat, c \in Calls, delay \in Nat :
              /\ DOMAIN scheduled' = DOMAIN scheduled \union {new}
              /\ \A m \in DOMAIN scheduled : scheduled'[m] = scheduled[m]
              /\ scheduled'[new].data = c /\ ~scheduled'[new].executed
              /\ scheduled'[new].scheduledAt = time
              /\ scheduled'[new].executableAt = time + delay
              /\ c.call = "setDelay" => delay = changeDelay(c.action, c.delay)
              /\ c.call \notin {"setPendingRoot", "setDelay"} => delay = delays[delayedId(c)]
<1>1. PICK caller \in Accounts, c \in Calls, delay \in Nat, executors \in ExecutorSets :
        /\ scheduleWithDelay(caller, c, delay, executors)
        /\ c.call = "setDelay" => delay = changeDelay(c.action, c.delay)
        /\ c.call \notin {"setPendingRoot", "setDelay"} => delay = delays[delayedId(c)]
  BY SchedulingActions
<1>2. scheduleWithDelay(caller, c, delay, executors)
  BY <1>1
<1>3. PICK n \in Nat : n = Len(scheduled) + 1
  BY LenProperties DEF TypeOK
<1>4. /\ DOMAIN scheduled' = DOMAIN scheduled \union {n}
      /\ \A m \in DOMAIN scheduled : scheduled'[m] = scheduled[m]
  BY <1>2, <1>3, Appended
<1>5. scheduled'[n] =
        [data |-> c, executed |-> FALSE, cancelled |-> FALSE,
         protected |-> executors # {}, executableAt |-> time + delay,
         scheduler |-> caller, byRoot |-> caller = root,
         scheduledAt |-> time, ranAt |-> 0, alone |-> FALSE]
  BY <1>2, <1>3, Appended
<1>6. /\ scheduled'[n].data = c /\ ~scheduled'[n].executed
      /\ scheduled'[n].scheduledAt = time /\ scheduled'[n].executableAt = time + delay
  BY <1>5
<1>7. UNCHANGED <<delays, time>>
  BY SchedulingActions
<1> QED BY <1>1, <1>4, <1>6, <1>7

LEMMA HeldStays ==
  ASSUME TypeOK, [Next]_vars, NEW action \in ActionIds, NEW since \in Nat, NEW until \in Nat,
         Held(action, since, until)
  PROVE  Held(action, since, until)'
<1>0. /\ time \in Nat /\ delays[action] \in Nat
      /\ \A m \in DOMAIN scheduled : scheduled[m] \in Executions
  BY AuthorizerAssumption, ElementOfSeq, LenProperties DEF TypeOK
<1>1. CASE Scheduling
  <2>1. PICK new \in Nat, c \in Calls, delay \in Nat :
          /\ DOMAIN scheduled' = DOMAIN scheduled \union {new}
          /\ \A m \in DOMAIN scheduled : scheduled'[m] = scheduled[m]
          /\ scheduled'[new].data = c /\ ~scheduled'[new].executed
          /\ scheduled'[new].scheduledAt = time
          /\ scheduled'[new].executableAt = time + delay
          /\ c.call = "setDelay" => delay = changeDelay(c.action, c.delay)
          /\ c.call \notin {"setPendingRoot", "setDelay"} => delay = delays[delayedId(c)]
    BY <1>1, Adds
  <2>2. time' = time /\ delays' = delays
    BY <1>1, Adds
  <2>5. ASSUME c.call = "setDelay", c.action = action
        PROVE  time + delay + c.delay >= until
    <3>1. c.delay \in Nat
      BY <2>5, AuthorizerAssumption DEF Calls
    <3>2. changeDelay(action, c.delay) + c.delay >= delays[action]
      BY <3>1, ChangesWait
    <3> QED BY <1>0, <2>1, <2>5, <3>1, <3>2 DEF Held
  <2>6. ASSUME c.call \notin {"setPendingRoot", "setDelay"}, delayedId(c) = action
        PROVE  time + delay >= until
    BY <2>1, <2>6 DEF Held
  <2> QED BY <2>1, <2>2, <2>5, <2>6 DEF Held
<1>2. CASE Permitting
  BY <1>2, PermittingActions DEF Held
<1>3. ASSUME NEW caller \in Accounts, NEW n \in DOMAIN scheduled, execute(caller, n)
      PROVE  Held(action, since, until)'
  <2>1. time' = time /\ time >= scheduled[n].executableAt
        /\ ~scheduled[n].executed /\ ~scheduled[n].cancelled
    BY <1>3 DEF execute, canExecute
  <2>2. time + delays'[action] >= until
    <3>1. RunOnAuthorizer(scheduled[n].data) \/ RunOnTarget(scheduled[n].data)
      BY <1>3 DEF execute
    <3>2. CASE /\ scheduled[n].data.call = "setDelay"
               /\ delays' = [delays EXCEPT ![scheduled[n].data.action] = scheduled[n].data.delay]
      <4>1. CASE scheduled[n].data.action = action
        <5>1. scheduled[n].executableAt + scheduled[n].data.delay >= until
          BY <2>1, <3>2, <4>1 DEF Held
        <5>2. delays'[action] = scheduled[n].data.delay
          BY <3>2, <4>1 DEF TypeOK
        <5>3. scheduled[n].data.delay \in Nat /\ scheduled[n].executableAt \in Nat
          BY <1>0, <3>2, AuthorizerAssumption DEF Executions, Calls
        <5> QED BY <1>0, <2>1, <5>1, <5>2, <5>3
      <4>2. CASE scheduled[n].data.action # action
        <5>1. delays'[action] = delays[action]
          BY <3>2, <4>2 DEF TypeOK
        <5> QED BY <5>1 DEF Held
      <4> QED BY <4>1, <4>2
    <3>3. CASE delays' = delays
      BY <3>3 DEF Held
    <3> QED BY <3>1, <3>2, <3>3 DEF RunOnAuthorizer, RunOnTarget, setPendingRoot, setDelay,
                                    grant, revoke
  <2> QED BY <1>3, <2>1, <2>2, Ran DEF Held
<1>4. ASSUME NEW caller \in Accounts, NEW n \in DOMAIN scheduled, cancel(caller, n)
      PROVE  Held(action, since, until)'
  <2>1. UNCHANGED <<delays, time>> /\ ~scheduled[n].executed /\ ~scheduled[n].cancelled
    BY <1>4 DEF cancel
  <2> QED BY <1>4, <2>1, Cancelled DEF Held
<1>5. CASE Tick
  <2>1. time' = time + 1 /\ UNCHANGED <<delays, scheduled>>
    BY <1>5 DEF Tick
  <2> QED BY <1>0, <2>1 DEF Held
<1>6. CASE executeReturn \/ UNCHANGED vars
  BY <1>6 DEF executeReturn, vars, Held
<1> QED BY <1>1, <1>2, <1>3, <1>4, <1>5, <1>6 DEF Next, Scheduled

\* A delay that is set while no other change of it waits holds from there.
LEMMA HeldFromNow ==
  ASSUME TypeOK, HeldInv, NEW caller \in Accounts, NEW n \in DOMAIN scheduled,
         execute(caller, n), NEW action \in ActionIds, ChangesAlone(n),
         scheduled[n].data.action = action,
         NEW until, until = time + scheduled[n].data.delay
  PROVE  Held(action, time, until)'
<1>1. scheduled[n].data.call = "setDelay"
  BY DEF ChangesAlone
<1>2. delays'[action] = scheduled[n].data.delay /\ time' = time
  BY <1>1 DEF execute, RunOnAuthorizer, RunOnTarget, setDelay, TypeOK
<1>3. /\ DOMAIN scheduled' = DOMAIN scheduled
      /\ scheduled'[n].executed /\ scheduled'[n].scheduledAt = scheduled[n].scheduledAt
      /\ \A m \in DOMAIN scheduled \ {n} : scheduled'[m] = scheduled[m]
  BY Ran
<1>4. \A m \in DOMAIN scheduled' : scheduled'[m].scheduledAt <= time
  BY <1>3 DEF HeldInv
<1>5. \A m \in DOMAIN scheduled' : ~(scheduled'[m].scheduledAt > time)
  <2> SUFFICES ASSUME NEW m \in DOMAIN scheduled' PROVE ~(scheduled'[m].scheduledAt > time)
    OBVIOUS
  <2>1. scheduled[m].scheduledAt \in Nat /\ time \in Nat
    BY <1>3, Recorded DEF TypeOK
  <2>2. scheduled'[m].scheduledAt = scheduled[m].scheduledAt
    BY <1>3
  <2> QED BY <1>4, <2>1, <2>2
<1>6. ASSUME NEW m \in DOMAIN scheduled',
             scheduled'[m].data.call = "setDelay", scheduled'[m].data.action = action,
             ~scheduled'[m].executed, ~scheduled'[m].cancelled
      PROVE  FALSE
  <2>1. m \in DOMAIN scheduled \ {n} /\ scheduled'[m] = scheduled[m]
    BY <1>3, <1>6
  <2> QED BY <1>6, <2>1 DEF ChangesAlone
<1>7. time' + delays'[action] >= until
  <2>1. time \in Nat /\ scheduled[n].data.delay \in Nat
    BY <1>1, AuthorizerAssumption, Recorded DEF TypeOK, Calls
  <2> QED BY <1>2, <2>1
<1> QED BY <1>2, <1>5, <1>6, <1>7 DEF Held

\* What has run had run, or runs in this step.
LEMMA RunsNow ==
  ASSUME TypeOK, [Next]_vars, NEW n \in DOMAIN scheduled', scheduled'[n].executed,
         ~(n \in DOMAIN scheduled /\ scheduled[n].executed)
  PROVE  n \in DOMAIN scheduled /\ \E caller \in Accounts : execute(caller, n)
<1>1. CASE Scheduling
  <2>1. PICK new \in Nat : /\ DOMAIN scheduled' = DOMAIN scheduled \union {new}
                           /\ \A m \in DOMAIN scheduled : scheduled'[m] = scheduled[m]
                           /\ ~scheduled'[new].executed
    BY <1>1, Adds
  <2> QED BY <2>1
<1>2. CASE Permitting
  BY <1>2, PermittingActions
<1>3. ASSUME NEW caller \in Accounts, NEW m \in DOMAIN scheduled, execute(caller, m)
      PROVE  n \in DOMAIN scheduled /\ \E c \in Accounts : execute(c, n)
  <2>1. n \in DOMAIN scheduled /\ (n # m => scheduled'[n] = scheduled[n])
    BY <1>3, Ran
  <2>2. n = m
    BY <2>1
  <2> QED BY <1>3, <2>1, <2>2
<1>4. ASSUME NEW caller \in Accounts, NEW m \in DOMAIN scheduled, cancel(caller, m)
      PROVE  FALSE
  BY <1>4, Cancelled
<1>5. CASE executeReturn \/ Tick \/ UNCHANGED vars
  BY <1>5 DEF executeReturn, Tick, vars
<1> QED BY <1>1, <1>2, <1>3, <1>4, <1>5 DEF Next, Scheduled

\* Nothing is scheduled in the future.
LEMMA ScheduledBefore ==
  ASSUME TypeOK, [Next]_vars, \A m \in DOMAIN scheduled : scheduled[m].scheduledAt <= time
  PROVE  \A m \in DOMAIN scheduled' : scheduled'[m].scheduledAt <= time'
<1>0. time \in Nat /\ \A m \in DOMAIN scheduled : scheduled[m].scheduledAt \in Nat
  BY Recorded DEF TypeOK
<1>1. CASE Scheduling
  <2>1. PICK new \in Nat : /\ DOMAIN scheduled' = DOMAIN scheduled \union {new}
                           /\ \A m \in DOMAIN scheduled : scheduled'[m] = scheduled[m]
                           /\ scheduled'[new].scheduledAt = time
    BY <1>1, Adds
  <2>2. time' = time
    BY <1>1, Adds
  <2> QED BY <1>0, <2>1, <2>2
<1>2. CASE Permitting
  BY <1>2, PermittingActions
<1>3. ASSUME NEW caller \in Accounts, NEW n \in DOMAIN scheduled, execute(caller, n)
      PROVE  \A m \in DOMAIN scheduled' : scheduled'[m].scheduledAt <= time'
  <2>1. time' = time
    BY <1>3 DEF execute
  <2> QED BY <1>3, <2>1, Ran
<1>4. ASSUME NEW caller \in Accounts, NEW n \in DOMAIN scheduled, cancel(caller, n)
      PROVE  \A m \in DOMAIN scheduled' : scheduled'[m].scheduledAt <= time'
  <2>1. time' = time
    BY <1>4 DEF cancel
  <2> QED BY <1>4, <2>1, Cancelled
<1>5. CASE Tick
  <2>1. time' = time + 1 /\ scheduled' = scheduled
    BY <1>5 DEF Tick
  <2> QED BY <1>0, <2>1
<1>6. CASE executeReturn \/ UNCHANGED vars
  BY <1>6 DEF executeReturn, vars
<1> QED BY <1>1, <1>2, <1>3, <1>4, <1>5, <1>6 DEF Next, Scheduled

LEMMA HeldInvKept ==
  ASSUME TypeOK, HeldInv, [Next]_vars
  PROVE  HeldInv'
<1> SUFFICES ASSUME NEW action \in ActionIds, NEW n \in DOMAIN scheduled',
                    scheduled'[n].executed, scheduled'[n].data.call = "setDelay",
                    scheduled'[n].data.action = action, scheduled'[n].alone
             PROVE  Held(action, scheduled[n].ranAt, scheduled[n].ranAt + scheduled[n].data.delay)'
  BY ScheduledBefore DEF HeldInv, SetsDelay
<1>1. CASE n \in DOMAIN scheduled /\ scheduled[n].executed
  <2>1. /\ scheduled'[n].data = scheduled[n].data /\ scheduled'[n].ranAt = scheduled[n].ranAt
        /\ scheduled'[n].alone = scheduled[n].alone
    BY <1>1, HistoryStays
  <2>2. PICK since, until : /\ since = scheduled[n].ranAt
                            /\ until = scheduled[n].ranAt + scheduled[n].data.delay
    OBVIOUS
  <2>3. Held(action, since, until)
    BY <1>1, <2>1, <2>2 DEF HeldInv, SetsDelay
  <2>4. scheduled[n] \in Executions
    BY <1>1, ElementOfSeq, LenProperties DEF TypeOK
  <2>5. scheduled[n].data.delay \in Nat
    BY <2>1, <2>4, AuthorizerAssumption DEF Executions, Calls
  <2>6. since \in Nat /\ until \in Nat
    BY <2>2, <2>4, <2>5 DEF Executions
  <2>7. Held(action, since, until)'
    BY <2>3, <2>6, HeldStays
  <2> QED BY <2>1, <2>2, <2>7 DEF Held
<1>2. CASE ~(n \in DOMAIN scheduled /\ scheduled[n].executed)
  <2>1. n \in DOMAIN scheduled
    BY <1>2, RunsNow
  <2>2. PICK caller \in Accounts : execute(caller, n)
    BY <1>2, RunsNow
  <2>3. /\ scheduled'[n].data = scheduled[n].data /\ scheduled'[n].ranAt = time
        /\ ChangesAlone(n)
    BY <2>1, <2>2, Ran
  <2>4. PICK until : until = time + scheduled[n].data.delay
    OBVIOUS
  <2>5. Held(action, time, until)'
    BY <2>1, <2>2, <2>3, <2>4, HeldFromNow
  <2>6. time' = time
    BY <2>2 DEF execute
  <2> QED BY <2>3, <2>4, <2>5, <2>6 DEF Held
<1> QED BY <1>1, <1>2

LEMMA HeldAlways == Spec => []HeldInv
<1>1. Init => HeldInv
  BY DEF Init, HeldInv
<1> QED BY <1>1, HeldInvKept, TypeCorrect, PTL DEF Spec

\* Once a delay is in force, with no other change of it waiting, the action is not
\* performed sooner: reductions wait for what they take away (scheduleDelayChange).
THEOREM DelaysAreHeld == Spec => []DelaysHold
<1>1. TypeOK /\ HeldInv /\ ByRootOnly => DelaysHold
  <2> SUFFICES ASSUME TypeOK, HeldInv, ByRootOnly, NEW action \in ActionIds,
                      NEW n \in DOMAIN scheduled, SetsDelay(n, action), scheduled[n].alone
               PROVE  HoldsSince(n, action)
    BY DEF DelaysHold
  <2>1. PICK until : until = scheduled[n].ranAt + scheduled[n].data.delay
    OBVIOUS
  <2>2. Held(action, scheduled[n].ranAt, until)
    BY <2>1 DEF HeldInv
  <2>3. \A m \in DOMAIN scheduled : scheduled[m] \in Executions
    BY ElementOfSeq, LenProperties DEF TypeOK
  <2>4. time \in Nat /\ until \in Nat
    <3>1. scheduled[n].ranAt \in Nat /\ scheduled[n].data.delay \in Nat
      BY <2>3, AuthorizerAssumption DEF Executions, Calls, SetsDelay
    <3> QED BY <2>1, <3>1 DEF TypeOK
  <2>5. delays[action] = 0 => time >= until
    BY <2>2, <2>4 DEF Held
  <2>6. ASSUME NEW m \in DOMAIN scheduled, scheduled[m].executed,
               scheduled[m].data.call \notin {"setPendingRoot", "setDelay"},
               delayedId(scheduled[m].data) = action,
               scheduled[m].scheduledAt > scheduled[n].ranAt
        PROVE  scheduled[m].ranAt >= until
    <3>1. scheduled[m].executableAt >= until
      BY <2>2, <2>6 DEF Held
    <3>2. scheduled[m].ranAt >= scheduled[m].executableAt
      BY <2>6 DEF ByRootOnly, Provenance
    <3>3. scheduled[m].ranAt \in Nat /\ scheduled[m].executableAt \in Nat
      BY <2>3 DEF Executions
    <3> QED BY <2>4, <3>1, <3>2, <3>3
  <2> QED BY <2>1, <2>5, <2>6 DEF HoldsSince
<1>2. IInv => ByRootOnly
  BY DEF IInv
<1> QED BY <1>1, <1>2, TypeCorrect, HeldAlways, Inductive, PTL
=============================================================================
