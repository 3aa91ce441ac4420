--------------------------- MODULE TimelockAuthorizer ---------------------------
(***************************************************************************)
(* authorizer/TimelockAuthorizer and its TimelockExecutor: who may perform *)
(* which action on which contract, and how long it takes.  An action with  *)
(* a delay can only be performed by the executor, as an execution that was *)
(* scheduled a delay earlier.                                              *)
(*                                                                         *)
(* The code identifies actions by hashes; here an action of another        *)
(* contract is a model value, a function of the Authorizer is <<name>>,    *)
(* and an extended id (getExtendedActionId) is <<name, specifier>>.  Calls *)
(* that take lists of actions are calls for one: such a call does what the *)
(* calls for each entry do, one after the other.                           *)
(*                                                                         *)
(* The EVM undoes a call that reverts: the model does not take that step.  *)
(***************************************************************************)
EXTENDS Integers, Sequences, FiniteSets

CONSTANTS
  Accounts,           \* callers, grantees, roots; the first root among them
  Admin,
  NoAccount,          \* the zero address
  Targets,            \* other contracts with actions
  Self, Executor,     \* the addresses of the two contracts
  EVERYWHERE,         \* matches any contract
  Actions,            \* the other contracts' actions
  SetAuthorizer,      \* the Vault's setAuthorizer among them
  GENERAL,            \* GENERAL_PERMISSION_SPECIFIER
  MIN_DELAY, MAX_DELAY, RootTransferDelay,
  \* The inputs a run explores, and its bounds.
  EntryPoints,        \* the functions called
  NamedActions,       \* the actions,
  DelayedActions,     \*   (in changes of delays)
  NamedWheres,        \* and the places those calls name
  Delays,
  ExecutorSets,       \* the lists of executors of protected executions
  MaxScheduled,       \* executions ever scheduled
  MaxTime

VARIABLES
  root, pendingRoot,  \* _root, _pendingRoot
  permissions,        \* _isPermissionGranted: <<action, account, where>>
  delays,             \* _delaysPerActionId
  scheduled,          \* _scheduledExecutions, with their history
  executing,          \* the execution whose target has control, if any
  time                \* block.timestamp

rootVars == <<root, pendingRoot>>
vars == <<root, pendingRoot, permissions, delays, scheduled, executing, time>>

baseId(call) == <<call>>
grantId(action) == <<"grantPermissions", action>>
revokeId(action) == <<"revokePermissions", action>>
executeId(n) == <<"execute", n>>

SelfCalls == {"setPendingRoot", "setDelay", "grantPermissions", "revokePermissions"}
Named == NamedActions \union {GENERAL}
ActionIds == Actions \union Named \union {baseId(call) : call \in SelfCalls}
               \union {grantId(a) : a \in Named} \union {revokeId(a) : a \in Named}
ExecuteIds == {"execute"} \X Nat

Wheres == Targets \union {Self, EVERYWHERE}
Permissions == (ActionIds \union ExecuteIds) \X (Accounts \union {NoAccount}) \X Wheres

\* The calls an execution can hold.
Calls ==
  [call: {"external"}, action: Actions, where: Targets]
    \union [call: {"setPendingRoot"}, where: {Self}, account: Accounts \union {NoAccount}]
    \union [call: {"setDelay"}, where: {Self}, action: ActionIds, delay: 0..MAX_DELAY]
    \union [call: {"grantPermissions", "revokePermissions"}, where: {Self},
            action: Named, account: Accounts, on: Wheres]

\* target.getActionId(_decodeSelector(data))
idOf(c) == IF c.call = "external" THEN c.action ELSE baseId(c.call)

None == 0
Later(a, b) == IF a >= b THEN a ELSE b
-----------------------------------------------------------------------------
hasPermission(action, account, where) ==
  \/ <<action, account, where>> \in permissions
  \/ <<action, account, EVERYWHERE>> \in permissions

\* With a delay, only the executor may perform an action itself.
canPerform(action, account, where) ==
  IF delays[action] > 0 THEN account = Executor
                        ELSE hasPermission(action, account, where)

\* _hasPermissionSpecificallyOrGenerally: to perform it or to schedule it.
isGranter(action, account, where) ==
  \/ hasPermission(grantId(action), account, where)
  \/ hasPermission(grantId(GENERAL), account, where)
isRevoker(action, account, where) ==
  \/ hasPermission(revokeId(action), account, where)
  \/ hasPermission(revokeId(GENERAL), account, where)

\* _canPerformSpecificallyOrGenerally: to perform it now.
canPerformEither_Naive(specific, general, account, where) ==
  canPerform(specific, account, where) \/ canPerform(general, account, where)
canPerformEither(specific, general, account, where) ==
  IF delays[specific] > 0
    THEN account = Executor
    ELSE \/ hasPermission(specific, account, where)
         \/ canPerform(general, account, where)
canGrant(action, account, where) ==
  canPerformEither(grantId(action), grantId(GENERAL), account, where)
canRevoke(action, account, where) ==
  canPerformEither(revokeId(action), revokeId(GENERAL), account, where)

canExecute(n) ==
  /\ ~scheduled[n].executed /\ ~scheduled[n].cancelled
  /\ time >= scheduled[n].executableAt

\* setDelay's own condition: no delay above that of replacing the Authorizer.
MaySetDelay(action, delay) == action = SetAuthorizer \/ delay <= delays[SetAuthorizer]

\* Execution n sets a delay that no other execution is waiting to change.
ChangesAlone(n) ==
  /\ scheduled[n].data.call = "setDelay"
  /\ \A m \in DOMAIN scheduled \ {n} :
       /\ scheduled[m].data.call = "setDelay"
       /\ scheduled[m].data.action = scheduled[n].data.action
       => scheduled[m].executed \/ scheduled[m].cancelled
-----------------------------------------------------------------------------
\* _scheduleWithDelay.  The last five fields are history: who scheduled it,
\* whether as root, when, when it ran, and whether no other change of the same
\* delay was waiting then.
scheduleWithDelay(caller, c, delay, executors) ==
  /\ Len(scheduled) < MaxScheduled
  /\ scheduled' = Append(scheduled,
       [data |-> c, executed |-> FALSE, cancelled |-> FALSE,
        protected |-> executors # {}, executableAt |-> time + delay,
        scheduler |-> caller, byRoot |-> caller = root, scheduledAt |-> time,
        ranAt |-> 0, alone |-> FALSE])
  /\ permissions' = permissions \union
       {<<executeId(Len(scheduled) + 1), e, Self>> : e \in executors}

\* _schedule: only what has a delay can be scheduled.
scheduleAction(caller, id, c, executors) ==
  /\ delays[id] > 0
  /\ scheduleWithDelay(caller, c, delays[id], executors)

\* While a target runs, it may call anything but execute.
MayCall(entryPoint) == entryPoint \in EntryPoints

scheduleRootChange(caller, newRoot, executors) ==
  /\ MayCall("scheduleRootChange")
  /\ caller = root
  /\ scheduleWithDelay(caller,
       [call |-> "setPendingRoot", where |-> Self, account |-> newRoot],
       RootTransferDelay, executors)
  /\ UNCHANGED <<rootVars, delays, executing, time>>

\* A reduction waits for the difference, and every change for MIN_DELAY.
changeDelay_NoDifference(action, newDelay) == MIN_DELAY
changeDelay_NoMinimum(action, newDelay) ==
  IF newDelay < delays[action] THEN delays[action] - newDelay ELSE 0
changeDelay(action, newDelay) ==
  IF newDelay < delays[action] THEN Later(delays[action] - newDelay, MIN_DELAY)
                               ELSE MIN_DELAY

scheduleDelayChange_Unbounded(caller, action, newDelay, executors) ==
  /\ MayCall("scheduleDelayChange")
  /\ caller = root
  /\ scheduleWithDelay(caller,
       [call |-> "setDelay", where |-> Self, action |-> action, delay |-> newDelay],
       changeDelay(action, newDelay), executors)
  /\ UNCHANGED <<rootVars, delays, executing, time>>
scheduleDelayChange(caller, action, newDelay, executors) ==
  /\ MayCall("scheduleDelayChange")
  /\ newDelay <= MAX_DELAY
  /\ caller = root
  /\ scheduleWithDelay(caller,
       [call |-> "setDelay", where |-> Self, action |-> action, delay |-> newDelay],
       changeDelay(action, newDelay), executors)
  /\ UNCHANGED <<rootVars, delays, executing, time>>

\* schedule: neither the Authorizer nor its executor can be the target.
schedulable_Anywhere(where) == TRUE
schedulable(where) == where # Self /\ where # Executor

schedule(caller, c, executors) ==
  /\ MayCall("schedule")
  /\ schedulable(c.where)
  /\ hasPermission(idOf(c), caller, c.where)
  /\ scheduleAction(caller, idOf(c), c, executors)
  /\ UNCHANGED <<rootVars, delays, executing, time>>

scheduleGrantPermission(caller, action, account, where, executors) ==
  /\ MayCall("scheduleGrantPermission")
  /\ isGranter(action, caller, where)
  /\ scheduleAction(caller, grantId(action),
       [call |-> "grantPermissions", where |-> Self, action |-> action,
        account |-> account, on |-> where], executors)
  /\ UNCHANGED <<rootVars, delays, executing, time>>

scheduleRevokePermission(caller, action, account, where, executors) ==
  /\ MayCall("scheduleRevokePermission")
  /\ isRevoker(action, caller, where)
  /\ scheduleAction(caller, revokeId(action),
       [call |-> "revokePermissions", where |-> Self, action |-> action,
        account |-> account, on |-> where], executors)
  /\ UNCHANGED <<rootVars, delays, executing, time>>

\* The permission asked for is that of the plain action, not of its extension.
MayCancel(caller, n) ==
  \/ hasPermission(idOf(scheduled[n].data), caller, scheduled[n].data.where)
  \/ caller = root

cancel_AlsoExecuted(caller, n) ==
  /\ MayCall("cancel")
  /\ n \in DOMAIN scheduled /\ ~scheduled[n].cancelled
  /\ MayCancel(caller, n)
  /\ scheduled' = [scheduled EXCEPT ![n].cancelled = TRUE]
  /\ UNCHANGED <<rootVars, permissions, delays, executing, time>>
cancel(caller, n) ==
  /\ MayCall("cancel")
  /\ n \in DOMAIN scheduled
  /\ ~scheduled[n].executed /\ ~scheduled[n].cancelled
  /\ MayCancel(caller, n)
  /\ scheduled' = [scheduled EXCEPT ![n].cancelled = TRUE]
  /\ UNCHANGED <<rootVars, permissions, delays, executing, time>>
-----------------------------------------------------------------------------
\* The executor's calls of functions of the Authorizer.
setPendingRoot(account) ==
  pendingRoot' = account /\ UNCHANGED <<root, permissions, delays>>
setDelay(action, delay) ==
  /\ MaySetDelay(action, delay)
  /\ delays' = [delays EXCEPT ![action] = delay]
  /\ UNCHANGED <<rootVars, permissions>>
grant(caller, action, account, where) ==
  /\ canGrant(action, caller, where)
  /\ permissions' = permissions \union {<<action, account, where>>}
  /\ UNCHANGED <<rootVars, delays>>
revoke(caller, action, account, where) ==
  /\ canRevoke(action, caller, where)
  /\ permissions' = permissions \ {<<action, account, where>>}
  /\ UNCHANGED <<rootVars, delays>>

RunOnAuthorizer(c) ==
  \/ c.call = "setPendingRoot" /\ setPendingRoot(c.account)
  \/ c.call = "setDelay" /\ setDelay(c.action, c.delay)
  \/ c.call = "grantPermissions" /\ grant(Executor, c.action, c.account, c.on)
  \/ c.call = "revokePermissions" /\ revoke(Executor, c.action, c.account, c.on)

\* Another contract's function asks canPerform, and then has control.
RunOnTarget(c) ==
  /\ c.call = "external"
  /\ canPerform(c.action, Executor, c.where)
  /\ UNCHANGED <<rootVars, permissions, delays>>

\* execute, up to the return of what it calls in the Authorizer or to the start
\* of what it calls elsewhere.
execute(caller, n) ==
  /\ executing = None
  /\ n \in DOMAIN scheduled
  /\ canExecute(n)
  /\ scheduled[n].protected => hasPermission(executeId(n), caller, Self)
  /\ scheduled' = [scheduled EXCEPT ![n].executed = TRUE, ![n].ranAt = time,
                                    ![n].alone = ChangesAlone(n)]
  /\ \/ RunOnAuthorizer(scheduled[n].data) /\ executing' = None
     \/ RunOnTarget(scheduled[n].data) /\ executing' = n
  /\ UNCHANGED time

executeReturn ==
  /\ executing # None
  /\ executing' = None
  /\ UNCHANGED <<rootVars, permissions, delays, scheduled, time>>
-----------------------------------------------------------------------------
claimRoot(caller) ==
  /\ MayCall("claimRoot")
  /\ caller = pendingRoot
  /\ permissions' =
       (permissions \union {<<grantId(GENERAL), caller, EVERYWHERE>>,
                            <<revokeId(GENERAL), caller, EVERYWHERE>>})
         \ {<<grantId(GENERAL), root, EVERYWHERE>>,
            <<revokeId(GENERAL), root, EVERYWHERE>>}
  /\ root' = caller
  /\ pendingRoot' = NoAccount
  /\ UNCHANGED <<delays, scheduled, executing, time>>

\* manageGranter and manageRevoker: the root gives the power, and those who
\* have it can take it from others.
manage(id, account, where, allowed) ==
  permissions' = IF allowed THEN permissions \union {<<id, account, where>>}
                            ELSE permissions \ {<<id, account, where>>}

manageGranter(caller, action, account, where, allowed) ==
  /\ MayCall("manageGranter")
  /\ caller = root \/ (~allowed /\ isGranter(action, caller, where))
  /\ manage(grantId(action), account, where, allowed)
  /\ UNCHANGED <<rootVars, delays, scheduled, executing, time>>

manageRevoker(caller, action, account, where, allowed) ==
  /\ MayCall("manageRevoker")
  /\ caller = root \/ (~allowed /\ isRevoker(action, caller, where))
  /\ manage(revokeId(action), account, where, allowed)
  /\ UNCHANGED <<rootVars, delays, scheduled, executing, time>>

grantPermissions(caller, action, account, where) ==
  /\ MayCall("grantPermissions")
  /\ grant(caller, action, account, where)
  /\ UNCHANGED <<scheduled, executing, time>>

revokePermissions(caller, action, account, where) ==
  /\ MayCall("revokePermissions")
  /\ revoke(caller, action, account, where)
  /\ UNCHANGED <<scheduled, executing, time>>

renouncePermissions(caller, action, where) ==
  /\ MayCall("renouncePermissions")
  /\ permissions' = permissions \ {<<action, caller, where>>}
  /\ UNCHANGED <<rootVars, delays, scheduled, executing, time>>

\* A transaction runs at one time.
Tick ==
  /\ executing = None
  /\ time < MaxTime
  /\ time' = time + 1
  /\ UNCHANGED <<rootVars, permissions, delays, scheduled, executing>>
-----------------------------------------------------------------------------
ASSUME AuthorizerAssumption ==
  /\ Admin \in Accounts /\ NoAccount \notin Accounts /\ Executor \notin Accounts
  /\ {Self, Executor, EVERYWHERE} \intersect Targets = {}
  /\ Self # EVERYWHERE /\ Self # Executor
  /\ SetAuthorizer \in Actions
  /\ NamedWheres \subseteq Wheres /\ DelayedActions \subseteq ActionIds
  /\ MIN_DELAY \in Nat /\ MAX_DELAY \in Nat /\ RootTransferDelay \in Nat
  /\ Delays \subseteq Nat
  /\ \A executors \in ExecutorSets : executors \subseteq Accounts
  /\ MaxScheduled \in Nat /\ MaxTime \in Nat

\* Ids are hashes: what calls name as a plain action is not an extended id too.
ASSUME PlainActions ==
  \A a \in NamedActions :
    a \notin ExecuteIds /\ \A b \in Named : a # grantId(b) /\ a # revokeId(b)

Executions ==
  [data: Calls, executed: BOOLEAN, cancelled: BOOLEAN, protected: BOOLEAN,
   executableAt: Nat, scheduler: Accounts, byRoot: BOOLEAN, scheduledAt: Nat,
   ranAt: Nat, alone: BOOLEAN]

TypeOK ==
  /\ root \in Accounts /\ pendingRoot \in Accounts \union {NoAccount}
  /\ permissions \subseteq Permissions
  /\ delays \in [ActionIds -> 0..MAX_DELAY]
  /\ scheduled \in Seq(Executions)
  /\ executing \in {None} \union DOMAIN scheduled
  /\ time \in Nat

\* The constructor.
Init ==
  /\ root = Admin /\ pendingRoot = NoAccount
  /\ permissions = {<<grantId(GENERAL), Admin, EVERYWHERE>>,
                    <<revokeId(GENERAL), Admin, EVERYWHERE>>}
  /\ delays = [a \in ActionIds |-> 0]
  /\ scheduled = << >>
  /\ executing = None
  /\ time = 0

Scheduling ==
  \E caller \in Accounts, executors \in ExecutorSets :
    \/ \E newRoot \in Accounts \union {NoAccount} :
         scheduleRootChange(caller, newRoot, executors)
    \/ \E action \in DelayedActions, delay \in Delays :
         scheduleDelayChange(caller, action, delay, executors)
    \/ \E c \in Calls : schedule(caller, c, executors)
    \/ \E action \in NamedActions, account \in Accounts, where \in NamedWheres :
         \/ scheduleGrantPermission(caller, action, account, where, executors)
         \/ scheduleRevokePermission(caller, action, account, where, executors)

Scheduled ==
  \/ \E caller \in Accounts, n \in DOMAIN scheduled :
       execute(caller, n) \/ cancel(caller, n)
  \/ executeReturn

Permitting ==
  \E caller \in Accounts :
    \/ claimRoot(caller)
    \/ \E action \in Named, account \in Accounts, where \in NamedWheres,
          allowed \in BOOLEAN :
         \/ manageGranter(caller, action, account, where, allowed)
         \/ manageRevoker(caller, action, account, where, allowed)
    \/ \E action \in NamedActions, account \in Accounts, where \in NamedWheres :
         \/ grantPermissions(caller, action, account, where)
         \/ revokePermissions(caller, action, account, where)
         \/ renouncePermissions(caller, action, where)

Next == Scheduling \/ Scheduled \/ Permitting \/ Tick

Spec == Init /\ [][Next]_vars
-----------------------------------------------------------------------------
\* Execution n ran, and set the delay of `action'; or made `account' pending root.
SetsDelay(n, action) ==
  /\ scheduled[n].executed
  /\ scheduled[n].data.call = "setDelay" /\ scheduled[n].data.action = action
MakesPending(n, account) ==
  /\ scheduled[n].executed
  /\ scheduled[n].data.call = "setPendingRoot"
  /\ scheduled[n].data.account = account

(***************************************************************************)
(* Nobody becomes root, or pending root, unless an account that was root   *)
(* then asked for it at least the root transfer delay before: no permission*)
(* and no detour through the executor makes the executor call the          *)
(* Authorizer's setPendingRoot otherwise.                                  *)
(***************************************************************************)
ChosenByRoot(account) ==
  \E n \in DOMAIN scheduled :
    /\ MakesPending(n, account)
    /\ scheduled[n].byRoot
    /\ scheduled[n].ranAt >= scheduled[n].scheduledAt + RootTransferDelay
RootChangesWait ==
  /\ pendingRoot # NoAccount => ChosenByRoot(pendingRoot)
  /\ root # Admin => ChosenByRoot(root)

\* What makes it so: the executor calls setPendingRoot and setDelay only as a root
\* scheduled them, and runs nothing before its time.
Provenance(n) ==
  /\ scheduled[n].data.call = "setPendingRoot" =>
       scheduled[n].byRoot /\ scheduled[n].executableAt >= scheduled[n].scheduledAt + RootTransferDelay
  /\ scheduled[n].data.call = "setDelay" =>
       scheduled[n].byRoot /\ scheduled[n].executableAt >= scheduled[n].scheduledAt + MIN_DELAY
  /\ scheduled[n].executed => scheduled[n].ranAt >= scheduled[n].executableAt
ByRootOnly == \A n \in DOMAIN scheduled : Provenance(n)

\* What has run was not cancelled, be it while its target was running.
RunOrCancelled ==
  \A n \in DOMAIN scheduled : ~(scheduled[n].executed /\ scheduled[n].cancelled)

\* The action whose delay an execution waited for.
delayedId(c) ==
  CASE c.call = "external" -> c.action
    [] c.call = "grantPermissions" -> grantId(c.action)
    [] c.call = "revokePermissions" -> revokeId(c.action)

\* `action' is not performed sooner than execution n's delay after it took effect,
\* unless it was scheduled before.
HoldsSince(n, action) ==
  LET until == scheduled[n].ranAt + scheduled[n].data.delay
  IN /\ delays[action] = 0 => time >= until
     /\ \A m \in DOMAIN scheduled :
          /\ scheduled[m].executed
          /\ scheduled[m].data.call \notin {"setPendingRoot", "setDelay"}
          /\ delayedId(scheduled[m].data) = action
          /\ scheduled[m].scheduledAt > scheduled[n].ranAt
          => scheduled[m].ranAt >= until

(***************************************************************************)
(* Once a delay is in force, with no other change of it waiting, the action*)
(* cannot be performed sooner than that: neither directly, nor scheduled,  *)
(* nor by any sequence of reductions, each of which waits for what it      *)
(* takes away.                                                             *)
(***************************************************************************)
DelaysHold ==
  \A action \in ActionIds : \A n \in DOMAIN scheduled :
    SetsDelay(n, action) /\ scheduled[n].alone => HoldsSince(n, action)

(***************************************************************************)
(* The comment in scheduleDelayChange has it for every delay: `it's never  *)
(* possible to execute an action in a shorter time than the current delay'.*)
(***************************************************************************)
NeverSooner ==
  \A action \in ActionIds : \A n \in DOMAIN scheduled :
    SetsDelay(n, action) => HoldsSince(n, action)

\* Execution n runs in this step, having waited, and is of the call c.
RunsInTime(n, c) ==
  /\ ~scheduled[n].executed /\ scheduled'[n].executed
  /\ scheduled[n].data = c
  /\ time > scheduled[n].scheduledAt
\* Execution n runs in this step as a root asked for it, MIN_DELAY before or more.
RunsForRoot(n, c) ==
  /\ ~scheduled[n].executed /\ scheduled'[n].executed
  /\ scheduled[n].data = c
  /\ scheduled[n].byRoot
  /\ time >= scheduled[n].scheduledAt + MIN_DELAY
DelayCall(action, delay) ==
  [call |-> "setDelay", where |-> Self, action |-> action, delay |-> delay]
DelayChangedByRoot ==
  \A action \in ActionIds :
    delays'[action] # delays[action] =>
      \E n \in DOMAIN scheduled : RunsForRoot(n, DelayCall(action, delays'[action]))

(***************************************************************************)
(* No delay changes, be it to zero or back to what it was, but in a step   *)
(* that runs a change to just that delay, asked for by a root MIN_DELAY    *)
(* before: no permission and no detour through the executor makes it call  *)
(* the Authorizer's setDelay otherwise.                                    *)
(***************************************************************************)
DelaysChangeByRoot == [][DelayChangedByRoot]_vars

PowerCall(call, p) ==
  [call |-> call, where |-> Self, action |-> p[1], account |-> p[2], on |-> p[3]]
GrantedInTime ==
  \A p \in permissions' \ permissions :
    p[1] \in NamedActions /\ delays[grantId(p[1])] > 0 =>
      \E n \in DOMAIN scheduled : RunsInTime(n, PowerCall("grantPermissions", p))
RevokedInTime ==
  \A p \in permissions \ permissions' :
    p[1] \in NamedActions /\ delays[revokeId(p[1])] > 0 =>
      \/ renouncePermissions(p[2], p[1], p[3])
      \/ \E n \in DOMAIN scheduled : RunsInTime(n, PowerCall("revokePermissions", p))

(***************************************************************************)
(* While granting an action is delayed nobody obtains the permission for it*)
(* but by an execution that somebody scheduled with just those arguments   *)
(* and that waited, whatever general powers its granters have.             *)
(***************************************************************************)
GrantsWait == [][GrantedInTime]_vars

(***************************************************************************)
(* Nor does anybody lose it, while revoking is delayed, but by such an     *)
(* execution or by renouncing it.                                          *)
(***************************************************************************)
RevocationsWait == [][RevokedInTime]_vars
=============================================================================
