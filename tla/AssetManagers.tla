----------------------------- MODULE AssetManagers -----------------------------
(***************************************************************************)
(* AssetManagers.managePoolBalance: the manager of a Pool's token moves it *)
(* in and out of the Vault and reports what it made of it.  One step per   *)
(* operation of the list, as each may transfer a token.                    *)
(***************************************************************************)
EXTENDS VaultStorage

PoolBalanceOpKinds == {"WITHDRAW", "DEPOSIT", "UPDATE"}

ManagerFrames == [kind: {"managePoolBalance"}, caller: Callers, steps: Nat]

managePoolBalance(caller) ==
  /\ NotPaused
  /\ Enter("managePoolBalance",
           [kind |-> "managePoolBalance", caller |-> caller, steps |-> 0])
  /\ UNCHANGED <<poolVars, balances, internal, accessVars, pauseVars, feeVars,
                 tokenVars, ethVars, ghostVars>>

\* The checks of the loop's body, on the Pool and on the caller.
ManagesToken(p, t) == assetManager[p][t] = frame.caller

\* The two tokens of a Two Token Pool share one block, the later of theirs
\* (toSharedCash and toSharedManaged).
sharingBlock(b, other) ==
  [b EXCEPT !.lastChangeBlock = IF other.lastChangeBlock > @
                                  THEN other.lastChangeBlock ELSE @]

\* The balances of Pool p once its token t has balance b.
StoreBalance(p, t, b) ==
  balances' = [balances EXCEPT ![p] =
    [u \in Tokens |->
       IF u = t THEN b
       ELSE IF Specialization[p] = "TWO_TOKEN" /\ u \in poolTokens[p]
         THEN sharingBlock(@[u], b) ELSE @[u]]]

\* _withdrawPoolBalance
withdrawPoolBalance(p, t, amount) ==
  LET b == cashToManaged(balances[p][t], amount)
  IN /\ Fits(b)
     /\ StoreBalance(p, t, b)
     /\ amount <= held[t]
     /\ held' = [held EXCEPT ![t] = @ - amount]
     /\ outside' = [outside EXCEPT ![t] = @ + amount]

\* _depositPoolBalance
depositPoolBalance(p, t, amount) ==
  LET b == managedToCash(balances[p][t], amount)
  IN /\ Fits(b)
     /\ StoreBalance(p, t, b)
     /\ amount <= outside[t]
     /\ held' = [held EXCEPT ![t] = @ + amount]
     /\ outside' = [outside EXCEPT ![t] = @ - amount]

\* _updateManagedBalance
updateManagedBalance(p, t, amount) ==
  LET b == setManaged(balances[p][t], amount, clock)
  IN Fits(b) /\ StoreBalance(p, t, b) /\ UNCHANGED <<held, outside>>

\* One iteration: _performPoolManagementOperation.
PoolBalanceOp(kind, p, t, amount) ==
  /\ frame.kind = "managePoolBalance"
  /\ frame.steps < MaxSteps
  /\ p \in registeredPools
  /\ t \in poolTokens[p]
  /\ ManagesToken(p, t)
  /\ CASE kind = "WITHDRAW" -> withdrawPoolBalance(p, t, amount)
       [] kind = "DEPOSIT"  -> depositPoolBalance(p, t, amount)
       [] kind = "UPDATE"   -> updateManagedBalance(p, t, amount)
  /\ frame' = [frame EXCEPT !.steps = @ + 1]
  /\ UNCHANGED <<poolVars, internal, accessVars, pauseVars, feeVars, collected,
                 forwarder, ethVars, ghostVars, saved>>

ManagePoolBalanceReturn ==
  /\ frame.kind = "managePoolBalance"
  /\ Leave
  /\ UNCHANGED <<poolVars, balances, internal, accessVars, pauseVars, feeVars,
                 tokenVars, ethVars, ghostVars>>
=============================================================================
