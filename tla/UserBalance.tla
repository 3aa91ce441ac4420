------------------------------ MODULE UserBalance ------------------------------
(***************************************************************************)
(* Internal Balance: UserBalance.manageUserBalance, which performs a list  *)
(* of operations for the caller or for users that approved it.             *)
(*                                                                         *)
(* The list is one step per operation, because an operation transfers a    *)
(* token or sends ETH and so hands over control.  The two checks the code  *)
(* makes only once per call (that the caller is a relayer, that the Vault  *)
(* is not paused) are fields of the frame.                                 *)
(***************************************************************************)
EXTENDS AssetTransfers

UserBalanceOpKinds == {"DEPOSIT_INTERNAL", "WITHDRAW_INTERNAL",
                       "TRANSFER_INTERNAL", "TRANSFER_EXTERNAL"}

UserFrames ==
  [kind: {"manageUserBalance"}, caller: Callers, value: Nat, ethWrapped: Nat,
   checkedCallerIsRelayer: BOOLEAN, checkedNotPaused: BOOLEAN, steps: Nat]

manageUserBalance(caller, value) ==
  /\ Enter("manageUserBalance",
           [kind |-> "manageUserBalance", caller |-> caller, value |-> value,
            ethWrapped |-> 0, checkedCallerIsRelayer |-> FALSE,
            checkedNotPaused |-> FALSE, steps |-> 0])
  /\ ReceiveValue(value)
  /\ UNCHANGED <<poolVars, balances, internal, accessVars, pauseVars, feeVars,
                 tokenVars, ghostVars>>

\* _validateUserBalanceOp: signatures are not accepted here.  The role is checked once
\* in a call, the approval for every sender.
validateUserBalanceOp_ApprovalOnce(sender) ==
  sender # frame.caller =>
    \/ frame.checkedCallerIsRelayer
    \/ frame.caller \in relayerRoles /\ frame.caller \in approvedRelayers[sender]
validateUserBalanceOp(sender) ==
  sender # frame.caller =>
    /\ frame.checkedCallerIsRelayer \/ frame.caller \in relayerRoles
    /\ frame.caller \in approvedRelayers[sender]

\* Everything but a withdrawal is blocked while the Vault is paused.
pauseCheck(kind) ==
  kind # "WITHDRAW_INTERNAL" => frame.checkedNotPaused \/ NotPaused

\* The internal balances after moving amount of token t from one to the other.
Credit(account, t, amount) ==
  internal' = [internal EXCEPT ![account][t] = @ + amount]
Debit(account, t, amount) ==
  /\ internal[account][t] >= amount
  /\ internal' = [internal EXCEPT ![account][t] = @ - amount]

\* _depositToInternalBalance: the recipient is credited, the sender pays.
deposit(asset, amount, recipient) ==
  /\ Credit(recipient, translate(asset), amount)
  /\ held' = [held EXCEPT ![translate(asset)] = @ + amount]
  /\ IF asset = ETH
       THEN /\ amount <= ethHeld
            /\ ethHeld' = ethHeld - amount
            /\ UNCHANGED <<outside, ethOutside>>
       ELSE /\ amount <= outside[asset]
            /\ outside' = [outside EXCEPT ![asset] = @ - amount]
            /\ UNCHANGED ethVars

\* _withdrawFromInternalBalance: never partial.
withdraw(asset, amount, sender) ==
  /\ Debit(sender, translate(asset), amount)
  /\ held[translate(asset)] >= amount
  /\ held' = [held EXCEPT ![translate(asset)] = @ - amount]
  /\ IF asset = ETH
       THEN ethOutside' = ethOutside + amount /\ UNCHANGED <<outside, ethHeld>>
       ELSE /\ outside' = [outside EXCEPT ![asset] = @ + amount]
            /\ UNCHANGED ethVars

\* _transferInternalBalance
transferInternal_BothReadFirst(t, amount, sender, recipient) ==
  /\ internal[sender][t] >= amount
  /\ internal' = [internal EXCEPT ![sender][t] = internal[sender][t] - amount,
                                 ![recipient][t] = internal[recipient][t] + amount]
  /\ UNCHANGED <<held, outside, ethVars>>
transferInternal(t, amount, sender, recipient) ==
  /\ internal[sender][t] >= amount
  /\ internal' = InternalAfter(sender, [NoTokens EXCEPT ![t] = amount],
                               recipient, [NoTokens EXCEPT ![t] = amount])
  /\ UNCHANGED <<held, outside, ethVars>>

\* One iteration of the loop over the operations.
UserBalanceOp(kind, asset, amount, sender, recipient) ==
  /\ frame.kind = "manageUserBalance"
  /\ frame.steps < MaxSteps
  /\ validateUserBalanceOp(sender)
  /\ pauseCheck(kind)
  /\ kind \in {"TRANSFER_INTERNAL", "TRANSFER_EXTERNAL"} => asset # ETH
  /\ CASE kind = "DEPOSIT_INTERNAL" -> deposit(asset, amount, recipient)
       [] kind = "WITHDRAW_INTERNAL" -> withdraw(asset, amount, sender)
       [] kind = "TRANSFER_INTERNAL" ->
            transferInternal(asset, amount, sender, recipient)
       [] kind = "TRANSFER_EXTERNAL" ->   \* between accounts outside the Vault
            amount <= outside[asset] /\ UNCHANGED <<internal, held, outside, ethVars>>
  /\ frame' = [frame EXCEPT
       !.steps = @ + 1,
       !.ethWrapped = IF kind = "DEPOSIT_INTERNAL" /\ asset = ETH
                        THEN @ + amount ELSE @,
       !.checkedCallerIsRelayer = @ \/ sender # frame.caller,
       !.checkedNotPaused = @ \/ kind # "WITHDRAW_INTERNAL"]
  /\ UNCHANGED <<poolVars, balances, accessVars, pauseVars, feeVars, collected,
                 forwarder, ghostVars, saved>>

\* The end of the loop: _handleRemainingEth.
ManageUserBalanceReturn ==
  /\ frame.kind = "manageUserBalance"
  /\ \E excess \in 0..frame.value :
       /\ handleRemainingEth(frame.value, frame.ethWrapped, excess)
       /\ ethHeld' = ethHeld - excess /\ ethOutside' = ethOutside + excess
  /\ Leave
  /\ UNCHANGED <<poolVars, balances, internal, accessVars, pauseVars, feeVars,
                 tokenVars, ghostVars>>
=============================================================================
