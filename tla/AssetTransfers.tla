----------------------------- MODULE AssetTransfers -----------------------------
(***************************************************************************)
(* How a call moves assets between its sender, its recipient and the Vault:*)
(* AssetTransfersHandler, the Internal Balance it may use instead of a     *)
(* token transfer, and the fees paid along the way (Fees._payFeeAmount).   *)
(*                                                                         *)
(* Amounts are functions of assets.  ETH is wrapped on its way in and      *)
(* unwrapped on its way out, so to the Vault it is WETH.  A token transfer *)
(* that its owner cannot cover reverts, and with it the call.              *)
(***************************************************************************)
EXTENDS VaultStorage

NoAmounts == [a \in Assets |-> 0]
NoTokens  == [t \in Tokens |-> 0]

\* What an amount of ETH is in token t.
AsToken(t, ethAmount) == IF t = WETH THEN ethAmount ELSE 0

\* UserBalance._decreaseInternalBalance with allowPartial: as much as there is.
Deducted(sender, amountsIn, fromInternal) ==
  [t \in Tokens |-> IF fromInternal
                      THEN Smaller(internal[sender][t], amountsIn[t]) ELSE 0]

\* _increaseInternalBalance and _decreaseInternalBalance.
InternalAfter(sender, deducted, recipient, credited) ==
  [u \in Users |-> [t \in Tokens |->
     internal[u][t] - (IF u = sender THEN deducted[t] ELSE 0)
                    + (IF u = recipient THEN credited[t] ELSE 0)]]

\* _handleRemainingEth, once the ETH used has been wrapped: a call that used more
\* than it sent reverts, and the excess goes back to its caller.
handleRemainingEth_Kept(value, used, excess) == used <= value /\ excess = 0
handleRemainingEth_Unchecked(value, used, excess) ==
  excess = IF used <= value THEN value - used ELSE 0
handleRemainingEth(value, used, excess) == used <= value /\ excess = value - used

(***************************************************************************)
(* _receiveAsset of every amount of amountsIn from the sender, _sendAsset  *)
(* of every amount of amountsOut to the recipient, _payFeeAmount of        *)
(* feeAmounts to the fee forwarder and _handleRemainingEth of the ETH sent *)
(* along.  The code goes asset by asset, in the order the caller lists     *)
(* them; as the asset in and the asset out of one transfer differ, the     *)
(* outcome does not depend on that order.                                  *)
(***************************************************************************)
TransferAssets(sender, amountsIn, fromInternal, recipient, amountsOut, toInternal, feeAmounts, value) ==
  LET deducted == Deducted(sender, amountsIn, fromInternal)
      credited == [t \in Tokens |-> IF toInternal THEN amountsOut[t] ELSE 0]
      pulled   == [t \in Tokens |-> amountsIn[t] - deducted[t]]
      pushed   == [t \in Tokens |-> amountsOut[t] - credited[t]]
      heldNext == [t \in Tokens |->
                     held[t] + pulled[t] + AsToken(t, amountsIn[ETH])
                       - pushed[t] - AsToken(t, amountsOut[ETH]) - feeAmounts[t]]
  IN /\ fromInternal => amountsIn[ETH] = 0
     /\ toInternal => amountsOut[ETH] = 0
     /\ amountsIn[ETH] <= ethHeld
     /\ \A t \in Tokens : pulled[t] <= outside[t] /\ heldNext[t] >= 0
     /\ held' = heldNext
     /\ outside' = [t \in Tokens |->
                      outside[t] - pulled[t] + pushed[t]]
     /\ forwarder' = [t \in Tokens |-> forwarder[t] + feeAmounts[t]]
     /\ internal' = InternalAfter(sender, deducted, recipient, credited)
     /\ \E excess \in 0..value :
          /\ handleRemainingEth(value, amountsIn[ETH], excess)
          /\ ethHeld' = ethHeld - amountsIn[ETH] - excess
          /\ ethOutside' = ethOutside + amountsOut[ETH] + excess

\* The caller hands over msg.value as the call begins.
ReceiveValue(value) ==
  /\ value <= ethOutside
  /\ ethHeld' = ethHeld + value
  /\ ethOutside' = ethOutside - value
=============================================================================
