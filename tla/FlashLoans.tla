------------------------------- MODULE FlashLoans -------------------------------
(***************************************************************************)
(* FlashLoans.flashLoan, and the ProtocolFeesCollector, a contract of its  *)
(* own that sets the fee and keeps it.  The receiver's hook runs between   *)
(* the two steps of a loan; it pays back by sending tokens to the Vault,   *)
(* and may meanwhile call anything the Vault's lock does not cover.        *)
(***************************************************************************)
EXTENDS VaultStorage

LoanFrame(f) ==
  /\ f.kind = "flashLoan"
  /\ f \in [kind: {"flashLoan"}, caller: Callers, amounts: {f.amounts},
            fees: {f.fees}, preLoan: {f.preLoan}]
  /\ OfTokens(f.amounts, Nat) /\ OfTokens(f.fees, Nat) /\ OfTokens(f.preLoan, Nat)
  /\ DOMAIN f.fees = DOMAIN f.amounts /\ DOMAIN f.preLoan = DOMAIN f.amounts

\* FixedPoint.mulUp of an amount and a percentage.
mulUp(amount, percentage) ==
  IF amount * percentage = 0 THEN 0
  ELSE (amount * percentage - 1) \div FeeDenominator + 1

\* ProtocolFeesCollector.getFlashLoanFeePercentage
FeePercentage(caller) == IF caller \in discounted THEN 0 ELSE flashLoanFee

\* The loop up to the hook: fees are fixed and the tokens lent.  The list of
\* tokens is sorted and without duplicates: a set.
flashLoan(caller, amounts) ==
  /\ NotPaused
  /\ \A t \in DOMAIN amounts : amounts[t] <= held[t]
  /\ Enter("flashLoan",
           [kind |-> "flashLoan", caller |-> caller, amounts |-> amounts,
            fees |-> [t \in DOMAIN amounts |-> mulUp(amounts[t], FeePercentage(caller))],
            preLoan |-> [t \in DOMAIN amounts |-> held[t]]])
  /\ held' = [t \in Tokens |->
                IF t \in DOMAIN amounts THEN held[t] - amounts[t] ELSE held[t]]
  /\ outside' = [t \in Tokens |->
                   IF t \in DOMAIN amounts THEN outside[t] + amounts[t] ELSE outside[t]]
  /\ UNCHANGED <<poolVars, balances, internal, accessVars, pauseVars, feeVars,
                 collected, forwarder, ethVars, ghostVars>>

\* The loop after the hook: INVALID_POST_LOAN_BALANCE, then the fee.
Repaid(t) == held[t] >= frame.preLoan[t]
FeeReceived_AtCurrentRate(t) ==
  held[t] - frame.preLoan[t] >= mulUp(frame.amounts[t], FeePercentage(frame.caller))
FeeReceived(t) == held[t] - frame.preLoan[t] >= frame.fees[t]

\* Everything above the balance before the loan goes to the collector, also
\* what was sent on top of the fee.
FeePaid(t) ==
  IF t \in DOMAIN frame.amounts THEN held[t] - frame.preLoan[t] ELSE 0

FlashLoanReturn ==
  /\ frame.kind = "flashLoan"
  /\ \A t \in DOMAIN frame.amounts : Repaid(t) /\ FeeReceived(t)
  /\ held' = [t \in Tokens |-> held[t] - FeePaid(t)]
  /\ collected' = [t \in Tokens |-> collected[t] + FeePaid(t)]
  /\ donated' = [t \in Tokens |->
       IF t \in DOMAIN frame.amounts THEN saved.donated[t] ELSE donated[t]]
  /\ Leave
  /\ UNCHANGED <<poolVars, balances, internal, accessVars, pauseVars, feeVars,
                 forwarder, outside, ethVars, ethForced>>
-----------------------------------------------------------------------------
\* The collector's functions, for callers the Authorizer allows.  They are not
\* behind the Vault's lock: all of them may run inside a Vault call.
withdrawCollectedFees(t, amount) ==
  /\ "withdrawCollectedFees" \in EntryPoints
  /\ amount <= collected[t]
  /\ collected' = [collected EXCEPT ![t] = @ - amount]
  /\ outside' = [outside EXCEPT ![t] = @ + amount]
  /\ UNCHANGED <<poolVars, balances, internal, accessVars, pauseVars, feeVars,
                 held, forwarder, ethVars, ghostVars, callVars>>

setFlashLoanFeePercentage(percentage) ==
  /\ "setFlashLoanFeePercentage" \in EntryPoints
  /\ percentage <= MaxFlashLoanFee
  /\ flashLoanFee' = percentage
  /\ UNCHANGED <<poolVars, balances, internal, accessVars, pauseVars, discounted,
                 tokenVars, ethVars, ghostVars, callVars>>

setFlashLoanFeeDiscount(accounts, isDiscounted) ==
  /\ "setFlashLoanFeeDiscount" \in EntryPoints
  /\ discounted' = IF isDiscounted THEN discounted \union accounts
                                   ELSE discounted \ accounts
  /\ UNCHANGED <<poolVars, balances, internal, accessVars, pauseVars, flashLoanFee,
                 tokenVars, ethVars, ghostVars, callVars>>
=============================================================================
