--------------------------------- MODULE Vault ---------------------------------
(***************************************************************************)
(* The Vault: the contracts above put together, with what the rest of the  *)
(* world may do between and during their calls, and the properties of the  *)
(* whole.                                                                  *)
(***************************************************************************)
EXTENDS Swaps, FlashLoans, UserBalance, AssetManagers

ASSUME VaultAssumption ==
  /\ IsFiniteSet(Pools) /\ IsFiniteSet(Users) /\ IsFiniteSet(Tokens)
  /\ WETH \in Tokens /\ ETH \notin Tokens
  /\ NoManager \notin Managers
  /\ Specialization \in [Pools -> {"GENERAL", "MINIMAL_SWAP_INFO", "TWO_TOKEN"}]
  /\ FeeDenominator \in Nat \ {0} /\ MaxFlashLoanFee \in Nat
  /\ PauseWindowEnd \in Nat /\ BufferPeriodEnd \in Nat
  /\ PauseWindowEnd <= BufferPeriodEnd
  /\ InitialTokens \in Nat /\ InitialEth \in Nat
  /\ Amounts \subseteq Nat /\ Limits \subseteq Nat /\ MsgValues \subseteq Nat
  /\ DeltaLimits \subseteq Int
  /\ InputAssets \subseteq Assets /\ InternalFlags \subseteq BOOLEAN
  /\ MaxSteps \in Nat /\ MaxBlock \in Nat

FrameOK ==
  \/ frame = Idle
  \/ frame \in UserFrames
  \/ frame \in ManagerFrames
  \/ JoinExitFrame(frame)
  \/ LoanFrame(frame)
  \/ SwapFrame(frame)
  \/ BatchFrame(frame)

Snapshots ==
  [balances: [Pools -> [Tokens -> Balance]], internal: [Users -> [Tokens -> Nat]],
   signatures: SUBSET (Users \X Callers),
   held: [Tokens -> Nat], collected: [Tokens -> Nat], forwarder: [Tokens -> Nat],
   outside: [Tokens -> Nat], ethHeld: Nat, ethOutside: Nat,
   donated: [Tokens -> Nat], ethForced: Nat, flashLoanFee: 0..MaxFlashLoanFee,
   discounted: SUBSET Callers, relayerRoles: SUBSET Callers]

RegistryTyped ==
  /\ registeredPools \subseteq Pools
  /\ poolTokens \in [Pools -> SUBSET Tokens]
  /\ assetManager \in [Pools -> [Tokens -> Managers \union {NoManager}]]
BalancesTyped == balances \in [Pools -> [Tokens -> Balance]]
InternalTyped == internal \in [Users -> [Tokens -> Nat]]
AccessTyped ==
  /\ approvedRelayers \in [Users -> SUBSET Callers]
  /\ signatures \subseteq Users \X Callers
  /\ relayerRoles \subseteq Callers
PauseTyped == paused \in BOOLEAN /\ clock \in 0..MaxBlock
FeesTyped == flashLoanFee \in 0..MaxFlashLoanFee /\ discounted \subseteq Callers
TokensTyped ==
  /\ held \in [Tokens -> Nat] /\ collected \in [Tokens -> Nat]
  /\ forwarder \in [Tokens -> Nat] /\ outside \in [Tokens -> Nat]
EthTyped == ethHeld \in Nat /\ ethOutside \in Nat
GhostTyped == donated \in [Tokens -> Nat] /\ ethForced \in Nat
CallTyped == FrameOK /\ saved \in IF frame = Idle THEN {NothingSaved} ELSE Snapshots

TypeOK == /\ RegistryTyped /\ BalancesTyped /\ InternalTyped /\ AccessTyped
          /\ PauseTyped /\ FeesTyped /\ TokensTyped /\ EthTyped /\ GhostTyped
          /\ CallTyped

Init ==
  /\ registeredPools = {}
  /\ poolTokens = [p \in Pools |-> {}]
  /\ balances = [p \in Pools |-> [t \in Tokens |-> EmptyBalance]]
  /\ assetManager = [p \in Pools |-> [t \in Tokens |-> NoManager]]
  /\ internal = [u \in Users |-> NoTokens]
  /\ approvedRelayers = [u \in Users |-> {}]
  /\ paused = FALSE /\ clock = 0
  /\ flashLoanFee = 0 /\ discounted = {}
  /\ relayerRoles = {} /\ signatures = {}
  /\ held = NoTokens /\ collected = NoTokens /\ forwarder = NoTokens
  /\ outside = [t \in Tokens |-> InitialTokens]
  /\ ethHeld = 0 /\ ethOutside = InitialEth
  /\ donated = NoTokens /\ ethForced = 0
  /\ frame = Idle /\ saved = NothingSaved
-----------------------------------------------------------------------------
\* VaultAuthorization.setRelayerApproval, itself open to relayers.
setRelayerApproval(caller, sender, relayer, approved) ==
  /\ MayCall("setRelayerApproval")
  /\ NotPaused
  /\ authenticateFor(caller, sender)
  /\ approvedRelayers' = [approvedRelayers EXCEPT ![sender] =
       IF approved THEN @ \union {relayer} ELSE @ \ {relayer}]
  /\ UNCHANGED <<poolVars, balances, internal, relayerRoles, pauseVars, feeVars,
                 tokenVars, ethVars, ghostVars, callVars>>

\* TemporarilyPausable._setPaused: until when a pause can begin, and be ended.
mayStillSet_Renewed(value) == clock < BufferPeriodEnd
mayStillSet(value) == clock < IF value THEN PauseWindowEnd ELSE BufferPeriodEnd

\* Vault.setPaused, for a caller the Authorizer allows.
setPaused_Reentrant(value) ==
  /\ "setPaused" \in EntryPoints
  /\ mayStillSet(value)
  /\ paused' = value
  /\ UNCHANGED <<poolVars, balances, internal, accessVars, clock, feeVars,
                 tokenVars, ethVars, ghostVars, callVars>>
setPaused(value) ==
  /\ MayCall("setPaused")
  /\ mayStillSet(value)
  /\ paused' = value
  /\ UNCHANGED <<poolVars, balances, internal, accessVars, clock, feeVars,
                 tokenVars, ethVars, ghostVars, callVars>>
-----------------------------------------------------------------------------
\* Anybody may send tokens to the Vault at any time; a flash loan is repaid so.
Donate(t, amount) ==
  /\ "donate" \in EntryPoints
  /\ amount \in 1..outside[t]
  /\ held' = [held EXCEPT ![t] = @ + amount]
  /\ outside' = [outside EXCEPT ![t] = @ - amount]
  /\ donated' = [donated EXCEPT ![t] = @ + amount]
  /\ UNCHANGED <<poolVars, balances, internal, accessVars, pauseVars, feeVars,
                 collected, forwarder, ethVars, ethForced, callVars>>

\* The fee forwarder passes on what it received (its code is not in the repository).
Distribute(t) ==
  /\ "distribute" \in EntryPoints
  /\ forwarder[t] > 0
  /\ forwarder' = [forwarder EXCEPT ![t] = 0]
  /\ outside' = [outside EXCEPT ![t] = @ + forwarder[t]]
  /\ UNCHANGED <<poolVars, balances, internal, accessVars, pauseVars, feeVars,
                 held, collected, ethVars, ghostVars, callVars>>

\* ETH can only be forced into the Vault, which its receive function refuses.
ForceEth(amount) ==
  /\ "forceEth" \in EntryPoints
  /\ amount \in 1..ethOutside
  /\ ethHeld' = ethHeld + amount
  /\ ethOutside' = ethOutside - amount
  /\ ethForced' = ethForced + amount
  /\ UNCHANGED <<poolVars, balances, internal, accessVars, pauseVars, feeVars,
                 tokenVars, donated, callVars>>

\* The Authorizer grants or revokes a relayer's role, at any time.
AuthorizerChanges(caller) ==
  /\ "authorizer" \in EntryPoints
  /\ relayerRoles' = IF caller \in relayerRoles THEN relayerRoles \ {caller}
                                                ELSE relayerRoles \union {caller}
  /\ UNCHANGED <<poolVars, balances, internal, approvedRelayers, signatures,
                 pauseVars, feeVars, tokenVars, ethVars, ghostVars, callVars>>

\* A user signs one call by another account, off chain.
Sign(user, caller) ==
  /\ "sign" \in EntryPoints
  /\ NotEntered
  /\ signatures' = signatures \union {<<user, caller>>}
  /\ UNCHANGED <<poolVars, balances, internal, approvedRelayers, relayerRoles,
                 pauseVars, feeVars, tokenVars, ethVars, ghostVars, callVars>>

\* A transaction runs within one block.
NextBlock ==
  /\ NotEntered
  /\ clock < MaxBlock
  /\ clock' = clock + 1
  /\ UNCHANGED <<poolVars, balances, internal, accessVars, paused, feeVars,
                 tokenVars, ethVars, ghostVars, callVars>>

\* A guard of the code fails, or a contract it calls reverts: the EVM undoes
\* the call, and everything done during it.
Revert ==
  /\ frame # Idle
  /\ balances' = saved.balances /\ internal' = saved.internal
  /\ signatures' = saved.signatures /\ relayerRoles' = saved.relayerRoles
  /\ held' = saved.held /\ outside' = saved.outside
  /\ collected' = saved.collected /\ forwarder' = saved.forwarder
  /\ ethHeld' = saved.ethHeld /\ ethOutside' = saved.ethOutside
  /\ donated' = saved.donated /\ ethForced' = saved.ethForced
  /\ flashLoanFee' = saved.flashLoanFee /\ discounted' = saved.discounted
  /\ Leave
  /\ UNCHANGED <<poolVars, approvedRelayers, pauseVars>>
-----------------------------------------------------------------------------
Registry ==
  \E p \in Pools :
    \/ registerPool(p)
    \/ \E ts \in SUBSET Tokens \ {{}} :
         \/ \E manager \in [ts -> Managers \union {NoManager}] :
              registerTokens(p, ts, manager)
         \/ deregisterTokens(p, ts)

JoinsAndExits ==
  \/ \E kind \in PoolBalanceChangeKinds, caller \in Users \union Relayers,
        sender, recipient \in Users, p \in Pools,
        useInternalBalance \in InternalFlags,
        useEth \in {a = ETH : a \in InputAssets}, value \in MsgValues :
       \E limits \in [poolTokens[p] -> Limits] :
         JoinOrExit(kind, caller, sender, recipient, p, limits,
                    useInternalBalance, useEth, value)
  \/ /\ frame.kind \in PoolBalanceChangeKinds
     /\ \E amounts, fees \in [DOMAIN frame.cached -> Amounts] :
          JoinPoolReturn(amounts, fees) \/ ExitPoolReturn(amounts, fees)

SwapCalls ==
  \E caller \in Users \union Relayers, sender, recipient \in Users,
     kind \in SwapKinds, fromInternal, toInternal \in InternalFlags,
     deadline \in {0, MaxBlock}, value \in MsgValues :
    \/ \E p \in Pools, assetIn, assetOut \in InputAssets, amount \in Amounts,
          limit \in Limits :
         swap(caller, sender, recipient, p, kind, assetIn, assetOut, amount,
              limit, fromInternal, toInternal, deadline, value)
    \/ \E limits \in [InputAssets -> DeltaLimits] :
         batchSwap(caller, sender, recipient, kind, limits, fromInternal,
                   toInternal, deadline, value)

SwapReturns ==
  \/ \E p \in Pools, assetIn, assetOut \in InputAssets, amount \in Amounts :
       BatchSwapStep(p, assetIn, assetOut, amount)
  \/ \E calculated \in Amounts :
       SwapReturn(calculated) \/ BatchSwapStepReturn(calculated)
  \/ BatchSwapReturn

Loans ==
  \/ \E caller \in Users, ts \in SUBSET Tokens :
       \E amounts \in [ts -> Amounts] : flashLoan(caller, amounts)
  \/ FlashLoanReturn

Collector ==
  \/ \E t \in Tokens, amount \in Amounts : withdrawCollectedFees(t, amount)
  \/ \E percentage \in 0..MaxFlashLoanFee : setFlashLoanFeePercentage(percentage)
  \/ \E account \in Users, isDiscounted \in BOOLEAN :
       setFlashLoanFeeDiscount({account}, isDiscounted)

UserOperations ==
  \/ \E caller \in Users \union Relayers, value \in MsgValues :
       manageUserBalance(caller, value)
  \/ \E kind \in UserBalanceOpKinds, asset \in InputAssets, amount \in Amounts,
        sender, recipient \in Users :
       UserBalanceOp(kind, asset, amount, sender, recipient)
  \/ ManageUserBalanceReturn

ManagerOperations ==
  \/ \E caller \in Managers : managePoolBalance(caller)
  \/ \E kind \in PoolBalanceOpKinds, p \in Pools, t \in Tokens, amount \in Amounts :
       PoolBalanceOp(kind, p, t, amount)
  \/ ManagePoolBalanceReturn

Administration ==
  \/ \E caller, relayer \in Users \union Relayers, sender \in Users,
        approved \in BOOLEAN :
       setRelayerApproval(caller, sender, relayer, approved)
  \/ \E value \in BOOLEAN : setPaused(value)

World ==
  \/ \E t \in Tokens, amount \in Amounts : Donate(t, amount)
  \/ \E t \in Tokens : Distribute(t)
  \/ \E amount \in MsgValues : ForceEth(amount)
  \/ \E caller \in Relayers : AuthorizerChanges(caller)
  \/ \E user \in Users, caller \in Relayers : Sign(user, caller)
  \/ NextBlock

Next == \/ Registry \/ JoinsAndExits \/ SwapCalls \/ SwapReturns \/ Loans
        \/ Collector \/ UserOperations \/ ManagerOperations \/ Administration
        \/ World \/ Revert

Spec == Init /\ [][Next]_vars
-----------------------------------------------------------------------------
\* What the Vault owes in token t: to its Pools and to its users.
PoolsCash(stored, t) == SumFunction([p \in Pools |-> stored[p][t].cash])
UsersBalance(stored, t) == SumFunction([u \in Users |-> stored[u][t]])
Claims(t) == PoolsCash(balances, t) + UsersBalance(internal, t)

\* What a call in progress has lent and not taken back, or owes to the Vault.
Pending(t) ==
  CASE frame.kind = "flashLoan" /\ t \in DOMAIN frame.amounts -> frame.amounts[t]
    [] frame.kind = "batchSwap" ->
         frame.deltas[t] + AsToken(t, frame.deltas[ETH])
    [] OTHER -> 0

(***************************************************************************)
(* Every token unit the Vault holds or is owed backs exactly one claim, but*)
(* for what was sent to it unasked: cash of the Pools and Internal Balance *)
(* never add up to more than there is, also in the middle of a flash loan  *)
(* or of a batch of swaps, and no call keeps anything of its users'.       *)
(***************************************************************************)
Backed == \A t \in Tokens : held[t] + Pending(t) = Claims(t) + donated[t]

(***************************************************************************)
(* The Vault holds no ETH but what was forced into it and what the call in *)
(* progress sent along: a call uses only its own ETH (_receiveAsset checks *)
(* the Vault's whole balance, not the call's) and gets the rest back.      *)
(***************************************************************************)
CallValue ==
  CASE frame.kind = "manageUserBalance" -> frame.value - frame.ethWrapped
    [] frame.kind \in {"joinPool", "exitPool", "swap", "batchSwap"} -> frame.value
    [] OTHER -> 0
EthPassesThrough == ethHeld = ethForced + CallValue

(***************************************************************************)
(* While a Pool's hook runs, the balances the Vault read before calling it *)
(* are still the stored ones, so writing back what the hook changed (by    *)
(* index, in the General layout) loses no other update.                    *)
(***************************************************************************)
CachedBalancesCurrent ==
  /\ frame.kind \in {"joinPool", "exitPool"} => frame.cached = PoolBalancesOf(frame.pool)
  /\ frame.kind \in {"swap", "batchSwap"} /\ frame.request # NoRequest =>
       /\ DOMAIN frame.request.cached \subseteq poolTokens[frame.request.pool]
       /\ \A t \in DOMAIN frame.request.cached :
            frame.request.cached[t] = balances[frame.request.pool][t]

(***************************************************************************)
(* A token that a Pool has not registered has no balance in that Pool, no  *)
(* block and no Asset Manager: registering it again starts from nothing,   *)
(* and a Pool that is not registered has no tokens.                        *)
(***************************************************************************)
RegistryConsistent ==
  \A p \in Pools :
    /\ p \notin registeredPools => poolTokens[p] = {}
    /\ \A t \in Tokens \ poolTokens[p] :
         balances[p][t] = EmptyBalance /\ assetManager[p][t] = NoManager

-----------------------------------------------------------------------------
\* The step undoes the call in progress, or returns having done nothing.
Undone == frame # Idle /\ frame' = Idle /\ Snapshot' = saved

(***************************************************************************)
(* lastChangeBlock is what price oracles rely on: whenever a step of a call*)
(* changes a token's total, it becomes the current block.                  *)
(***************************************************************************)
TotalChangesStampBlock ==
  [][\A p \in Pools, t \in Tokens :
       ~Undone /\ total(balances'[p][t]) # total(balances[p][t]) =>
         balances'[p][t].lastChangeBlock = clock]_vars

(***************************************************************************)
(* An Asset Manager that moves tokens leaves every total, and the block it *)
(* last changed in, as they were: no price moves because of it.            *)
(***************************************************************************)
ManagersMoveQuietly ==
  [][\A p \in Pools, t \in Tokens :
       frame.kind = "managePoolBalance" /\ held' # held /\ ~Undone =>
         /\ total(balances'[p][t]) = total(balances[p][t])
         /\ balances'[p][t].lastChangeBlock = balances[p][t].lastChangeBlock]_vars

(***************************************************************************)
(* A paused Vault only pays out: until the pause ends no Pool's cash grows,*)
(* no managed balance changes, and Internal Balance grows only for the     *)
(* recipient of an exit.                                                   *)
(***************************************************************************)
PausedOnlyPaysOut ==
  [][~NotPaused /\ ~Undone =>
       /\ \A p \in Pools, t \in Tokens :
            /\ balances'[p][t].cash <= balances[p][t].cash
            /\ balances'[p][t].managed = balances[p][t].managed
       /\ \A u \in Users, t \in Tokens :
            internal'[u][t] > internal[u][t] =>
              frame.kind = "exitPool" /\ u = frame.recipient]_vars

(***************************************************************************)
(* A user's Internal Balance is spent by calls of the user's own, or by    *)
(* accounts the user approved, or signed for before the call.              *)
(***************************************************************************)
SpentByUsersWill ==
  [][\A u \in Users, t \in Tokens :
       internal'[u][t] < internal[u][t] /\ ~Undone =>
         \/ frame.caller = u
         \/ frame.caller \in approvedRelayers[u]
         \/ <<u, frame.caller>> \in saved.signatures]_vars

\* The call in progress returns, and is not undone.
Returns(kind) == frame.kind = kind /\ frame' = Idle /\ ~Undone

\* What the Pools gained of token t since the call began.
Gain(t) == PoolsCash(balances', t) - PoolsCash(saved.balances, t)

(***************************************************************************)
(* The limits a call names bind what all its Pools together took and gave, *)
(* over every hop of a batch, and whatever the Pools' hooks answered.      *)
(***************************************************************************)
SwapWithinLimit ==
  LET request == frame.request
  IN IF frame.swapKind = "GIVEN_IN"
       THEN Gain(translate(request.assetOut)) <= -frame.limit
       ELSE Gain(translate(request.assetIn)) <= frame.limit
BatchWithinLimits ==
  \A t \in Tokens :
    Gain(t) <= SumFunction([a \in DOMAIN frame.limits |->
                              IF translate(a) = t THEN frame.limits[a] ELSE 0])
JoinWithinLimits ==
  \A t \in DOMAIN frame.limits :
    Gain(t) + forwarder'[t] - forwarder[t] <= frame.limits[t]
ExitWithinLimits ==
  \A t \in DOMAIN frame.limits :
    Gain(t) + forwarder'[t] - forwarder[t] <= -frame.limits[t]
LimitsHonoured ==
  [][/\ Returns("swap") => SwapWithinLimit
     /\ Returns("batchSwap") => BatchWithinLimits
     /\ Returns("joinPool") => JoinWithinLimits
     /\ Returns("exitPool") => ExitWithinLimits]_vars

(***************************************************************************)
(* A flash loan that returns has put back every token it lent, and paid the*)
(* collector at least the fee that was due when the loan was made, whatever*)
(* became of the fee percentage and of the collector meanwhile.            *)
(***************************************************************************)
LoanFee(amount) ==
  mulUp(amount, IF frame.caller \in saved.discounted THEN 0 ELSE saved.flashLoanFee)
LoansRepaidWithFee ==
  [][Returns("flashLoan") =>
       \A t \in DOMAIN frame.amounts :
         /\ held'[t] = saved.held[t]
         /\ collected'[t] - collected[t] >= LoanFee(frame.amounts[t])]_vars
-----------------------------------------------------------------------------
(***************************************************************************)
(* No pause outlives the Buffer Period, even if nobody ends it: calls end  *)
(* (they run out of gas at the latest) and blocks keep coming.  And the    *)
(* Pause Window over, a pause that has ended is not followed by another.   *)
(***************************************************************************)
FairSpec == Spec /\ WF_vars(Revert) /\ SF_vars(NextBlock)
StaysUnpaused == NotPaused /\ clock >= PauseWindowEnd => NotPaused'
NotRenewed == [][StaysUnpaused]_vars
PausesExpire == <>[]NotPaused /\ NotRenewed
=============================================================================
