------------------------------- MODULE VaultProofs -------------------------------
(***************************************************************************)
(* Proofs about the Vault, for any Pools, tokens, users and amounts: that  *)
(* its state is well formed, that ETH passes through it, and, in the second*)
(* part, what it stores of each Pool while calls run: that balances read   *)
(* before a hook are current when it returns, that no balance is stored for*)
(* a token that is not registered, and that no pause begins after the      *)
(* Pause Window.                                                           *)
(***************************************************************************)
EXTENDS Vault, TLAPS

\* What a step leaves alone keeps its type.
LEMMA Unchanged ==
  ASSUME TypeOK
  PROVE  /\ UNCHANGED poolVars => RegistryTyped'
         /\ UNCHANGED balances => BalancesTyped'
         /\ UNCHANGED internal => InternalTyped'
         /\ UNCHANGED accessVars => AccessTyped'
         /\ UNCHANGED pauseVars => PauseTyped'
         /\ UNCHANGED feeVars => FeesTyped'
         /\ UNCHANGED tokenVars => TokensTyped'
         /\ UNCHANGED ethVars => EthTyped'
         /\ UNCHANGED ghostVars => GhostTyped'
         /\ UNCHANGED callVars => CallTyped'
BY DEF TypeOK, RegistryTyped, BalancesTyped, InternalTyped, AccessTyped, PauseTyped,
       FeesTyped, TokensTyped, EthTyped, GhostTyped, CallTyped, FrameOK, poolVars,
       accessVars, pauseVars, feeVars, tokenVars, ethVars, ghostVars, callVars

\* What Enter saves is a snapshot.
LEMMA SnapshotTyped == TypeOK => Snapshot \in Snapshots
BY DEF TypeOK, BalancesTyped, InternalTyped, AccessTyped, FeesTyped, TokensTyped,
       EthTyped, GhostTyped, Snapshot, Snapshots

\* A call that begins has a frame, and what it found can be restored.
LEMMA Entered ==
  ASSUME TypeOK, NEW entryPoint, NEW f, Enter(entryPoint, f), f.kind # "idle", FrameOK'
  PROVE  /\ CallTyped' /\ frame = Idle /\ frame' = f /\ frame' # Idle
         /\ saved' = Snapshot
<1>1. frame' = f /\ saved' = Snapshot /\ frame = Idle
  BY DEF Enter, MayCall, NotEntered
<1>2. frame' # Idle
  BY <1>1 DEF Idle
<1> QED BY <1>1, <1>2, SnapshotTyped DEF CallTyped

\* A call that returns leaves the idle frame, with nothing saved.
LEMMA Left == Leave => CallTyped' /\ frame' = Idle
BY DEF Leave, CallTyped, FrameOK

\* What the Vault is told of the world, and the types of amounts.
LEMMA Inputs ==
  /\ WETH \in Tokens /\ ETH \notin Tokens /\ Tokens \subseteq Assets
  /\ InputAssets \subseteq Assets /\ ETH \in Assets
  /\ \A a \in Assets : translate(a) \in Tokens
  /\ Users \subseteq Callers /\ Relayers \subseteq Callers /\ Managers \subseteq Callers
BY VaultAssumption DEF Assets, translate, Callers

\* The transfers at the end of a call move whole amounts: nobody's balance becomes
\* negative, and all the ETH sent along is spent or returned.
LEMMA Transferred ==
  ASSUME TypeOK, NEW sender \in Users, NEW recipient \in Users,
         NEW amountsIn \in [Assets -> Nat], NEW amountsOut \in [Assets -> Nat],
         NEW fromInternal \in BOOLEAN, NEW toInternal \in BOOLEAN,
         NEW feeAmounts \in [Tokens -> Nat], NEW value \in Nat, value <= ethHeld,
         TransferAssets(sender, amountsIn, fromInternal, recipient, amountsOut,
                        toInternal, feeAmounts, value),
         UNCHANGED collected
  PROVE  InternalTyped' /\ TokensTyped' /\ EthTyped' /\ ethHeld' = ethHeld - value
<1> DEFINE deducted == Deducted(sender, amountsIn, fromInternal)
           credited == [t \in Tokens |-> IF toInternal THEN amountsOut[t] ELSE 0]
           pulled   == [t \in Tokens |-> amountsIn[t] - deducted[t]]
           pushed   == [t \in Tokens |-> amountsOut[t] - credited[t]]
           heldNext == [t \in Tokens |->
                          held[t] + pulled[t] + AsToken(t, amountsIn[ETH])
                            - pushed[t] - AsToken(t, amountsOut[ETH]) - feeAmounts[t]]
<1>1. /\ amountsIn[ETH] \in Nat /\ amountsOut[ETH] \in Nat
      /\ \A t \in Tokens : amountsIn[t] \in Nat /\ amountsOut[t] \in Nat
  BY Inputs
<1>2. \A t \in Tokens : /\ deducted[t] \in Nat
                        /\ deducted[t] <= amountsIn[t]
                        /\ deducted[t] <= internal[sender][t]
  BY <1>1 DEF Deducted, Smaller, TypeOK, InternalTyped
<1>3. \A t \in Tokens : pulled[t] \in Nat /\ pushed[t] \in Nat /\ credited[t] \in Nat
  BY <1>1, <1>2
<1>4. \A t \in Tokens : pulled[t] <= outside[t] /\ heldNext[t] >= 0
  BY DEF TransferAssets
<1>5. InternalTyped'
  <2>1. internal' = InternalAfter(sender, deducted, recipient, credited)
    BY DEF TransferAssets
  <2>2. internal \in [Users -> [Tokens -> Nat]]
    BY DEF TypeOK, InternalTyped
  <2>3. ASSUME NEW u \in Users, NEW t \in Tokens
        PROVE  internal[u][t] - (IF u = sender THEN deducted[t] ELSE 0)
                 + (IF u = recipient THEN credited[t] ELSE 0) \in Nat
    <3>1. internal[u][t] \in Nat
      BY <2>2
    <3> HIDE DEF deducted, credited
    <3> QED BY <1>2, <1>3, <3>1
  <2> HIDE DEF deducted, credited
  <2> QED BY <2>1, <2>3 DEF InternalAfter, InternalTyped
<1>6. held' \in [Tokens -> Nat]
  <2>1. \A t \in Tokens : heldNext[t] \in Int
    <3>1. \A t \in Tokens : held[t] \in Nat
      BY DEF TypeOK, TokensTyped
    <3>2. \A t \in Tokens : AsToken(t, amountsIn[ETH]) \in Nat /\ AsToken(t, amountsOut[ETH]) \in Nat
      BY <1>1 DEF AsToken
    <3> HIDE DEF pulled, pushed
    <3> QED BY <1>3, <3>1, <3>2
  <2>2. held' = heldNext
    BY DEF TransferAssets
  <2>3. \A t \in Tokens : heldNext[t] \in Nat
    <3> HIDE DEF heldNext
    <3> QED BY <1>4, <2>1
  <2> QED BY <2>2, <2>3
<1>7. outside' \in [Tokens -> Nat] /\ forwarder' \in [Tokens -> Nat]
  <2>1. \A t \in Tokens : outside[t] \in Nat /\ forwarder[t] \in Nat
    BY DEF TypeOK, TokensTyped
  <2>2. /\ outside' = [t \in Tokens |-> outside[t] - pulled[t] + pushed[t]]
        /\ forwarder' = [t \in Tokens |-> forwarder[t] + feeAmounts[t]]
    BY DEF TransferAssets
  <2> HIDE DEF pulled, pushed
  <2> QED BY <1>3, <1>4, <2>1, <2>2
<1>8. EthTyped' /\ ethHeld' = ethHeld - value
  <2>1. /\ ethHeld' = ethHeld - amountsIn[ETH] - (value - amountsIn[ETH])
        /\ ethOutside' = ethOutside + amountsOut[ETH] + (value - amountsIn[ETH])
        /\ amountsIn[ETH] <= value
    BY DEF TransferAssets, handleRemainingEth
  <2>2. ethHeld \in Nat /\ ethOutside \in Nat
    BY DEF TypeOK, EthTyped
  <2> QED BY <1>1, <2>1, <2>2 DEF EthTyped
<1> QED BY <1>5, <1>6, <1>7, <1>8 DEF TokensTyped, TypeOK
-----------------------------------------------------------------------------
\* An operation on a balance that does not revert yields a balance.
LEMMA FittingBalance ==
  ASSUME NEW b \in [cash: Int, managed: Int, lastChangeBlock: Nat], Fits(b)
  PROVE  b \in Balance
BY TotalCapAssumption DEF Balance, Fits, total

\* The operations on balances give balances, where Fits says so.
LEMMA BalanceOperations ==
  ASSUME NEW b \in Balance, NEW amount \in Nat, NEW n \in Nat
  PROVE  /\ Fits(increaseCash(b, amount, n)) => increaseCash(b, amount, n) \in Balance
         /\ Fits(decreaseCash(b, amount, n)) => decreaseCash(b, amount, n) \in Balance
         /\ Fits(cashToManaged(b, amount)) => cashToManaged(b, amount) \in Balance
         /\ Fits(managedToCash(b, amount)) => managedToCash(b, amount) \in Balance
         /\ Fits(setManaged(b, amount, n)) => setManaged(b, amount, n) \in Balance
<1> DEFINE Raw == [cash: Int, managed: Int, lastChangeBlock: Nat]
<1>1. b \in Raw
  BY TotalCapAssumption DEF Balance
<1>2. increaseCash(b, amount, n) \in Raw /\ decreaseCash(b, amount, n) \in Raw
  BY <1>1 DEF increaseCash, decreaseCash, toBalance
<1>3. cashToManaged(b, amount) \in Raw /\ managedToCash(b, amount) \in Raw
  BY <1>1 DEF cashToManaged, managedToCash, toBalance
<1>4. setManaged(b, amount, n) \in Raw
  BY <1>1 DEF setManaged, toBalance
<1> QED BY <1>2, <1>3, <1>4, FittingBalance

\* An uninitialised slot holds a balance.
LEMMA EmptyBalanceTyped == EmptyBalance \in Balance
BY TotalCapAssumption DEF EmptyBalance, Balance

\* New balances for some tokens of a Pool are stored, the others stay.
LEMMA Stored ==
  ASSUME BalancesTyped, NEW p \in Pools, NEW changed, DOMAIN changed \subseteq Tokens,
         \A t \in DOMAIN changed : changed[t] \in Balance,
         StoreBalances(p, changed)
  PROVE  /\ BalancesTyped'
         /\ \A q \in Pools, t \in Tokens :
              balances'[q][t] = IF q = p /\ t \in DOMAIN changed THEN changed[t]
                                                                 ELSE balances[q][t]
<1> USE DEF BalancesTyped
<1>1. balances' = [balances EXCEPT ![p] =
        [t \in Tokens |-> IF t \in DOMAIN changed THEN changed[t] ELSE @[t]]]
  BY DEF StoreBalances
<1>2. \A t \in Tokens : balances[p][t] \in Balance
  OBVIOUS
<1>3. [t \in Tokens |-> IF t \in DOMAIN changed THEN changed[t] ELSE balances[p][t]]
        \in [Tokens -> Balance]
  BY <1>2
<1> QED BY <1>1, <1>3

\* The same for one token; in a Two Token Pool the other may take over its block.
LEMMA StoredOne ==
  ASSUME BalancesTyped, NEW p \in Pools, NEW t \in Tokens, NEW b \in Balance,
         StoreBalance(p, t, b)
  PROVE  /\ BalancesTyped'
         /\ \A q \in Pools, u \in Tokens :
              q # p \/ (u # t /\ u \notin poolTokens[p]) => balances'[q][u] = balances[q][u]
<1> USE DEF BalancesTyped
<1> DEFINE shared(u) == sharingBlock(balances[p][u], b)
           new == [u \in Tokens |->
                     IF u = t THEN b
                     ELSE IF Specialization[p] = "TWO_TOKEN" /\ u \in poolTokens[p]
                       THEN shared(u) ELSE balances[p][u]]
<1>1. balances' = [balances EXCEPT ![p] = new]
  BY DEF StoreBalance
<1>2. ASSUME NEW u \in Tokens PROVE shared(u) \in Balance
  <2>1. balances[p][u] \in Balance
    OBVIOUS
  <2> QED BY <2>1 DEF Balance, sharingBlock
<1>3. \A u \in Tokens : balances[p][u] \in Balance
  OBVIOUS
<1>4. new \in [Tokens -> Balance]
  <2> HIDE DEF shared
  <2> QED BY <1>2, <1>3
<1>5. \A u \in Tokens : u # t /\ u \notin poolTokens[p] => new[u] = balances[p][u]
  OBVIOUS
<1> HIDE DEF new
<1> QED BY <1>1, <1>4, <1>5
-----------------------------------------------------------------------------
(***************************************************************************)
(* The inductive invariant.  Types alone are not inductive: that the ETH   *)
(* left at the end of a call is a natural number is because the Vault      *)
(* holds what the call sent along, and that the step of a revert restores  *)
(* this is because no call begins with any.                                *)
(***************************************************************************)
SavedWithoutCallValue == frame # Idle => saved.ethHeld = saved.ethForced
IInv == TypeOK /\ EthPassesThrough /\ SavedWithoutCallValue

\* ETH is accounted for after a step that moves none and begins or ends no call.
LEMMA EthStays ==
  ASSUME IInv, UNCHANGED <<ethVars, ethForced, callVars>>
  PROVE  EthPassesThrough' /\ SavedWithoutCallValue'
BY DEF IInv, EthPassesThrough, SavedWithoutCallValue, CallValue, ethVars, callVars

\* A call begins with the ETH it sends along, and nothing else.
LEMMA CallBegins ==
  ASSUME IInv, NEW entryPoint, NEW f, Enter(entryPoint, f), f.kind # "idle", FrameOK'
  PROVE  /\ CallTyped' /\ SavedWithoutCallValue' /\ ethHeld = ethForced
         /\ frame' = f
<1>1. /\ CallTyped' /\ frame = Idle /\ frame' = f /\ saved' = Snapshot
  BY Entered DEF IInv
<1>2. ethHeld = ethForced
  <2>1. CallValue = 0
    BY <1>1 DEF CallValue, Idle
  <2> QED BY <2>1 DEF IInv, EthPassesThrough, TypeOK, GhostTyped
<1> QED BY <1>1, <1>2 DEF SavedWithoutCallValue, Snapshot

\* The ETH of a call is received with it.
LEMMA Received ==
  ASSUME TypeOK, NEW value \in Nat, ReceiveValue(value)
  PROVE  EthTyped' /\ ethHeld' = ethHeld + value
BY DEF ReceiveValue, TypeOK, EthTyped

\* A call that returns leaves no ETH behind but what was forced into the Vault.
LEMMA CallEnds ==
  ASSUME Leave, ethHeld' = ethForced', ethForced' \in Nat
  PROVE  CallTyped' /\ SavedWithoutCallValue' /\ EthPassesThrough'
<1>1. frame' = Idle /\ CallTyped'
  BY Left
<1>2. EthPassesThrough'
  BY <1>1 DEF CallValue, Idle, EthPassesThrough
<1>3. SavedWithoutCallValue'
  BY <1>1 DEF SavedWithoutCallValue
<1> QED BY <1>1, <1>2, <1>3
-----------------------------------------------------------------------------
\* Registering Pools and tokens.
LEMMA RegistryKeeps ==
  ASSUME IInv, NEW p \in Pools
  PROVE  /\ registerPool(p) => IInv'
         /\ \A ts \in SUBSET Tokens :
              /\ \A manager \in [ts -> Managers \union {NoManager}] :
                   registerTokens(p, ts, manager) => IInv'
              /\ deregisterTokens(p, ts) => IInv'
<1> USE DEF IInv
<1>1. ASSUME registerPool(p) PROVE IInv'
  <2>1. RegistryTyped'
    BY <1>1 DEF registerPool, RegistryTyped, TypeOK
  <2> QED BY <1>1, <2>1, Unchanged, EthStays DEF registerPool, TypeOK, ghostVars
<1>2. ASSUME NEW ts \in SUBSET Tokens, NEW manager \in [ts -> Managers \union {NoManager}],
             registerTokens(p, ts, manager)
      PROVE  IInv'
  <2>1. RegistryTyped'
    <3>1. [t \in Tokens |-> IF t \in ts THEN manager[t] ELSE assetManager[p][t]]
            \in [Tokens -> Managers \union {NoManager}]
      BY DEF RegistryTyped, TypeOK
    <3> QED BY <1>2, <3>1 DEF registerTokens, RegistryTyped, TypeOK
  <2> QED BY <1>2, <2>1, Unchanged, EthStays DEF registerTokens, TypeOK, ghostVars
<1>3. ASSUME NEW ts \in SUBSET Tokens, deregisterTokens(p, ts) PROVE IInv'
  <2>1. RegistryTyped'
    <3>1. managersWithout(p, ts) \in [Tokens -> Managers \union {NoManager}]
      BY DEF RegistryTyped, TypeOK, managersWithout
    <3> QED BY <1>3, <3>1 DEF deregisterTokens, RegistryTyped, TypeOK
  <2>2. BalancesTyped'
    <3>1. [t \in Tokens |-> IF t \in ts THEN EmptyBalance ELSE balances[p][t]]
            \in [Tokens -> Balance]
      BY EmptyBalanceTyped DEF BalancesTyped, TypeOK
    <3> QED BY <1>3, <3>1 DEF deregisterTokens, BalancesTyped, TypeOK
  <2> QED BY <1>3, <2>1, <2>2, Unchanged, EthStays DEF deregisterTokens, TypeOK, ghostVars
<1> QED BY <1>1, <1>2, <1>3
-----------------------------------------------------------------------------
\* Using up a signature leaves signatures.
LEMMA Authenticated ==
  ASSUME TypeOK, NEW caller, NEW user, authenticateFor(caller, user),
         UNCHANGED <<approvedRelayers, relayerRoles>>
  PROVE  AccessTyped'
BY DEF authenticateFor, TypeOK, AccessTyped

\* A call that may be payable begins: its frame is well formed and says what it sent.
LEMMA PayableCallBegins ==
  ASSUME IInv, NEW entryPoint, NEW f, NEW value \in Nat,
         Enter(entryPoint, f), FrameOK', ReceiveValue(value),
         f.kind \in {"manageUserBalance", "joinPool", "exitPool", "swap", "batchSwap"},
         f.value = value, f.kind = "manageUserBalance" => f.ethWrapped = 0,
         UNCHANGED ghostVars
  PROVE  CallTyped' /\ SavedWithoutCallValue' /\ EthPassesThrough' /\ EthTyped'
<1>1. f.kind # "idle"
  OBVIOUS
<1>2. /\ CallTyped' /\ SavedWithoutCallValue' /\ ethHeld = ethForced /\ frame' = f
  BY <1>1, CallBegins
<1>3. EthTyped' /\ ethHeld' = ethHeld + value
  BY Received DEF IInv
<1>4. EthPassesThrough'
  BY <1>2, <1>3 DEF EthPassesThrough, CallValue, ghostVars
<1> QED BY <1>2, <1>3, <1>4

\* joinPool and exitPool up to the hook.
LEMMA JoinOrExitKeeps ==
  ASSUME IInv, NEW kind \in PoolBalanceChangeKinds, NEW caller \in Users \union Relayers,
         NEW sender \in Users, NEW recipient \in Users, NEW p \in Pools,
         NEW limits \in [poolTokens[p] -> Limits],
         NEW useInternalBalance \in InternalFlags, NEW useEth \in BOOLEAN,
         NEW value \in MsgValues,
         JoinOrExit(kind, caller, sender, recipient, p, limits, useInternalBalance,
                    useEth, value)
  PROVE  IInv'
<1> DEFINE f == [kind |-> kind, caller |-> caller, sender |-> sender,
                 recipient |-> recipient, pool |-> p, limits |-> limits,
                 useInternalBalance |-> useInternalBalance,
                 useEth |-> useEth, value |-> value, cached |-> PoolBalancesOf(p)]
<1>1. Enter(kind, f) /\ ReceiveValue(value)
  BY DEF JoinOrExit
<1>2. JoinExitFrame(f)
  <2>1. OfTokens(limits, Nat) /\ OfTokens(PoolBalancesOf(p), Balance)
    <3>1. poolTokens[p] \subseteq Tokens /\ Limits \subseteq Nat
      BY VaultAssumption DEF IInv, TypeOK, RegistryTyped
    <3>2. OfTokens(limits, Nat)
      BY <3>1 DEF OfTokens
    <3>3. \A t \in Tokens : balances[p][t] \in Balance
      BY DEF IInv, TypeOK, BalancesTyped
    <3> QED BY <3>1, <3>2, <3>3 DEF OfTokens, PoolBalancesOf
  <2>2. caller \in Callers /\ value \in Nat /\ useInternalBalance \in BOOLEAN
    BY VaultAssumption DEF Callers
  <2> QED BY <2>1, <2>2 DEF JoinExitFrame
<1>3. frame' = f
  BY <1>1 DEF Enter
<1>4. FrameOK'
  BY <1>2, <1>3 DEF FrameOK, JoinExitFrame
<1>5. CallTyped' /\ SavedWithoutCallValue' /\ EthPassesThrough' /\ EthTyped'
  <2>1. /\ f.kind \in {"joinPool", "exitPool"} /\ f.value = value /\ value \in Nat
        /\ UNCHANGED ghostVars
    BY VaultAssumption DEF PoolBalanceChangeKinds, JoinOrExit
  <2> HIDE DEF f
  <2> QED BY <1>1, <1>4, <2>1, PayableCallBegins
<1>6. AccessTyped'
  BY Authenticated DEF JoinOrExit, IInv
<1> QED BY <1>5, <1>6, Unchanged DEF JoinOrExit, IInv, TypeOK
\* The frame of a call in progress is of the call's kind, and the snapshot is one.
LEMMA FrameKinds ==
  ASSUME TypeOK
  PROVE  /\ frame.kind \in PoolBalanceChangeKinds => JoinExitFrame(frame)
         /\ frame.kind = "swap" => SwapFrame(frame)
         /\ frame.kind = "batchSwap" => BatchFrame(frame)
         /\ frame.kind = "flashLoan" => LoanFrame(frame)
         /\ frame.kind = "manageUserBalance" => frame \in UserFrames
         /\ frame.kind = "managePoolBalance" => frame \in ManagerFrames
BY DEF TypeOK, CallTyped, FrameOK, Idle, UserFrames, ManagerFrames, JoinExitFrame,
       LoanFrame, SwapFrame, BatchFrame, PoolBalanceChangeKinds

\* The amounts a join or an exit moves, in terms of assets.
LEMMA AsAssetsTyped ==
  ASSUME NEW amounts, OfTokens(amounts, Nat), NEW useEth \in BOOLEAN
  PROVE  AsAssets(amounts, useEth) \in [Assets -> Nat] /\ FeesOf(amounts) \in [Tokens -> Nat]
BY DEF OfTokens, AsAssets, FeesOf

\* A call returns, having transferred what its limits allow.
LEMMA TransferReturns ==
  ASSUME IInv, NEW sender \in Users, NEW recipient \in Users,
         NEW amountsIn \in [Assets -> Nat], NEW amountsOut \in [Assets -> Nat],
         NEW fromInternal \in BOOLEAN, NEW toInternal \in BOOLEAN,
         NEW feeAmounts \in [Tokens -> Nat],
         frame.kind \in {"joinPool", "exitPool", "swap", "batchSwap"}, frame.value \in Nat,
         TransferAssets(sender, amountsIn, fromInternal, recipient, amountsOut,
                        toInternal, feeAmounts, frame.value),
         Leave, BalancesTyped',
         UNCHANGED <<poolVars, accessVars, pauseVars, feeVars, collected, ghostVars>>
  PROVE  IInv'
<1>1. ethHeld = ethForced + frame.value /\ ethForced \in Nat /\ UNCHANGED collected
  BY DEF IInv, EthPassesThrough, CallValue, TypeOK, GhostTyped
<1>2. frame.value <= ethHeld
  BY <1>1
<1>3. TypeOK
  BY DEF IInv
<1>4. InternalTyped' /\ TokensTyped' /\ EthTyped' /\ ethHeld' = ethHeld - frame.value
  BY <1>1, <1>2, <1>3, Transferred
<1>5. ethHeld' = ethForced' /\ ethForced' \in Nat
  BY <1>1, <1>4 DEF ghostVars
<1>6. CallTyped' /\ SavedWithoutCallValue' /\ EthPassesThrough'
  BY <1>5, CallEnds
<1> QED BY <1>3, <1>4, <1>6, Unchanged DEF IInv, TypeOK

\* joinPool returns the ETH it did not wrap, and stores fitting balances.
LEMMA JoinReturnKeeps ==
  ASSUME IInv, NEW amountsIn \in [DOMAIN frame.cached -> Amounts],
         NEW fees \in [DOMAIN frame.cached -> Amounts], JoinPoolReturn(amountsIn, fees)
  PROVE  IInv'
<1>1. JoinExitFrame(frame) /\ frame.kind = "joinPool"
  BY FrameKinds DEF JoinPoolReturn, PoolBalanceChangeKinds, IInv
<1>2. /\ frame.sender \in Users /\ frame.recipient \in Users /\ frame.pool \in Pools
      /\ frame.useInternalBalance \in BOOLEAN /\ frame.useEth \in BOOLEAN
      /\ frame.value \in Nat /\ OfTokens(frame.cached, Balance)
  BY <1>1 DEF JoinExitFrame
<1>3. /\ OfTokens(amountsIn, Nat) /\ OfTokens(fees, Nat)
      /\ \A t \in DOMAIN frame.cached : amountsIn[t] \in Nat /\ fees[t] \in Nat
  BY <1>2, VaultAssumption DEF OfTokens
<1>4. /\ AsAssets(amountsIn, frame.useEth) \in [Assets -> Nat]
      /\ NoAmounts \in [Assets -> Nat] /\ FeesOf(fees) \in [Tokens -> Nat]
  BY <1>2, <1>3, AsAssetsTyped DEF NoAmounts
<1> DEFINE final == [t \in DOMAIN frame.cached |->
                       joinedBalance(frame.cached[t], amountsIn[t], fees[t])]
<1>5. \A t \in DOMAIN final : final[t] \in Balance
  <2> SUFFICES ASSUME NEW t \in DOMAIN frame.cached
               PROVE  joinedBalance(frame.cached[t], amountsIn[t], fees[t]) \in Balance
    OBVIOUS
  <2>1. Fits(joinedBalance(frame.cached[t], amountsIn[t], fees[t]))
    BY DEF JoinPoolReturn
  <2>2. frame.cached[t] \in Balance /\ clock \in Nat
    BY <1>2, VaultAssumption DEF OfTokens, IInv, TypeOK, PauseTyped
  <2>3. CASE amountsIn[t] >= fees[t]
    <3>1. amountsIn[t] - fees[t] \in Nat
      BY <1>3, <2>3
    <3> QED BY <2>1, <2>2, <2>3, <3>1, BalanceOperations DEF joinedBalance
  <2>4. CASE ~(amountsIn[t] >= fees[t])
    <3>1. fees[t] - amountsIn[t] \in Nat
      BY <1>3, <2>4
    <3> QED BY <2>1, <2>2, <2>4, <3>1, BalanceOperations DEF joinedBalance
  <2> QED BY <2>3, <2>4
<1>6. StoreBalances(frame.pool, final) /\ DOMAIN final \subseteq Tokens
  BY <1>2 DEF JoinPoolReturn, OfTokens
<1>7. BalancesTyped'
  <2> HIDE DEF final
  <2> QED BY <1>2, <1>5, <1>6, Stored DEF IInv, TypeOK
<1>8. /\ TransferAssets(frame.sender, AsAssets(amountsIn, frame.useEth),
                        frame.useInternalBalance, frame.recipient, NoAmounts, FALSE,
                        FeesOf(fees), frame.value)
      /\ Leave
      /\ UNCHANGED <<poolVars, accessVars, pauseVars, feeVars, collected, ghostVars>>
  BY DEF JoinPoolReturn
<1> QED BY <1>1, <1>2, <1>4, <1>7, <1>8, TransferReturns

\* exitPool receives no ETH, and unwraps only what it sends on.
LEMMA ExitReturnKeeps ==
  ASSUME IInv, NEW amountsOut \in [DOMAIN frame.cached -> Amounts],
         NEW fees \in [DOMAIN frame.cached -> Amounts], ExitPoolReturn(amountsOut, fees)
  PROVE  IInv'
<1>1. JoinExitFrame(frame) /\ frame.kind = "exitPool"
  BY FrameKinds DEF ExitPoolReturn, PoolBalanceChangeKinds, IInv
<1>2. /\ frame.sender \in Users /\ frame.recipient \in Users /\ frame.pool \in Pools
      /\ frame.useInternalBalance \in BOOLEAN /\ frame.useEth \in BOOLEAN
      /\ frame.value \in Nat /\ OfTokens(frame.cached, Balance)
  BY <1>1 DEF JoinExitFrame
<1>3. /\ OfTokens(amountsOut, Nat) /\ OfTokens(fees, Nat)
      /\ \A t \in DOMAIN frame.cached : amountsOut[t] \in Nat /\ fees[t] \in Nat
  BY <1>2, VaultAssumption DEF OfTokens
<1>4. /\ AsAssets(amountsOut, frame.useEth) \in [Assets -> Nat]
      /\ NoAmounts \in [Assets -> Nat] /\ FeesOf(fees) \in [Tokens -> Nat]
  BY <1>2, <1>3, AsAssetsTyped DEF NoAmounts
<1> DEFINE final == [t \in DOMAIN frame.cached |->
                       exitedBalance(frame.cached[t], amountsOut[t], fees[t])]
<1>5. \A t \in DOMAIN final : final[t] \in Balance
  <2> SUFFICES ASSUME NEW t \in DOMAIN frame.cached
               PROVE  exitedBalance(frame.cached[t], amountsOut[t], fees[t]) \in Balance
    OBVIOUS
  <2>1. Fits(exitedBalance(frame.cached[t], amountsOut[t], fees[t]))
    BY DEF ExitPoolReturn
  <2>2. frame.cached[t] \in Balance /\ clock \in Nat
    BY <1>2, VaultAssumption DEF OfTokens, IInv, TypeOK, PauseTyped
  <2>3. amountsOut[t] + fees[t] \in Nat
    BY <1>3
  <2> QED BY <2>1, <2>2, <2>3, BalanceOperations DEF exitedBalance
<1>6. StoreBalances(frame.pool, final) /\ DOMAIN final \subseteq Tokens
  BY <1>2 DEF ExitPoolReturn, OfTokens
<1>7. BalancesTyped'
  <2> HIDE DEF final
  <2> QED BY <1>2, <1>5, <1>6, Stored DEF IInv, TypeOK
<1>8. /\ TransferAssets(frame.sender, NoAmounts, FALSE, frame.recipient,
                        AsAssets(amountsOut, frame.useEth), frame.useInternalBalance,
                        FeesOf(fees), frame.value)
      /\ Leave
      /\ UNCHANGED <<poolVars, accessVars, pauseVars, feeVars, collected, ghostVars>>
  BY DEF ExitPoolReturn
<1> QED BY <1>1, <1>2, <1>4, <1>7, <1>8, TransferReturns
-----------------------------------------------------------------------------
\* What a swap asks of a Pool is well formed.
LEMMA RequestTyped ==
  ASSUME TypeOK, NEW p \in Pools, NEW assetIn \in Assets, NEW assetOut \in Assets,
         NEW amount \in Nat
  PROVE  Request(SwapRequest(p, assetIn, assetOut, amount))
<1> DEFINE r == SwapRequest(p, assetIn, assetOut, amount)
<1>1. r.cached = [t \in {translate(assetIn), translate(assetOut)} |-> balances[p][t]]
  BY DEF SwapRequest
<1>2. translate(assetIn) \in Tokens /\ translate(assetOut) \in Tokens
  BY Inputs
<1>3. OfTokens(r.cached, Balance)
  <2> HIDE DEF r
  <2> QED BY <1>1, <1>2 DEF OfTokens, TypeOK, BalancesTyped
<1>4. DOMAIN r.cached = {translate(r.assetIn), translate(r.assetOut)}
  BY DEF SwapRequest
<1>5. r \in [pool: Pools, assetIn: Assets, assetOut: Assets, amount: Nat,
            cached: {r.cached}]
  BY DEF SwapRequest
<1> QED BY <1>3, <1>4, <1>5 DEF Request

\* swap begins: the ETH sent along is the call's, and is in the frame.
LEMMA SwapKeeps ==
  ASSUME IInv, NEW caller \in Users \union Relayers, NEW sender \in Users,
         NEW recipient \in Users, NEW p \in Pools, NEW kind \in SwapKinds,
         NEW assetIn \in InputAssets, NEW assetOut \in InputAssets,
         NEW amount \in Amounts, NEW limit \in Limits,
         NEW fromInternal \in InternalFlags, NEW toInternal \in InternalFlags,
         NEW deadline, NEW value \in MsgValues,
         swap(caller, sender, recipient, p, kind, assetIn, assetOut, amount, limit,
              fromInternal, toInternal, deadline, value)
  PROVE  IInv'
<1> DEFINE request == SwapRequest(p, assetIn, assetOut, amount)
           f == [kind |-> "swap", caller |-> caller, sender |-> sender,
                 recipient |-> recipient, fromInternal |-> fromInternal,
                 toInternal |-> toInternal, value |-> value,
                 swapKind |-> kind, limit |-> limit, request |-> request]
<1>1. Enter("swap", f) /\ ReceiveValue(value)
  BY DEF swap
<1>2. /\ caller \in Callers /\ value \in Nat /\ amount \in Nat /\ limit \in Nat
      /\ fromInternal \in BOOLEAN /\ toInternal \in BOOLEAN
      /\ assetIn \in Assets /\ assetOut \in Assets
  BY VaultAssumption DEF Callers
<1>3. Request(request)
  BY <1>2, RequestTyped DEF IInv
<1>4. SwapFrame(f)
  <2> HIDE DEF request
  <2> QED BY <1>2, <1>3 DEF SwapFrame
<1>5. frame' = f
  BY <1>1 DEF Enter
<1>6. FrameOK'
  BY <1>4, <1>5 DEF FrameOK, SwapFrame, Request
<1>7. CallTyped' /\ SavedWithoutCallValue' /\ EthPassesThrough' /\ EthTyped'
  <2>1. f.kind = "swap" /\ f.value = value /\ UNCHANGED ghostVars
    BY DEF swap
  <2> HIDE DEF f
  <2> QED BY <1>1, <1>2, <1>6, <2>1, PayableCallBegins
<1>8. AccessTyped'
  BY Authenticated DEF swap, IInv
<1> QED BY <1>7, <1>8, Unchanged DEF swap, IInv, TypeOK

\* The Pool answers: its two balances are changed by the amounts of the swap.
LEMMA Swapped ==
  ASSUME IInv, NEW r, Request(r), NEW amounts \in [in: Nat, out: Nat],
         ProcessSwapRequest(r, amounts)
  PROVE  BalancesTyped'
<1> DEFINE tokenIn  == translate(r.assetIn)
           tokenOut == translate(r.assetOut)
           final == [t \in {tokenIn, tokenOut} |->
                       IF t = tokenIn
                         THEN increaseCash(r.cached[t], amounts.in, clock)
                         ELSE decreaseCash(r.cached[t], amounts.out, clock)]
<1>1. /\ \A t \in {tokenIn, tokenOut} : Fits(final[t])
      /\ StoreBalances(r.pool, final)
  BY DEF ProcessSwapRequest
<1>2. tokenIn \in Tokens /\ tokenOut \in Tokens /\ r.pool \in Pools
  BY Inputs DEF Request
<1>3. clock \in Nat /\ amounts.in \in Nat /\ amounts.out \in Nat
  BY VaultAssumption DEF IInv, TypeOK, PauseTyped
<1>4. DOMAIN r.cached = {tokenIn, tokenOut}
  BY DEF Request
<1>5. \A t \in {tokenIn, tokenOut} : r.cached[t] \in Balance
  BY <1>4 DEF Request, OfTokens
<1>6. \A t \in DOMAIN final : final[t] \in Balance
  <2> HIDE DEF tokenIn, tokenOut
  <2> QED BY <1>1, <1>3, <1>5, BalanceOperations
<1>7. DOMAIN final \subseteq Tokens
  BY <1>2
<1> HIDE DEF final
<1> QED BY <1>1, <1>2, <1>6, <1>7, Stored DEF IInv, TypeOK

\* The two amounts of a swap, given and calculated.
LEMMA AmountsTyped ==
  ASSUME NEW kind, NEW given \in Nat, NEW calculated \in Nat
  PROVE  getAmounts(kind, given, calculated) \in [in: Nat, out: Nat]
BY DEF getAmounts

\* swap ends: the ETH sent along is wrapped or returned.
LEMMA SwapReturnKeeps ==
  ASSUME IInv, NEW calculated \in Amounts, SwapReturn(calculated)
  PROVE  IInv'
<1> DEFINE request == frame.request
           amounts == getAmounts(frame.swapKind, request.amount, calculated)
           amountsIn == [NoAmounts EXCEPT ![request.assetIn] = amounts.in]
           amountsOut == [NoAmounts EXCEPT ![request.assetOut] = amounts.out]
<1>1. SwapFrame(frame) /\ frame.kind = "swap"
  BY FrameKinds DEF SwapReturn, IInv
<1>2. /\ frame.sender \in Users /\ frame.recipient \in Users /\ frame.value \in Nat
      /\ frame.fromInternal \in BOOLEAN /\ frame.toInternal \in BOOLEAN
      /\ Request(request)
  BY <1>1 DEF SwapFrame
<1>3. request.amount \in Nat /\ calculated \in Nat
  BY <1>2, VaultAssumption DEF Request
<1>4. amounts \in [in: Nat, out: Nat]
  BY <1>3, AmountsTyped
<1>5. BalancesTyped'
  <2>1. ProcessSwapRequest(request, amounts)
    BY DEF SwapReturn
  <2> HIDE DEF request, amounts
  <2> QED BY <1>2, <1>4, <2>1, Swapped
<1>6. amountsIn \in [Assets -> Nat] /\ amountsOut \in [Assets -> Nat]
  <2> HIDE DEF request, amounts
  <2> QED BY <1>4 DEF NoAmounts
<1>7. NoTokens \in [Tokens -> Nat]
  BY DEF NoTokens
<1>8. /\ TransferAssets(frame.sender, amountsIn, frame.fromInternal, frame.recipient,
                        amountsOut, frame.toInternal, NoTokens, frame.value)
      /\ Leave
      /\ UNCHANGED <<poolVars, accessVars, pauseVars, feeVars, collected, ghostVars>>
  BY DEF SwapReturn
<1> HIDE DEF amountsIn, amountsOut
<1> QED BY <1>1, <1>2, <1>5, <1>6, <1>7, <1>8, TransferReturns
-----------------------------------------------------------------------------
\* batchSwap begins.
LEMMA BatchSwapKeeps ==
  ASSUME IInv, NEW caller \in Users \union Relayers, NEW sender \in Users,
         NEW recipient \in Users, NEW kind \in SwapKinds,
         NEW limits \in [InputAssets -> DeltaLimits],
         NEW fromInternal \in InternalFlags, NEW toInternal \in InternalFlags,
         NEW deadline, NEW value \in MsgValues,
         batchSwap(caller, sender, recipient, kind, limits, fromInternal,
                   toInternal, deadline, value)
  PROVE  IInv'
<1> DEFINE f == [kind |-> "batchSwap", caller |-> caller, sender |-> sender,
                 recipient |-> recipient, fromInternal |-> fromInternal,
                 toInternal |-> toInternal, value |-> value, swapKind |-> kind,
                 limits |-> limits, deltas |-> NoAmounts, steps |-> 0,
                 previous |-> NoHop, request |-> NoRequest]
<1>1. Enter("batchSwap", f) /\ ReceiveValue(value)
  BY DEF batchSwap
<1>2. /\ caller \in Callers /\ value \in Nat
      /\ fromInternal \in BOOLEAN /\ toInternal \in BOOLEAN
      /\ DOMAIN limits \subseteq Assets /\ limits \in [DOMAIN limits -> Int]
  BY VaultAssumption DEF Callers
<1>3. NoAmounts \in [Assets -> Int] /\ NoHop \in [token: Assets, amount: Nat]
  BY DEF NoAmounts, NoHop, Assets
<1>4. BatchFrame(f)
  BY <1>2, <1>3 DEF BatchFrame
<1>5. frame' = f
  BY <1>1 DEF Enter
<1>6. FrameOK'
  BY <1>4, <1>5 DEF FrameOK, BatchFrame, NoRequest
<1>7. CallTyped' /\ SavedWithoutCallValue' /\ EthPassesThrough' /\ EthTyped'
  <2>1. f.kind = "batchSwap" /\ f.value = value /\ UNCHANGED ghostVars
    BY DEF batchSwap
  <2> HIDE DEF f
  <2> QED BY <1>1, <1>2, <1>6, <2>1, PayableCallBegins
<1>8. AccessTyped'
  BY Authenticated DEF batchSwap, IInv
<1> QED BY <1>7, <1>8, Unchanged DEF batchSwap, IInv, TypeOK

\* A step within a call: the frame changes, what it sent does not.
LEMMA CallContinues ==
  ASSUME IInv, FrameOK', frame # Idle, frame' # Idle, UNCHANGED <<saved, ghostVars>>
  PROVE  CallTyped' /\ SavedWithoutCallValue'
BY DEF IInv, TypeOK, CallTyped, SavedWithoutCallValue

\* A hop of a batch calls its Pool's hook.
LEMMA BatchStepKeeps ==
  ASSUME IInv, NEW p \in Pools, NEW assetIn \in InputAssets, NEW assetOut \in InputAssets,
         NEW amount \in Amounts, BatchSwapStep(p, assetIn, assetOut, amount)
  PROVE  IInv'
<1> DEFINE request == SwapRequest(p, assetIn, assetOut, givenAmount(amount))
<1>1. BatchFrame(frame) /\ frame.kind = "batchSwap"
  BY FrameKinds DEF BatchSwapStep, IInv
<1>2. frame' = [frame EXCEPT !.request = request]
  BY DEF BatchSwapStep
<1>3. Request(request)
  <2>1. frame.previous.amount \in Nat
    BY <1>1 DEF BatchFrame
  <2>2. givenAmount(amount) \in Nat /\ assetIn \in Assets /\ assetOut \in Assets
    BY <2>1, VaultAssumption DEF givenAmount
  <2> QED BY <2>2, RequestTyped DEF IInv
<1> HIDE DEF request
<1>4. BatchFrame(frame')
  BY <1>1, <1>2, <1>3 DEF BatchFrame
<1>5. FrameOK' /\ frame'.kind = "batchSwap" /\ frame'.value = frame.value
  BY <1>1, <1>2, <1>4 DEF FrameOK, BatchFrame, NoRequest, Request
<1>6. CallTyped' /\ SavedWithoutCallValue'
  BY <1>1, <1>5, CallContinues DEF BatchSwapStep, Idle
<1>7. EthPassesThrough'
  BY <1>1, <1>5 DEF IInv, EthPassesThrough, CallValue, BatchSwapStep, ethVars, ghostVars
<1> QED BY <1>6, <1>7, Unchanged DEF BatchSwapStep, IInv, TypeOK

\* A hop of a batch returns: ETH is only noted in the deltas.
LEMMA BatchStepReturnKeeps ==
  ASSUME IInv, NEW calculated \in Amounts, BatchSwapStepReturn(calculated)
  PROVE  IInv'
<1> DEFINE request == frame.request
           amounts == getAmounts(frame.swapKind, request.amount, calculated)
           deltas == deltasAfter(frame.deltas, request, amounts)
           hop == [token |-> tokenCalculated(frame.swapKind, translate(request.assetIn),
                                             translate(request.assetOut)),
                   amount |-> calculated]
<1>1. BatchFrame(frame) /\ frame.kind = "batchSwap"
  BY FrameKinds DEF BatchSwapStepReturn, IInv
<1>2. Request(request)
  BY <1>1 DEF BatchFrame, BatchSwapStepReturn
<1>3. request.amount \in Nat /\ calculated \in Nat
  BY <1>2, VaultAssumption DEF Request
<1>4. amounts \in [in: Nat, out: Nat]
  BY <1>3, AmountsTyped
<1>5. BalancesTyped'
  <2>1. ProcessSwapRequest(request, amounts)
    BY DEF BatchSwapStepReturn
  <2> HIDE DEF request, amounts
  <2> QED BY <1>2, <1>4, <2>1, Swapped
<1>6. deltas \in [Assets -> Int]
  <2>1. frame.deltas \in [Assets -> Int]
    BY <1>1 DEF BatchFrame
  <2>2. request.assetIn \in Assets /\ request.assetOut \in Assets
    BY <1>2 DEF Request
  <2> HIDE DEF request, amounts
  <2> QED BY <1>4, <2>1, <2>2 DEF deltasAfter
<1>7. hop \in [token: Assets, amount: Nat]
  <2>1. request.assetIn \in Assets /\ request.assetOut \in Assets
    BY <1>2 DEF Request
  <2>2. translate(request.assetIn) \in Assets /\ translate(request.assetOut) \in Assets
    BY <2>1, Inputs
  <2> QED BY <1>3, <2>2 DEF tokenCalculated
<1>8. frame' = [frame EXCEPT !.request = NoRequest, !.steps = @ + 1,
                             !.deltas = deltas, !.previous = hop]
  BY DEF BatchSwapStepReturn
<1> HIDE DEF deltas, hop
<1>9. BatchFrame(frame')
  <2>1. frame' = [kind |-> "batchSwap", caller |-> frame.caller, sender |-> frame.sender,
                  recipient |-> frame.recipient, fromInternal |-> frame.fromInternal,
                  toInternal |-> frame.toInternal, value |-> frame.value,
                  swapKind |-> frame.swapKind, limits |-> frame.limits,
                  deltas |-> deltas, steps |-> frame.steps + 1,
                  previous |-> hop, request |-> NoRequest]
    BY <1>1, <1>8 DEF BatchFrame
  <2> QED BY <1>1, <1>6, <1>7, <2>1 DEF BatchFrame
<1>10. FrameOK' /\ frame'.kind = "batchSwap" /\ frame'.value = frame.value
  BY <1>1, <1>8, <1>9 DEF FrameOK, BatchFrame, NoRequest, Request
<1>11. CallTyped' /\ SavedWithoutCallValue'
  <2>1. frame # Idle /\ frame' # Idle
    BY <1>1, <1>10 DEF Idle
  <2>2. UNCHANGED <<saved, ghostVars>>
    BY DEF BatchSwapStepReturn
  <2> QED BY <1>10, <2>1, <2>2, CallContinues
<1>12. EthPassesThrough'
  BY <1>1, <1>10 DEF IInv, EthPassesThrough, CallValue, BatchSwapStepReturn, ethVars, ghostVars
<1> QED BY <1>5, <1>11, <1>12, Unchanged DEF BatchSwapStepReturn, IInv, TypeOK

\* batchSwap ends: the ETH sent along is wrapped or returned.
LEMMA BatchReturnKeeps == ASSUME IInv, BatchSwapReturn PROVE IInv'
<1> DEFINE amountsIn == [a \in Assets |-> IF frame.deltas[a] > 0 THEN frame.deltas[a] ELSE 0]
           amountsOut == [a \in Assets |-> IF frame.deltas[a] < 0 THEN -frame.deltas[a] ELSE 0]
<1>1. BatchFrame(frame) /\ frame.kind = "batchSwap"
  BY FrameKinds DEF BatchSwapReturn, IInv
<1>2. /\ frame.sender \in Users /\ frame.recipient \in Users /\ frame.value \in Nat
      /\ frame.fromInternal \in BOOLEAN /\ frame.toInternal \in BOOLEAN
      /\ frame.deltas \in [Assets -> Int]
  BY <1>1 DEF BatchFrame
<1>3. amountsIn \in [Assets -> Nat] /\ amountsOut \in [Assets -> Nat]
  BY <1>2
<1>4. NoTokens \in [Tokens -> Nat]
  BY DEF NoTokens
<1>5. BalancesTyped'
  BY Unchanged DEF BatchSwapReturn, IInv
<1>6. /\ TransferAssets(frame.sender, amountsIn, frame.fromInternal, frame.recipient,
                        amountsOut, frame.toInternal, NoTokens, frame.value)
      /\ Leave
      /\ UNCHANGED <<poolVars, accessVars, pauseVars, feeVars, collected, ghostVars>>
  BY DEF BatchSwapReturn
<1> HIDE DEF amountsIn, amountsOut
<1> QED BY <1>1, <1>2, <1>3, <1>4, <1>5, <1>6, TransferReturns
-----------------------------------------------------------------------------
\* The fee of a flash loan is an amount.
LEMMA MulUpTyped ==
  ASSUME NEW amount \in Nat, NEW percentage \in Nat
  PROVE  mulUp(amount, percentage) \in Nat
<1>1. FeeDenominator \in Nat /\ FeeDenominator > 0
  BY VaultAssumption
<1>2. amount * percentage \in Nat
  OBVIOUS
<1>3. ASSUME NEW product \in Nat, product # 0
      PROVE  (product - 1) \div FeeDenominator + 1 \in Nat
  BY <1>1, SMTT(30)
<1> QED BY <1>2, <1>3 DEF mulUp

\* A flash loan begins.
LEMMA FlashLoanKeeps ==
  ASSUME IInv, NEW caller \in Users, NEW ts \in SUBSET Tokens,
         NEW amounts \in [ts -> Amounts], flashLoan(caller, amounts)
  PROVE  IInv'
<1> DEFINE fees == [t \in DOMAIN amounts |-> mulUp(amounts[t], FeePercentage(caller))]
           preLoan == [t \in DOMAIN amounts |-> held[t]]
           f == [kind |-> "flashLoan", caller |-> caller, amounts |-> amounts,
                 fees |-> fees, preLoan |-> preLoan]
<1>1. Enter("flashLoan", f)
  BY DEF flashLoan
<1>2. \A t \in Tokens : held[t] \in Nat /\ outside[t] \in Nat
  BY DEF IInv, TypeOK, TokensTyped
<1>3. \A t \in ts : amounts[t] \in Nat /\ amounts[t] <= held[t]
  BY VaultAssumption DEF flashLoan
<1>4. FeePercentage(caller) \in Nat
  BY VaultAssumption DEF FeePercentage, IInv, TypeOK, FeesTyped
<1>5. OfTokens(amounts, Nat) /\ OfTokens(fees, Nat) /\ OfTokens(preLoan, Nat)
  BY <1>2, <1>3, <1>4, MulUpTyped DEF OfTokens
<1>6. LoanFrame(f)
  <2>1. caller \in Callers
    BY DEF Callers
  <2> HIDE DEF fees, preLoan
  <2>2. DOMAIN fees = DOMAIN amounts /\ DOMAIN preLoan = DOMAIN amounts
    BY DEF fees, preLoan
  <2> QED BY <1>5, <2>1, <2>2 DEF LoanFrame
<1>7. frame' = f
  BY <1>1 DEF Enter
<1> HIDE DEF f
<1>8. FrameOK' /\ f.kind = "flashLoan"
  BY <1>6, <1>7 DEF FrameOK, LoanFrame
<1>9. CallTyped' /\ SavedWithoutCallValue' /\ ethHeld = ethForced
  BY <1>1, <1>8, CallBegins
<1>10. EthPassesThrough'
  BY <1>7, <1>8, <1>9 DEF EthPassesThrough, CallValue, flashLoan, ethVars, ghostVars, IInv,
     TypeOK, GhostTyped
<1>11. TokensTyped'
  <2>1. held' = [t \in Tokens |->
                   IF t \in DOMAIN amounts THEN held[t] - amounts[t] ELSE held[t]]
        /\ outside' = [t \in Tokens |->
                         IF t \in DOMAIN amounts THEN outside[t] + amounts[t] ELSE outside[t]]
        /\ UNCHANGED <<collected, forwarder>>
    BY DEF flashLoan
  <2> QED BY <1>2, <1>3, <2>1 DEF TokensTyped, IInv, TypeOK
<1> QED BY <1>9, <1>10, <1>11, Unchanged DEF flashLoan, IInv, TypeOK

\* A flash loan ends.
LEMMA FlashLoanReturnKeeps == ASSUME IInv, FlashLoanReturn PROVE IInv'
<1>1. LoanFrame(frame) /\ frame.kind = "flashLoan"
  BY FrameKinds DEF FlashLoanReturn, IInv
<1>2. saved \in Snapshots
  BY <1>1 DEF IInv, TypeOK, CallTyped, Idle
<1>3. \A t \in Tokens : /\ held[t] \in Nat /\ collected[t] \in Nat /\ donated[t] \in Nat
                        /\ saved.donated[t] \in Nat
  BY <1>2 DEF IInv, TypeOK, TokensTyped, GhostTyped, Snapshots
<1>4. \A t \in DOMAIN frame.amounts :
        /\ t \in Tokens /\ frame.preLoan[t] \in Nat /\ held[t] >= frame.preLoan[t]
  BY <1>1 DEF LoanFrame, OfTokens, FlashLoanReturn, Repaid
<1>5. \A t \in Tokens : FeePaid(t) \in Nat /\ FeePaid(t) <= held[t]
  BY <1>3, <1>4 DEF FeePaid
<1>6. TokensTyped'
  BY <1>3, <1>5 DEF FlashLoanReturn, TokensTyped, IInv, TypeOK
<1>7. GhostTyped' /\ ethForced' = ethForced /\ ethForced \in Nat
  BY <1>3 DEF FlashLoanReturn, GhostTyped, IInv, TypeOK
<1>8. ethHeld' = ethForced'
  BY <1>1, <1>7 DEF FlashLoanReturn, IInv, EthPassesThrough, CallValue, ethVars
<1>9. CallTyped' /\ SavedWithoutCallValue' /\ EthPassesThrough'
  BY <1>7, <1>8, CallEnds DEF FlashLoanReturn
<1> QED BY <1>6, <1>7, <1>9, Unchanged DEF FlashLoanReturn, IInv, TypeOK

\* The ProtocolFeesCollector's own functions.
LEMMA CollectorKeeps == ASSUME IInv, Collector PROVE IInv'
<1>1. ASSUME NEW t \in Tokens, NEW amount \in Amounts, withdrawCollectedFees(t, amount)
      PROVE  IInv'
  <2>1. amount \in Nat /\ collected[t] \in Nat /\ outside[t] \in Nat
    BY VaultAssumption DEF IInv, TypeOK, TokensTyped
  <2>2. TokensTyped'
    BY <1>1, <2>1 DEF withdrawCollectedFees, IInv, TypeOK, TokensTyped
  <2> QED BY <1>1, <2>2, Unchanged, EthStays DEF withdrawCollectedFees, IInv, TypeOK, ghostVars
<1>2. ASSUME NEW percentage \in 0..MaxFlashLoanFee, setFlashLoanFeePercentage(percentage)
      PROVE  IInv'
  <2>1. FeesTyped'
    BY <1>2 DEF setFlashLoanFeePercentage, IInv, TypeOK, FeesTyped
  <2> QED BY <1>2, <2>1, Unchanged, EthStays DEF setFlashLoanFeePercentage, IInv, TypeOK, ghostVars
<1>3. ASSUME NEW account \in Users, NEW isDiscounted \in BOOLEAN,
             setFlashLoanFeeDiscount({account}, isDiscounted)
      PROVE  IInv'
  <2>1. FeesTyped'
    BY <1>3 DEF setFlashLoanFeeDiscount, IInv, TypeOK, FeesTyped, Callers
  <2> QED BY <1>3, <2>1, Unchanged, EthStays DEF setFlashLoanFeeDiscount, IInv, TypeOK, ghostVars
<1> QED BY <1>1, <1>2, <1>3 DEF Collector
-----------------------------------------------------------------------------
\* manageUserBalance begins.
LEMMA ManageUserBalanceKeeps ==
  ASSUME IInv, NEW caller \in Users \union Relayers, NEW value \in MsgValues,
         manageUserBalance(caller, value)
  PROVE  IInv'
<1> DEFINE f == [kind |-> "manageUserBalance", caller |-> caller, value |-> value,
                 ethWrapped |-> 0, checkedCallerIsRelayer |-> FALSE,
                 checkedNotPaused |-> FALSE, steps |-> 0]
<1>1. Enter("manageUserBalance", f) /\ ReceiveValue(value)
  BY DEF manageUserBalance
<1>2. f \in UserFrames /\ value \in Nat
  BY VaultAssumption DEF UserFrames, Callers
<1>3. FrameOK'
  BY <1>1, <1>2 DEF Enter, FrameOK
<1>4. CallTyped' /\ SavedWithoutCallValue' /\ EthPassesThrough' /\ EthTyped'
  <2>1. /\ f.kind = "manageUserBalance" /\ f.value = value /\ f.ethWrapped = 0
        /\ UNCHANGED ghostVars
    BY DEF manageUserBalance
  <2> HIDE DEF f
  <2> QED BY <1>1, <1>2, <1>3, <2>1, PayableCallBegins
<1> QED BY <1>4, Unchanged DEF manageUserBalance, IInv, TypeOK

\* Moving an amount of one token into or out of an account.
LEMMA TokenMoved ==
  ASSUME NEW S, NEW f \in [S -> Nat], NEW t \in S, NEW n \in Nat
  PROVE  /\ [f EXCEPT ![t] = @ + n] \in [S -> Nat]
         /\ n <= f[t] => [f EXCEPT ![t] = @ - n] \in [S -> Nat]
<1>1. f[t] + n \in Nat /\ (n <= f[t] => f[t] - n \in Nat)
  OBVIOUS
<1> QED BY <1>1

\* A transfer of Internal Balance gives amounts of Internal Balance.
LEMMA InternalMoved ==
  ASSUME NEW f \in [Users -> [Tokens -> Nat]], NEW u \in Users, NEW t \in Tokens, NEW n \in Nat
  PROVE  /\ [f EXCEPT ![u][t] = @ + n] \in [Users -> [Tokens -> Nat]]
         /\ n <= f[u][t] => [f EXCEPT ![u][t] = @ - n] \in [Users -> [Tokens -> Nat]]
<1>1. f[u] \in [Tokens -> Nat]
  OBVIOUS
<1>2. /\ [f[u] EXCEPT ![t] = @ + n] \in [Tokens -> Nat]
      /\ n <= f[u][t] => [f[u] EXCEPT ![t] = @ - n] \in [Tokens -> Nat]
  BY <1>1, TokenMoved
<1> QED BY <1>2

\* What the operations do to the balances; ETH that is deposited was the call's, or
\* was forced into the Vault before, and then the call cannot return.
LEMMA UserOperationMoves ==
  ASSUME IInv, NEW kind \in UserBalanceOpKinds, NEW asset \in InputAssets,
         NEW amount \in Amounts, NEW sender \in Users, NEW recipient \in Users,
         UserBalanceOp(kind, asset, amount, sender, recipient)
  PROVE  /\ InternalTyped' /\ TokensTyped' /\ EthTyped'
         /\ ethHeld' = ethHeld - IF kind = "DEPOSIT_INTERNAL" /\ asset = ETH THEN amount ELSE 0
<1>1. amount \in Nat /\ translate(asset) \in Tokens /\ (asset # ETH => asset \in Tokens)
  BY VaultAssumption, Inputs DEF Assets
<1>2. /\ held \in [Tokens -> Nat] /\ outside \in [Tokens -> Nat]
      /\ collected \in [Tokens -> Nat] /\ forwarder \in [Tokens -> Nat]
      /\ internal \in [Users -> [Tokens -> Nat]] /\ ethHeld \in Nat /\ ethOutside \in Nat
  BY DEF IInv, TypeOK, TokensTyped, EthTyped, InternalTyped
<1>3. collected' = collected /\ forwarder' = forwarder
  BY DEF UserBalanceOp
<1>4. CASE kind = "DEPOSIT_INTERNAL"
  <2>1. deposit(asset, amount, recipient)
    BY <1>4 DEF UserBalanceOp
  <2>2. /\ internal' = [internal EXCEPT ![recipient][translate(asset)] = @ + amount]
        /\ held' = [held EXCEPT ![translate(asset)] = @ + amount]
    BY <2>1 DEF deposit, Credit
  <2>3. InternalTyped' /\ held' \in [Tokens -> Nat]
    BY <1>1, <1>2, <2>2, InternalMoved, TokenMoved DEF InternalTyped
  <2>4. CASE asset = ETH
    <3>1. amount <= ethHeld /\ ethHeld' = ethHeld - amount /\ UNCHANGED <<outside, ethOutside>>
      BY <2>1, <2>4 DEF deposit
    <3>2. TokensTyped' /\ EthTyped'
      BY <1>1, <1>2, <1>3, <2>3, <3>1 DEF TokensTyped, EthTyped
    <3> QED BY <1>4, <2>3, <2>4, <3>1, <3>2
  <2>5. CASE asset # ETH
    <3>1. /\ amount <= outside[asset] /\ UNCHANGED ethVars
          /\ outside' = [outside EXCEPT ![asset] = @ - amount]
      BY <2>1, <2>5 DEF deposit
    <3>2. outside' \in [Tokens -> Nat]
      BY <1>1, <1>2, <2>5, <3>1, TokenMoved
    <3>3. TokensTyped' /\ EthTyped'
      BY <1>2, <1>3, <2>3, <3>1, <3>2 DEF TokensTyped, EthTyped, ethVars
    <3>4. ethHeld' = ethHeld - 0
      BY <1>2, <3>1 DEF ethVars
    <3> QED BY <2>3, <2>5, <3>3, <3>4
  <2> QED BY <2>4, <2>5
<1>5. CASE kind # "DEPOSIT_INTERNAL"
  <2>1. CASE kind = "WITHDRAW_INTERNAL"
    <3>1. withdraw(asset, amount, sender)
      BY <2>1 DEF UserBalanceOp
    <3>2. /\ internal[sender][translate(asset)] >= amount
          /\ internal' = [internal EXCEPT ![sender][translate(asset)] = @ - amount]
          /\ held[translate(asset)] >= amount
          /\ held' = [held EXCEPT ![translate(asset)] = @ - amount]
      BY <3>1 DEF withdraw, Debit
    <3>3. internal[sender][translate(asset)] \in Nat /\ held[translate(asset)] \in Nat
      BY <1>1, <1>2
    <3>4. amount <= internal[sender][translate(asset)] /\ amount <= held[translate(asset)]
      BY <1>1, <3>2, <3>3
    <3>5. InternalTyped' /\ held' \in [Tokens -> Nat]
      BY <1>1, <1>2, <3>2, <3>4, InternalMoved, TokenMoved DEF InternalTyped
    <3>6. CASE asset = ETH
      <4>1. ethOutside' = ethOutside + amount /\ UNCHANGED <<outside, ethHeld>>
        BY <3>1, <3>6 DEF withdraw
      <4>2. TokensTyped' /\ EthTyped' /\ ethHeld' = ethHeld - 0
        BY <1>1, <1>2, <1>3, <3>5, <4>1 DEF TokensTyped, EthTyped
      <4> QED BY <1>5, <3>5, <4>2
    <3>7. CASE asset # ETH
      <4>1. outside' = [outside EXCEPT ![asset] = @ + amount] /\ UNCHANGED ethVars
        BY <3>1, <3>7 DEF withdraw
      <4>2. outside' \in [Tokens -> Nat]
        BY <1>1, <1>2, <3>7, <4>1, TokenMoved
      <4>3. TokensTyped' /\ EthTyped' /\ ethHeld' = ethHeld - 0
        BY <1>2, <1>3, <3>5, <4>1, <4>2 DEF TokensTyped, EthTyped, ethVars
      <4> QED BY <1>5, <3>5, <4>3
    <3> QED BY <3>6, <3>7
  <2>2. CASE kind = "TRANSFER_INTERNAL"
    <3> DEFINE moved == [NoTokens EXCEPT ![asset] = amount]
    <3>1. transferInternal(asset, amount, sender, recipient) /\ asset \in Tokens
      BY <1>1, <2>2 DEF UserBalanceOp
    <3>2. internal' = InternalAfter(sender, moved, recipient, moved)
      BY <3>1 DEF transferInternal
    <3>3. \A u \in Tokens : moved[u] = IF u = asset THEN amount ELSE 0
      BY <3>1 DEF NoTokens
    <3> HIDE DEF moved
    <3>4. ASSUME NEW a \in Users, NEW u \in Tokens
          PROVE  internal[a][u] - (IF a = sender THEN moved[u] ELSE 0)
                   + (IF a = recipient THEN moved[u] ELSE 0) \in Nat
      <4>1. internal[a][u] \in Nat /\ internal[sender][u] \in Nat
        BY <1>2
      <4>2. moved[u] \in Nat /\ moved[u] <= internal[sender][u]
        BY <1>1, <3>1, <3>3, <4>1 DEF transferInternal
      <4> QED BY <4>1, <4>2
    <3>5. InternalTyped'
      BY <3>2, <3>4 DEF InternalAfter, InternalTyped
    <3>6. TokensTyped' /\ EthTyped' /\ ethHeld' = ethHeld - 0
      BY <1>2, <1>3, <3>1 DEF transferInternal, TokensTyped, EthTyped, ethVars
    <3> QED BY <1>5, <3>5, <3>6
  <2>3. CASE kind = "TRANSFER_EXTERNAL"
    <3>1. UNCHANGED <<internal, held, outside, ethVars>>
      BY <2>3 DEF UserBalanceOp
    <3>2. InternalTyped' /\ TokensTyped' /\ EthTyped' /\ ethHeld' = ethHeld - 0
      BY <1>2, <1>3, <3>1 DEF TokensTyped, EthTyped, InternalTyped, ethVars
    <3> QED BY <1>5, <3>2
  <2> QED BY <1>5, <2>1, <2>2, <2>3 DEF UserBalanceOpKinds
<1> QED BY <1>4, <1>5

\* An operation wraps ETH of the call's, and counts it.
LEMMA UserOperationKeeps ==
  ASSUME IInv, NEW kind \in UserBalanceOpKinds, NEW asset \in InputAssets,
         NEW amount \in Amounts, NEW sender \in Users, NEW recipient \in Users,
         UserBalanceOp(kind, asset, amount, sender, recipient)
  PROVE  IInv'
<1> DEFINE sent == IF kind = "DEPOSIT_INTERNAL" /\ asset = ETH THEN amount ELSE 0
<1>1. frame \in UserFrames /\ frame.kind = "manageUserBalance"
  BY FrameKinds DEF UserBalanceOp, IInv
<1>2. InternalTyped' /\ TokensTyped' /\ EthTyped' /\ ethHeld' = ethHeld - sent
  BY UserOperationMoves
<1>3. sent \in Nat
  BY VaultAssumption
<1>4. \E relayer, notPaused \in BOOLEAN :
        frame' = [kind |-> "manageUserBalance", caller |-> frame.caller,
                  value |-> frame.value, ethWrapped |-> frame.ethWrapped + sent,
                  checkedCallerIsRelayer |-> relayer,
                  checkedNotPaused |-> notPaused, steps |-> frame.steps + 1]
  <2> DEFINE relayer == frame.checkedCallerIsRelayer \/ sender # frame.caller
             notPaused == frame.checkedNotPaused \/ kind # "WITHDRAW_INTERNAL"
             wrapped == IF kind = "DEPOSIT_INTERNAL" /\ asset = ETH
                          THEN frame.ethWrapped + amount ELSE frame.ethWrapped
  <2>1. frame' = [frame EXCEPT !.steps = @ + 1, !.ethWrapped = wrapped,
                               !.checkedCallerIsRelayer = relayer,
                               !.checkedNotPaused = notPaused]
    BY DEF UserBalanceOp
  <2>2. wrapped = frame.ethWrapped + sent
    BY <1>1 DEF UserFrames
  <2>3. relayer \in BOOLEAN /\ notPaused \in BOOLEAN
    OBVIOUS
  <2> HIDE DEF relayer, notPaused, wrapped, sent
  <2> QED BY <1>1, <2>1, <2>2, <2>3 DEF UserFrames
<1> HIDE DEF sent
<1>5. frame' \in UserFrames
  BY <1>1, <1>3, <1>4 DEF UserFrames
<1>6. FrameOK' /\ frame # Idle /\ frame' # Idle
  BY <1>1, <1>4, <1>5 DEF FrameOK, Idle
<1>7. CallTyped' /\ SavedWithoutCallValue'
  BY <1>6, CallContinues DEF UserBalanceOp
<1>8. EthPassesThrough'
  <2>1. ethHeld = ethForced + (frame.value - frame.ethWrapped) /\ ethForced \in Nat
    BY <1>1 DEF IInv, EthPassesThrough, CallValue, TypeOK, GhostTyped
  <2>2. /\ frame'.kind = "manageUserBalance" /\ frame'.value = frame.value
        /\ frame'.ethWrapped = frame.ethWrapped + sent /\ ethForced' = ethForced
    BY <1>4 DEF UserBalanceOp, ghostVars
  <2>3. frame.value \in Nat /\ frame.ethWrapped \in Nat
    BY <1>1 DEF UserFrames
  <2>4. ethHeld' = ethForced' + (frame'.value - frame'.ethWrapped)
    BY <1>2, <1>3, <2>1, <2>2, <2>3
  <2> QED BY <2>2, <2>4 DEF EthPassesThrough, CallValue
<1> QED BY <1>2, <1>7, <1>8, Unchanged DEF UserBalanceOp, IInv, TypeOK

\* manageUserBalance ends: the ETH that was not wrapped goes back.
LEMMA ManageUserBalanceReturnKeeps == ASSUME IInv, ManageUserBalanceReturn PROVE IInv'
<1>1. frame \in UserFrames /\ frame.kind = "manageUserBalance"
  BY FrameKinds DEF ManageUserBalanceReturn, IInv
<1>2. /\ frame.value \in Nat /\ frame.ethWrapped \in Nat /\ frame.ethWrapped <= frame.value
      /\ ethHeld' = ethHeld - (frame.value - frame.ethWrapped)
      /\ ethOutside' = ethOutside + (frame.value - frame.ethWrapped)
      /\ ethForced' = ethForced /\ Leave
  BY <1>1 DEF ManageUserBalanceReturn, UserFrames, handleRemainingEth, ghostVars
<1>3. ethForced \in Nat /\ ethOutside \in Nat
  BY DEF IInv, TypeOK, GhostTyped, EthTyped
<1>4. ethHeld = ethForced + (frame.value - frame.ethWrapped)
  BY <1>1 DEF IInv, EthPassesThrough, CallValue
<1>5. ethHeld' = ethForced' /\ ethForced' \in Nat
  BY <1>2, <1>3, <1>4
<1>6. CallTyped' /\ SavedWithoutCallValue' /\ EthPassesThrough'
  BY <1>2, <1>5, CallEnds
<1>7. EthTyped'
  BY <1>2, <1>3, <1>5 DEF EthTyped
<1> QED BY <1>6, <1>7, Unchanged DEF ManageUserBalanceReturn, IInv, TypeOK
-----------------------------------------------------------------------------
\* managePoolBalance begins.
LEMMA ManagePoolBalanceKeeps ==
  ASSUME IInv, NEW caller \in Managers, managePoolBalance(caller)
  PROVE  IInv'
<1> DEFINE f == [kind |-> "managePoolBalance", caller |-> caller, steps |-> 0]
<1>1. Enter("managePoolBalance", f)
  BY DEF managePoolBalance
<1>2. f \in ManagerFrames
  BY DEF ManagerFrames, Callers
<1>3. frame' = f
  BY <1>1 DEF Enter
<1>4. FrameOK' /\ f.kind = "managePoolBalance"
  BY <1>2, <1>3 DEF FrameOK
<1> HIDE DEF f
<1>5. CallTyped' /\ SavedWithoutCallValue' /\ ethHeld = ethForced
  BY <1>1, <1>4, CallBegins
<1>6. EthPassesThrough'
  BY <1>3, <1>4, <1>5 DEF EthPassesThrough, CallValue, managePoolBalance, ethVars,
     ghostVars, IInv, TypeOK, GhostTyped
<1> QED BY <1>5, <1>6, Unchanged DEF managePoolBalance, IInv, TypeOK

\* What a manager does to its token: the new balance fits, and tokens only move.
LEMMA ManagerOperationMoves ==
  ASSUME IInv, NEW kind \in PoolBalanceOpKinds, NEW p \in Pools, NEW t \in Tokens,
         NEW amount \in Amounts, PoolBalanceOp(kind, p, t, amount)
  PROVE  /\ TokensTyped'
         /\ \E b \in Balance : StoreBalance(p, t, b)
<1>1. amount \in Nat /\ balances[p][t] \in Balance /\ clock \in Nat
  BY VaultAssumption DEF IInv, TypeOK, BalancesTyped, PauseTyped
<1>2. /\ held \in [Tokens -> Nat] /\ outside \in [Tokens -> Nat]
      /\ collected \in [Tokens -> Nat] /\ forwarder \in [Tokens -> Nat]
      /\ UNCHANGED <<collected, forwarder>>
  BY DEF IInv, TypeOK, TokensTyped, PoolBalanceOp
<1>3. CASE kind = "WITHDRAW"
  <2> DEFINE b == cashToManaged(balances[p][t], amount)
  <2>1. withdrawPoolBalance(p, t, amount)
    BY <1>3 DEF PoolBalanceOp
  <2>2. Fits(b) /\ StoreBalance(p, t, b)
    BY <2>1 DEF withdrawPoolBalance
  <2>3. b \in Balance
    BY <1>1, <2>2, BalanceOperations
  <2>4. held' \in [Tokens -> Nat] /\ outside' \in [Tokens -> Nat]
    BY <1>1, <1>2, <2>1, TokenMoved DEF withdrawPoolBalance
  <2> QED BY <1>2, <2>2, <2>3, <2>4 DEF TokensTyped
<1>4. CASE kind = "DEPOSIT"
  <2> DEFINE b == managedToCash(balances[p][t], amount)
  <2>1. depositPoolBalance(p, t, amount)
    BY <1>4 DEF PoolBalanceOp
  <2>2. Fits(b) /\ StoreBalance(p, t, b)
    BY <2>1 DEF depositPoolBalance
  <2>3. b \in Balance
    BY <1>1, <2>2, BalanceOperations
  <2>4. held' \in [Tokens -> Nat] /\ outside' \in [Tokens -> Nat]
    BY <1>1, <1>2, <2>1, TokenMoved DEF depositPoolBalance
  <2> QED BY <1>2, <2>2, <2>3, <2>4 DEF TokensTyped
<1>5. CASE kind = "UPDATE"
  <2> DEFINE b == setManaged(balances[p][t], amount, clock)
  <2>1. updateManagedBalance(p, t, amount)
    BY <1>5 DEF PoolBalanceOp
  <2>2. Fits(b) /\ StoreBalance(p, t, b)
    BY <2>1 DEF updateManagedBalance
  <2>3. b \in Balance
    BY <1>1, <2>2, BalanceOperations
  <2> QED BY <1>2, <2>1, <2>2, <2>3 DEF TokensTyped, updateManagedBalance
<1> QED BY <1>3, <1>4, <1>5 DEF PoolBalanceOpKinds

\* An Asset Manager's operation stores a fitting balance, and moves no ETH.
LEMMA ManagerOperationKeeps ==
  ASSUME IInv, NEW kind \in PoolBalanceOpKinds, NEW p \in Pools, NEW t \in Tokens,
         NEW amount \in Amounts, PoolBalanceOp(kind, p, t, amount)
  PROVE  IInv'
<1>1. frame \in ManagerFrames /\ frame.kind = "managePoolBalance"
  BY FrameKinds DEF PoolBalanceOp, IInv
<1>2. TokensTyped' /\ BalancesTyped'
  BY ManagerOperationMoves, StoredOne DEF IInv, TypeOK
<1>3. frame' \in ManagerFrames /\ frame'.kind = "managePoolBalance"
  BY <1>1 DEF PoolBalanceOp, ManagerFrames
<1>4. FrameOK' /\ frame # Idle /\ frame' # Idle
  BY <1>1, <1>3 DEF FrameOK, Idle
<1>5. CallTyped' /\ SavedWithoutCallValue'
  BY <1>4, CallContinues DEF PoolBalanceOp
<1>6. EthPassesThrough'
  BY <1>1, <1>3 DEF IInv, EthPassesThrough, CallValue, PoolBalanceOp, ethVars, ghostVars
<1> QED BY <1>2, <1>5, <1>6, Unchanged DEF PoolBalanceOp, IInv, TypeOK

\* managePoolBalance ends.
LEMMA ManagePoolBalanceReturnKeeps == ASSUME IInv, ManagePoolBalanceReturn PROVE IInv'
<1>1. frame.kind = "managePoolBalance" /\ Leave /\ UNCHANGED <<ethVars, ghostVars>>
  BY DEF ManagePoolBalanceReturn
<1>2. ethHeld' = ethForced' /\ ethForced' \in Nat
  BY <1>1 DEF IInv, EthPassesThrough, CallValue, TypeOK, GhostTyped, ethVars, ghostVars
<1>3. CallTyped' /\ SavedWithoutCallValue' /\ EthPassesThrough'
  BY <1>1, <1>2, CallEnds
<1> QED BY <1>3, Unchanged DEF ManagePoolBalanceReturn, IInv, TypeOK
-----------------------------------------------------------------------------
\* Approvals and pauses.
LEMMA AdministrationKeeps == ASSUME IInv, Administration PROVE IInv'
<1>1. ASSUME NEW caller \in Users \union Relayers, NEW relayer \in Users \union Relayers,
             NEW sender \in Users, NEW approved \in BOOLEAN,
             setRelayerApproval(caller, sender, relayer, approved)
      PROVE  IInv'
  <2>1. AccessTyped'
    <3>1. relayer \in Callers /\ approvedRelayers \in [Users -> SUBSET Callers]
      BY DEF Callers, IInv, TypeOK, AccessTyped
    <3>2. signatures' \subseteq signatures /\ relayerRoles' = relayerRoles
      BY <1>1 DEF setRelayerApproval, authenticateFor
    <3>3. approvedRelayers' \in [Users -> SUBSET Callers]
      BY <1>1, <3>1 DEF setRelayerApproval
    <3> QED BY <3>2, <3>3 DEF AccessTyped, IInv, TypeOK
  <2> QED BY <1>1, <2>1, Unchanged, EthStays DEF setRelayerApproval, IInv, TypeOK, ghostVars
<1>2. ASSUME NEW value \in BOOLEAN, setPaused(value) PROVE IInv'
  <2>1. PauseTyped'
    BY <1>2 DEF setPaused, IInv, TypeOK, PauseTyped
  <2> QED BY <1>2, <2>1, Unchanged, EthStays DEF setPaused, IInv, TypeOK, ghostVars
<1> QED BY <1>1, <1>2 DEF Administration

\* What others do: ETH is forced into the Vault, and counted as such.
LEMMA WorldKeeps == ASSUME IInv, World PROVE IInv'
<1>1. ASSUME NEW t \in Tokens, NEW amount \in Amounts, Donate(t, amount) PROVE IInv'
  <2>1. amount \in Nat /\ outside[t] \in Nat /\ amount <= outside[t]
    BY <1>1, VaultAssumption DEF Donate, IInv, TypeOK, TokensTyped
  <2>2. TokensTyped' /\ donated' \in [Tokens -> Nat] /\ ethForced' = ethForced
    BY <1>1, <2>1, TokenMoved DEF Donate, IInv, TypeOK, TokensTyped, GhostTyped
  <2>3. GhostTyped'
    BY <2>2 DEF GhostTyped, IInv, TypeOK
  <2> QED BY <1>1, <2>2, <2>3, Unchanged, EthStays DEF Donate, IInv, TypeOK
<1>2. ASSUME NEW t \in Tokens, Distribute(t) PROVE IInv'
  <2>1. /\ forwarder[t] \in Nat /\ outside \in [Tokens -> Nat]
        /\ held \in [Tokens -> Nat] /\ collected \in [Tokens -> Nat]
        /\ forwarder \in [Tokens -> Nat]
    BY DEF IInv, TypeOK, TokensTyped
  <2>2. outside' \in [Tokens -> Nat] /\ forwarder' \in [Tokens -> Nat]
    BY <1>2, <2>1, TokenMoved DEF Distribute
  <2>3. TokensTyped'
    BY <1>2, <2>1, <2>2 DEF Distribute, TokensTyped
  <2> QED BY <1>2, <2>3, Unchanged, EthStays DEF Distribute, IInv, TypeOK, ghostVars
<1>3. ASSUME NEW amount \in MsgValues, ForceEth(amount) PROVE IInv'
  <2>1. /\ amount \in Nat /\ ethOutside \in Nat /\ ethHeld \in Nat /\ ethForced \in Nat
        /\ amount <= ethOutside
    BY <1>3, VaultAssumption DEF ForceEth, IInv, TypeOK, EthTyped, GhostTyped
  <2>2. EthTyped' /\ GhostTyped'
    BY <1>3, <2>1 DEF ForceEth, EthTyped, GhostTyped, IInv, TypeOK
  <2>3. SavedWithoutCallValue'
    BY <1>3 DEF ForceEth, SavedWithoutCallValue, IInv, callVars
  <2>4. EthPassesThrough'
    <3>1. CallValue \in Int
      <4>1. /\ frame.kind = "manageUserBalance" => frame.value \in Nat /\ frame.ethWrapped \in Nat
            /\ frame.kind \in {"joinPool", "exitPool", "swap", "batchSwap"} => frame.value \in Nat
        BY FrameKinds DEF IInv, UserFrames, JoinExitFrame, SwapFrame, BatchFrame,
           PoolBalanceChangeKinds
      <4> QED BY <4>1 DEF CallValue
    <3>2. CallValue' = CallValue
      BY <1>3 DEF ForceEth, CallValue, callVars
    <3>3. ethHeld + amount = (ethForced + amount) + CallValue
      BY <2>1, <3>1 DEF IInv, EthPassesThrough
    <3> QED BY <1>3, <3>2, <3>3 DEF ForceEth, EthPassesThrough
  <2> QED BY <1>3, <2>2, <2>3, <2>4, Unchanged DEF ForceEth, IInv, TypeOK
<1>4. ASSUME NEW caller \in Relayers, AuthorizerChanges(caller) PROVE IInv'
  <2>1. AccessTyped'
    BY <1>4, Inputs DEF AuthorizerChanges, IInv, TypeOK, AccessTyped
  <2> QED BY <1>4, <2>1, Unchanged, EthStays DEF AuthorizerChanges, IInv, TypeOK, ghostVars
<1>5. ASSUME NEW user \in Users, NEW caller \in Relayers, Sign(user, caller) PROVE IInv'
  <2>1. AccessTyped'
    BY <1>5, Inputs DEF Sign, IInv, TypeOK, AccessTyped
  <2> QED BY <1>5, <2>1, Unchanged, EthStays DEF Sign, IInv, TypeOK, ghostVars
<1>6. ASSUME NextBlock PROVE IInv'
  <2>1. PauseTyped'
    BY <1>6, VaultAssumption DEF NextBlock, IInv, TypeOK, PauseTyped
  <2> QED BY <1>6, <2>1, Unchanged, EthStays DEF NextBlock, IInv, TypeOK, ghostVars
<1> QED BY <1>1, <1>2, <1>3, <1>4, <1>5, <1>6 DEF World

\* A revert restores a state the call began in: types, and no ETH of the call's.
LEMMA RevertKeeps == ASSUME IInv, Revert PROVE IInv'
<1>1. /\ saved \in Snapshots /\ saved.ethHeld = saved.ethForced /\ Leave
  BY DEF Revert, IInv, TypeOK, CallTyped, SavedWithoutCallValue
<1>2. ethHeld' = ethForced' /\ ethForced' \in Nat
  BY <1>1 DEF Revert, Snapshots
<1>3. CallTyped' /\ SavedWithoutCallValue' /\ EthPassesThrough'
  BY <1>1, <1>2, CallEnds
<1>4. BalancesTyped' /\ InternalTyped' /\ EthTyped' /\ GhostTyped' /\ FeesTyped'
  BY <1>1 DEF Revert, Snapshots, BalancesTyped, InternalTyped, EthTyped, GhostTyped, FeesTyped
<1>5. TokensTyped' /\ AccessTyped'
  BY <1>1 DEF Revert, Snapshots, TokensTyped, AccessTyped, IInv, TypeOK
<1> QED BY <1>3, <1>4, <1>5, Unchanged DEF Revert, IInv, TypeOK

\* The constructor.
LEMMA Initial == Init => IInv
<1> SUFFICES ASSUME Init PROVE IInv
  OBVIOUS
<1> USE DEF Init
<1>1. RegistryTyped /\ AccessTyped /\ PauseTyped /\ FeesTyped
  <2>1. RegistryTyped /\ AccessTyped
    BY DEF RegistryTyped, AccessTyped
  <2>2. clock \in 0..MaxBlock /\ FeesTyped
    BY VaultAssumption DEF FeesTyped
  <2>3. paused \in BOOLEAN
    BY Zenon
  <2> QED BY <2>1, <2>2, <2>3 DEF PauseTyped
<1>2. BalancesTyped /\ InternalTyped
  BY EmptyBalanceTyped DEF BalancesTyped, InternalTyped, NoTokens
<1>3. TokensTyped /\ EthTyped /\ GhostTyped
  BY VaultAssumption DEF TokensTyped, EthTyped, GhostTyped, NoTokens
<1>4. CallTyped /\ SavedWithoutCallValue
  BY DEF CallTyped, FrameOK, SavedWithoutCallValue
<1>5. EthPassesThrough
  BY DEF EthPassesThrough, CallValue, Idle
<1> QED BY <1>1, <1>2, <1>3, <1>4, <1>5 DEF IInv, TypeOK

\* Every step of the Vault, and of the world around it.
LEMMA Inductive == IInv /\ [Next]_vars => IInv'
<1> SUFFICES ASSUME IInv, [Next]_vars PROVE IInv'
  OBVIOUS
<1>1. CASE UNCHANGED vars
  <2>1. /\ UNCHANGED poolVars /\ UNCHANGED balances /\ UNCHANGED internal
        /\ UNCHANGED accessVars /\ UNCHANGED pauseVars /\ UNCHANGED feeVars
        /\ UNCHANGED tokenVars /\ UNCHANGED ethVars /\ UNCHANGED ghostVars
        /\ UNCHANGED callVars
    BY <1>1 DEF vars
  <2>2. UNCHANGED ethForced
    BY <2>1 DEF ghostVars
  <2> QED BY <2>1, <2>2, Unchanged, EthStays DEF IInv, TypeOK
<1>2. CASE Registry
  BY <1>2, RegistryKeeps DEF Registry
<1>3. CASE JoinsAndExits
  <2>1. TypeOK
    BY DEF IInv
  <2>2. ASSUME NEW kind \in PoolBalanceChangeKinds, NEW caller \in Users \union Relayers,
               NEW sender \in Users, NEW recipient \in Users, NEW p \in Pools,
               NEW useInternalBalance \in InternalFlags,
               NEW useEth \in {a = ETH : a \in InputAssets}, NEW value \in MsgValues,
               NEW limits \in [poolTokens[p] -> Limits],
               JoinOrExit(kind, caller, sender, recipient, p, limits,
                          useInternalBalance, useEth, value)
        PROVE  IInv'
    <3>1. useEth \in BOOLEAN
      OBVIOUS
    <3> QED BY <2>2, <3>1, JoinOrExitKeeps
  <2>3. ASSUME NEW amounts \in [DOMAIN frame.cached -> Amounts],
               NEW fees \in [DOMAIN frame.cached -> Amounts],
               JoinPoolReturn(amounts, fees) \/ ExitPoolReturn(amounts, fees)
        PROVE  IInv'
    BY <2>3, JoinReturnKeeps, ExitReturnKeeps
  <2> QED BY <1>3, <2>2, <2>3 DEF JoinsAndExits
<1>4. CASE SwapCalls
  <2>1. PICK caller \in Users \union Relayers, sender \in Users, recipient \in Users,
             kind \in SwapKinds, fromInternal \in InternalFlags,
             toInternal \in InternalFlags, deadline \in {0, MaxBlock}, value \in MsgValues :
          \/ \E p \in Pools, assetIn, assetOut \in InputAssets, amount \in Amounts,
                limit \in Limits :
               swap(caller, sender, recipient, p, kind, assetIn, assetOut, amount,
                    limit, fromInternal, toInternal, deadline, value)
          \/ \E limits \in [InputAssets -> DeltaLimits] :
               batchSwap(caller, sender, recipient, kind, limits, fromInternal,
                         toInternal, deadline, value)
    BY <1>4 DEF SwapCalls
  <2> QED BY <2>1, SwapKeeps, BatchSwapKeeps
<1>5. CASE SwapReturns
  BY <1>5, SwapReturnKeeps, BatchStepKeeps, BatchStepReturnKeeps, BatchReturnKeeps
  DEF SwapReturns
<1>6. CASE Loans
  BY <1>6, FlashLoanKeeps, FlashLoanReturnKeeps DEF Loans
<1>7. CASE Collector
  BY <1>7, CollectorKeeps
<1>8. CASE UserOperations
  BY <1>8, ManageUserBalanceKeeps, UserOperationKeeps, ManageUserBalanceReturnKeeps
  DEF UserOperations
<1>9. CASE ManagerOperations
  BY <1>9, ManagePoolBalanceKeeps, ManagerOperationKeeps, ManagePoolBalanceReturnKeeps
  DEF ManagerOperations
<1>10. CASE Administration
  BY <1>10, AdministrationKeeps
<1>11. CASE World
  BY <1>11, WorldKeeps
<1>12. CASE Revert
  BY <1>12, RevertKeeps
<1> QED BY <1>1, <1>2, <1>3, <1>4, <1>5, <1>6, <1>7, <1>8, <1>9, <1>10, <1>11, <1>12
        DEF Next

\* The inductive invariant, in all behaviours.
LEMMA Invariance == Spec => []IInv
BY Initial, Inductive, PTL DEF Spec

(***************************************************************************)
(* The state keeps its type in every layout and whatever hooks answer: no  *)
(* sequence of calls, with its callbacks and reverts, makes a balance      *)
(* negative or a Pool's total exceed what the packed word holds.           *)
(***************************************************************************)
THEOREM TypeCorrect == Spec => []TypeOK
BY Invariance, PTL DEF IInv

(***************************************************************************)
(* No call keeps or uses ETH it was not sent, although the code compares   *)
(* amounts with the whole balance of the contract (_receiveAsset) and only *)
(* once, at its end, with what the call sent (_handleRemainingEth).        *)
(***************************************************************************)
THEOREM NoEthLeftBehind == Spec => []EthPassesThrough
BY Invariance, PTL DEF IInv
-----------------------------------------------------------------------------
(***************************************************************************)
(* RegistryConsistent is not inductive: a revert stores the balances saved *)
(* when the call began, so those must be consistent with the registry of   *)
(* now, which the lock keeps from changing while a call runs.              *)
(***************************************************************************)
Unregistered(stored) == \A p \in Pools : \A t \in Tokens \ poolTokens[p] : stored[p][t] = EmptyBalance
SavedConsistent == frame # Idle => Unregistered(saved.balances)
RInv == TypeOK /\ RegistryConsistent /\ SavedConsistent /\ CachedBalancesCurrent

\* A call that begins saves balances that are consistent.
LEMMA SavesConsistent ==
  ASSUME RInv, saved' = Snapshot, UNCHANGED poolVars
  PROVE  SavedConsistent'
BY DEF RInv, RegistryConsistent, SavedConsistent, Unregistered, Snapshot, poolVars

\* A step that stores nothing and registers nothing.
LEMMA NothingStored ==
  ASSUME RInv, UNCHANGED <<poolVars, balances>>
  PROVE  /\ RegistryConsistent'
         /\ UNCHANGED saved /\ frame # Idle => SavedConsistent'
         /\ UNCHANGED frame => CachedBalancesCurrent'
<1>1. RegistryConsistent'
  BY DEF RInv, RegistryConsistent, poolVars
<1>2. ASSUME UNCHANGED saved, frame # Idle PROVE SavedConsistent'
  BY <1>2 DEF RInv, SavedConsistent, Unregistered, poolVars
<1>3. ASSUME UNCHANGED frame PROVE CachedBalancesCurrent'
  BY <1>3 DEF RInv, CachedBalancesCurrent, PoolBalancesOf, poolVars
<1> QED BY <1>1, <1>2, <1>3

\* A step within no call, or after the last: nothing is cached, nothing saved.
LEMMA NoCall ==
  ASSUME frame' = Idle
  PROVE  SavedConsistent' /\ CachedBalancesCurrent'
BY DEF SavedConsistent, CachedBalancesCurrent, Idle

\* Steps that neither store nor register, nor touch the call in progress.
LEMMA Bystanders ==
  ASSUME RInv, UNCHANGED <<poolVars, balances, callVars>>
  PROVE  RegistryConsistent' /\ SavedConsistent' /\ CachedBalancesCurrent'
<1>1. UNCHANGED frame /\ UNCHANGED saved
  BY DEF callVars
<1>2. CASE frame = Idle
  BY <1>1, <1>2, NothingStored, NoCall
<1>3. CASE frame # Idle
  BY <1>1, <1>3, NothingStored
<1> QED BY <1>2, <1>3

\* Steps that only store balances of tokens that their Pool has registered.
LEMMA OnlyRegisteredStored ==
  ASSUME RInv, UNCHANGED poolVars,
         \A p \in Pools, t \in Tokens : t \notin poolTokens[p] => balances'[p][t] = balances[p][t]
  PROVE  RegistryConsistent'
BY DEF RInv, RegistryConsistent, poolVars
-----------------------------------------------------------------------------
\* Registering and deregistering happen between calls.
LEMMA RegistrySteps ==
  ASSUME RInv, Registry
  PROVE  RegistryConsistent' /\ SavedConsistent' /\ CachedBalancesCurrent'
<1>1. ASSUME NEW p \in Pools, registerPool(p)
      PROVE  RegistryConsistent' /\ frame' = Idle
  BY <1>1 DEF registerPool, RInv, RegistryConsistent, MayCall, NotEntered, callVars
<1>2. ASSUME NEW p \in Pools, NEW ts \in SUBSET Tokens,
             NEW manager \in [ts -> Managers \union {NoManager}],
             registerTokens(p, ts, manager)
      PROVE  RegistryConsistent' /\ frame' = Idle
  <2>1. frame' = Idle /\ p \in registeredPools
    BY <1>2 DEF registerTokens, MayCall, NotEntered, callVars
  <2>2. /\ poolTokens \in [Pools -> SUBSET Tokens]
        /\ assetManager \in [Pools -> [Tokens -> Managers \union {NoManager}]]
    BY DEF RInv, TypeOK, RegistryTyped
  <2>3. /\ \A q \in Pools : poolTokens'[q] = IF q = p THEN poolTokens[p] \union ts
                                                      ELSE poolTokens[q]
        /\ \A q \in Pools, t \in Tokens : ~(q = p /\ t \in ts) =>
             assetManager'[q][t] = assetManager[q][t]
        /\ UNCHANGED <<registeredPools, balances>>
    BY <1>2, <2>2 DEF registerTokens
  <2> QED BY <2>1, <2>3 DEF RInv, RegistryConsistent
<1>3. ASSUME NEW p \in Pools, NEW ts \in SUBSET Tokens, deregisterTokens(p, ts)
      PROVE  RegistryConsistent' /\ frame' = Idle
  <2>1. frame' = Idle /\ p \in registeredPools
    BY <1>3 DEF deregisterTokens, MayCall, NotEntered, callVars
  <2>2. /\ poolTokens \in [Pools -> SUBSET Tokens]
        /\ assetManager \in [Pools -> [Tokens -> Managers \union {NoManager}]]
        /\ balances \in [Pools -> [Tokens -> Balance]]
    BY DEF RInv, TypeOK, RegistryTyped, BalancesTyped
  <2>3. /\ \A q \in Pools : poolTokens'[q] = IF q = p THEN poolTokens[p] \ ts
                                                      ELSE poolTokens[q]
        /\ \A q \in Pools, t \in Tokens :
             /\ q = p /\ t \in ts =>
                  assetManager'[q][t] = NoManager /\ balances'[q][t] = EmptyBalance
             /\ ~(q = p /\ t \in ts) =>
                  assetManager'[q][t] = assetManager[q][t] /\ balances'[q][t] = balances[q][t]
        /\ UNCHANGED registeredPools
    BY <1>3, <2>2 DEF deregisterTokens, managersWithout
  <2> QED BY <2>1, <2>3 DEF RInv, RegistryConsistent
<1> QED BY <1>1, <1>2, <1>3, NoCall DEF Registry

\* A call begins: what it saved is consistent, and what it cached is what is stored.
LEMMA CallBeginsConsistent ==
  ASSUME RInv, NEW entryPoint, NEW f, Enter(entryPoint, f), UNCHANGED <<poolVars, balances>>,
         \/ f.kind \in {"flashLoan", "manageUserBalance", "managePoolBalance"}
         \/ f.kind = "batchSwap" /\ f.request = NoRequest
  PROVE  RegistryConsistent' /\ SavedConsistent' /\ CachedBalancesCurrent'
<1>1. frame' = f /\ saved' = Snapshot
  BY DEF Enter
<1>2. RegistryConsistent' /\ SavedConsistent'
  BY <1>1, NothingStored, SavesConsistent
<1>3. CachedBalancesCurrent'
  BY <1>1 DEF CachedBalancesCurrent
<1> QED BY <1>2, <1>3

\* joinPool and exitPool cache the balances they read.
LEMMA JoinOrExitConsistent ==
  ASSUME RInv, NEW kind \in PoolBalanceChangeKinds, NEW caller, NEW sender,
         NEW recipient, NEW p \in Pools, NEW limits, NEW useInternalBalance, NEW useEth,
         NEW value,
         JoinOrExit(kind, caller, sender, recipient, p, limits, useInternalBalance,
                    useEth, value)
  PROVE  RegistryConsistent' /\ SavedConsistent' /\ CachedBalancesCurrent'
<1>1. /\ saved' = Snapshot /\ UNCHANGED <<poolVars, balances>>
      /\ frame'.kind = kind /\ frame'.pool = p /\ frame'.cached = PoolBalancesOf(p)
  BY DEF JoinOrExit, Enter
<1>2. CachedBalancesCurrent'
  BY <1>1 DEF CachedBalancesCurrent, PoolBalancesOf, PoolBalanceChangeKinds, poolVars
<1> QED BY <1>1, <1>2, NothingStored, SavesConsistent

\* swap caches two balances of the Pool.
LEMMA SwapConsistent ==
  ASSUME RInv, NEW caller, NEW sender, NEW recipient, NEW p \in Pools, NEW kind,
         NEW assetIn, NEW assetOut, NEW amount, NEW limit, NEW fromInternal,
         NEW toInternal, NEW deadline, NEW value,
         swap(caller, sender, recipient, p, kind, assetIn, assetOut, amount, limit,
              fromInternal, toInternal, deadline, value)
  PROVE  RegistryConsistent' /\ SavedConsistent' /\ CachedBalancesCurrent'
<1>1. /\ saved' = Snapshot /\ UNCHANGED <<poolVars, balances>>
      /\ frame'.kind = "swap"
      /\ frame'.request = SwapRequest(p, assetIn, assetOut, amount)
      /\ MaySwap(p, assetIn, assetOut)
  BY DEF swap, Enter
<1>2. /\ frame'.request.pool = p
      /\ frame'.request.cached = [t \in {translate(assetIn), translate(assetOut)} |-> balances[p][t]]
      /\ {translate(assetIn), translate(assetOut)} \subseteq poolTokens[p]
  BY <1>1 DEF SwapRequest, MaySwap
<1>3. CachedBalancesCurrent'
  BY <1>1, <1>2 DEF CachedBalancesCurrent, poolVars
<1> QED BY <1>1, <1>3, NothingStored, SavesConsistent

\* So does a hop of a batch.
LEMMA BatchStepConsistent ==
  ASSUME RInv, NEW p \in Pools, NEW assetIn, NEW assetOut, NEW amount,
         BatchSwapStep(p, assetIn, assetOut, amount)
  PROVE  RegistryConsistent' /\ SavedConsistent' /\ CachedBalancesCurrent'
<1>1. BatchFrame(frame) /\ frame.kind = "batchSwap"
  BY FrameKinds DEF BatchSwapStep, RInv
<1>2. /\ UNCHANGED <<poolVars, balances>> /\ UNCHANGED saved
      /\ frame' = [frame EXCEPT !.request =
                     SwapRequest(p, assetIn, assetOut, givenAmount(amount))]
      /\ MaySwap(p, assetIn, assetOut)
  BY DEF BatchSwapStep
<1>3. /\ frame'.kind = "batchSwap"
      /\ frame'.request = SwapRequest(p, assetIn, assetOut, givenAmount(amount))
  BY <1>1, <1>2 DEF BatchFrame
<1>4. /\ frame'.request.pool = p
      /\ frame'.request.cached = [t \in {translate(assetIn), translate(assetOut)} |-> balances[p][t]]
      /\ {translate(assetIn), translate(assetOut)} \subseteq poolTokens[p]
  BY <1>2, <1>3 DEF SwapRequest, MaySwap
<1>5. CachedBalancesCurrent'
  BY <1>2, <1>3, <1>4 DEF CachedBalancesCurrent, poolVars
<1>6. frame # Idle
  BY <1>1 DEF Idle
<1> QED BY <1>2, <1>5, <1>6, NothingStored
-----------------------------------------------------------------------------
\* The hook's answer is stored for tokens that were cached, and so registered.
LEMMA StoredConsistent ==
  ASSUME RInv, NEW p \in Pools, NEW changed, StoreBalances(p, changed),
         DOMAIN changed \subseteq poolTokens[p], UNCHANGED poolVars
  PROVE  RegistryConsistent'
<1>1. balances \in [Pools -> [Tokens -> Balance]]
  BY DEF RInv, TypeOK, BalancesTyped
<1>2. \A q \in Pools, t \in Tokens : t \notin poolTokens[q] => balances'[q][t] = balances[q][t]
  BY <1>1 DEF StoreBalances
<1> QED BY <1>2, OnlyRegisteredStored

\* Storing a join's or an exit's result changes registered tokens only.
LEMMA PoolReturnConsistent ==
  ASSUME RInv, NEW amounts, NEW fees,
         JoinPoolReturn(amounts, fees) \/ ExitPoolReturn(amounts, fees)
  PROVE  RegistryConsistent' /\ SavedConsistent' /\ CachedBalancesCurrent'
<1>1. frame.kind \in {"joinPool", "exitPool"} /\ frame' = Idle /\ UNCHANGED poolVars
  BY DEF JoinPoolReturn, ExitPoolReturn, Leave
<1>2. frame.pool \in Pools
  BY <1>1, FrameKinds DEF RInv, PoolBalanceChangeKinds, JoinExitFrame
<1>3. DOMAIN frame.cached = poolTokens[frame.pool]
  BY <1>1 DEF RInv, CachedBalancesCurrent, PoolBalancesOf
<1>4. \E changed : StoreBalances(frame.pool, changed) /\ DOMAIN changed = DOMAIN frame.cached
  <2> DEFINE joined == [t \in DOMAIN frame.cached |->
                          joinedBalance(frame.cached[t], amounts[t], fees[t])]
             exited == [t \in DOMAIN frame.cached |->
                          exitedBalance(frame.cached[t], amounts[t], fees[t])]
  <2>1. StoreBalances(frame.pool, joined) \/ StoreBalances(frame.pool, exited)
    BY DEF JoinPoolReturn, ExitPoolReturn
  <2>2. DOMAIN joined = DOMAIN frame.cached /\ DOMAIN exited = DOMAIN frame.cached
    OBVIOUS
  <2> HIDE DEF joined, exited
  <2> QED BY <2>1, <2>2
<1>5. RegistryConsistent'
  BY <1>1, <1>2, <1>3, <1>4, StoredConsistent
<1> QED BY <1>1, <1>5, NoCall

\* The same for the two tokens of a swap.
LEMMA SwappedConsistent ==
  ASSUME RInv, NEW amounts, frame.kind \in {"swap", "batchSwap"}, Request(frame.request),
         frame.request # NoRequest, ProcessSwapRequest(frame.request, amounts),
         UNCHANGED poolVars
  PROVE  RegistryConsistent'
<1> DEFINE r == frame.request
           final == [t \in {translate(r.assetIn), translate(r.assetOut)} |->
                       IF t = translate(r.assetIn)
                         THEN increaseCash(r.cached[t], amounts.in, clock)
                         ELSE decreaseCash(r.cached[t], amounts.out, clock)]
<1>1. /\ r.pool \in Pools
      /\ DOMAIN r.cached = {translate(r.assetIn), translate(r.assetOut)}
  BY DEF Request
<1>2. DOMAIN r.cached \subseteq poolTokens[r.pool]
  BY DEF RInv, CachedBalancesCurrent
<1>3. StoreBalances(r.pool, final)
  BY DEF ProcessSwapRequest
<1>4. DOMAIN final = {translate(r.assetIn), translate(r.assetOut)}
  OBVIOUS
<1> HIDE DEF final, r
<1>5. DOMAIN final \subseteq poolTokens[r.pool]
  BY <1>1, <1>2, <1>4
<1> QED BY <1>1, <1>3, <1>5, StoredConsistent

\* Storing a swap's result changes registered tokens only.
LEMMA SwapReturnConsistent ==
  ASSUME RInv, NEW calculated, SwapReturn(calculated)
  PROVE  RegistryConsistent' /\ SavedConsistent' /\ CachedBalancesCurrent'
<1>1. frame.kind = "swap" /\ frame' = Idle /\ UNCHANGED poolVars
  BY DEF SwapReturn, Leave
<1>2. Request(frame.request) /\ frame.request # NoRequest
  BY <1>1, FrameKinds DEF RInv, SwapFrame, Request, NoRequest
<1>3. \E amounts : ProcessSwapRequest(frame.request, amounts)
  BY DEF SwapReturn
<1> QED BY <1>1, <1>2, <1>3, SwappedConsistent, NoCall

\* So does storing a hop's, and the next hop has not begun.
LEMMA BatchStepReturnConsistent ==
  ASSUME RInv, NEW calculated, BatchSwapStepReturn(calculated)
  PROVE  RegistryConsistent' /\ SavedConsistent' /\ CachedBalancesCurrent'
<1>1. /\ frame.kind = "batchSwap" /\ UNCHANGED poolVars /\ UNCHANGED saved
      /\ frame.request # NoRequest
  BY DEF BatchSwapStepReturn
<1>2. BatchFrame(frame) /\ Request(frame.request) /\ frame # Idle
  BY <1>1, FrameKinds DEF RInv, BatchFrame, Idle
<1>3. \E amounts : ProcessSwapRequest(frame.request, amounts)
  BY DEF BatchSwapStepReturn
<1>4. RegistryConsistent'
  BY <1>1, <1>2, <1>3, SwappedConsistent
<1>5. frame'.kind = "batchSwap" /\ frame'.request = NoRequest
  BY <1>1, <1>2 DEF BatchSwapStepReturn, BatchFrame
<1>6. CachedBalancesCurrent'
  BY <1>5 DEF CachedBalancesCurrent
<1>7. SavedConsistent'
  BY <1>1, <1>2 DEF RInv, SavedConsistent, Unregistered, poolVars
<1> QED BY <1>4, <1>6, <1>7

\* The manager of a token can only be that of a registered one.
LEMMA ManagerOperationConsistent ==
  ASSUME RInv, NEW kind \in PoolBalanceOpKinds, NEW p \in Pools, NEW t \in Tokens,
         NEW amount \in Amounts, PoolBalanceOp(kind, p, t, amount)
  PROVE  RegistryConsistent' /\ SavedConsistent' /\ CachedBalancesCurrent'
<1>1. /\ frame.kind = "managePoolBalance" /\ UNCHANGED poolVars /\ UNCHANGED saved
      /\ t \in poolTokens[p] /\ frame' = [frame EXCEPT !.steps = @ + 1]
  BY DEF PoolBalanceOp
<1>2. frame \in ManagerFrames /\ frame # Idle
  BY <1>1, FrameKinds DEF RInv, Idle
<1>3. frame'.kind = "managePoolBalance"
  BY <1>1, <1>2 DEF ManagerFrames
<1>4. \E b : StoreBalance(p, t, b)
  BY DEF PoolBalanceOp, withdrawPoolBalance, depositPoolBalance, updateManagedBalance,
     PoolBalanceOpKinds
<1>5. balances \in [Pools -> [Tokens -> Balance]]
  BY DEF RInv, TypeOK, BalancesTyped
<1>6. \A q \in Pools, u \in Tokens : u \notin poolTokens[q] => balances'[q][u] = balances[q][u]
  BY <1>1, <1>4, <1>5 DEF StoreBalance
<1>7. RegistryConsistent'
  BY <1>1, <1>6, OnlyRegisteredStored
<1>8. CachedBalancesCurrent'
  BY <1>3 DEF CachedBalancesCurrent
<1>9. SavedConsistent'
  BY <1>1, <1>2 DEF RInv, SavedConsistent, Unregistered, poolVars
<1> QED BY <1>7, <1>8, <1>9

\* Internal Balance is apart from the Pools' balances.
LEMMA UserOperationConsistent ==
  ASSUME RInv, NEW kind, NEW asset, NEW amount, NEW sender, NEW recipient,
         UserBalanceOp(kind, asset, amount, sender, recipient)
  PROVE  RegistryConsistent' /\ SavedConsistent' /\ CachedBalancesCurrent'
<1>1. /\ frame.kind = "manageUserBalance" /\ UNCHANGED <<poolVars, balances>>
      /\ UNCHANGED saved
  BY DEF UserBalanceOp
<1>2. frame \in UserFrames /\ frame # Idle
  BY <1>1, FrameKinds DEF RInv, Idle
<1>3. frame'.kind = "manageUserBalance"
  BY <1>1, <1>2 DEF UserBalanceOp, UserFrames
<1>4. CachedBalancesCurrent'
  BY <1>3 DEF CachedBalancesCurrent
<1> QED BY <1>1, <1>2, <1>4, NothingStored

\* The other returns store nothing; a revert stores what was consistent before.
LEMMA QuietReturnConsistent ==
  ASSUME RInv,
         \/ BatchSwapReturn \/ FlashLoanReturn \/ ManageUserBalanceReturn
         \/ ManagePoolBalanceReturn
  PROVE  RegistryConsistent' /\ SavedConsistent' /\ CachedBalancesCurrent'
<1>1. UNCHANGED <<poolVars, balances>> /\ frame' = Idle
  BY DEF BatchSwapReturn, FlashLoanReturn, ManageUserBalanceReturn,
     ManagePoolBalanceReturn, Leave
<1> QED BY <1>1, NothingStored, NoCall

\* A revert restores balances that agreed with the registry, which no call changed.
LEMMA RevertConsistent ==
  ASSUME RInv, Revert
  PROVE  RegistryConsistent' /\ SavedConsistent' /\ CachedBalancesCurrent'
<1>1. frame # Idle /\ frame' = Idle /\ UNCHANGED poolVars /\ balances' = saved.balances
  BY DEF Revert, Leave
<1>2. RegistryConsistent'
  BY <1>1 DEF RInv, SavedConsistent, Unregistered, RegistryConsistent, poolVars
<1> QED BY <1>1, <1>2, NoCall
-----------------------------------------------------------------------------
\* Every step keeps the registry and the cached balances consistent.
LEMMA RegistryInductive == RInv /\ IInv /\ [Next]_vars => RInv'
<1> SUFFICES ASSUME RInv, IInv, [Next]_vars
             PROVE  RegistryConsistent' /\ SavedConsistent' /\ CachedBalancesCurrent'
  BY Inductive DEF RInv, IInv
<1>1. CASE UNCHANGED vars
  BY <1>1, Bystanders DEF vars
<1>2. CASE Registry
  BY <1>2, RegistrySteps
<1>3. CASE JoinsAndExits
  BY <1>3, JoinOrExitConsistent, PoolReturnConsistent DEF JoinsAndExits
<1>4. CASE SwapCalls
  <2>1. PICK caller, sender, recipient, kind, fromInternal, toInternal, deadline, value :
          \/ \E p \in Pools, assetIn, assetOut \in InputAssets, amount \in Amounts,
                limit \in Limits :
               swap(caller, sender, recipient, p, kind, assetIn, assetOut, amount,
                    limit, fromInternal, toInternal, deadline, value)
          \/ \E limits \in [InputAssets -> DeltaLimits] :
               batchSwap(caller, sender, recipient, kind, limits, fromInternal,
                         toInternal, deadline, value)
    BY <1>4 DEF SwapCalls
  <2>2. ASSUME NEW limits,
               batchSwap(caller, sender, recipient, kind, limits, fromInternal,
                         toInternal, deadline, value)
        PROVE  RegistryConsistent' /\ SavedConsistent' /\ CachedBalancesCurrent'
    <3> DEFINE f == [kind |-> "batchSwap", caller |-> caller, sender |-> sender,
                     recipient |-> recipient, fromInternal |-> fromInternal,
                     toInternal |-> toInternal, value |-> value, swapKind |-> kind,
                     limits |-> limits, deltas |-> NoAmounts, steps |-> 0,
                     previous |-> NoHop, request |-> NoRequest]
    <3>1. Enter("batchSwap", f) /\ UNCHANGED <<poolVars, balances>>
      BY <2>2 DEF batchSwap
    <3>2. f.kind = "batchSwap" /\ f.request = NoRequest
      OBVIOUS
    <3> HIDE DEF f
    <3> QED BY <3>1, <3>2, CallBeginsConsistent
  <2> QED BY <2>1, <2>2, SwapConsistent
<1>5. CASE SwapReturns
  BY <1>5, SwapReturnConsistent, BatchStepConsistent, BatchStepReturnConsistent,
     QuietReturnConsistent DEF SwapReturns
<1>6. CASE Loans
  <2>1. ASSUME NEW caller, NEW amounts, flashLoan(caller, amounts)
        PROVE  RegistryConsistent' /\ SavedConsistent' /\ CachedBalancesCurrent'
    <3>1. PICK f : Enter("flashLoan", f) /\ f.kind = "flashLoan"
      BY <2>1 DEF flashLoan
    <3>2. UNCHANGED <<poolVars, balances>>
      BY <2>1 DEF flashLoan
    <3> QED BY <3>1, <3>2, CallBeginsConsistent
  <2> QED BY <1>6, <2>1, QuietReturnConsistent DEF Loans
<1>7. CASE Collector
  <2>1. UNCHANGED <<poolVars, balances, callVars>>
    BY <1>7 DEF Collector, withdrawCollectedFees, setFlashLoanFeePercentage,
       setFlashLoanFeeDiscount
  <2> QED BY <2>1, Bystanders
<1>8. CASE UserOperations
  <2>1. ASSUME NEW caller, NEW value, manageUserBalance(caller, value)
        PROVE  RegistryConsistent' /\ SavedConsistent' /\ CachedBalancesCurrent'
    <3>1. PICK f : Enter("manageUserBalance", f) /\ f.kind = "manageUserBalance"
      BY <2>1 DEF manageUserBalance
    <3>2. UNCHANGED <<poolVars, balances>>
      BY <2>1 DEF manageUserBalance
    <3> QED BY <3>1, <3>2, CallBeginsConsistent
  <2> QED BY <1>8, <2>1, UserOperationConsistent, QuietReturnConsistent DEF UserOperations
<1>9. CASE ManagerOperations
  <2>1. ASSUME NEW caller, managePoolBalance(caller)
        PROVE  RegistryConsistent' /\ SavedConsistent' /\ CachedBalancesCurrent'
    <3>1. PICK f : Enter("managePoolBalance", f) /\ f.kind = "managePoolBalance"
      BY <2>1 DEF managePoolBalance
    <3>2. UNCHANGED <<poolVars, balances>>
      BY <2>1 DEF managePoolBalance
    <3> QED BY <3>1, <3>2, CallBeginsConsistent
  <2> QED BY <1>9, <2>1, ManagerOperationConsistent, QuietReturnConsistent
          DEF ManagerOperations
<1>10. CASE Administration
  <2>1. UNCHANGED <<poolVars, balances, callVars>>
    BY <1>10 DEF Administration, setRelayerApproval, setPaused
  <2> QED BY <2>1, Bystanders
<1>11. CASE World
  <2>1. UNCHANGED <<poolVars, balances, callVars>>
    BY <1>11 DEF World, Donate, Distribute, ForceEth, AuthorizerChanges, Sign, NextBlock
  <2> QED BY <2>1, Bystanders
<1>12. CASE Revert
  BY <1>12, RevertConsistent
<1> QED BY <1>1, <1>2, <1>3, <1>4, <1>5, <1>6, <1>7, <1>8, <1>9, <1>10, <1>11, <1>12
        DEF Next

\* The constructor.
LEMMA RegistryInitial == Init => RInv
<1> SUFFICES ASSUME Init PROVE RInv
  OBVIOUS
<1>1. TypeOK
  BY Initial DEF IInv
<1>2. RegistryConsistent
  BY DEF Init, RegistryConsistent
<1>3. SavedConsistent /\ CachedBalancesCurrent
  BY DEF Init, SavedConsistent, CachedBalancesCurrent, Idle
<1> QED BY <1>1, <1>2, <1>3 DEF RInv

\* The inductive invariant, in all behaviours.
LEMMA RegistryInvariance == Spec => []RInv
BY RegistryInitial, RegistryInductive, Invariance, PTL DEF Spec

(***************************************************************************)
(* Whatever a hook does with the calls the lock leaves it, the balances    *)
(* read before it ran are the stored ones when it returns.                 *)
(***************************************************************************)
THEOREM HooksSeeCurrentBalances == Spec => []CachedBalancesCurrent
BY RegistryInvariance, PTL DEF RInv

(***************************************************************************)
(* Tokens that are not registered have no balance, no block and no Asset   *)
(* Manager, also after a call that reverts.                                *)
(***************************************************************************)
THEOREM NothingStaysBehind == Spec => []RegistryConsistent
BY RegistryInvariance, PTL DEF RInv
-----------------------------------------------------------------------------
\* Only setPaused changes what is paused, and only the next block the time.
LEMMA PauseSteps ==
  ASSUME [Next]_vars
  PROVE  UNCHANGED pauseVars \/ (\E value \in BOOLEAN : setPaused(value)) \/ NextBlock
<1>1. CASE Registry
  BY <1>1 DEF Registry, registerPool, registerTokens, deregisterTokens
<1>2. CASE JoinsAndExits
  <2>1. ASSUME NEW kind, NEW caller, NEW sender, NEW recipient, NEW p, NEW limits,
               NEW useInternalBalance, NEW useEth, NEW value,
               JoinOrExit(kind, caller, sender, recipient, p, limits, useInternalBalance,
                          useEth, value)
        PROVE  UNCHANGED pauseVars
    BY <2>1 DEF JoinOrExit
  <2>2. ASSUME NEW amounts, NEW fees,
               JoinPoolReturn(amounts, fees) \/ ExitPoolReturn(amounts, fees)
        PROVE  UNCHANGED pauseVars
    BY <2>2 DEF JoinPoolReturn, ExitPoolReturn
  <2> QED BY <1>2, <2>1, <2>2 DEF JoinsAndExits
<1>3. CASE SwapCalls \/ SwapReturns
  <2>1. ASSUME NEW caller, NEW sender, NEW recipient, NEW p, NEW kind, NEW assetIn,
               NEW assetOut, NEW amount, NEW limit, NEW fromInternal, NEW toInternal,
               NEW deadline, NEW value,
               swap(caller, sender, recipient, p, kind, assetIn, assetOut, amount,
                    limit, fromInternal, toInternal, deadline, value)
        PROVE  UNCHANGED pauseVars
    BY <2>1 DEF swap
  <2>2. ASSUME NEW caller, NEW sender, NEW recipient, NEW kind, NEW limits,
               NEW fromInternal, NEW toInternal, NEW deadline, NEW value,
               batchSwap(caller, sender, recipient, kind, limits, fromInternal,
                         toInternal, deadline, value)
        PROVE  UNCHANGED pauseVars
    BY <2>2 DEF batchSwap
  <2>3. ASSUME NEW p, NEW assetIn, NEW assetOut, NEW amount,
               BatchSwapStep(p, assetIn, assetOut, amount)
        PROVE  UNCHANGED pauseVars
    BY <2>3 DEF BatchSwapStep
  <2>4. ASSUME NEW calculated, SwapReturn(calculated) \/ BatchSwapStepReturn(calculated)
        PROVE  UNCHANGED pauseVars
    BY <2>4 DEF SwapReturn, BatchSwapStepReturn
  <2>5. BatchSwapReturn => UNCHANGED pauseVars
    BY DEF BatchSwapReturn
  <2> QED BY <1>3, <2>1, <2>2, <2>3, <2>4, <2>5 DEF SwapCalls, SwapReturns
<1>4. CASE Loans \/ Collector
  BY <1>4 DEF Loans, flashLoan, FlashLoanReturn, Collector, withdrawCollectedFees,
     setFlashLoanFeePercentage, setFlashLoanFeeDiscount
<1>5. CASE UserOperations
  <2>1. ASSUME NEW kind, NEW asset, NEW amount, NEW sender, NEW recipient,
               UserBalanceOp(kind, asset, amount, sender, recipient)
        PROVE  UNCHANGED pauseVars
    BY <2>1 DEF UserBalanceOp
  <2> QED BY <1>5, <2>1 DEF UserOperations, manageUserBalance, ManageUserBalanceReturn
<1>6. CASE ManagerOperations
  BY <1>6 DEF ManagerOperations, managePoolBalance, PoolBalanceOp, ManagePoolBalanceReturn
<1>7. CASE Administration
  BY <1>7 DEF Administration, setRelayerApproval
<1>8. CASE World
  BY <1>8 DEF World, Donate, Distribute, ForceEth, AuthorizerChanges, Sign
<1>9. CASE Revert \/ UNCHANGED vars
  BY <1>9 DEF Revert, vars
<1> QED BY <1>1, <1>2, <1>3, <1>4, <1>5, <1>6, <1>7, <1>8, <1>9 DEF Next

(***************************************************************************)
(* Once the Pause Window is over no pause begins, and so one that is ended *)
(* or has expired was the last: nobody can hold the Vault paused for good. *)
(***************************************************************************)
THEOREM NoPauseAfterTheWindow == Spec => NotRenewed
<1>1. IInv /\ [Next]_vars => [StaysUnpaused]_vars
  <2> SUFFICES ASSUME IInv, [Next]_vars, NotPaused, clock >= PauseWindowEnd
               PROVE  NotPaused'
    BY DEF StaysUnpaused
  <2>1. /\ clock \in Nat /\ paused \in BOOLEAN
        /\ PauseWindowEnd \in Nat /\ BufferPeriodEnd \in Nat
    BY VaultAssumption DEF IInv, TypeOK, PauseTyped
  <2>2. CASE UNCHANGED pauseVars
    BY <2>2 DEF NotPaused, pauseVars
  <2>3. ASSUME NEW value \in BOOLEAN, setPaused(value) PROVE NotPaused'
    <3>1. mayStillSet(value) /\ paused' = value
      BY <2>3 DEF setPaused
    <3>2. value = FALSE
      BY <2>1, <3>1 DEF mayStillSet
    <3> QED BY <3>1, <3>2 DEF NotPaused
  <2>4. CASE NextBlock
    BY <2>1, <2>4 DEF NextBlock, NotPaused
  <2> QED BY <2>2, <2>3, <2>4, PauseSteps
<1> QED BY <1>1, Invariance, PTL DEF Spec, NotRenewed
=============================================================================
