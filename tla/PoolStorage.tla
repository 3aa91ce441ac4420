------------------------------ MODULE PoolStorage ------------------------------
(***************************************************************************)
(* How the Vault stores one Pool: each operation goes to the layout of the *)
(* Pool's specialization, a part of its id.  Joins, exits and swaps read   *)
(* the balances, call the Pool's hook and write by what they read, which   *)
(* for a General Pool are positions in a list: `pending' has what a call   *)
(* read while its hook runs and ReentrancyGuard keeps the others out.      *)
(* Implements says that the three layouts are the ledger of PoolLedger.    *)
(***************************************************************************)
EXTENDS GeneralPoolsBalance, MinimalSwapInfoPoolsBalance, TwoTokenPoolsBalance,
        FiniteSets

CONSTANTS
  Tokens,           \* addresses: numbers other than NoToken
  Specializations,  \* those a run explores
  \* The inputs of a run, and its bounds.
  Lists,            \* by specialization, lists of tokens to register or remove
  Amounts,
  MaxBlock

ASSUME TokensAssumption == Tokens \subseteq Nat \ {0} /\ NoToken = 0

ASSUME InputsAssumption ==
  /\ Specializations \subseteq {"GENERAL", "MINIMAL_SWAP_INFO", "TWO_TOKEN"}
  /\ \A s \in Specializations : \A tokens \in Lists[s] : tokens \in Seq(Tokens)
  /\ Amounts \subseteq Nat

VARIABLES
  specialization,   \* _getPoolSpecialization of the Pool's id
  block,            \* block.number
  pending           \* the call whose hook runs, with its local variables

layoutVars == <<generalPoolBalances, minimalPoolTokens, minimalPoolBalances,
                tokenPair, pairBalances>>
storageVars == <<layoutVars, specialization, block, pending>>

NoCall == [kind |-> "none"]

OnlyGeneral == UNCHANGED <<minimalPoolTokens, minimalPoolBalances, tokenPair, pairBalances>>
OnlyMinimal == UNCHANGED <<generalPoolBalances, tokenPair, pairBalances>>
OnlyTwoToken == UNCHANGED <<generalPoolBalances, minimalPoolTokens, minimalPoolBalances>>

StorageInit ==
  /\ specialization \in Specializations
  /\ block = 0
  /\ pending = NoCall
  /\ generalPoolBalances = Map!EmptyMap(Tokens)
  /\ minimalPoolTokens = TokenSet!EmptySet(Tokens)
  /\ minimalPoolBalances = [t \in Tokens |-> EmptyBalance]
  /\ tokenPair = NoPair
  /\ pairBalances = [pair \in (Tokens \union {NoToken}) \X (Tokens \union {NoToken}) |->
                       [sharedCash |-> NoCash, sharedManaged |-> NoManaged]]

\* nonReentrant: every entry point below has it.
nonReentrant_Dropped == TRUE
nonReentrant == pending = NoCall
-----------------------------------------------------------------------------
registerTokens(tokens) ==
  /\ nonReentrant
  /\ CASE specialization = "TWO_TOKEN" ->
            /\ Len(tokens) = 2
            /\ registerTwoTokenPoolTokens(tokens[1], tokens[2])
            /\ OnlyTwoToken
       [] specialization = "MINIMAL_SWAP_INFO" ->
            registerMinimalSwapInfoPoolTokens(tokens) /\ OnlyMinimal
       [] specialization = "GENERAL" ->
            registerGeneralPoolTokens(tokens) /\ OnlyGeneral
  /\ UNCHANGED <<specialization, block, pending>>

deregisterTokens(tokens) ==
  /\ nonReentrant
  /\ CASE specialization = "TWO_TOKEN" ->
            /\ Len(tokens) = 2
            /\ deregisterTwoTokenPoolTokens(tokens[1], tokens[2])
            /\ OnlyTwoToken
       [] specialization = "MINIMAL_SWAP_INFO" ->
            deregisterMinimalSwapInfoPoolTokens(tokens) /\ OnlyMinimal
       [] specialization = "GENERAL" ->
            deregisterGeneralPoolTokens(tokens) /\ OnlyGeneral
  /\ UNCHANGED <<specialization, block, pending>>

\* _getPoolTokens: the tokens and their balances, in the order of the layout.
getPoolTokens ==
  CASE specialization = "TWO_TOKEN"         -> getTwoTokenPoolTokens
    [] specialization = "MINIMAL_SWAP_INFO" -> getMinimalSwapInfoPoolTokens
    [] specialization = "GENERAL"           -> getGeneralPoolTokens

\* _joinOrExit up to the hook: _validateTokensAndGetBalances.
joinOrExit ==
  /\ nonReentrant
  /\ getPoolTokens # <<>>
  /\ pending' = [kind |-> "joinOrExit", read |-> getPoolTokens]
  /\ UNCHANGED <<layoutVars, specialization, block>>

\* From the hook on: change[i] is what token i gains in cash, less fees.
JoinOrExitReturn(change) ==
  LET tokens == [i \in DOMAIN pending.read |-> pending.read[i].token]
      final  == [i \in DOMAIN pending.read |->
                   increaseCash(pending.read[i].balance, change[i], block)]
  IN /\ \A i \in DOMAIN final : Fits(final[i])
     /\ CASE specialization = "TWO_TOKEN" ->
               /\ setTwoTokenPoolCashBalances(tokens[1], final[1], tokens[2], final[2])
               /\ OnlyTwoToken
          [] specialization = "MINIMAL_SWAP_INFO" ->
               setMinimalSwapInfoPoolBalances(tokens, final) /\ OnlyMinimal
          [] specialization = "GENERAL" ->
               setGeneralPoolBalances(final) /\ OnlyGeneral
     /\ pending' = NoCall
     /\ UNCHANGED <<specialization, block>>
-----------------------------------------------------------------------------
\* _swapWithPool: may it swap these two tokens, and which balances does it read?
maySwap(tokenIn, tokenOut) ==
  CASE specialization = "TWO_TOKEN"         -> mayTwoTokenPoolSwap(tokenIn, tokenOut)
    [] specialization = "MINIMAL_SWAP_INFO" -> mayMinimalPoolSwap(tokenIn, tokenOut)
    [] specialization = "GENERAL"           -> mayGeneralPoolSwap(tokenIn, tokenOut)

swapReads(tokenIn, tokenOut) ==
  CASE specialization = "TWO_TOKEN"         -> twoTokenPoolSwapReads(tokenIn, tokenOut)
    [] specialization = "MINIMAL_SWAP_INFO" -> minimalPoolSwapReads(tokenIn, tokenOut)
    [] specialization = "GENERAL"           -> generalPoolSwapReads(tokenIn, tokenOut)

\* Those who call _swapWithPool check that the two tokens differ.
swap(tokenIn, tokenOut) ==
  /\ nonReentrant
  /\ tokenIn # tokenOut
  /\ maySwap(tokenIn, tokenOut)
  /\ pending' = [kind |-> "swap", tokenIn |-> tokenIn, tokenOut |-> tokenOut,
                 read |-> swapReads(tokenIn, tokenOut)]
  /\ UNCHANGED <<layoutVars, specialization, block>>

SwapReturn(amountIn, amountOut) ==
  LET newIn  == increaseCash(pending.read.in, amountIn, block)
      newOut == decreaseCash(pending.read.out, amountOut, block)
  IN /\ Fits(newIn) /\ Fits(newOut)
     /\ CASE specialization = "TWO_TOKEN" ->
               /\ writeTwoTokenPoolSwap(pending.tokenIn, pending.tokenOut, newIn, newOut)
               /\ OnlyTwoToken
          [] specialization = "MINIMAL_SWAP_INFO" ->
               /\ writeMinimalPoolSwap(pending.tokenIn, pending.tokenOut, newIn, newOut)
               /\ OnlyMinimal
          [] specialization = "GENERAL" ->
               writeGeneralPoolSwap(pending.read, newIn, newOut) /\ OnlyGeneral
     /\ pending' = NoCall
     /\ UNCHANGED <<specialization, block>>

\* The hook, or what follows it, reverts.
Revert ==
  /\ pending # NoCall
  /\ pending' = NoCall
  /\ UNCHANGED <<layoutVars, specialization, block>>
-----------------------------------------------------------------------------
\* _isTokenRegistered
isTokenRegistered(token) ==
  CASE specialization = "TWO_TOKEN"         -> isTwoTokenPoolTokenRegistered(token)
    [] specialization = "MINIMAL_SWAP_INFO" -> TokenSet!contains(minimalPoolTokens, token)
    [] specialization = "GENERAL"           -> Map!contains(generalPoolBalances, token)

\* An operation of managePoolBalance, on this Pool's balance of a token.
managePoolBalance(token, mutation, amount) ==
  /\ nonReentrant
  /\ isTokenRegistered(token)
  /\ CASE specialization = "TWO_TOKEN" ->
            /\ updateTwoTokenPoolSharedBalance(token, mutation, amount, block)
            /\ OnlyTwoToken
       [] specialization = "MINIMAL_SWAP_INFO" ->
            /\ updateMinimalSwapInfoPoolBalance(token, mutation, amount, block)
            /\ OnlyMinimal
       [] specialization = "GENERAL" ->
            updateGeneralPoolBalance(token, mutation, amount, block) /\ OnlyGeneral
  /\ UNCHANGED <<specialization, block, pending>>

withdrawPoolBalance(token, amount)  == managePoolBalance(token, "cashToManaged", amount)
depositPoolBalance(token, amount)   == managePoolBalance(token, "managedToCash", amount)
updateManagedBalance(token, amount) == managePoolBalance(token, "setManaged", amount)

\* Blocks pass between calls.
NextBlock ==
  /\ pending = NoCall
  /\ block < MaxBlock
  /\ block' = block + 1
  /\ UNCHANGED <<layoutVars, specialization, pending>>

Signed == Amounts \union {-a : a \in Amounts}

StorageNext ==
  \/ \E tokens \in Lists[specialization] : registerTokens(tokens)
  \/ \E tokens \in Lists[specialization] : deregisterTokens(tokens)
  \/ joinOrExit
  \/ /\ pending.kind = "joinOrExit"
     /\ \E change \in [DOMAIN pending.read -> Signed] : JoinOrExitReturn(change)
  \/ \E tokenIn, tokenOut \in Tokens : swap(tokenIn, tokenOut)
  \/ /\ pending.kind = "swap"
     /\ \E amountIn, amountOut \in Amounts : SwapReturn(amountIn, amountOut)
  \/ Revert
  \/ \E token \in Tokens, amount \in Amounts : withdrawPoolBalance(token, amount)
  \/ \E token \in Tokens, amount \in Amounts : depositPoolBalance(token, amount)
  \/ \E token \in Tokens, amount \in Amounts : updateManagedBalance(token, amount)
  \/ NextBlock

StorageSpec == StorageInit /\ [][StorageNext]_storageVars
-----------------------------------------------------------------------------
Words == [sharedCash:    [a: 0..(TotalCap - 1), b: 0..(TotalCap - 1), block: Nat],
          sharedManaged: [a: 0..(TotalCap - 1), b: 0..(TotalCap - 1)]]

Calls ==
  {NoCall}
  \union [kind: {"joinOrExit"}, read: Seq([token: Tokens, balance: Balance])]
  \union [kind: {"swap"}, tokenIn: Tokens, tokenOut: Tokens,
          read: [in: Balance, out: Balance]
                \union [indexIn: Nat, indexOut: Nat, in: Balance, out: Balance]]

\* Types.  What is stored and what a call has read are balances, which fit their
\* fields, whatever the hook answered (BalanceAllocation's toBalance).
StorageTypeOK ==
  /\ specialization \in Specializations
  /\ block \in Nat
  /\ pending \in Calls
  /\ generalPoolBalances \in
       [entries: Seq([key: Tokens, value: Balance]), indexes: [Tokens -> Nat]]
  /\ minimalPoolTokens \in [values: Seq(Tokens), indexes: [Tokens -> Nat]]
  /\ minimalPoolBalances \in [Tokens -> Balance]
  /\ tokenPair \in {NoPair} \union (Tokens \X Tokens)
  /\ pairBalances \in
       [(Tokens \union {NoToken}) \X (Tokens \union {NoToken}) -> Words]

\* The ledger a layout stands for: the balances it lists.
TokensListed == {getPoolTokens[i].token : i \in DOMAIN getPoolTokens}
LedgerOf ==
  [t \in TokensListed |->
     getPoolTokens[CHOOSE i \in DOMAIN getPoolTokens : getPoolTokens[i].token = t].balance]

Ledger == INSTANCE PoolLedger WITH
  twoTokens <- specialization = "TWO_TOKEN",
  ledger    <- LedgerOf

\* Every layout does what the ledger does, no more: no balance is written to
\* another token's entry, none survives its token's removal, and the lists, the
\* words two tokens share and the block in them mean what their users take them
\* to mean (GeneralPoolsBalance, MinimalSwapInfoPoolsBalance, TwoTokenPoolsBalance).
ImplementsLedger == Ledger!LedgerSpec

\* Index mappings and arrays agree after any sequence of additions and removals
\* by swap-and-pop (EnumerableMap, EnumerableSet).
CollectionsConsistent ==
  /\ Map!Consistent(generalPoolBalances)
  /\ TokenSet!Consistent(minimalPoolTokens)

\* What a call has read when its hook answers is what is stored then: indices,
\* lists of tokens and balances, by which it writes (nonReentrant).
ReadsCurrent ==
  /\ pending.kind = "joinOrExit" => pending.read = getPoolTokens /\ pending.read # <<>>
  /\ pending.kind = "swap" =>
       /\ pending.tokenIn # pending.tokenOut
       /\ maySwap(pending.tokenIn, pending.tokenOut)
       /\ pending.read = swapReads(pending.tokenIn, pending.tokenOut)

\* A swap reads its two balances without a look at the list of tokens, and takes
\* a balance or an index to show that its token is registered.  It may go on
\* exactly if both tokens are, and what it reads are their balances.
SwapsReadTheLedger ==
  \A tokenIn, tokenOut \in Tokens :
    tokenIn # tokenOut =>
      /\ maySwap(tokenIn, tokenOut) <=> {tokenIn, tokenOut} \subseteq DOMAIN LedgerOf
      /\ maySwap(tokenIn, tokenOut) =>
           /\ swapReads(tokenIn, tokenOut).in = LedgerOf[tokenIn]
           /\ swapReads(tokenIn, tokenOut).out = LedgerOf[tokenOut]

\* TwoTokenPoolsBalance.sol: "A non-zero balance guarantees that both tokens are
\* registered", on which _getTwoTokenPoolSharedBalances relies.
NonZeroIsRegistered ==
  \A pair \in DOMAIN pairBalances :
    isNotZero(pairBalances[pair].sharedCash) \/ isNotZero(pairBalances[pair].sharedManaged)
      => isTwoTokenPoolTokenRegistered(pair[1]) /\ isTwoTokenPoolTokenRegistered(pair[2])
=============================================================================
