-------------------------- MODULE TwoTokenPoolsBalance --------------------------
(***************************************************************************)
(* The layout of a Two Token Pool: its two tokens, in the order of their   *)
(* addresses, and a mapping from pairs of tokens to their balances.  Cash  *)
(* of both tokens is one word, with the one block they share; managed      *)
(* amounts are another.  A word is a record here: what toBalance lets      *)
(* through fits its fields.  The pair's hash is the pair.                  *)
(***************************************************************************)
EXTENDS BalanceAllocation

CONSTANT NoToken   \* the zero address

VARIABLES
  tokenPair,      \* tokenA and tokenB of _twoTokenPoolTokens of the Pool
  pairBalances    \* its mapping `balances'

NoPair == <<NoToken, NoToken>>
NoCash == [a |-> 0, b |-> 0, block |-> 0]
NoManaged == [a |-> 0, b |-> 0]

isNotZero(shared) == shared.a # 0 \/ shared.b # 0

\* BalanceAllocation's conversions between words of tokens and shared words.
toSharedCash(balanceA, balanceB) ==
  [a |-> balanceA.cash, b |-> balanceB.cash,
   block |-> IF balanceA.lastChangeBlock > balanceB.lastChangeBlock
               THEN balanceA.lastChangeBlock ELSE balanceB.lastChangeBlock]
toSharedManaged(balanceA, balanceB) ==
  [a |-> balanceA.managed, b |-> balanceB.managed]
fromSharedToBalanceA(cash, managed) == toBalance(cash.a, managed.a, cash.block)
fromSharedToBalanceB(cash, managed) == toBalance(cash.b, managed.b, cash.block)

BalanceA(pair) ==
  fromSharedToBalanceA(pairBalances[pair].sharedCash, pairBalances[pair].sharedManaged)
BalanceB(pair) ==
  fromSharedToBalanceB(pairBalances[pair].sharedCash, pairBalances[pair].sharedManaged)

sortTwoTokens_AsGiven(tokenX, tokenY) == <<tokenX, tokenY>>
sortTwoTokens(tokenX, tokenY) ==
  IF tokenX < tokenY THEN <<tokenX, tokenY>> ELSE <<tokenY, tokenX>>

isTwoTokenPoolTokenRegistered(token) ==
  token \in {tokenPair[1], tokenPair[2]} /\ token # NoToken

\* _getTwoTokenPoolSharedBalances reverts otherwise.  A balance is taken to show
\* that its tokens are registered.
hasTwoTokenPoolSharedBalances(pair) ==
  \/ isNotZero(pairBalances[pair].sharedCash)
  \/ isNotZero(pairBalances[pair].sharedManaged)
  \/ isTwoTokenPoolTokenRegistered(pair[1]) /\ isTwoTokenPoolTokenRegistered(pair[2])

registerTwoTokenPoolTokens(tokenX, tokenY) ==
  /\ tokenX < tokenY
  /\ tokenPair = NoPair
  /\ tokenPair' = <<tokenX, tokenY>>
  /\ UNCHANGED pairBalances

\* The managed word needs no reset: it is zero.
deregisterTwoTokenPoolTokens_KeepsBlock(tokenX, tokenY) ==
  LET pair == sortTwoTokens(tokenX, tokenY)
  IN /\ hasTwoTokenPoolSharedBalances(pair)
     /\ isZero(BalanceA(pair)) /\ isZero(BalanceB(pair))
     /\ tokenPair' = NoPair
     /\ UNCHANGED pairBalances
deregisterTwoTokenPoolTokens(tokenX, tokenY) ==
  LET pair == sortTwoTokens(tokenX, tokenY)
  IN /\ hasTwoTokenPoolSharedBalances(pair)
     /\ isZero(BalanceA(pair)) /\ isZero(BalanceB(pair))
     /\ tokenPair' = NoPair
     /\ pairBalances' = [pairBalances EXCEPT ![pair].sharedCash = NoCash]

\* After a join or an exit: the managed word stays.
setTwoTokenPoolCashBalances(tokenA, balanceA, tokenB, balanceB) ==
  /\ pairBalances' = [pairBalances EXCEPT
       ![<<tokenA, tokenB>>].sharedCash = toSharedCash(balanceA, balanceB)]
  /\ UNCHANGED tokenPair

\* Asset Managers, in block n.
updateTwoTokenPoolSharedBalance(token, mutation, amount, n) ==
  LET isA  == token = tokenPair[1]
      newA == IF isA THEN mutate(mutation, BalanceA(tokenPair), amount, n)
                     ELSE BalanceA(tokenPair)
      newB == IF isA THEN BalanceB(tokenPair)
                     ELSE mutate(mutation, BalanceB(tokenPair), amount, n)
  IN /\ Fits(newA) /\ Fits(newB)
     /\ pairBalances' = [pairBalances EXCEPT
          ![tokenPair] = [sharedCash    |-> toSharedCash(newA, newB),
                          sharedManaged |-> toSharedManaged(newA, newB)]]
     /\ UNCHANGED tokenPair

getTwoTokenPoolTokens ==
  IF tokenPair = NoPair THEN <<>>
  ELSE <<[token |-> tokenPair[1], balance |-> BalanceA(tokenPair)],
         [token |-> tokenPair[2], balance |-> BalanceB(tokenPair)]>>
-----------------------------------------------------------------------------
\* _processTwoTokenPoolSwapRequest, before the hook and after it.
twoTokenPoolSwapReads(tokenIn, tokenOut) ==
  LET pair == sortTwoTokens(tokenIn, tokenOut)
  IN IF tokenIn < tokenOut
       THEN [in |-> BalanceA(pair), out |-> BalanceB(pair)]
       ELSE [in |-> BalanceB(pair), out |-> BalanceA(pair)]

mayTwoTokenPoolSwap(tokenIn, tokenOut) ==
  hasTwoTokenPoolSharedBalances(sortTwoTokens(tokenIn, tokenOut))

writeTwoTokenPoolSwap(tokenIn, tokenOut, newIn, newOut) ==
  /\ pairBalances' = [pairBalances EXCEPT
       ![sortTwoTokens(tokenIn, tokenOut)].sharedCash =
         IF tokenIn < tokenOut THEN toSharedCash(newIn, newOut)
                               ELSE toSharedCash(newOut, newIn)]
  /\ UNCHANGED tokenPair
=============================================================================
