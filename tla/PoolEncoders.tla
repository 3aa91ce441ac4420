------------------------------ MODULE PoolEncoders ------------------------------
(***************************************************************************)
(* The data of joins and exits, as the encoders write it and as the Pools  *)
(* read it.  Encoded data is a kind, which is a number, and what follows:  *)
(* a list of amounts, the index of a token, or neither.  Amounts of BPT    *)
(* and limits are left out.                                                *)
(***************************************************************************)
EXTENDS Integers, Sequences

Encoded(kind, amounts, index) == [kind |-> kind, amounts |-> amounts, index |-> index]
NoAmounts == <<>>
NoIndex == -2

\* An index that was not found is negative, which an unsigned integer does not encode.
Encodes(data) == data.index # -1

-----------------------------------------------------------------------------
\* The kinds, as numbered off chain.
WeightedPoolJoinKind ==
  [INIT |-> 0, EXACT_TOKENS_IN_FOR_BPT_OUT |-> 1, TOKEN_IN_FOR_EXACT_BPT_OUT |-> 2,
   ALL_TOKENS_IN_FOR_EXACT_BPT_OUT |-> 3, ADD_TOKEN |-> 4]
WeightedPoolExitKind ==
  [EXACT_BPT_IN_FOR_ONE_TOKEN_OUT |-> 0, EXACT_BPT_IN_FOR_TOKENS_OUT |-> 1,
   BPT_IN_FOR_EXACT_TOKENS_OUT |-> 2, REMOVE_TOKEN |-> 3]
StablePoolJoinKind ==
  [INIT |-> 0, EXACT_TOKENS_IN_FOR_BPT_OUT |-> 1, TOKEN_IN_FOR_EXACT_BPT_OUT |-> 2]
StablePoolExitKind ==
  [EXACT_BPT_IN_FOR_ONE_TOKEN_OUT |-> 0, BPT_IN_FOR_EXACT_TOKENS_OUT |-> 1]
RECOVERY_MODE_EXIT_KIND == 255

WeightedPoolEncoder ==
  [joinInit |-> WeightedPoolJoinKind.INIT,
   joinExactTokensInForBPTOut |-> WeightedPoolJoinKind.EXACT_TOKENS_IN_FOR_BPT_OUT,
   joinTokenInForExactBPTOut |-> WeightedPoolJoinKind.TOKEN_IN_FOR_EXACT_BPT_OUT,
   joinAllTokensInForExactBPTOut |-> WeightedPoolJoinKind.ALL_TOKENS_IN_FOR_EXACT_BPT_OUT,
   exitExactBPTInForOneTokenOut |-> WeightedPoolExitKind.EXACT_BPT_IN_FOR_ONE_TOKEN_OUT,
   exitExactBPTInForTokensOut |-> WeightedPoolExitKind.EXACT_BPT_IN_FOR_TOKENS_OUT,
   exitBPTInForExactTokensOut |-> WeightedPoolExitKind.BPT_IN_FOR_EXACT_TOKENS_OUT,
   recoveryModeExit |-> RECOVERY_MODE_EXIT_KIND]
StablePoolEncoder ==
  [joinInit |-> StablePoolJoinKind.INIT,
   joinExactTokensInForBPTOut |-> StablePoolJoinKind.EXACT_TOKENS_IN_FOR_BPT_OUT,
   joinTokenInForExactBPTOut |-> StablePoolJoinKind.TOKEN_IN_FOR_EXACT_BPT_OUT,
   exitExactBPTInForOneTokenOut |-> StablePoolExitKind.EXACT_BPT_IN_FOR_ONE_TOKEN_OUT,
   exitBPTInForExactTokensOut |-> StablePoolExitKind.BPT_IN_FOR_EXACT_TOKENS_OUT,
   recoveryModeExit |-> RECOVERY_MODE_EXIT_KIND]

-----------------------------------------------------------------------------
\* What a Pool of each family does for the kinds, in the order of its own enums.
WeightedPoolJoins ==
  <<"initialize", "exactTokensIn", "tokenIn", "allTokensIn", "addToken">>
WeightedPoolExits == <<"oneTokenOut", "allTokensOut", "exactTokensOut", "removeToken">>
StablePoolJoins == <<"initialize", "exactTokensIn", "tokenIn">>
StablePoolExits == <<"oneTokenOut", "exactTokensOut">>
KindsOf(family, side) ==
  CASE family = "weighted" /\ side = "join" -> WeightedPoolJoins
    [] family = "weighted" /\ side = "exit" -> WeightedPoolExits
    [] family = "stable" /\ side = "join" -> StablePoolJoins
    [] family = "stable" /\ side = "exit" -> StablePoolExits
Decoded(family, side, kind) ==
  IF side = "exit" /\ kind = RECOVERY_MODE_EXIT_KIND THEN "recovery"
  ELSE IF kind < Len(KindsOf(family, side)) THEN KindsOf(family, side)[kind + 1] ELSE "unknown"

\* Initial amounts are for all tokens on register, the BPT of a stable Pool included;
\* later amounts and indices are for those besides the BPT.
Accepts(family, side, data, registered, count) ==
  LET does == Decoded(family, side, data.kind)
  IN  \/ does = "initialize" /\ Len(data.amounts) = registered
      \/ does \in {"exactTokensIn", "exactTokensOut"} /\ Len(data.amounts) = count
      \/ does \in {"tokenIn", "oneTokenOut"} /\ data.index < count
      \/ does \in {"allTokensIn", "allTokensOut", "recovery"}

=============================================================================
