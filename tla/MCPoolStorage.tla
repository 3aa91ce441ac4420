----------------------------- MODULE MCPoolStorage -----------------------------
(***************************************************************************)
(* PoolStorage with small addresses, and the lists of tokens that callers  *)
(* give: any one or two, in any order.                                     *)
(***************************************************************************)
EXTENDS PoolStorage

AnyList == {<<t>> : t \in Tokens} \union (Tokens \X Tokens)

Anything == [s \in Specializations |-> AnyList]

\* Two Token Pools that name a token twice are left to a run of their own.
NoRepeatsInPairs ==
  [s \in Specializations |->
     IF s = "TWO_TOKEN" THEN {tokens \in AnyList : Len(tokens) = 2 => tokens[1] # tokens[2]}
     ELSE AnyList]
=============================================================================
