------------------------------- MODULE PoolTokens -------------------------------
(***************************************************************************)
(* PoolRegistry.registerPool and PoolTokens: which Pools exist, which      *)
(* tokens each has and who manages them.  The calls are made by the Pools' *)
(* contracts (onlyPool) and none of them hands over control.  The tokens   *)
(* of a call are a set: PoolStorage has the lists, and what becomes of one *)
(* that names a Two Token Pool's token twice.                              *)
(***************************************************************************)
EXTENDS VaultStorage

registerPool(p) ==
  /\ MayCall("registerPool")
  /\ NotPaused
  /\ p \notin registeredPools
  /\ registeredPools' = registeredPools \union {p}
  /\ UNCHANGED <<poolTokens, assetManager, balances, internal, accessVars,
                 pauseVars, feeVars, tokenVars, ethVars, ghostVars, callVars>>

\* The three layouts agree on what may be registered, but for a Two Token Pool:
\* that one takes its two tokens together, once.
MayRegister(p, ts) ==
  /\ ts \intersect poolTokens[p] = {}
  /\ Specialization[p] = "TWO_TOKEN" =>
       Cardinality(ts) = 2 /\ poolTokens[p] = {}

registerTokens(p, ts, manager) ==
  /\ MayCall("registerTokens")
  /\ NotPaused
  /\ p \in registeredPools
  /\ MayRegister(p, ts)
  /\ poolTokens' = [poolTokens EXCEPT ![p] = @ \union ts]
  /\ assetManager' = [assetManager EXCEPT ![p] =
       [t \in Tokens |-> IF t \in ts THEN manager[t] ELSE @[t]]]
  /\ UNCHANGED <<registeredPools, balances, internal, accessVars, pauseVars,
                 feeVars, tokenVars, ethVars, ghostVars, callVars>>

\* Only tokens without a balance, in the Vault or with a manager, may leave.
MayDeregister(p, ts) ==
  /\ ts \subseteq poolTokens[p]
  /\ \A t \in ts : isZero(balances[p][t])
  /\ Specialization[p] = "TWO_TOKEN" => Cardinality(ts) = 2

\* Their managers go as well.
managersWithout_Kept(p, ts) == assetManager[p]
managersWithout(p, ts) ==
  [t \in Tokens |-> IF t \in ts THEN NoManager ELSE assetManager[p][t]]

\* The balance is deleted too, for the block it may still hold.
deregisterTokens(p, ts) ==
  /\ MayCall("deregisterTokens")
  /\ NotPaused
  /\ p \in registeredPools
  /\ MayDeregister(p, ts)
  /\ poolTokens' = [poolTokens EXCEPT ![p] = @ \ ts]
  /\ balances' = [balances EXCEPT ![p] =
       [t \in Tokens |-> IF t \in ts THEN EmptyBalance ELSE @[t]]]
  /\ assetManager' = [assetManager EXCEPT ![p] = managersWithout(p, ts)]
  /\ UNCHANGED <<registeredPools, internal, accessVars, pauseVars, feeVars,
                 tokenVars, ethVars, ghostVars, callVars>>

\* _getPoolTokens: what a Pool holds of each of its tokens.
PoolBalancesOf(p) == [t \in poolTokens[p] |-> balances[p][t]]

\* The balances once Pool p's tokens in the domain of `changed' have new ones.
StoreBalances(p, changed) ==
  balances' = [balances EXCEPT ![p] =
    [t \in Tokens |-> IF t \in DOMAIN changed THEN changed[t] ELSE @[t]]]
=============================================================================
