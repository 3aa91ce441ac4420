------------------------------- MODULE Signatures -------------------------------
(***************************************************************************)
(* Signatures that let somebody else call for their author: made off chain,*)
(* sent with a call, and validated by the Vault, by the Balancer Minter or *)
(* by a token.  Typed data is a record, the digest of which only its own   *)
(* signature recovers to.                                                  *)
(***************************************************************************)
EXTENDS Integers, FiniteSets

CONSTANTS Signers,         \* users, each of whom has an account
          Callers,         \* accounts that send what others signed
          Calls,           \* of the Vault
          EntryPoint,      \* of each of the calls
          Deadlines,       \* that signatures are given; MAX_DEADLINE is among them
          MaxSignatures, MaxTime  \* bounds

VARIABLES nextNonce,   \* of each validating contract, for each account
          signatures,  \* that were made: the typed data, and whether its nonce was asked for
          executed,    \* the last call that was validated, with its signature
          time         \* block.timestamp

signatureVars == <<nextNonce, signatures, executed, time>>

Validators == {"Vault", "Minter", "Token"}
NoExecution == [by |-> {}, user |-> "nobody", about |-> <<>>]

\* The entry points that have a type, by the name of which their calls are signed.
RelayerAction == {"JoinPool", "ExitPool", "Swap", "BatchSwap", "SetRelayerApproval"}
entrypointTypeHash(call) == IF EntryPoint[call] \in RelayerAction THEN EntryPoint[call] ELSE "none"

-----------------------------------------------------------------------------
TypedData(validator, type, user, about, nonce, deadline) ==
  [validator |-> validator, type |-> type, user |-> user, about |-> about,
   nonce |-> nonce, deadline |-> deadline]

\* A nonce that is not given, or given as 0, is asked for.
asked(nonce) == nonce = 0

\* Mutant: whatever the contract, the nonce is the Vault's.
nonceFor_OfTheVault(validator, user, nonce) ==
  IF asked(nonce) THEN nextNonce["Vault"][user] ELSE nonce
nonceFor(validator, user, nonce) == IF asked(nonce) THEN nextNonce[validator][user] ELSE nonce
Made(data, nonce) ==
  /\ Cardinality(signatures) < MaxSignatures
  /\ signatures' = signatures \cup {[data |-> data, asked |-> asked(nonce)]}
  /\ UNCHANGED <<nextNonce, executed, time>>

signAuthorizationFor(type, user, allowedSender, allowedCall, deadline, nonce) ==
  Made(TypedData("Vault", type, user, <<allowedSender, allowedCall>>,
                 nonceFor("Vault", user, nonce), deadline), nonce)
signSetMinterApproval(user, minter, approval, deadline, nonce) ==
  Made(TypedData("Minter", "SetMinterApproval", user, <<minter, approval>>,
                 nonceFor("Minter", user, nonce), deadline), nonce)
signPermit(owner, spender, amount, deadline, nonce) ==
  Made(TypedData("Token", "Permit", owner, <<spender, amount>>,
                 nonceFor("Token", owner, nonce), deadline), nonce)

-----------------------------------------------------------------------------
\* The account is that of the author of the data that the contract makes of the call.
isValidSignature_AnySender(data, signature) ==
  data = [signature.data EXCEPT !.about[1] = data.about[1]]
isValidSignature(data, signature) == data = signature.data
ensureValidSignature(data, signature) ==
  /\ isValidSignature(data, signature)
  /\ data.deadline >= time
  /\ nextNonce' = [nextNonce EXCEPT ![data.validator][data.user] = @ + 1]
Executed(user, about, signature) ==
  /\ executed' = [by |-> {signature}, user |-> user, about |-> about]
  /\ UNCHANGED <<signatures, time>>

\* A deadline and the signature are appended to the calldata, of which the Vault takes
\* off as much.
encodeCalldataAuthorization(call, deadline, signature) ==
  [call |-> call, extra |-> <<deadline, signature>>]
validateExtraCalldataSignature(msg, sender, user) ==
  /\ entrypointTypeHash(msg.call) # "none"
  /\ ensureValidSignature(
       TypedData("Vault", entrypointTypeHash(msg.call), user, <<sender, msg.call>>,
                 nextNonce["Vault"][user], msg.extra[1]), msg.extra[2])
callVault(sender, user, call, deadline, signature) ==
  /\ validateExtraCalldataSignature(encodeCalldataAuthorization(call, deadline, signature), sender, user)
  /\ Executed(user, <<sender, call>>, signature)
setMinterApprovalWithSignature(minter, approval, user, deadline, signature) ==
  /\ ensureValidSignature(
       TypedData("Minter", "SetMinterApproval", user, <<minter, approval>>,
                 nextNonce["Minter"][user], deadline), signature)
  /\ Executed(user, <<minter, approval>>, signature)
permit(owner, spender, amount, deadline, signature) ==
  /\ ensureValidSignature(
       TypedData("Token", "Permit", owner, <<spender, amount>>,
                 nextNonce["Token"][owner], deadline), signature)
  /\ Executed(owner, <<spender, amount>>, signature)

Pass ==
  /\ time < MaxTime
  /\ time' = time + 1
  /\ UNCHANGED <<nextNonce, signatures, executed>>

-----------------------------------------------------------------------------
SignaturesInit ==
  /\ nextNonce = [v \in Validators |-> [u \in Signers |-> 0]]
  /\ signatures = {}
  /\ executed = NoExecution
  /\ time = 0

SignaturesNext ==
  \/ \E type \in RelayerAction, user \in Signers, sender \in Callers, call \in Calls,
        deadline \in Deadlines, nonce \in 0..1 :
       signAuthorizationFor(type, user, sender, call, deadline, nonce)
  \/ \E user \in Signers, other \in Callers, deadline \in Deadlines, nonce \in 0..1 :
       \/ signSetMinterApproval(user, other, "yes", deadline, nonce)
       \/ signPermit(user, other, "1", deadline, nonce)
  \/ \E user \in Signers, sender \in Callers, deadline \in Deadlines, signature \in signatures :
       \/ \E call \in Calls : callVault(sender, user, call, deadline, signature)
       \/ setMinterApprovalWithSignature(sender, "yes", user, deadline, signature)
       \/ permit(user, sender, "1", deadline, signature)
  \/ Pass

SignaturesSpec == SignaturesInit /\ [][SignaturesNext]_signatureVars

-----------------------------------------------------------------------------
\* Until another of its author's signatures is used with the same contract, a signature
\* whose nonce was asked for serves for one call: the one that it was made for, by
\* whomever it was made for, until its deadline.  That call makes it useless, together
\* with the others that wait.  (It is what the model of the Vault takes a signature for.)
Waiting(v, u) ==
  {s \in signatures : s.data.validator = v /\ s.data.user = u /\ s.data.nonce = nextNonce[v][u]}
ServesOnce(v, u) ==
  LET before == {s \in Waiting(v, u) : s.asked}
      after == {s \in Waiting(v, u)' : s.asked}
      used == executed'.by \cap Waiting(v, u)
  IN  IF nextNonce'[v][u] = nextNonce[v][u]
      THEN after = before \cup {s \in signatures' \ signatures :
                                  s.asked /\ s.data.validator = v /\ s.data.user = u}
      ELSE /\ after = {}
           /\ \E s \in used : /\ s.data.about = executed'.about /\ s.data.user = executed'.user
                              /\ s.data.deadline >= time
SignaturesServeOnce ==
  [][\A v \in Validators, u \in Signers : ServesOnce(v, u)]_signatureVars

=============================================================================
