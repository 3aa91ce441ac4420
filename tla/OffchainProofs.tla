----------------------------- MODULE OffchainProofs -----------------------------
(***************************************************************************)
(* Proofs about the off-chain components: that a signature serves for one  *)
(* call, that hooks shared by tests leave them where beforeEach would,     *)
(* that calls of the models of Pools come to what they are meant for, and  *)
(* that claims pass for the elements of a distribution and no others.      *)
(***************************************************************************)
EXTENDS Signatures, SharedBeforeEach, PoolClients, MerkleTrees, Induction, SequenceTheorems, TLAPS

-----------------------------------------------------------------------------
(***************************************************************************)
(* A nonce that was asked for is one that its contract has come to: so     *)
(* none of them is for the future, when its contract would take it again   *)
(* after others were used.                                                 *)
(***************************************************************************)
NoncesAreNumbers == nextNonce \in [Validators -> [Signers -> Nat]]
AskedAreNotAhead ==
  \A s \in signatures :
    /\ s.data.validator \in Validators /\ s.data.user \in Signers
    /\ s.asked => /\ s.data.nonce \in Nat
                  /\ s.data.nonce <= nextNonce[s.data.validator][s.data.user]
SigInv == NoncesAreNumbers /\ AskedAreNotAhead

\* The three contracts that validate each use up a nonce of theirs, of the author, by the
\* signature of what they were called with.
LEMMA MadeFor ==
  ASSUME SigInv, NEW v \in Validators, NEW u \in Signers, NEW type, NEW about, NEW deadline,
         NEW n \in Int,
         Made(TypedData(v, type, u, about, nonceFor(v, u, n), deadline), n)
  PROVE  SigInv' /\ \A w \in Validators, x \in Signers : ServesOnce(w, x)
<1> DEFINE data == TypedData(v, type, u, about, nonceFor(v, u, n), deadline)
           new == [data |-> data, asked |-> asked(n)]
<1>1. /\ signatures' = signatures \cup {new}
      /\ UNCHANGED <<nextNonce, executed, time>>
  BY DEF Made
<1>2. /\ new.data.validator = v /\ new.data.user = u /\ new.asked = asked(n)
      /\ asked(n) => new.data.nonce = nextNonce[v][u]
  BY DEF TypedData, nonceFor
<1> HIDE DEF new, data
<1>3. nextNonce[v][u] \in Nat
  BY DEF SigInv, NoncesAreNumbers
<1>4. SigInv'
  BY <1>1, <1>2, <1>3 DEF SigInv, NoncesAreNumbers, AskedAreNotAhead
<1>5. ASSUME NEW w \in Validators, NEW x \in Signers PROVE ServesOnce(w, x)
  BY <1>1, <1>2 DEF ServesOnce, Waiting
<1> QED BY <1>4, <1>5

\* So does a call with a signature: an old nonce is not the one its contract asks for.
LEMMA UsedBy ==
  ASSUME SigInv, NEW v \in Validators, NEW u \in Signers, NEW type, NEW about, NEW deadline,
         NEW signature \in signatures,
         ensureValidSignature(TypedData(v, type, u, about, nextNonce[v][u], deadline), signature),
         Executed(u, about, signature)
  PROVE  SigInv' /\ \A w \in Validators, x \in Signers : ServesOnce(w, x)
<1>1. /\ nextNonce' = [nextNonce EXCEPT ![v][u] = @ + 1]
      /\ executed' = [by |-> {signature}, user |-> u, about |-> about]
      /\ UNCHANGED <<signatures, time>>
  BY DEF ensureValidSignature, Executed, TypedData
<1>2. /\ signature.data.validator = v /\ signature.data.user = u
      /\ signature.data.nonce = nextNonce[v][u] /\ signature.data.about = about
      /\ signature.data.deadline >= time
  BY DEF ensureValidSignature, isValidSignature, TypedData
<1>3. /\ nextNonce'[v][u] = nextNonce[v][u] + 1 /\ nextNonce[v][u] \in Nat
      /\ \A w \in Validators, x \in Signers :
           <<w, x>> # <<v, u>> => nextNonce'[w][x] = nextNonce[w][x]
      /\ NoncesAreNumbers'
  BY <1>1 DEF SigInv, NoncesAreNumbers
<1>4. SigInv'
  BY <1>1, <1>3 DEF SigInv, NoncesAreNumbers, AskedAreNotAhead
<1>5. ASSUME NEW w \in Validators, NEW x \in Signers, <<w, x>> # <<v, u>> PROVE ServesOnce(w, x)
  BY <1>1, <1>3, <1>5 DEF ServesOnce, Waiting
<1>6. ServesOnce(v, u)
  <2>1. {s \in Waiting(v, u)' : s.asked} = {}
    BY <1>1, <1>3 DEF Waiting, SigInv, AskedAreNotAhead
  <2>2. signature \in executed'.by \cap Waiting(v, u)
    BY <1>1, <1>2 DEF Waiting
  <2>3. executed'.about = about /\ executed'.user = u
    BY <1>1
  <2>4. nextNonce'[v][u] # nextNonce[v][u]
    BY <1>3
  <2> QED BY <2>1, <2>2, <2>3, <2>4, <1>2 DEF ServesOnce
<1> QED BY <1>4, <1>5, <1>6

\* Steps that do not concern signatures.
LEMMA NothingSigned ==
  ASSUME SigInv, UNCHANGED <<nextNonce, signatures>>
  PROVE  SigInv' /\ \A w \in Validators, x \in Signers : ServesOnce(w, x)
<1>1. SigInv'
  BY DEF SigInv, NoncesAreNumbers, AskedAreNotAhead
<1>2. ASSUME NEW w \in Validators, NEW x \in Signers PROVE ServesOnce(w, x)
  BY DEF ServesOnce, Waiting
<1> QED BY <1>1, <1>2

\* Hence whatever is signed, called or waited for.
LEMMA EachStepServesOnce ==
  ASSUME SigInv, SignaturesNext
  PROVE  SigInv' /\ \A w \in Validators, x \in Signers : ServesOnce(w, x)
<1> USE DEF Validators
<1>1. ASSUME NEW type \in RelayerAction, NEW user \in Signers, NEW sender \in Callers, NEW call \in Calls,
             NEW deadline \in Deadlines, NEW nonce \in 0..1,
             signAuthorizationFor(type, user, sender, call, deadline, nonce)
      PROVE  SigInv' /\ \A w \in Validators, x \in Signers : ServesOnce(w, x)
  BY <1>1, MadeFor DEF signAuthorizationFor
<1>2. ASSUME NEW user \in Signers, NEW other \in Callers, NEW deadline \in Deadlines, NEW nonce \in 0..1,
             \/ signSetMinterApproval(user, other, "yes", deadline, nonce)
             \/ signPermit(user, other, "1", deadline, nonce)
      PROVE  SigInv' /\ \A w \in Validators, x \in Signers : ServesOnce(w, x)
  BY <1>2, MadeFor DEF signSetMinterApproval, signPermit
<1>3. ASSUME NEW user \in Signers, NEW sender \in Callers, NEW deadline \in Deadlines,
             NEW signature \in signatures, NEW call \in Calls,
             callVault(sender, user, call, deadline, signature)
      PROVE  SigInv' /\ \A w \in Validators, x \in Signers : ServesOnce(w, x)
  <2> DEFINE data == TypedData("Vault", entrypointTypeHash(call), user, <<sender, call>>,
                               nextNonce["Vault"][user], deadline)
  <2>1. ensureValidSignature(data, signature) /\ Executed(user, <<sender, call>>, signature)
    BY <1>3 DEF callVault, validateExtraCalldataSignature, encodeCalldataAuthorization
  <2> QED BY <2>1, UsedBy
<1>4. ASSUME NEW user \in Signers, NEW sender \in Callers, NEW deadline \in Deadlines,
             NEW signature \in signatures,
             \/ setMinterApprovalWithSignature(sender, "yes", user, deadline, signature)
             \/ permit(user, sender, "1", deadline, signature)
      PROVE  SigInv' /\ \A w \in Validators, x \in Signers : ServesOnce(w, x)
  BY <1>4, UsedBy DEF setMinterApprovalWithSignature, permit
<1>5. ASSUME Pass PROVE SigInv' /\ \A w \in Validators, x \in Signers : ServesOnce(w, x)
  BY <1>5, NothingSigned DEF Pass
<1> QED BY <1>1, <1>2, <1>3, <1>4, <1>5 DEF SignaturesNext

\* No signature asks for a nonce that its contract has not come to.
LEMMA SigInvHolds == SignaturesSpec => []SigInv
<1>1. SignaturesInit => SigInv
  BY DEF SignaturesInit, SigInv, NoncesAreNumbers, AskedAreNotAhead
<1>2. SigInv /\ [SignaturesNext]_signatureVars => SigInv'
  BY EachStepServesOnce, NothingSigned DEF signatureVars
<1> QED BY <1>1, <1>2, PTL DEF SignaturesSpec

(***************************************************************************)
(* A signature whose nonce was asked for serves for the one call that it   *)
(* was made for, by whom it was made for and until its deadline, and using *)
(* it makes the others that wait with that contract useless                *)
(* (ExtraCalldataEOASignaturesValidator, EOASignaturesValidator).          *)
(***************************************************************************)
THEOREM SignaturesServe == SignaturesSpec => SignaturesServeOnce
<1>1. SigInv /\ [SignaturesNext]_signatureVars
        => [\A v \in Validators, u \in Signers : ServesOnce(v, u)]_signatureVars
  BY EachStepServesOnce
<1> QED BY <1>1, SigInvHolds, PTL DEF SignaturesSpec, SignaturesServeOnce

-----------------------------------------------------------------------------
\* The shared hooks of the first n of a list: where they are, and their names.
SharedAt(list, n) == {q \in 1..n : list[q] \in SharedHooks}
Named(list, n) == {list[q] : q \in SharedAt(list, n)}
Distinct(list) == \A p, q \in 1..Len(list) : list[p] = list[q] => p = q

\* The shared ones of a list are picked one hook after the other.
LEMMA AmongUnfolds ==
  ASSUME NEW list \in Seq(Hooks)
  PROVE  LET F == sharedAmong(list) IN
         /\ F \in [0..Len(list) -> Seq(Hooks)]
         /\ F[0] = <<>>
         /\ \A n \in 1..Len(list) :
              /\ list[n] \in SharedHooks => F[n] = Append(F[n - 1], list[n])
              /\ list[n] \notin SharedHooks => F[n] = F[n - 1]
<1> DEFINE N == Len(list)
           D == Seq(Hooks)
           R(f, n) == IF n = 0 THEN <<>>
                      ELSE IF list[n] \in SharedHooks THEN Append(f[n - 1], list[n]) ELSE f[n - 1]
           G == [x \in D \X (1..N) |->
                   IF list[x[2]] \in SharedHooks THEN Append(x[1], list[x[2]]) ELSE x[1]]
           Is(f) == f = [n \in 0..N |-> R(f, n)]
<1>1. N \in Nat /\ \A n \in 1..N : list[n] \in Hooks
  OBVIOUS
<1>2. G \in [D \X (1..N) -> D]
  BY <1>1
<1>3. PICK g : Iterates(D, N, <<>>, G, g)
  <2>1. <<>> \in D
    OBVIOUS
  <2> HIDE DEF G, D, N
  <2> QED BY <1>1, <1>2, <2>1, LoopExists
<1>4. Is(g)
  <2>1. g \in [0..N -> D] /\ g[0] = <<>> /\ \A n \in 1..N : g[n] = G[<<g[n - 1], n>>]
    BY <1>3 DEF Iterates
  <2>2. \A n \in 0..N : g[n] = R(g, n)
    <3> SUFFICES ASSUME NEW n \in 0..N PROVE g[n] = R(g, n)
      OBVIOUS
    <3>1. CASE n = 0
      BY <3>1, <2>1
    <3>2. CASE n # 0
      <4>1. n \in 1..N /\ n - 1 \in 0..N /\ g[n - 1] \in D
        BY <3>2, <2>1, <1>1
      <4>2. <<g[n - 1], n>> \in D \X (1..N)
        BY <4>1
      <4>3. G[<<g[n - 1], n>>] = R(g, n)
        BY <4>2, <3>2
      <4> QED BY <4>1, <4>3, <2>1
    <3> QED BY <3>1, <3>2
  <2> HIDE DEF R
  <2> QED BY <2>1, <2>2
<1>5. Is(sharedAmong(list))
  <2>1. sharedAmong(list) = CHOOSE f : Is(f)
    BY DEF sharedAmong
  <2> HIDE DEF Is
  <2> QED BY <1>4, <2>1
<1> DEFINE F == sharedAmong(list)
<1>6. \A n \in 0..N : F[n] = R(F, n)
  <2> HIDE DEF R, F
  <2> QED BY <1>5 DEF F
<1> HIDE DEF F
<1>7. F[0] = <<>> /\ \A n \in 1..N :
         /\ list[n] \in SharedHooks => F[n] = Append(F[n - 1], list[n])
         /\ list[n] \notin SharedHooks => F[n] = F[n - 1]
  <2>1. F[0] = R(F, 0)
    BY <1>6, <1>1
  <2>2. ASSUME NEW n \in 1..N PROVE F[n] = R(F, n) /\ n # 0
    BY <1>6, <1>1
  <2> QED BY <2>1, <2>2
<1>8. \A n \in 0..N : F[n] \in D
  <2>1. F[0] \in D
    <3>1. <<>> \in D
      OBVIOUS
    <3> HIDE DEF D
    <3> QED BY <1>7, <3>1
  <2>2. ASSUME NEW n \in 1..N, F[n - 1] \in D PROVE F[n] \in D
    <3>1. CASE list[n] \in SharedHooks
      <4>1. F[n] = Append(F[n - 1], list[n]) /\ list[n] \in Hooks
        BY <3>1, <1>7, <1>1
      <4> QED BY <4>1, <2>2
    <3>2. CASE list[n] \notin SharedHooks
      BY <3>2, <2>2, <1>7
    <3> QED BY <3>1, <3>2
  <2> HIDE DEF D, N
  <2> QED BY <2>1, <2>2, <1>1, LoopPreserves
<1>9. F \in [0..N -> D]
  BY <1>5, <1>8 DEF F
<1> QED BY <1>7, <1>9 DEF F

\* It depends on those n hooks,
LEMMA AmongSame ==
  ASSUME NEW list \in Seq(Hooks), NEW other \in Seq(Hooks), NEW p \in 0..Len(list),
         p <= Len(other), \A r \in 1..p : other[r] = list[r]
  PROVE  sharedAmong(other)[p] = sharedAmong(list)[p]
<1> DEFINE F == sharedAmong(list)
           G == sharedAmong(other)
           Same(n) == G[n] = F[n]
           T == {n \in Nat : n <= p => Same(n)}
<1>1. F[0] = <<>> /\ \A n \in 1..Len(list) :
        /\ list[n] \in SharedHooks => F[n] = Append(F[n - 1], list[n])
        /\ list[n] \notin SharedHooks => F[n] = F[n - 1]
  BY AmongUnfolds
<1>2. G[0] = <<>> /\ \A n \in 1..Len(other) :
        /\ other[n] \in SharedHooks => G[n] = Append(G[n - 1], other[n])
        /\ other[n] \notin SharedHooks => G[n] = G[n - 1]
  BY AmongUnfolds
<1> HIDE DEF F, G
<1>3. 0 \in T
  <2>1. Same(0)
    BY <1>1, <1>2
  <2> HIDE DEF Same
  <2> QED BY <2>1
<1>4. \A n \in Nat : n \in T => n + 1 \in T
  <2> SUFFICES ASSUME NEW n \in Nat, n \in T, n + 1 <= p PROVE Same(n + 1)
    <3> HIDE DEF Same
    <3> QED OBVIOUS
  <2>1. n + 1 \in 1..Len(list) /\ n + 1 \in 1..Len(other) /\ (n + 1) - 1 = n /\ n + 1 \in 1..p
    OBVIOUS
  <2>2. G[n] = F[n] /\ other[n + 1] = list[n + 1]
    BY <2>1
  <2> QED BY <1>1, <1>2, <2>1, <2>2, ZenonT(60)
<1>5. Nat \subseteq T
  <2> HIDE DEF T
  <2> QED BY <1>3, <1>4, SetInduction
<1> QED BY <1>5 DEF F, G

\* stays where none of them is shared,
LEMMA AmongStays ==
  ASSUME NEW list \in Seq(Hooks), NEW l \in 0..Len(list), NEW m \in l..Len(list),
         SharedAt(list, m) \subseteq 1..l
  PROVE  sharedAmong(list)[m] = sharedAmong(list)[l]
<1> DEFINE F == sharedAmong(list)
           T == {n \in Nat : n >= l /\ n <= m => F[n] = F[l]}
<1>1. \A n \in 1..Len(list) :
        /\ list[n] \in SharedHooks => F[n] = Append(F[n - 1], list[n])
        /\ list[n] \notin SharedHooks => F[n] = F[n - 1]
  BY AmongUnfolds
<1> HIDE DEF F
<1>2. 0 \in T
  OBVIOUS
<1>3. \A n \in Nat : n \in T => n + 1 \in T
  <2> SUFFICES ASSUME NEW n \in Nat, n \in T, n + 1 >= l, n + 1 <= m PROVE F[n + 1] = F[l]
    OBVIOUS
  <2>1. CASE n + 1 = l
    BY <2>1
  <2>2. CASE n + 1 # l
    <3>1. F[n] = F[l] /\ n + 1 \in 1..Len(list) /\ (n + 1) - 1 = n /\ n + 1 \in 1..m /\ n + 1 \notin 1..l
      BY <2>2
    <3>2. list[n + 1] \notin SharedHooks
      BY <3>1 DEF SharedAt
    <3> QED BY <1>1, <3>1, <3>2
  <2> QED BY <2>1, <2>2
<1>4. Nat \subseteq T
  <2> HIDE DEF T
  <2> QED BY <1>2, <1>3, SetInduction
<1> QED BY <1>4 DEF F

\* and grows where one is.
LEMMA AmongGrows ==
  ASSUME NEW list \in Seq(Hooks), NEW m \in 0..Len(list), NEW l \in 0..m
  PROVE  LET F == sharedAmong(list) IN
         /\ Len(F[l]) \in Nat /\ Len(F[m]) \in Nat /\ Len(F[l]) <= Len(F[m])
         /\ m \in SharedAt(list, m) => 1 <= Len(F[m]) /\ (l # m => Len(F[l]) < Len(F[m]))
<1> DEFINE F == sharedAmong(list)
           T == {n \in Nat : n >= l /\ n <= Len(list) => Len(F[l]) <= Len(F[n])}
<1>1. \A n \in 1..Len(list) :
        /\ list[n] \in SharedHooks => F[n] = Append(F[n - 1], list[n])
        /\ list[n] \notin SharedHooks => F[n] = F[n - 1]
  BY AmongUnfolds
<1>2. F \in [0..Len(list) -> Seq(Hooks)]
  BY AmongUnfolds
<1> HIDE DEF F
<1>3. \A n \in 0..Len(list) : F[n] \in Seq(Hooks) /\ Len(F[n]) \in Nat
  BY <1>2
<1>4. \A n \in 1..Len(list) : /\ n - 1 \in 0..Len(list)
                              /\ Len(F[n - 1]) <= Len(F[n])
                              /\ list[n] \in SharedHooks => Len(F[n]) = Len(F[n - 1]) + 1
  <2> SUFFICES ASSUME NEW n \in 1..Len(list)
               PROVE  /\ n - 1 \in 0..Len(list)
                      /\ Len(F[n - 1]) <= Len(F[n])
                      /\ list[n] \in SharedHooks => Len(F[n]) = Len(F[n - 1]) + 1
    OBVIOUS
  <2>1. n - 1 \in 0..Len(list) /\ list[n] \in Hooks
    OBVIOUS
  <2>2. F[n - 1] \in Seq(Hooks)
    BY <2>1, <1>3
  <2>3. Len(Append(F[n - 1], list[n])) = Len(F[n - 1]) + 1 /\ Len(F[n - 1]) \in Nat
    BY <2>1, <2>2
  <2>4. CASE list[n] \in SharedHooks
    BY <1>1, <2>1, <2>3, <2>4
  <2>5. CASE list[n] \notin SharedHooks
    BY <1>1, <2>1, <2>3, <2>5
  <2> QED BY <2>4, <2>5
<1>5. Nat \subseteq T
  <2>1. 0 \in T
    <3>1. 0 >= l => l = 0
      OBVIOUS
    <3> QED BY <3>1, <1>3
  <2>2. \A n \in Nat : n \in T => n + 1 \in T
    <3> SUFFICES ASSUME NEW n \in Nat, n \in T, n + 1 >= l, n + 1 <= Len(list)
                 PROVE  Len(F[l]) <= Len(F[n + 1])
      OBVIOUS
    <3>1. CASE n + 1 = l
      BY <3>1, <1>3
    <3>2. CASE n + 1 # l
      <4>1. n + 1 \in 1..Len(list) /\ (n + 1) - 1 = n /\ n \in 0..Len(list) /\ n + 1 \in 0..Len(list)
             /\ l \in 0..Len(list)
        BY <3>2
      <4>2. Len(F[l]) <= Len(F[n])
        BY <3>2, <4>1
      <4>3. Len(F[n]) <= Len(F[n + 1])
        BY <1>4, <4>1
      <4> QED BY <4>1, <4>2, <4>3, <1>3
    <3> QED BY <3>1, <3>2
  <2> HIDE DEF T
  <2> QED BY <2>1, <2>2, SetInduction
<1>6. l \in 0..Len(list) /\ Len(F[l]) \in Nat /\ Len(F[m]) \in Nat
  BY <1>3
<1>7. Len(F[l]) <= Len(F[m])
  BY <1>5
<1>8. ASSUME m \in SharedAt(list, m) PROVE 1 <= Len(F[m]) /\ (l # m => Len(F[l]) < Len(F[m]))
  <2>1. m \in 1..Len(list) /\ list[m] \in SharedHooks
    BY <1>8 DEF SharedAt
  <2>2. Len(F[m]) = Len(F[m - 1]) + 1 /\ m - 1 \in 0..Len(list) /\ Len(F[m - 1]) \in Nat
    BY <2>1, <1>4, <1>3
  <2>3. l # m => m - 1 \in Nat /\ m - 1 >= l /\ m - 1 <= Len(list)
    BY <2>1
  <2>4. l # m => Len(F[l]) <= Len(F[m - 1])
    BY <2>3, <1>5
  <2> QED BY <2>2, <2>4, <1>6
<1> QED BY <1>6, <1>7, <1>8 DEF F

\* What there is of it is of the last shared one, which is where it is as long as it gets.
LEMMA AmongLast ==
  ASSUME NEW list \in Seq(Hooks), NEW p \in 0..Len(list), sharedAmong(list)[p] # <<>>
  PROVE  \E l \in SharedAt(list, p) : /\ SharedAt(list, p) \subseteq 1..l
                                      /\ sharedAmong(list)[l] = sharedAmong(list)[p]
<1> DEFINE F == sharedAmong(list)
           Lasts(n) == \E l \in SharedAt(list, n) : SharedAt(list, n) \subseteq 1..l
           T == {n \in Nat : n <= p /\ F[n] # <<>> => Lasts(n)}
<1>1. \A n \in 1..Len(list) :
        /\ list[n] \in SharedHooks => F[n] = Append(F[n - 1], list[n])
        /\ list[n] \notin SharedHooks => F[n] = F[n - 1]
  BY AmongUnfolds
<1>2. F[0] = <<>>
  BY AmongUnfolds
<1> HIDE DEF F
<1>3. 0 \in T
  BY <1>2
<1>4. \A n \in Nat : n \in T => n + 1 \in T
  <2> SUFFICES ASSUME NEW n \in Nat, n \in T, n + 1 <= p, F[n + 1] # <<>> PROVE Lasts(n + 1)
    OBVIOUS
  <2>1. n + 1 \in 1..Len(list) /\ (n + 1) - 1 = n
    OBVIOUS
  <2>2. CASE list[n + 1] \in SharedHooks
    BY <2>1, <2>2 DEF SharedAt
  <2>3. CASE list[n + 1] \notin SharedHooks
    <3>1. F[n] # <<>>
      BY <1>1, <2>1, <2>3
    <3>2. SharedAt(list, n + 1) = SharedAt(list, n)
      BY <2>1, <2>3 DEF SharedAt
    <3> QED BY <3>1, <3>2
  <2> QED BY <2>2, <2>3
<1>5. Nat \subseteq T
  <2> HIDE DEF T
  <2> QED BY <1>3, <1>4, SetInduction
<1>6. PICK l \in SharedAt(list, p) : SharedAt(list, p) \subseteq 1..l
  BY <1>5 DEF F
<1>7. l \in 0..Len(list) /\ p \in l..Len(list)
  BY DEF SharedAt
<1>8. F[p] = F[l]
  BY <1>6, <1>7, AmongStays DEF F
<1> QED BY <1>6, <1>8 DEF F

\* It is as long as there are shared ones.
LEMMA AmongCounts ==
  ASSUME NEW list \in Seq(Hooks), Distinct(list), NEW p \in 0..Len(list)
  PROVE  IsFiniteSet(Named(list, p)) /\ Len(sharedAmong(list)[p]) = Cardinality(Named(list, p))
<1> DEFINE F == sharedAmong(list)
           T == {n \in Nat : n <= Len(list) =>
                   IsFiniteSet(Named(list, n)) /\ Len(F[n]) = Cardinality(Named(list, n))}
<1>1. \A n \in 1..Len(list) :
        /\ list[n] \in SharedHooks => F[n] = Append(F[n - 1], list[n])
        /\ list[n] \notin SharedHooks => F[n] = F[n - 1]
  BY AmongUnfolds
<1>2. F[0] = <<>> /\ F \in [0..Len(list) -> Seq(Hooks)]
  BY AmongUnfolds
<1> HIDE DEF F
<1>3. 0 \in T
  <2>1. Named(list, 0) = {}
    BY DEF Named, SharedAt
  <2> QED BY <1>2, <2>1, FS_EmptySet
<1>4. \A n \in Nat : n \in T => n + 1 \in T
  <2> SUFFICES ASSUME NEW n \in Nat, n \in T, n + 1 <= Len(list)
               PROVE  /\ IsFiniteSet(Named(list, n + 1))
                      /\ Len(F[n + 1]) = Cardinality(Named(list, n + 1))
    OBVIOUS
  <2>1. n + 1 \in 1..Len(list) /\ (n + 1) - 1 = n /\ n \in 0..Len(list) /\ list[n + 1] \in Hooks
    OBVIOUS
  <2>2. IsFiniteSet(Named(list, n)) /\ Len(F[n]) = Cardinality(Named(list, n))
    BY <2>1
  <2>3. CASE list[n + 1] \in SharedHooks
    <3>1. Named(list, n + 1) = Named(list, n) \cup {list[n + 1]}
      <4>1. SharedAt(list, n + 1) = SharedAt(list, n) \cup {n + 1}
        BY <2>1, <2>3 DEF SharedAt
      <4> QED BY <4>1 DEF Named
    <3>2. list[n + 1] \notin Named(list, n)
      BY <2>1 DEF Named, SharedAt, Distinct
    <3>3. IsFiniteSet(Named(list, n + 1)) /\ Cardinality(Named(list, n + 1)) = Cardinality(Named(list, n)) + 1
      BY <2>2, <3>1, <3>2, FS_AddElement
    <3>4. F[n + 1] = Append(F[n], list[n + 1]) /\ F[n] \in Seq(Hooks)
      BY <1>1, <1>2, <2>1, <2>3
    <3>5. Len(F[n + 1]) = Len(F[n]) + 1
      BY <3>4, <2>1
    <3> QED BY <2>2, <3>3, <3>5
  <2>4. CASE list[n + 1] \notin SharedHooks
    <3>1. SharedAt(list, n + 1) = SharedAt(list, n)
      BY <2>1, <2>4 DEF SharedAt
    <3> QED BY <1>1, <2>1, <2>2, <2>4, <3>1 DEF Named
  <2> QED BY <2>3, <2>4
<1>5. Nat \subseteq T
  <2> HIDE DEF T
  <2> QED BY <1>3, <1>4, SetInduction
<1> QED BY <1>5 DEF F
-----------------------------------------------------------------------------
\* What the chain is told to do.
Deeds == Hooks \cup {"test"} \cup {"part of " \o h : h \in Hooks}

\* Hooks, tests and parts of hooks are what is done to the chain.
LEMMA DeedsOf == Hooks \subseteq Deeds /\ "test" \in Deeds /\ \A h \in Hooks : "part of " \o h \in Deeds
BY Zenon DEF Deeds

\* No hook is twice around a test.
LEMMA ListsOfHooks ==
  /\ Len(Schedule) \in Nat
  /\ \A i \in 1..Len(Schedule) : Schedule[i] \in Seq(Hooks) /\ Distinct(Schedule[i])
<1>1. Schedule \in Seq(Seq(Hooks)) /\ SuitesNested
  BY ScheduleAssumption
<1>2. Len(Schedule) \in Nat /\ \A i \in 1..Len(Schedule) : i \in DOMAIN Schedule /\ Schedule[i] \in Seq(Hooks)
  BY <1>1
<1>3. ASSUME NEW i \in 1..Len(Schedule) PROVE Distinct(Schedule[i])
  <2>1. i \in DOMAIN Schedule /\ i \in Int /\ DOMAIN Schedule[i] = 1..Len(Schedule[i])
    BY <1>2
  <2>2. ASSUME NEW p \in 1..Len(Schedule[i]), NEW q \in 1..Len(Schedule[i]), Schedule[i][p] = Schedule[i][q]
        PROVE  p = q
    <3>1. i <= i
      BY <2>1
    <3> QED BY <1>1, <2>1, <2>2, <3>1 DEF SuitesNested
  <2> QED BY <2>2 DEF Distinct
<1> QED BY <1>2, <1>3

\* What the shared ones of the first p hooks of a list did, from some start.
Since(start, list, p) == start \o sharedAmong(list)[p]

\* The hooks set up are the shared ones of the first p of a list, and the snapshot kept of
\* each is of what it and those before it did to what the first one found.
IsStack(list, p, done, kept, snaps, start) ==
  /\ done = Named(list, p)
  /\ kept \in Seq(Nat) /\ Len(kept) = Len(sharedAmong(list)[p])
  /\ snaps \in Seq(Seq(Deeds))
  /\ \A x \in 1..Len(kept) : kept[x] \in 1..Len(snaps)
  /\ \A x, y \in 1..Len(kept) : x < y => kept[x] < kept[y]
  /\ \A q \in SharedAt(list, p) :
       snaps[kept[Len(sharedAmong(list)[q])]] = Since(start, list, q)

\* Every shared hook that is set up has its place on the stack.
LEMMA StackIds ==
  ASSUME NEW list \in Seq(Hooks), NEW p \in 0..Len(list), NEW q \in SharedAt(list, p)
  PROVE  /\ q \in 1..p /\ q \in 1..Len(list) /\ list[q] \in SharedHooks
         /\ sharedAmong(list)[q] \in Seq(Hooks)
         /\ Len(sharedAmong(list)[q]) \in 1..Len(sharedAmong(list)[p])
<1> DEFINE F == sharedAmong(list)
<1>1. q \in 1..p /\ list[q] \in SharedHooks /\ q \in SharedAt(list, q) /\ q \in 0..p /\ q \in 0..Len(list)
      /\ 0 \in 0..q /\ q \in 1..Len(list)
  BY DEF SharedAt
<1>2. F[q] \in Seq(Hooks)
  BY <1>1, AmongUnfolds
<1>3. 1 <= Len(F[q])
  BY <1>1, AmongGrows
<1>4. Len(F[q]) <= Len(F[p]) /\ Len(F[p]) \in Nat /\ Len(F[q]) \in Nat
  BY <1>1, AmongGrows
<1> HIDE DEF F
<1>5. Len(F[q]) \in 1..Len(F[p])
  BY <1>3, <1>4
<1> QED BY <1>1, <1>2, <1>5 DEF F

\* Only the snapshots kept count.
LEMMA StackStays ==
  ASSUME NEW list \in Seq(Hooks), NEW p \in 0..Len(list), NEW done, NEW kept, NEW snaps, NEW start,
         IsStack(list, p, done, kept, snaps, start),
         NEW after \in Seq(Seq(Deeds)),
         \A x \in 1..Len(kept) : kept[x] \in 1..Len(after) /\ after[kept[x]] = snaps[kept[x]]
  PROVE  IsStack(list, p, done, kept, after, start)
<1>1. ASSUME NEW q \in SharedAt(list, p)
      PROVE  after[kept[Len(sharedAmong(list)[q])]] = Since(start, list, q)
  <2>1. Len(sharedAmong(list)[q]) \in 1..Len(kept)
    BY StackIds DEF IsStack
  <2>2. snaps[kept[Len(sharedAmong(list)[q])]] = Since(start, list, q)
    BY DEF IsStack
  <2> QED BY <2>1, <2>2
<1> QED BY <1>1 DEF IsStack

\* Nothing is on the stack exactly when no hook is set up.
LEMMA StackEmpty ==
  ASSUME NEW list \in Seq(Hooks), NEW p \in 0..Len(list), NEW done, NEW kept, NEW snaps, NEW start,
         IsStack(list, p, done, kept, snaps, start), kept = <<>>
  PROVE  /\ SharedAt(list, p) = {} /\ sharedAmong(list)[p] = <<>> /\ done = {}
         /\ \A other : IsStack(list, p, done, kept, snaps, other)
<1>1. Len(sharedAmong(list)[p]) = 0 /\ done = Named(list, p)
  BY DEF IsStack
<1>2. SharedAt(list, p) = {}
  <2> SUFFICES ASSUME NEW q \in SharedAt(list, p) PROVE FALSE
    OBVIOUS
  <2>1. Len(sharedAmong(list)[q]) \in 1..Len(sharedAmong(list)[p])
    BY StackIds
  <2> QED BY <1>1, <2>1
<1>3. sharedAmong(list)[p] \in Seq(Hooks)
  BY AmongUnfolds
<1>4. sharedAmong(list)[p] = <<>>
  BY <1>1, <1>3
<1>5. done = {}
  BY <1>1, <1>2 DEF Named
<1> QED BY <1>2, <1>4, <1>5 DEF IsStack

\* The top of the stack is of all that is set up.
LEMMA StackTop ==
  ASSUME NEW list \in Seq(Hooks), NEW p \in 0..Len(list), NEW done, NEW kept, NEW snaps,
         NEW start \in Seq(Deeds),
         IsStack(list, p, done, kept, snaps, start), kept # <<>>
  PROVE  /\ Last(kept) \in 1..Len(snaps)
         /\ snaps[Last(kept)] = Since(start, list, p)
         /\ snaps[Last(kept)] \in Seq(Deeds)
         /\ \A x \in 1..Len(kept) : kept[x] \in 1..Last(kept)
<1> DEFINE F == sharedAmong(list)
<1>0. kept \in Seq(Nat) /\ Len(kept) = Len(F[p]) /\ snaps \in Seq(Seq(Deeds))
  BY DEF IsStack
<1>1. F[p] \in Seq(Hooks) /\ F[p] # <<>>
  <2>1. F[p] \in Seq(Hooks)
    BY AmongUnfolds
  <2>2. Len(kept) # 0
    BY <1>0
  <2> HIDE DEF F
  <2> QED BY <1>0, <2>1, <2>2
<1>2. PICK l \in SharedAt(list, p) : SharedAt(list, p) \subseteq 1..l /\ F[l] = F[p]
  BY <1>1, AmongLast
<1>3. snaps[kept[Len(F[l])]] = Since(start, list, l)
  BY DEF IsStack
<1> HIDE DEF F
<1>4. Last(kept) = kept[Len(kept)] /\ Len(kept) \in 1..Len(kept)
  <2>1. Len(kept) \in Nat /\ Len(kept) # 0
    BY <1>0
  <2> QED BY <2>1 DEF Last
<1>5. snaps[Last(kept)] = Since(start, list, p)
  BY <1>0, <1>2, <1>3, <1>4 DEF Since, F
<1>6. Last(kept) \in 1..Len(snaps)
  BY <1>4 DEF IsStack
<1>7. snaps[Last(kept)] \in Seq(Deeds)
  BY <1>0, <1>6, ElementOfSeq
<1>8. ASSUME NEW x \in 1..Len(kept) PROVE kept[x] \in 1..Last(kept)
  <2>1. kept[x] \in 1..Len(snaps) /\ (x < Len(kept) => kept[x] < kept[Len(kept)])
    BY <1>4 DEF IsStack
  <2>2. x < Len(kept) \/ x = Len(kept)
    BY <1>0
  <2>3. kept[Len(kept)] \in Int
    BY <1>4, <1>6
  <2> QED BY <1>4, <2>1, <2>2, <2>3
<1> QED BY <1>5, <1>6, <1>7, <1>8 DEF F

\* A sequence with one more element.
Extends(longer, shorter, e, S) ==
  /\ longer \in Seq(S) /\ Len(longer) = Len(shorter) + 1
  /\ \A x \in 1..Len(shorter) : longer[x] = shorter[x]
  /\ longer[Len(shorter) + 1] = e

\* That is what Append makes.
LEMMA AppendExtends ==
  ASSUME NEW S, NEW s \in Seq(S), NEW e \in S
  PROVE  Extends(Append(s, e), s, e, S)
BY AppendProperties DEF Extends

\* A place in a longer sequence is one of the shorter, or the last.
LEMMA LastOr == ASSUME NEW k \in Nat, NEW x \in 1..(k + 1) PROVE x \in 1..k \/ x = k + 1
OBVIOUS

\* Setting up the next shared hook.
LEMMA StackPush ==
  ASSUME NEW list \in Seq(Hooks), NEW p \in 0..Len(list), NEW done, NEW kept, NEW snaps, NEW start,
         IsStack(list, p, done, kept, snaps, start),
         NEW n \in (p + 1)..Len(list), list[n] \in SharedHooks, SharedAt(list, n - 1) \subseteq 1..p,
         NEW id \in Nat, \A x \in 1..Len(kept) : kept[x] < id,
         NEW after \in Seq(Seq(Deeds)), id \in 1..Len(after),
         \A x \in 1..Len(kept) : kept[x] \in 1..Len(after) /\ after[kept[x]] = snaps[kept[x]],
         after[id] = Since(start, list, n),
         NEW ids, Extends(ids, kept, id, Nat)
  PROVE  IsStack(list, n, done \cup {list[n]}, ids, after, start)
<1> DEFINE F == sharedAmong(list)
<1>0. kept \in Seq(Nat) /\ Len(kept) = Len(F[p]) /\ Len(kept) \in Nat /\ done = Named(list, p)
  BY DEF IsStack
<1>00. Len(kept) \in Nat
  BY <1>0
<1>1. n \in 1..Len(list) /\ n - 1 \in p..Len(list) /\ p \in 0..Len(list)
  OBVIOUS
<1>2. F[n] = Append(F[n - 1], list[n])
  BY <1>1, AmongUnfolds
<1>3. F[n - 1] = F[p]
  BY <1>1, AmongStays
<1>4. F[p] \in Seq(Hooks) /\ list[n] \in Hooks
  <2>1. F[p] \in Seq(Hooks)
    BY AmongUnfolds
  <2>2. list[n] \in Hooks
    BY <1>1
  <2> QED BY <2>1, <2>2
<1>5. Len(F[n]) = Len(F[p]) + 1
  <2> HIDE DEF F
  <2> QED BY <1>2, <1>3, <1>4
<1>6. SharedAt(list, n) = SharedAt(list, p) \cup {n}
  BY <1>1 DEF SharedAt
<1>7. done \cup {list[n]} = Named(list, n)
  BY <1>0, <1>6 DEF Named
<1>8. /\ ids \in Seq(Nat) /\ Len(ids) = Len(kept) + 1
      /\ \A x \in 1..Len(kept) : ids[x] = kept[x]
      /\ ids[Len(kept) + 1] = id
  BY DEF Extends
<1>9. after \in Seq(Seq(Deeds)) /\ IsStack(list, p, done, kept, after, start)
  BY StackStays
<1>10. \A x \in 1..Len(ids) : ids[x] \in 1..Len(after)
  <2> SUFFICES ASSUME NEW x \in 1..Len(ids) PROVE ids[x] \in 1..Len(after)
    OBVIOUS
  <2>1. x \in 1..(Len(kept) + 1)
    BY <1>8
  <2>2. x \in 1..Len(kept) \/ x = Len(kept) + 1
    BY <2>1, <1>00, LastOr
  <2>3. CASE x \in 1..Len(kept)
    BY <2>3, <1>8
  <2> QED BY <2>2, <2>3, <1>8
<1>11. \A x, y \in 1..Len(ids) : x < y => ids[x] < ids[y]
  <2> SUFFICES ASSUME NEW x \in 1..Len(ids), NEW y \in 1..Len(ids), x < y PROVE ids[x] < ids[y]
    OBVIOUS
  <2>0. x \in 1..(Len(kept) + 1) /\ y \in 1..(Len(kept) + 1)
    BY <1>8
  <2>3. y \in 1..Len(kept) \/ y = Len(kept) + 1
    BY <2>0, <1>00, LastOr
  <2>4. x \in 1..Len(kept) \/ x = Len(kept) + 1
    BY <2>0, <1>00, LastOr
  <2>5. x # Len(kept) + 1
    BY <2>0, <1>00
  <2>1. x \in 1..Len(kept) /\ (y \in 1..Len(kept) \/ y = Len(kept) + 1)
    BY <2>3, <2>4, <2>5
  <2>6. CASE y \in 1..Len(kept)
    BY <2>1, <2>6, <1>8 DEF IsStack
  <2>7. CASE y = Len(kept) + 1
    BY <2>1, <2>7, <1>8
  <2> QED BY <2>1, <2>6, <2>7
<1>12. \A q \in SharedAt(list, n) : after[ids[Len(F[q])]] = Since(start, list, q)
  <2> SUFFICES ASSUME NEW q \in SharedAt(list, n) PROVE after[ids[Len(F[q])]] = Since(start, list, q)
    OBVIOUS
  <2>1. CASE q = n
    <3>1. ids[Len(F[q])] = id
      BY <2>1, <1>5, <1>0, <1>8
    <3> QED BY <2>1, <3>1
  <2>2. CASE q # n
    <3>1. q \in SharedAt(list, p)
      BY <2>2, <1>6
    <3>2. Len(F[q]) \in 1..Len(F[p])
      BY <3>1, StackIds
    <3>3. after[kept[Len(F[q])]] = Since(start, list, q)
      BY <3>1, <1>9 DEF IsStack
    <3> HIDE DEF F
    <3> QED BY <3>2, <3>3, <1>0, <1>8
  <2> QED BY <2>1, <2>2
<1>13. Len(ids) = Len(F[n])
  BY <1>8, <1>5, <1>0
<1> QED BY <1>7, <1>8, <1>10, <1>11, <1>12, <1>13 DEF IsStack

\* Taking off those that are not around what comes next.
LEMMA StackPop ==
  ASSUME NEW list \in Seq(Hooks), NEW p \in 0..Len(list), NEW done, NEW kept, NEW snaps, NEW start,
         IsStack(list, p, done, kept, snaps, start),
         NEW next \in Seq(Hooks), NEW m \in 0..p, m <= Len(next), \A r \in 1..m : next[r] = list[r]
  PROVE  IsStack(next, m, Named(list, m), SubSeq(kept, 1, Len(sharedAmong(list)[m])), snaps, start)
<1> DEFINE F == sharedAmong(list)
           G == sharedAmong(next)
           k == Len(F[m])
           ids == SubSeq(kept, 1, k)
<1>0. kept \in Seq(Nat) /\ Len(kept) = Len(F[p]) /\ Len(kept) \in Nat /\ snaps \in Seq(Seq(Deeds))
  BY DEF IsStack
<1>1. m \in 0..Len(list) /\ m \in 0..Len(next) /\ \A q \in 1..m : q \in 0..Len(list) /\ q <= Len(next)
  OBVIOUS
<1>2. k \in Nat /\ k <= Len(kept)
  BY <1>0, AmongGrows
<1>3. \A q \in 0..m : G[q] = F[q]
  <2> SUFFICES ASSUME NEW q \in 0..m PROVE G[q] = F[q]
    OBVIOUS
  <2>1. q \in 0..Len(list) /\ q <= Len(next) /\ \A r \in 1..q : next[r] = list[r]
    OBVIOUS
  <2> QED BY <2>1, AmongSame
<1>4. SharedAt(next, m) = SharedAt(list, m) /\ SharedAt(list, m) \subseteq SharedAt(list, p)
  BY DEF SharedAt
<1>5. Named(list, m) = Named(next, m)
  BY <1>4 DEF Named, SharedAt
<1>6. ids \in Seq(Nat) /\ Len(ids) = k /\ \A x \in 1..k : ids[x] = kept[x] /\ x \in 1..Len(kept)
  <2> HIDE DEF k
  <2> QED BY <1>0, <1>2, SMTT(30)
<1>7. \A q \in SharedAt(next, m) : snaps[ids[Len(G[q])]] = Since(start, next, q)
  <2> SUFFICES ASSUME NEW q \in SharedAt(next, m) PROVE snaps[ids[Len(G[q])]] = Since(start, next, q)
    OBVIOUS
  <2>1. q \in SharedAt(list, m) /\ q \in SharedAt(list, p) /\ q \in 0..m
    BY <1>4 DEF SharedAt
  <2>2. Len(F[q]) \in 1..k
    BY <2>1, <1>1, StackIds
  <2>3. snaps[kept[Len(F[q])]] = Since(start, list, q)
    BY <2>1 DEF IsStack
  <2>4. G[q] = F[q]
    BY <2>1, <1>3
  <2>5. Since(start, next, q) = Since(start, list, q)
    BY <2>4 DEF Since
  <2> HIDE DEF k, ids, F, G
  <2> QED BY <2>2, <2>3, <2>4, <2>5, <1>6
<1>8. Len(ids) = Len(G[m])
  BY <1>6, <1>3
<1> HIDE DEF k
<1>9. \A x \in 1..Len(ids) : ids[x] \in 1..Len(snaps)
  BY <1>6 DEF IsStack
<1>10. \A x, y \in 1..Len(ids) : x < y => ids[x] < ids[y]
  BY <1>6 DEF IsStack
<1> HIDE DEF ids
<1>11. IsStack(next, m, Named(list, m), ids, snaps, start)
  BY <1>0, <1>5, <1>6, <1>7, <1>8, <1>9, <1>10 DEF IsStack
<1> QED BY <1>11 DEF ids, k

-----------------------------------------------------------------------------
\* Going back to a snapshot and taking it again leaves those up to it as they were.
LEMMA TakenAgain ==
  ASSUME NEW snaps \in Seq(Seq(Deeds)), NEW id \in 1..Len(snaps)
  PROVE  LET again == takeSnapshot(snaps[id], revert(snaps, id)) IN
         /\ again \in Seq(Seq(Deeds)) /\ Len(again) = id
         /\ \A x \in 1..id : again[x] = snaps[x]
<1>1. snaps[id] \in Seq(Deeds) /\ id - 1 \in 0..Len(snaps) /\ id \in Nat
  OBVIOUS
<1> DEFINE front == SubSeq(snaps, 1, id - 1)
<1>2. front \in Seq(Seq(Deeds)) /\ Len(front) = id - 1 /\ \A x \in 1..(id - 1) : front[x] = snaps[x]
  BY <1>1
<1> HIDE DEF front
<1> DEFINE again == Append(front, snaps[id])
<1>3. /\ again \in Seq(Seq(Deeds)) /\ Len(again) = Len(front) + 1
      /\ \A x \in 1..Len(front) : again[x] = front[x]
      /\ again[Len(front) + 1] = snaps[id]
  BY <1>1, <1>2, AppendProperties
<1> HIDE DEF again
<1>4. \A x \in 1..id : again[x] = snaps[x]
  <2> SUFFICES ASSUME NEW x \in 1..id PROVE again[x] = snaps[x]
    OBVIOUS
  <2>1. x \in 1..(id - 1) \/ x = id
    OBVIOUS
  <2> QED BY <2>1, <1>2, <1>3
<1>5. again = takeSnapshot(snaps[id], revert(snaps, id))
  BY DEF again, front, takeSnapshot, revert
<1> QED BY <1>2, <1>3, <1>4, <1>5

\* The id is the one it had, so that what is kept stays.
LEMMA KeptAgain ==
  ASSUME NEW kept \in Seq(Nat), kept # <<>>, NEW again, again = Append(Front(kept), Last(kept))
  PROVE  again = kept
<1> DEFINE k == Len(kept)
           front == SubSeq(kept, 1, k - 1)
<1>0. again = Append(front, kept[k])
  BY DEF Front, Last
<1>1. k \in Nat /\ k # 0 /\ kept[k] \in Nat /\ k - 1 \in 0..Len(kept)
  <2>1. k \in Nat \ {0}
    BY EmptySeq
  <2>2. k \in 1..Len(kept)
    BY <2>1
  <2> QED BY <2>1, <2>2, ElementOfSeq
<1>2. front \in Seq(Nat) /\ Len(front) = k - 1 /\ \A x \in 1..(k - 1) : front[x] = kept[x]
  <2> DEFINE j == k - 1
  <2>1. j \in 0..Len(kept)
    BY <1>1
  <2> HIDE DEF j
  <2>2. LET f == SubSeq(kept, 1, j) IN
          f \in Seq(Nat) /\ Len(f) = j /\ \A x \in 1..j : f[x] = kept[x]
    BY <2>1
  <2> QED BY <2>2 DEF j
<1> HIDE DEF front
<1>3. /\ again \in Seq(Nat) /\ Len(again) = Len(front) + 1
      /\ \A x \in 1..Len(front) : again[x] = front[x]
      /\ again[Len(front) + 1] = kept[k]
  BY <1>0, <1>1, <1>2, AppendProperties
<1>4. Len(again) = k /\ \A x \in 1..k : again[x] = kept[x]
  <2>1. Len(again) = k
    BY <1>1, <1>2, <1>3
  <2>2. ASSUME NEW x \in 1..k PROVE again[x] = kept[x]
    <3>1. x \in 1..(k - 1) \/ x = k
      OBVIOUS
    <3>2. CASE x \in 1..(k - 1)
      BY <3>2, <1>1, <1>2, <1>3
    <3>3. CASE x = k
      <4>1. Len(front) + 1 = k
        BY <1>1, <1>2
      <4> QED BY <3>3, <4>1, <1>3
    <3> QED BY <3>1, <3>2, <3>3
  <2> QED BY <2>1, <2>2
<1> QED BY <1>3, <1>4, SeqEqual
-----------------------------------------------------------------------------
\* Once n hooks of a list ran, those of them that are shared are set up, and if there is
\* one, the chain holds what all that are set up did, and what ran after the last one.
IsChain(list, n, p, chain, start) ==
  /\ SharedAt(list, n) \subseteq 1..p
  /\ \A l \in SharedAt(list, n) : SharedAt(list, n) \subseteq 1..l =>
       chain = Since(start, list, p) \o SubSeq(list, l + 1, n)

\* This holds of the test whose hooks run.  (A hook that failed leaves the stack.)
TestsInv ==
  /\ evm \in Seq(Deeds) /\ base \in Seq(Deeds)
  /\ at \in [test : 1..(Len(Schedule) + 1), hook : Nat, failed : Hooks \cup {"none"}]
  /\ ~Done =>
       /\ at.hook <= Len(hooks)
       /\ \E p \in 0..Len(hooks) :
            /\ IsStack(hooks, p, initialized, SNAPSHOTS, taken, base)
            /\ at.failed = "none" => IsChain(hooks, at.hook, p, evm, base)

\* The next shared hook is put behind those that are set up.
LEMMA AmongNext ==
  ASSUME NEW list \in Seq(Hooks), NEW p \in 0..Len(list),
         NEW n \in (p + 1)..Len(list), list[n] \in SharedHooks, SharedAt(list, n - 1) \subseteq 1..p
  PROVE  sharedAmong(list)[n] = Append(sharedAmong(list)[p], list[n])
<1> DEFINE F == sharedAmong(list)
<1>1. n \in 1..Len(list) /\ n - 1 \in p..Len(list) /\ p \in 0..Len(list)
  OBVIOUS
<1>2. F[n] = Append(F[n - 1], list[n])
  BY <1>1, AmongUnfolds
<1>3. F[n - 1] = F[p]
  BY <1>1, AmongStays
<1> QED BY <1>2, <1>3

\* Where a hook goes on from.
LEMMA FoundIs ==
  ASSUME NEW list \in Seq(Hooks), NEW p \in 0..Len(list),
         IsStack(list, p, initialized, SNAPSHOTS, taken, base), evm \in Seq(Deeds), base \in Seq(Deeds)
  PROVE  /\ found.kept = SNAPSHOTS /\ found.taken \in Seq(Seq(Deeds)) /\ found.state \in Seq(Deeds)
         /\ \A x \in 1..Len(SNAPSHOTS) : /\ SNAPSHOTS[x] \in 1..Len(found.taken)
                                         /\ found.taken[SNAPSHOTS[x]] = taken[SNAPSHOTS[x]]
         /\ SNAPSHOTS = <<>> => found.state = evm
         /\ SNAPSHOTS # <<>> => found.state = Since(base, list, p)
<1>0. SNAPSHOTS \in Seq(Nat) /\ taken \in Seq(Seq(Deeds))
      /\ \A x \in 1..Len(SNAPSHOTS) : SNAPSHOTS[x] \in 1..Len(taken)
  BY DEF IsStack
<1>1. CASE SNAPSHOTS = <<>>
  <2>1. found.kept = <<>> /\ found.taken = taken /\ found.state = evm
    BY <1>1 DEF found
  <2> QED BY <2>1, <1>0, <1>1
<1>2. CASE SNAPSHOTS # <<>>
  <2> DEFINE id == Last(SNAPSHOTS)
             again == takeSnapshot(taken[id], revert(taken, id))
  <2>1. /\ id \in 1..Len(taken) /\ taken[id] = Since(base, list, p) /\ taken[id] \in Seq(Deeds)
        /\ \A x \in 1..Len(SNAPSHOTS) : SNAPSHOTS[x] \in 1..id
    <3>1. IsStack(list, p, initialized, SNAPSHOTS, taken, base)
      OBVIOUS
    <3> QED BY <1>2, <3>1, StackTop, ZenonT(60)
  <2>2. found.kept = Append(Front(SNAPSHOTS), Len(again)) /\ found.taken = again
        /\ found.state = taken[id]
    BY <1>2 DEF found
  <2> HIDE DEF id
  <2>3. again \in Seq(Seq(Deeds)) /\ Len(again) = id /\ \A x \in 1..id : again[x] = taken[x]
    BY <2>1, <1>0, TakenAgain
  <2> HIDE DEF again
  <2>4. found.kept = SNAPSHOTS
    BY <2>2, <2>3, <1>0, <1>2, KeptAgain DEF id
  <2> QED BY <2>1, <2>2, <2>3, <2>4, <1>2
<1> QED BY <1>1, <1>2

\* What there is to know when a hook runs.
LEMMA ListAt ==
  ASSUME TestsInv, HookRuns
  PROVE  /\ ~Done /\ hooks \in Seq(Hooks) /\ Distinct(hooks) /\ at.test \in 1..Len(Schedule)
         /\ at.hook + 1 \in 1..Len(hooks) /\ hook \in Hooks /\ hook = hooks[at.hook + 1]
         /\ \E p \in 0..Len(hooks) :
              /\ IsStack(hooks, p, initialized, SNAPSHOTS, taken, base)
              /\ IsChain(hooks, at.hook, p, evm, base)
<1>1. ~Done /\ at.failed = "none" /\ at.hook < Len(hooks) /\ at.hook \in Nat
  BY DEF TestsInv, HookRuns
<1>2. at.test \in 1..Len(Schedule)
  BY <1>1, ListsOfHooks DEF TestsInv, Done
<1>3. hooks \in Seq(Hooks) /\ Distinct(hooks)
  BY <1>2, ListsOfHooks DEF hooks
<1>4. at.hook + 1 \in 1..Len(hooks)
  BY <1>1, <1>3
<1>5. hook = hooks[at.hook + 1] /\ hook \in Hooks
  BY <1>3, <1>4 DEF hook
<1> QED BY <1>1, <1>2, <1>3, <1>4, <1>5 DEF TestsInv

\* A step from one hook to the next keeps the invariant if it leaves such a stack and
\* chain.
LEMMA HookAdvances ==
  ASSUME TestsInv, HookRuns, HookDone, evm' \in Seq(Deeds), base' \in Seq(Deeds),
         NEW list, list = hooks, NEW n, n = at.hook + 1, NEW p \in 0..Len(list),
         IsStack(list, p, initialized', SNAPSHOTS', taken', base'), IsChain(list, n, p, evm', base')
  PROVE  TestsInv'
<1>1. at' = [at EXCEPT !.hook = @ + 1]
  BY DEF HookDone
<1>2. at.hook + 1 \in 1..Len(hooks) /\ ~Done
  BY ListAt
<1>3. at \in [test : 1..(Len(Schedule) + 1), hook : Nat, failed : Hooks \cup {"none"}]
  BY DEF TestsInv
<1>4. at'.test = at.test /\ at'.hook = n /\ at'.failed = at.failed /\
      at' \in [test : 1..(Len(Schedule) + 1), hook : Nat, failed : Hooks \cup {"none"}]
  BY <1>1, <1>3, SMTT(30)
<1>5. hooks' = list
  BY <1>4 DEF hooks
<1>6. at'.hook <= Len(list)
  BY <1>2, <1>4
<1> QED BY <1>4, <1>5, <1>6 DEF TestsInv

\* What a hook that is set up puts on the stack is on top of what was there.
LEMMA SetUpStacks ==
  ASSUME NEW list \in Seq(Hooks), NEW p \in 0..Len(list), NEW done, NEW kept, NEW snaps,
         NEW start \in Seq(Deeds), IsStack(list, p, done, kept, snaps, start),
         NEW n \in (p + 1)..Len(list), list[n] \in SharedHooks, SharedAt(list, n - 1) \subseteq 1..p,
         NEW again \in Seq(Seq(Deeds)),
         \A x \in 1..Len(kept) : kept[x] \in 1..Len(again) /\ again[kept[x]] = snaps[kept[x]],
         NEW chain, Extends(chain, Since(start, list, p), list[n], Deeds),
         NEW after, Extends(after, again, chain, Seq(Deeds)),
         NEW ids, Extends(ids, kept, Len(after), Nat)
  PROVE  /\ IsStack(list, n, done \cup {list[n]}, ids, after, start)
         /\ IsChain(list, n, n, chain, start)
<1> DEFINE F == sharedAmong(list)
           id == Len(after)
<1>1. n \in 1..Len(list) /\ n \in 0..Len(list) /\ list[n] \in Hooks
  OBVIOUS
<1>2. F[p] \in Seq(Hooks) /\ F[n] \in Seq(Hooks)
  BY <1>1, AmongUnfolds
<1>3. F[n] = Append(F[p], list[n])
  BY AmongNext
<1> HIDE DEF F
<1>4. list[n] \in Deeds /\ F[p] \in Seq(Deeds) /\ F[n] \in Seq(Deeds)
  <2>1. Hooks \subseteq Deeds
    BY DeedsOf
  <2> QED BY <1>1, <1>2, <2>1, SeqMonotonic
<1>5. chain = Since(start, list, n)
  <2>1. Since(start, list, p) = start \o F[p] /\ Since(start, list, n) = start \o F[n]
    BY DEF Since, F
  <2> DEFINE old == start \o F[p]
             new == start \o F[n]
  <2>2. /\ old \in Seq(Deeds) /\ Len(old) = Len(start) + Len(F[p])
        /\ \A x \in 1..Len(old) : old[x] = IF x <= Len(start) THEN start[x] ELSE F[p][x - Len(start)]
    BY <1>4, ConcatProperties
  <2>3. /\ new \in Seq(Deeds) /\ Len(new) = Len(start) + Len(F[n])
        /\ \A x \in 1..Len(new) : new[x] = IF x <= Len(start) THEN start[x] ELSE F[n][x - Len(start)]
    BY <1>4, ConcatProperties
  <2> HIDE DEF old, new
  <2>4. /\ Len(F[n]) = Len(F[p]) + 1 /\ F[n][Len(F[p]) + 1] = list[n]
        /\ \A x \in 1..Len(F[p]) : F[n][x] = F[p][x]
    BY <1>3, <1>2, <1>1, AppendProperties
  <2>5. Len(start) \in Nat /\ Len(F[p]) \in Nat
    BY <1>2
  <2>6. /\ chain \in Seq(Deeds) /\ Len(chain) = Len(old) + 1 /\ chain[Len(old) + 1] = list[n]
        /\ \A x \in 1..Len(old) : chain[x] = old[x]
    BY <2>1 DEF Extends, old
  <2>7. Len(chain) = Len(new)
    BY <2>2, <2>3, <2>4, <2>5, <2>6
  <2>8. ASSUME NEW x \in 1..Len(chain) PROVE chain[x] = new[x]
    <3>1. CASE x = Len(old) + 1
      <4>1. ~(x <= Len(start)) /\ x - Len(start) = Len(F[p]) + 1 /\ x \in 1..Len(new)
        BY <3>1, <2>2, <2>5, <2>7
      <4> QED BY <4>1, <3>1, <2>3, <2>4, <2>6
    <3>2. CASE x # Len(old) + 1
      <4>1. x \in 1..Len(old) /\ x \in 1..Len(new)
        BY <3>2, <2>2, <2>5, <2>6, <2>7
      <4>2. CASE x <= Len(start)
        BY <4>1, <4>2, <2>2, <2>3, <2>6
      <4>3. CASE ~(x <= Len(start))
        <5>1. x - Len(start) \in 1..Len(F[p])
          BY <4>1, <4>3, <2>2, <2>5, SMTT(30)
        <5> QED BY <4>1, <4>3, <5>1, <2>2, <2>3, <2>4, <2>6
      <4> QED BY <4>2, <4>3
    <3> QED BY <3>1, <3>2
  <2>9. chain = new
    BY <2>3, <2>6, <2>7, <2>8, SeqEqual
  <2> QED BY <2>1, <2>9 DEF new
<1>6. chain \in Seq(Deeds)
  BY DEF Extends
<1>7. /\ after \in Seq(Seq(Deeds)) /\ Len(after) = Len(again) + 1
      /\ \A x \in 1..Len(again) : after[x] = again[x]
      /\ after[Len(again) + 1] = chain
  BY DEF Extends
<1>8. Len(again) \in Nat
  OBVIOUS
<1>9. /\ id \in Nat /\ id \in 1..Len(after) /\ after[id] = Since(start, list, n)
      /\ \A x \in 1..Len(kept) : /\ kept[x] < id /\ kept[x] \in 1..Len(after)
                                 /\ after[kept[x]] = snaps[kept[x]]
  <2>1. id \in Nat /\ id \in 1..Len(after) /\ after[id] = chain /\ id = Len(again) + 1
    BY <1>7, <1>8
  <2>2. ASSUME NEW x \in 1..Len(kept)
        PROVE  kept[x] < id /\ kept[x] \in 1..Len(after) /\ after[kept[x]] = snaps[kept[x]]
    <3>1. kept[x] \in 1..Len(again) /\ again[kept[x]] = snaps[kept[x]]
      OBVIOUS
    <3> QED BY <3>1, <2>1, <1>7, <1>8, SMTT(30)
  <2> QED BY <2>1, <2>2, <1>5
<1> HIDE DEF id
<1>10. IsStack(list, n, done \cup {list[n]}, ids, after, start)
  <2>1. Extends(ids, kept, id, Nat)
    BY DEF id
  <2>2. /\ \A x \in 1..Len(kept) : kept[x] < id
        /\ \A x \in 1..Len(kept) : kept[x] \in 1..Len(after) /\ after[kept[x]] = snaps[kept[x]]
    BY <1>9
  <2>3. id \in Nat /\ id \in 1..Len(after) /\ after[id] = Since(start, list, n)
        /\ after \in Seq(Seq(Deeds))
    BY <1>7, <1>9
  <2> QED BY <2>1, <2>2, <2>3, StackPush, ZenonT(60)
<1>11. IsChain(list, n, n, chain, start)
  <2>1. SharedAt(list, n) \subseteq 1..n /\ n \in SharedAt(list, n)
    BY <1>1 DEF SharedAt
  <2>2. ASSUME NEW l \in SharedAt(list, n), SharedAt(list, n) \subseteq 1..l
        PROVE  chain = Since(start, list, n) \o SubSeq(list, l + 1, n)
    <3>1. l = n
      BY <2>1, <2>2, <1>1
    <3>2. SubSeq(list, l + 1, n) = <<>>
      BY <3>1, <1>1, SubSeqEmpty
    <3>3. chain \o <<>> = chain
      BY <1>6, ConcatEmptySeq
    <3> QED BY <3>2, <3>3, <1>5
  <2> QED BY <2>1, <2>2 DEF IsChain, F
<1> QED BY <1>10, <1>11

\* A shared hook that is set up, on the chain as the one before it left it.
LEMMA SetUpKeeps == ASSUME TestsInv, SetUp PROVE TestsInv'
<1>1. HookRuns /\ hook \in SharedHooks \ initialized /\ HookDone
  BY DEF SetUp
<1>2. PICK list : list = hooks
  OBVIOUS
<1>3. PICK n : n = at.hook + 1
  OBVIOUS
<1>4. /\ list \in Seq(Hooks) /\ Distinct(list) /\ n \in 1..Len(list) /\ hook = list[n] /\ hook \in Hooks
      /\ at.hook = n - 1
  <2>1. at.hook \in Nat
    BY DEF TestsInv
  <2> QED BY <1>1, <1>2, <1>3, <2>1, ListAt
<1>5. PICK p \in 0..Len(list) : /\ IsStack(list, p, initialized, SNAPSHOTS, taken, base)
                                /\ SharedAt(list, n - 1) \subseteq 1..p
  BY <1>1, <1>2, <1>4, ListAt DEF IsChain
<1>6. n \in (p + 1)..Len(list)
  <2>1. n \notin SharedAt(list, p)
    BY <1>1, <1>4, <1>5 DEF IsStack, Named
  <2> QED BY <2>1, <1>1, <1>4 DEF SharedAt
<1> DEFINE F == sharedAmong(list)
<1>9. evm \in Seq(Deeds) /\ base \in Seq(Deeds)
  BY DEF TestsInv
<1> HIDE DEF F
<1>10. /\ found.kept = SNAPSHOTS /\ found.taken \in Seq(Seq(Deeds)) /\ found.state \in Seq(Deeds)
       /\ \A x \in 1..Len(SNAPSHOTS) : /\ SNAPSHOTS[x] \in 1..Len(found.taken)
                                       /\ found.taken[SNAPSHOTS[x]] = taken[SNAPSHOTS[x]]
       /\ SNAPSHOTS = <<>> => found.state = evm
       /\ SNAPSHOTS # <<>> => found.state = Since(base, list, p)
  BY <1>4, <1>5, <1>9, FoundIs
<1>11. /\ evm' = Append(found.state, hook)
       /\ taken' = Append(found.taken, evm')
       /\ SNAPSHOTS' = Append(SNAPSHOTS, Len(taken'))
       /\ initialized' = initialized \cup {hook}
       /\ base' = IF SNAPSHOTS = <<>> THEN evm ELSE base
  BY <1>10 DEF SetUp, takeSnapshot
<1>12. /\ base' \in Seq(Deeds) /\ found.state = Since(base', list, p)
       /\ IsStack(list, p, initialized, SNAPSHOTS, taken, base')
  <2>1. CASE SNAPSHOTS = <<>>
    <3>1. F[p] = <<>> /\ IsStack(list, p, initialized, SNAPSHOTS, taken, base')
      BY <1>4, <1>5, <2>1, StackEmpty DEF F
    <3>2. base' = evm /\ found.state = evm
      BY <1>10, <1>11, <2>1
    <3>3. evm \o <<>> = evm
      BY <1>9, ConcatEmptySeq
    <3> QED BY <3>1, <3>2, <3>3, <1>9 DEF Since, F
  <2>2. CASE SNAPSHOTS # <<>>
    BY <1>5, <1>9, <1>10, <1>11, <2>2
  <2> QED BY <2>1, <2>2
<1>13. /\ Extends(evm', found.state, hook, Deeds)
       /\ Extends(taken', found.taken, evm', Seq(Deeds))
       /\ Extends(SNAPSHOTS', SNAPSHOTS, Len(taken'), Nat)
  <2>1. hook \in Deeds
    BY <1>4, DeedsOf
  <2>2. Extends(evm', found.state, hook, Deeds)
    BY <2>1, <1>10, <1>11, AppendExtends
  <2>3. evm' \in Seq(Deeds)
    BY <2>2 DEF Extends
  <2>4. Extends(taken', found.taken, evm', Seq(Deeds))
    BY <2>3, <1>10, <1>11, AppendExtends
  <2>5. Len(taken') \in Nat
    BY <2>4 DEF Extends
  <2>6. SNAPSHOTS \in Seq(Nat)
    BY <1>5 DEF IsStack
  <2>7. Extends(SNAPSHOTS', SNAPSHOTS, Len(taken'), Nat)
    BY <2>5, <2>6, <1>11, AppendExtends
  <2> QED BY <2>2, <2>4, <2>7
<1>14. /\ IsStack(list, n, initialized \cup {list[n]}, SNAPSHOTS', taken', base')
       /\ IsChain(list, n, n, evm', base')
  <2>1. list[n] \in SharedHooks /\ Extends(evm', Since(base', list, p), list[n], Deeds)
    BY <1>1, <1>4, <1>12, <1>13
  <2>2. found.taken \in Seq(Seq(Deeds))
        /\ \A x \in 1..Len(SNAPSHOTS) : /\ SNAPSHOTS[x] \in 1..Len(found.taken)
                                        /\ found.taken[SNAPSHOTS[x]] = taken[SNAPSHOTS[x]]
    BY <1>10
  <2>3. list \in Seq(Hooks) /\ SharedAt(list, n - 1) \subseteq 1..p /\ n \in (p + 1)..Len(list)
    BY <1>4, <1>5, <1>6
  <2>4. base' \in Seq(Deeds) /\ IsStack(list, p, initialized, SNAPSHOTS, taken, base')
    BY <1>12
  <2> QED BY <2>1, <2>2, <2>3, <2>4, <1>13, SetUpStacks, Zenon
<1>15. evm' \in Seq(Deeds)
  BY <1>13 DEF Extends
<1>17. IsStack(list, n, initialized', SNAPSHOTS', taken', base')
  BY <1>4, <1>11, <1>14
<1>19. n \in 0..Len(list)
  BY <1>4
<1> HIDE DEF F
<1> QED BY <1>1, <1>2, <1>3, <1>12, <1>14, <1>15, <1>17, <1>19, HookAdvances

\* A shared hook that is set up goes back to the top of the stack, be that its own
\* snapshot or that of one after it.
LEMMA GoBackKeeps == ASSUME TestsInv, GoBack PROVE TestsInv'
<1>1. HookRuns /\ hook \in initialized /\ HookDone
  BY DEF GoBack
<1>2. PICK list : list = hooks
  OBVIOUS
<1>3. PICK n : n = at.hook + 1
  OBVIOUS
<1>4. /\ list \in Seq(Hooks) /\ Distinct(list) /\ n \in 1..Len(list) /\ hook = list[n] /\ hook \in Hooks
      /\ at.hook = n - 1
  <2>1. at.hook \in Nat
    BY DEF TestsInv
  <2> QED BY <1>1, <1>2, <1>3, <2>1, ListAt
<1>5. PICK p \in 0..Len(list) : /\ IsStack(list, p, initialized, SNAPSHOTS, taken, base)
                                /\ SharedAt(list, n - 1) \subseteq 1..p
  BY <1>1, <1>2, <1>4, ListAt DEF IsChain
<1>6. n \in SharedAt(list, p)
  <2>1. initialized = Named(list, p)
    BY <1>5 DEF IsStack
  <2>2. PICK q \in SharedAt(list, p) : list[q] = list[n]
    BY <2>1, <1>1, <1>4 DEF Named
  <2>3. q \in 1..Len(list)
    BY <1>5 DEF SharedAt
  <2>4. q = n
    BY <2>2, <2>3, <1>4 DEF Distinct
  <2> QED BY <2>4
<1>7. evm \in Seq(Deeds) /\ base \in Seq(Deeds) /\ base' = base /\ initialized' = initialized
  BY DEF TestsInv, GoBack
<1>8. SNAPSHOTS # <<>>
  <2>1. initialized # {}
    BY <1>1
  <2> QED BY <2>1, <1>4, <1>5, StackEmpty
<1>9. SNAPSHOTS \in Seq(Nat) /\ taken \in Seq(Seq(Deeds))
  BY <1>5 DEF IsStack
<1> DEFINE id == Last(SNAPSHOTS)
<1>10. /\ id \in 1..Len(taken) /\ taken[id] = Since(base, list, p) /\ taken[id] \in Seq(Deeds)
       /\ \A x \in 1..Len(SNAPSHOTS) : SNAPSHOTS[x] \in 1..id
  BY <1>4, <1>5, <1>7, <1>8, StackTop
<1>11. /\ evm' = taken[id] /\ taken' = takeSnapshot(taken[id], revert(taken, id))
       /\ SNAPSHOTS' = Append(Front(SNAPSHOTS), Len(taken'))
  BY DEF GoBack
<1> HIDE DEF id
<1>12. taken' \in Seq(Seq(Deeds)) /\ Len(taken') = id /\ \A x \in 1..id : taken'[x] = taken[x]
  BY <1>9, <1>10, <1>11, TakenAgain
<1>13. SNAPSHOTS' = SNAPSHOTS
  <2>1. SNAPSHOTS' = Append(Front(SNAPSHOTS), Last(SNAPSHOTS))
    BY <1>11, <1>12 DEF id
  <2> QED BY <2>1, <1>8, <1>9, KeptAgain
<1>14. IsStack(list, p, initialized, SNAPSHOTS, taken', base)
  <2>1. \A x \in 1..Len(SNAPSHOTS) : SNAPSHOTS[x] \in 1..Len(taken') /\ taken'[SNAPSHOTS[x]] = taken[SNAPSHOTS[x]]
    BY <1>10, <1>12
  <2>2. list \in Seq(Hooks) /\ taken' \in Seq(Seq(Deeds))
    BY <1>4, <1>12
  <2>3. IsStack(list, p, initialized, SNAPSHOTS, taken, base)
    BY <1>5
  <2>4. p \in 0..Len(list)
    OBVIOUS
  <2> QED BY <2>1, <2>2, <2>3, <2>4, StackStays
<1>15. IsStack(list, p, initialized', SNAPSHOTS', taken', base')
  BY <1>7, <1>13, <1>14
<1>16. IsChain(list, n, p, evm', base')
  <2>1. SharedAt(list, n) \subseteq 1..p /\ n \in SharedAt(list, n)
    BY <1>4, <1>5, <1>6 DEF SharedAt
  <2>2. ASSUME NEW l \in SharedAt(list, n), SharedAt(list, n) \subseteq 1..l
        PROVE  evm' = Since(base, list, p) \o SubSeq(list, l + 1, n)
    <3>1. l = n
      BY <2>1, <2>2, <1>4 DEF SharedAt
    <3>2. SubSeq(list, l + 1, n) = <<>>
      BY <3>1, <1>4, SubSeqEmpty
    <3>3. evm' \o <<>> = evm' /\ evm' = Since(base, list, p)
      BY <1>10, <1>11, ConcatEmptySeq
    <3> QED BY <3>2, <3>3
  <2> QED BY <2>1, <2>2, <1>7 DEF IsChain
<1>17. evm' \in Seq(Deeds) /\ base' \in Seq(Deeds)
  BY <1>7, <1>10, <1>11
<1> QED BY <1>1, <1>2, <1>3, <1>15, <1>16, <1>17, HookAdvances

\* One more hook at the end of those that ran since.
LEMMA ChainGoesOn ==
  ASSUME NEW S, NEW a \in Seq(S), NEW list \in Seq(S), NEW m \in 1..Len(list), NEW n \in m..Len(list),
         NEW old, old = a \o SubSeq(list, m, n - 1), NEW chain, Extends(chain, old, list[n], S)
  PROVE  chain = a \o SubSeq(list, m, n)
<1> DEFINE b == SubSeq(list, m, n - 1)
           c == SubSeq(list, m, n)
           new == a \o c
<1>1. n - 1 \in Int /\ m \in Int /\ n \in Int /\ \A i \in m..n : list[i] \in S
  OBVIOUS
<1>2. b \in Seq(S) /\ Len(b) = n - m /\ \A i \in 1..(n - m) : b[i] = list[m + i - 1]
  <2>1. /\ b \in Seq(S) /\ Len(b) = IF m <= n - 1 THEN (n - 1) - m + 1 ELSE 0
        /\ \A i \in 1..((n - 1) - m + 1) : b[i] = list[m + i - 1]
    BY <1>1, SubSeqProperties
  <2>2. (n - 1) - m + 1 = n - m /\ (~(m <= n - 1) => n - m = 0)
    OBVIOUS
  <2> QED BY <2>1, <2>2
<1>3. c \in Seq(S) /\ Len(c) = n - m + 1 /\ \A i \in 1..(n - m + 1) : c[i] = list[m + i - 1]
  BY <1>1, SubSeqProperties
<1> HIDE DEF b, c
<1>4. /\ a \o b \in Seq(S) /\ Len(a \o b) = Len(a) + Len(b)
      /\ \A i \in 1..(Len(a) + Len(b)) : (a \o b)[i] = IF i <= Len(a) THEN a[i] ELSE b[i - Len(a)]
  BY <1>2, ConcatProperties
<1>5. /\ a \o c \in Seq(S) /\ Len(a \o c) = Len(a) + Len(c)
      /\ \A i \in 1..(Len(a) + Len(c)) : (a \o c)[i] = IF i <= Len(a) THEN a[i] ELSE c[i - Len(a)]
  BY <1>3, ConcatProperties
<1> DEFINE k == Len(a)
           d == n - m
<1>6. k \in Nat /\ d \in Nat /\ Len(b) = d /\ Len(c) = d + 1 /\ m + (d + 1) - 1 = n
  BY <1>2, <1>3
<1>7. old = a \o b
  BY DEF b
<1>8. /\ chain \in Seq(S) /\ Len(chain) = Len(old) + 1 /\ chain[Len(old) + 1] = list[n]
      /\ \A x \in 1..Len(old) : chain[x] = old[x]
  BY DEF Extends
<1>10. /\ \A i \in 1..k : old[i] = a[i]
       /\ \A i \in 1..d : old[k + i] = b[i]
       /\ Len(old) = k + d
  <2> HIDE DEF k, d
  <2>1. /\ Len(old) = k + d
        /\ \A i \in 1..(k + d) : old[i] = IF i <= k THEN a[i] ELSE b[i - k]
    BY <1>4, <1>6, <1>7 DEF k
  <2>2. ASSUME NEW i \in 1..k PROVE old[i] = a[i]
    BY <2>1, <1>6
  <2>3. ASSUME NEW i \in 1..d PROVE old[k + i] = b[i]
    <3>1. k + i \in 1..(k + d) /\ ~(k + i <= k) /\ (k + i) - k = i
      BY <1>6
    <3> QED BY <3>1, <2>1
  <2> QED BY <2>1, <2>2, <2>3
<1>11. /\ \A i \in 1..k : new[i] = a[i]
       /\ \A i \in 1..(d + 1) : new[k + i] = c[i]
       /\ Len(new) = k + d + 1 /\ new \in Seq(S)
  <2> HIDE DEF k, d
  <2>1. /\ Len(new) = k + d + 1 /\ new \in Seq(S)
        /\ \A i \in 1..(k + d + 1) : new[i] = IF i <= k THEN a[i] ELSE c[i - k]
    <3> HIDE DEF new
    <3>1. k + (d + 1) = k + d + 1
      BY <1>6
    <3> QED BY <3>1, <1>5, <1>6 DEF k, new
  <2> HIDE DEF new
  <2>2. ASSUME NEW i \in 1..k PROVE new[i] = a[i]
    BY <2>1, <1>6
  <2>3. ASSUME NEW i \in 1..(d + 1) PROVE new[k + i] = c[i]
    <3>1. k + i \in 1..(k + d + 1) /\ ~(k + i <= k) /\ (k + i) - k = i
      BY <1>6
    <3> QED BY <3>1, <2>1
  <2> QED BY <2>1, <2>2, <2>3
<1> HIDE DEF new
<1>12. \A i \in 1..d : b[i] = c[i]
  BY <1>2, <1>3
<1>13. c[d + 1] = list[n]
  <2>1. d + 1 \in 1..(n - m + 1)
    BY <1>6
  <2> QED BY <2>1, <1>3, <1>6
<1> HIDE DEF k, d
<1>14. \A x \in 1..(k + d + 1) : chain[x] = new[x]
  <2> SUFFICES ASSUME NEW x \in 1..(k + d + 1) PROVE chain[x] = new[x]
    OBVIOUS
  <2>1. CASE x <= k
    <3>1. x \in 1..k /\ x \in 1..(k + d)
      BY <2>1, <1>6
    <3> QED BY <3>1, <1>8, <1>10, <1>11
  <2>2. CASE x > k /\ x <= k + d
    <3>1. x - k \in 1..d /\ x - k \in 1..(d + 1) /\ k + (x - k) = x /\ x \in 1..(k + d)
      BY <2>2, <1>6
    <3>2. old[x] = b[x - k] /\ new[x] = c[x - k]
      BY <3>1, <1>10, <1>11
    <3> QED BY <3>1, <3>2, <1>8, <1>10, <1>12
  <2>3. CASE x = k + d + 1
    <3>1. d + 1 \in 1..(d + 1) /\ k + (d + 1) = x
      BY <2>3, <1>6
    <3>2. new[x] = c[d + 1]
      BY <3>1, <1>11
    <3> QED BY <2>3, <3>2, <1>8, <1>10, <1>13
  <2>4. x <= k \/ (x > k /\ x <= k + d) \/ x = k + d + 1
    BY <1>6
  <2> QED BY <2>1, <2>2, <2>3, <2>4
<1>9. chain = new
  <2>1. Len(chain) = Len(new) /\ Len(chain) = k + d + 1
    BY <1>8, <1>10, <1>11
  <2> QED BY <2>1, <1>8, <1>11, <1>14, SeqEqual
<1> QED BY <1>9 DEF new, c

\* A plain hook does something to the chain, and nothing to snapshots.
LEMMA PlainHookKeeps == ASSUME TestsInv, PlainHook PROVE TestsInv'
<1>1. HookRuns /\ hook \notin SharedHooks /\ HookDone
  BY DEF PlainHook
<1>2. PICK list : list = hooks
  OBVIOUS
<1>3. PICK n : n = at.hook + 1
  OBVIOUS
<1>4. /\ list \in Seq(Hooks) /\ n \in 1..Len(list) /\ hook = list[n] /\ hook \in Hooks
      /\ at.hook = n - 1
  <2>1. at.hook \in Nat
    BY DEF TestsInv
  <2> QED BY <1>1, <1>2, <1>3, <2>1, ListAt
<1>5. PICK p \in 0..Len(list) : /\ IsStack(list, p, initialized, SNAPSHOTS, taken, base)
                                /\ IsChain(list, n - 1, p, evm, base)
  BY <1>1, <1>2, <1>4, ListAt
<1>6. evm \in Seq(Deeds) /\ base \in Seq(Deeds) /\ hook \in Deeds /\ list \in Seq(Deeds)
  <2>1. Hooks \subseteq Deeds
    BY DeedsOf
  <2>2. list \in Seq(Deeds)
    BY <2>1, <1>4, SeqMonotonic
  <2> QED BY <2>1, <2>2, <1>4 DEF TestsInv
<1>7. evm' = Append(evm, hook) /\ UNCHANGED <<taken, SNAPSHOTS, initialized, base>>
  BY DEF PlainHook
<1>8. Extends(evm', evm, list[n], Deeds)
  BY <1>4, <1>6, <1>7, AppendExtends
<1>9. Since(base, list, p) \in Seq(Deeds)
  <2>1. sharedAmong(list)[p] \in Seq(Hooks)
    BY <1>4, AmongUnfolds
  <2>2. sharedAmong(list)[p] \in Seq(Deeds)
    BY <2>1, DeedsOf, SeqMonotonic
  <2> QED BY <2>2, <1>6, ConcatProperties DEF Since
<1>10. SharedAt(list, n) = SharedAt(list, n - 1)
  BY <1>1, <1>4 DEF SharedAt
<1>11. IsChain(list, n, p, evm', base')
  <2>1. ASSUME NEW l \in SharedAt(list, n), SharedAt(list, n) \subseteq 1..l
        PROVE  evm' = Since(base, list, p) \o SubSeq(list, l + 1, n)
    <3>1. evm = Since(base, list, p) \o SubSeq(list, l + 1, n - 1)
      BY <2>1, <1>5, <1>10 DEF IsChain
    <3>2. l + 1 \in 1..Len(list) /\ n \in (l + 1)..Len(list)
      BY <1>10, <1>4 DEF SharedAt
    <3> DEFINE m == l + 1
               a == Since(base, list, p)
    <3>3. m \in 1..Len(list) /\ n \in m..Len(list) /\ a \in Seq(Deeds) /\ evm = a \o SubSeq(list, m, n - 1)
      BY <3>1, <3>2, <1>9
    <3> HIDE DEF m, a
    <3>4. evm' = a \o SubSeq(list, m, n)
      BY <3>3, <1>6, <1>8, ChainGoesOn
    <3> QED BY <3>4 DEF m, a
  <2>2. SharedAt(list, n) \subseteq 1..p
    BY <1>5, <1>10 DEF IsChain
  <2> QED BY <2>1, <2>2, <1>7 DEF IsChain
<1>12. IsStack(list, p, initialized', SNAPSHOTS', taken', base')
  BY <1>5, <1>7
<1>13. evm' \in Seq(Deeds) /\ base' \in Seq(Deeds)
  BY <1>6, <1>7, <1>8 DEF Extends
<1> QED BY <1>1, <1>2, <1>3, <1>11, <1>12, <1>13, HookAdvances

\* A hook that fails leaves the snapshots below it, whatever it did to the chain.
LEMMA FailSetUpKeeps == ASSUME TestsInv, NEW partly \in BOOLEAN, FailSetUp(partly) PROVE TestsInv'
<1>1. HookRuns /\ at' = [at EXCEPT !.failed = hook]
  BY DEF FailSetUp
<1>2. PICK list : list = hooks
  OBVIOUS
<1>3. list \in Seq(Hooks) /\ hook \in Hooks /\ at.hook + 1 \in 1..Len(list)
  BY <1>1, <1>2, ListAt
<1>4. PICK p \in 0..Len(list) : IsStack(list, p, initialized, SNAPSHOTS, taken, base)
  BY <1>1, <1>2, ListAt
<1>5. evm \in Seq(Deeds) /\ base \in Seq(Deeds)
  BY DEF TestsInv
<1>6. /\ found.kept = SNAPSHOTS /\ found.taken \in Seq(Seq(Deeds)) /\ found.state \in Seq(Deeds)
      /\ \A x \in 1..Len(SNAPSHOTS) : /\ SNAPSHOTS[x] \in 1..Len(found.taken)
                                      /\ found.taken[SNAPSHOTS[x]] = taken[SNAPSHOTS[x]]
  BY <1>3, <1>4, <1>5, FoundIs
<1>7. evm' \in Seq(Deeds)
  <2> DEFINE part == "part of " \o hook
  <2>1. part \in Deeds
    BY <1>3, DeedsOf
  <2>2. evm' = IF partly THEN Append(found.state, part) ELSE found.state
    BY DEF FailSetUp
  <2> HIDE DEF part
  <2>3. Append(found.state, part) \in Seq(Deeds)
    BY <2>1, <1>6, AppendProperties
  <2> QED BY <2>2, <2>3, <1>6
<1>8. taken' = found.taken /\ SNAPSHOTS' = SNAPSHOTS /\ initialized' = initialized /\ base' = base
  BY <1>6 DEF FailSetUp
<1>9. IsStack(list, p, initialized, SNAPSHOTS, found.taken, base)
  <2>1. p \in 0..Len(list) /\ found.taken \in Seq(Seq(Deeds))
        /\ \A x \in 1..Len(SNAPSHOTS) : /\ SNAPSHOTS[x] \in 1..Len(found.taken)
                                        /\ found.taken[SNAPSHOTS[x]] = taken[SNAPSHOTS[x]]
    BY <1>6
  <2> QED BY <2>1, <1>3, <1>4, StackStays
<1>10. IsStack(list, p, initialized', SNAPSHOTS', taken', base')
  BY <1>8, <1>9
<1>11. /\ at' \in [test : 1..(Len(Schedule) + 1), hook : Nat, failed : Hooks \cup {"none"}]
       /\ at'.test = at.test /\ at'.hook = at.hook /\ at'.failed = hook
  BY <1>1, <1>3 DEF TestsInv
<1>12. hook # "none"
  BY <1>3, ScheduleAssumption
<1>13. hooks' = list /\ at'.hook <= Len(list) /\ at'.failed # "none"
  <2>1. at.hook <= Len(list) /\ hooks' = list
    BY <1>1, <1>2, <1>11 DEF TestsInv, HookRuns, hooks
  <2> QED BY <2>1, <1>11, <1>12
<1> QED BY <1>5, <1>7, <1>8, <1>10, <1>11, <1>13 DEF TestsInv

\* A set of places has a last one.
LEMMA Largest ==
  ASSUME NEW p \in Nat, NEW A \in SUBSET (0..p), A # {}
  PROVE  \E m \in A : \A q \in A : q <= m
<1> DEFINE Has(B) == B # {} => \E m \in B : \A q \in B : q <= m
           T == {n \in Nat : \A B \in SUBSET (0..n) : Has(B)}
<1>1. 0 \in T
  <2>1. ASSUME NEW B \in SUBSET (0..0), B # {} PROVE \E m \in B : \A q \in B : q <= m
    <3>1. \A q \in 0..0 : q = 0
      OBVIOUS
    <3>2. PICK q \in B : TRUE
      BY <2>1
    <3>3. \A r \in B : r = 0 /\ q = 0
      BY <3>1
    <3> QED BY <3>2, <3>3
  <2> QED BY <2>1
<1>2. \A n \in Nat : n \in T => n + 1 \in T
  <2> SUFFICES ASSUME NEW n \in Nat, n \in T, NEW B \in SUBSET (0..(n + 1)) PROVE Has(B)
    <3> HIDE DEF Has
    <3> QED OBVIOUS
  <2>1. CASE n + 1 \in B
    BY <2>1
  <2>2. CASE n + 1 \notin B
    <3>1. B \in SUBSET (0..n)
      BY <2>2
    <3> HIDE DEF Has
    <3> QED BY <3>1
  <2> QED BY <2>1, <2>2
<1>3. Nat \subseteq T
  <2> HIDE DEF T
  <2> QED BY <1>1, <1>2, SetInduction
<1> QED BY <1>3

\* Of the hooks set up, those around the next test are the ones before some place of both.
LEMMA AroundNext ==
  ASSUME NEW i \in 1..Len(Schedule), NEW j \in (i + 1)..Len(Schedule), NEW p \in 0..Len(Schedule[i])
  PROVE  \E m \in 0..p :
           /\ m <= Len(Schedule[j]) /\ \A r \in 1..m : Schedule[j][r] = Schedule[i][r]
           /\ Named(Schedule[i], p) \cap UNION {ToSet(Schedule[k]) : k \in j..Len(Schedule)}
                = Named(Schedule[i], m)
<1> DEFINE list == Schedule[i]
           next == Schedule[j]
           rest == UNION {ToSet(Schedule[k]) : k \in j..Len(Schedule)}
           Around == {q \in SharedAt(list, p) : list[q] \in rest}
<1>1. /\ Len(Schedule) \in Nat /\ i \in DOMAIN Schedule /\ j \in DOMAIN Schedule
      /\ \A k \in 1..Len(Schedule) : /\ Schedule[k] \in Seq(Hooks) /\ k \in DOMAIN Schedule
                                     /\ DOMAIN Schedule[k] = 1..Len(Schedule[k])
  BY ScheduleAssumption, ListsOfHooks
<1>2. ASSUME NEW q \in Around
      PROVE  q \in 1..p /\ q <= Len(next) /\ \A r \in 1..q : next[r] = list[r]
  <2>1. PICK k \in j..Len(Schedule) : list[q] \in ToSet(Schedule[k])
    BY <1>2
  <2>2. k \in 1..Len(Schedule) /\ i <= k /\ j \in i..k
    BY <2>1
  <2>3. PICK s \in DOMAIN Schedule[k] : Schedule[k][s] = list[q]
    BY <2>1 DEF ToSet
  <2>4. q \in DOMAIN Schedule[i] /\ q \in 1..p
    BY <1>1, <1>2 DEF SharedAt
  <2>5. SuitesNested
    BY ScheduleAssumption
  <2>6. \A t \in i..k : q <= Len(Schedule[t]) /\ \A r \in 1..q : Schedule[t][r] = Schedule[i][r]
    <3>1. i \in DOMAIN Schedule /\ k \in DOMAIN Schedule /\ Schedule[i][q] = Schedule[k][s]
      BY <2>2, <2>3, <1>1
    <3>2. \A x \in i..k : /\ q <= Len(Schedule[x])
                          /\ \A r \in 1..q : Schedule[x][r] = Schedule[i][r]
      BY <3>1, <2>2, <2>3, <2>4, <2>5 DEF SuitesNested
    <3> QED BY <3>2
  <2> QED BY <2>2, <2>4, <2>6
<1>3. CASE Around = {}
  <2>1. Named(list, p) \cap rest = {}
    BY <1>3 DEF Named
  <2>2. Named(list, 0) = {}
    BY DEF Named, SharedAt
  <2>3. 0 \in 0..p /\ 0 <= Len(next)
    BY <1>1
  <2> HIDE DEF Around, rest
  <2> QED BY <2>1, <2>2, <2>3 DEF rest
<1>4. CASE Around # {}
  <2>1. PICK m \in Around : \A q \in Around : q <= m
    <3>1. Around \in SUBSET (0..p) /\ p \in Nat
      BY <1>2, <1>1
    <3> HIDE DEF Around
    <3> QED BY <3>1, <1>4, Largest
  <2>2. m \in 1..p /\ m <= Len(next) /\ \A r \in 1..m : next[r] = list[r]
    BY <1>2
  <2>3. Around = SharedAt(list, m)
    <3>1. ASSUME NEW q \in SharedAt(list, m) PROVE q \in Around
      <4>1. q \in SharedAt(list, p) /\ q \in 1..m
        BY <2>2 DEF SharedAt
      <4>2. list[q] = next[q] /\ q \in DOMAIN next
        BY <4>1, <2>2, <1>1
      <4>3. list[q] \in ToSet(next)
        BY <4>2 DEF ToSet
      <4>4. j \in j..Len(Schedule)
        OBVIOUS
      <4> QED BY <4>1, <4>3, <4>4
    <3>2. ASSUME NEW q \in Around PROVE q \in SharedAt(list, m)
      <4>1. q \in SharedAt(list, p)
        BY <3>2
      <4>2. q \in 1..p /\ q <= m
        BY <3>2, <2>1, <1>2
      <4>3. q \in 1..m /\ list[q] \in SharedHooks
        BY <4>1, <4>2, <2>2 DEF SharedAt
      <4> QED BY <4>3 DEF SharedAt
    <3> QED BY <3>1, <3>2
  <2>4. Named(list, p) \cap rest = Named(list, m)
    <3>1. Named(list, p) \cap rest = {list[q] : q \in Around}
      BY DEF Named
    <3> QED BY <3>1, <2>3 DEF Named
  <2> HIDE DEF Around, rest
  <2> QED BY <2>2, <2>4, SMTT(30) DEF rest
<1> QED BY <1>3, <1>4

\* At the end of suites their hooks come off the stack, and no others.
LEMMA AfterKeeps ==
  ASSUME TestsInv, ~Done, NEW j \in (at.test + 1)..(Len(Schedule) + 1), After(at.test, j),
         evm' \in Seq(Deeds), taken' = taken, base' = base
  PROVE  TestsInv'
<1>1. PICK i : i = at.test
  OBVIOUS
<1>2. i \in 1..Len(Schedule) /\ Len(Schedule) \in Nat /\ j \in (i + 1)..(Len(Schedule) + 1)
  BY <1>1, ListsOfHooks DEF TestsInv, Done
<1>3. at' = [test |-> j, hook |-> 0, failed |-> "none"]
  BY DEF After
<1>4. at'.test = j /\ at'.hook = 0 /\ at'.failed = "none"
      /\ at' \in [test : 1..(Len(Schedule) + 1), hook : Nat, failed : Hooks \cup {"none"}]
  BY <1>2, <1>3
<1>5. base' \in Seq(Deeds)
  BY DEF TestsInv
<1>6. CASE j = Len(Schedule) + 1
  <2>1. Done'
    BY <1>2, <1>4, <1>6 DEF Done
  <2> QED BY <2>1, <1>4, <1>5 DEF TestsInv
<1>7. CASE j # Len(Schedule) + 1
  <2> DEFINE list == Schedule[i]
             next == Schedule[j]
             F == sharedAmong(list)
             before == UNION {ToSet(Schedule[k]) : k \in i..(j - 1)}
             rest == UNION {ToSet(Schedule[k]) : k \in j..Len(Schedule)}
             over == (before \ rest) \cap initialized
  <2>1. j \in (i + 1)..Len(Schedule) /\ j \in 1..Len(Schedule) /\ i \in i..(j - 1)
    BY <1>2, <1>7
  <2>2. list \in Seq(Hooks) /\ Distinct(list) /\ next \in Seq(Hooks)
    BY <1>2, <2>1, ListsOfHooks
  <2>3. hooks = list /\ hooks' = next
    BY <1>1, <1>4 DEF hooks
  <2>4. PICK p \in 0..Len(list) : IsStack(list, p, initialized, SNAPSHOTS, taken, base)
    BY <2>3 DEF TestsInv
  <2>5. PICK m \in 0..p : /\ m <= Len(next) /\ \A r \in 1..m : next[r] = list[r]
                          /\ Named(list, p) \cap rest = Named(list, m)
    <3>1. i \in 1..Len(Schedule) /\ j \in (i + 1)..Len(Schedule) /\ p \in 0..Len(Schedule[i])
      BY <1>2, <2>1, <2>4
    <3> QED BY <3>1, AroundNext, ZenonT(60)
  <2>6. /\ SNAPSHOTS' = SubSeq(SNAPSHOTS, 1, Len(SNAPSHOTS) - Cardinality(over))
        /\ initialized' = initialized \ over
    BY <1>1 DEF After
  <2>7. initialized = Named(list, p) /\ Len(SNAPSHOTS) = Len(F[p])
    BY <2>4 DEF IsStack
  <2>8. Named(list, p) \subseteq before
    <3>1. Named(list, p) \subseteq ToSet(list)
      BY <2>2, <2>4 DEF Named, SharedAt, ToSet
    <3> QED BY <3>1, <2>1
  <2> HIDE DEF before, rest
  <2>9. over = Named(list, p) \ rest
    BY <2>7, <2>8
  <2>10. initialized' = Named(list, m)
    BY <2>5, <2>6, <2>7, <2>9
  <2> HIDE DEF over
  <2>11. /\ IsFiniteSet(Named(list, p)) /\ Len(F[p]) = Cardinality(Named(list, p))
         /\ Len(F[m]) = Cardinality(Named(list, m))
    <3>1. m \in 0..Len(list)
      BY <2>4, <2>5
    <3> QED BY <3>1, <2>2, <2>4, AmongCounts
  <2>12. Cardinality(over) = Len(F[p]) - Len(F[m])
    BY <2>5, <2>9, <2>11, FS_Difference
  <2>13. Len(F[p]) \in Nat /\ Len(F[m]) \in Nat
    BY <2>2, <2>4, <2>5, AmongGrows
  <2>14. Len(SNAPSHOTS) - Cardinality(over) = Len(F[m])
    <3> HIDE DEF F
    <3> QED BY <2>7, <2>12, <2>13
  <2>15. SNAPSHOTS' = SubSeq(SNAPSHOTS, 1, Len(F[m]))
    BY <2>6, <2>14
  <2>16. IsStack(next, m, Named(list, m), SubSeq(SNAPSHOTS, 1, Len(F[m])), taken, base)
    <3> HIDE DEF next, list
    <3> QED BY <2>2, <2>4, <2>5, StackPop
  <2>17. IsStack(next, m, initialized', SNAPSHOTS', taken', base')
    BY <2>10, <2>15, <2>16
  <2>18. IsChain(next, 0, m, evm', base')
    <3>1. SharedAt(next, 0) = {}
      BY DEF SharedAt
    <3> QED BY <3>1 DEF IsChain
  <2>19. m \in 0..Len(next) /\ 0 <= Len(next)
    BY <2>2, <2>5
  <2> HIDE DEF next, list
  <2> QED BY <1>4, <1>5, <2>3, <2>17, <2>18, <2>19 DEF TestsInv
<1> QED BY <1>6, <1>7

\* Every step of the hooks, the tests and the ends of suites.
LEMMA TestsStep == TestsInv /\ [SharedNext]_sharedVars => TestsInv'
<1> SUFFICES ASSUME TestsInv, [SharedNext]_sharedVars PROVE TestsInv'
  OBVIOUS
<1>1. CASE SetUp
  BY <1>1, SetUpKeeps
<1>2. CASE GoBack
  BY <1>2, GoBackKeeps
<1>3. CASE PlainHook
  BY <1>3, PlainHookKeeps
<1>4. ASSUME NEW partly \in BOOLEAN, FailSetUp(partly) PROVE TestsInv'
  BY <1>4, FailSetUpKeeps
<1>5. CASE RunTest
  <2>1. ~Done /\ After(at.test, at.test + 1) /\ taken' = taken /\ base' = base
    BY <1>5 DEF RunTest
  <2>2. at.test + 1 \in (at.test + 1)..(Len(Schedule) + 1)
    BY <2>1, ListsOfHooks DEF TestsInv, Done
  <2>3. evm' \in Seq(Deeds)
    <3>1. evm \in Seq(Deeds) /\ evm' = Append(evm, "test")
      BY <1>5 DEF TestsInv, RunTest
    <3> QED BY <3>1, DeedsOf, AppendProperties
  <2> QED BY <2>1, <2>2, <2>3, AfterKeeps
<1>6. CASE SkipSuite
  <2>1. ~Done /\ taken' = taken /\ base' = base /\ evm' = evm
    BY <1>6 DEF SkipSuite
  <2>2. PICK j \in (at.test + 1)..(Len(Schedule) + 1) : After(at.test, j)
    BY <1>6 DEF SkipSuite
  <2>3. evm' \in Seq(Deeds)
    BY <2>1 DEF TestsInv
  <2> QED BY <2>1, <2>2, <2>3, AfterKeeps
<1>7. CASE UNCHANGED sharedVars
  BY <1>7 DEF sharedVars, TestsInv, Done, hooks
<1> QED BY <1>1, <1>2, <1>3, <1>4, <1>5, <1>6, <1>7 DEF SharedNext

\* Before the first test nothing is set up.
LEMMA TestsInit == SharedInit => TestsInv
<1> SUFFICES ASSUME SharedInit PROVE TestsInv
  OBVIOUS
<1>1. /\ evm = <<>> /\ taken = <<>> /\ SNAPSHOTS = <<>> /\ initialized = {} /\ base = <<>>
      /\ at = [test |-> 1, hook |-> 0, failed |-> "none"]
  BY DEF SharedInit
<1>2. Len(Schedule) \in Nat
  BY ListsOfHooks
<1>3. /\ at \in [test : 1..(Len(Schedule) + 1), hook : Nat, failed : Hooks \cup {"none"}]
      /\ at.test = 1 /\ at.hook = 0
  BY <1>1, <1>2
<1>4. evm \in Seq(Deeds) /\ base \in Seq(Deeds)
  BY <1>1, EmptySeq
<1>5. ASSUME ~Done
      PROVE  /\ at.hook <= Len(hooks)
             /\ 0 \in 0..Len(hooks)
             /\ IsStack(hooks, 0, initialized, SNAPSHOTS, taken, base)
             /\ IsChain(hooks, at.hook, 0, evm, base)
  <2>1. 1 \in 1..Len(Schedule)
    BY <1>2, <1>3, <1>5 DEF Done
  <2>2. hooks \in Seq(Hooks)
    BY <2>1, <1>3, ListsOfHooks DEF hooks
  <2>3. 0 <= Len(hooks) /\ 0 \in 0..Len(hooks)
    BY <2>2
  <2>4. SharedAt(hooks, 0) = {} /\ Named(hooks, 0) = {}
    BY DEF SharedAt, Named
  <2>5. sharedAmong(hooks)[0] = <<>>
    BY <2>2, AmongUnfolds
  <2>6. IsChain(hooks, 0, 0, evm, base)
    BY <2>4 DEF IsChain
  <2>7. SNAPSHOTS \in Seq(Nat) /\ taken \in Seq(Seq(Deeds)) /\ Len(SNAPSHOTS) = 0
    BY <1>1, EmptySeq
  <2>8. IsStack(hooks, 0, initialized, SNAPSHOTS, taken, base)
    BY <1>1, <2>4, <2>5, <2>7 DEF IsStack
  <2> QED BY <1>3, <2>3, <2>6, <2>8
<1> QED BY <1>3, <1>4, <1>5 DEF TestsInv

\* Before a test, all the shared hooks around it are set up.
LEMMA TestsInvMeans == TestsInv => ActsAsBeforeEach
<1> SUFFICES ASSUME TestsInv, ~Done, at.failed = "none", at.hook = Len(hooks),
                    ToSet(hooks) \cap SharedHooks # {}
             PROVE  LET last == CHOOSE i \in DOMAIN hooks :
                                  /\ hooks[i] \in SharedHooks
                                  /\ \A j \in (i + 1)..Len(hooks) : hooks[j] \notin SharedHooks
                    IN  evm = base \o sharedAmong(hooks)[last] \o SubSeq(hooks, last + 1, Len(hooks))
  BY DEF ActsAsBeforeEach
<1> DEFINE list == hooks
           n == Len(list)
           Lasts(i) == list[i] \in SharedHooks /\ \A j \in (i + 1)..n : list[j] \notin SharedHooks
           last == CHOOSE i \in DOMAIN list : Lasts(i)
<1>1. at.test \in 1..Len(Schedule)
  BY ListsOfHooks DEF TestsInv, Done
<1>2. list \in Seq(Hooks) /\ n \in Nat /\ DOMAIN list = 1..n
  BY <1>1, ListsOfHooks DEF hooks
<1>3. PICK p \in 0..n : IsChain(list, n, p, evm, base)
  BY DEF TestsInv
<1> HIDE DEF n, list
<1>4. \E i \in DOMAIN list : Lasts(i)
  <2>1. SharedAt(list, n) # {} /\ SharedAt(list, n) \in SUBSET (0..n)
    BY <1>2 DEF SharedAt, ToSet, list
  <2>2. PICK m \in SharedAt(list, n) : \A q \in SharedAt(list, n) : q <= m
    BY <1>2, <2>1, Largest
  <2>3. m \in DOMAIN list /\ list[m] \in SharedHooks /\ m \in 1..n
    BY <1>2 DEF SharedAt
  <2>4. ASSUME NEW j \in (m + 1)..n PROVE list[j] \notin SharedHooks
    <3>1. j \in 1..n /\ ~(j <= m)
      BY <2>3, <1>2
    <3> QED BY <3>1, <2>2 DEF SharedAt
  <2> QED BY <2>3, <2>4
<1>5. last \in DOMAIN list /\ Lasts(last)
  BY <1>4
<1> HIDE DEF last
<1>6. last \in SharedAt(list, n) /\ last \in 1..n /\ SharedAt(list, n) \subseteq 1..last
  <2>1. last \in 1..n /\ last \in SharedAt(list, n)
    BY <1>2, <1>5 DEF SharedAt
  <2>2. ASSUME NEW q \in SharedAt(list, n) PROVE q \in 1..last
    <3>1. q \in 1..n /\ list[q] \in SharedHooks
      BY DEF SharedAt
    <3>2. q \notin (last + 1)..n
      BY <3>1, <1>5
    <3> QED BY <3>1, <3>2, <2>1, <1>2
  <2> QED BY <2>1, <2>2
<1>7. evm = Since(base, list, p) \o SubSeq(list, last + 1, n)
  BY <1>3, <1>6 DEF IsChain
<1>8. sharedAmong(list)[p] = sharedAmong(list)[last]
  <2>1. SharedAt(list, p) \subseteq 1..last
    BY <1>3, <1>6, <1>2 DEF SharedAt
  <2>2. last \in 0..Len(list) /\ p \in last..Len(list)
    BY <1>3, <1>6, <1>2 DEF IsChain, n
  <2> QED BY <1>2, <2>1, <2>2, AmongStays
<1>9. Since(base, list, p) = base \o sharedAmong(list)[last]
  BY <1>8 DEF Since
<1>10. evm = (base \o sharedAmong(list)[last]) \o SubSeq(list, last + 1, n)
  BY <1>7, <1>9
<1> QED BY <1>10 DEF last, n, list

(***************************************************************************)
(* A test finds the chain as if all the hooks around it had run just       *)
(* before it, for any nesting of suites, shared and plain hooks, and       *)
(* whatever hooks failed before (sharedBeforeEach.ts): the snapshots kept  *)
(* are, from the first, those of the shared hooks that are set up.         *)
(***************************************************************************)
THEOREM HooksActAsBeforeEach == SharedSpec => []ActsAsBeforeEach
<1>1. SharedSpec => []TestsInv
  BY TestsInit, TestsStep, PTL DEF SharedSpec
<1> QED BY <1>1, TestsInvMeans, PTL

-----------------------------------------------------------------------------
\* The kinds that a Pool decodes are counted from 0.
LEMMA DecodedIs ==
  ASSUME NEW family, NEW side, NEW kind \in Nat, kind < 255, NEW kinds, KindsOf(family, side) = kinds,
         kind < Len(kinds), NEW n, n = kind + 1
  PROVE  Decoded(family, side, kind) = kinds[n]
BY DEF Decoded, RECOVERY_MODE_EXIT_KIND

\* What the encoders write for a kind is what the Pool of that family reads.
LEMMA KindsDecoded ==
  /\ Decoded("weighted", "join", 0) = "initialize"
  /\ Decoded("weighted", "join", 1) = "exactTokensIn"
  /\ Decoded("weighted", "join", 2) = "tokenIn"
  /\ Decoded("weighted", "join", 3) = "allTokensIn"
  /\ Decoded("weighted", "exit", 0) = "oneTokenOut"
  /\ Decoded("weighted", "exit", 1) = "allTokensOut"
  /\ Decoded("weighted", "exit", 2) = "exactTokensOut"
  /\ Decoded("stable", "join", 0) = "initialize"
  /\ Decoded("stable", "join", 1) = "exactTokensIn"
  /\ Decoded("stable", "join", 2) = "tokenIn"
  /\ Decoded("stable", "exit", 0) = "oneTokenOut"
  /\ Decoded("stable", "exit", 1) = "exactTokensOut"
  /\ \A family : Decoded(family, "exit", 255) = "recovery"
<1>1. /\ Decoded("weighted", "join", 0) = "initialize"
      /\ Decoded("weighted", "join", 1) = "exactTokensIn"
      /\ Decoded("weighted", "join", 2) = "tokenIn"
      /\ Decoded("weighted", "join", 3) = "allTokensIn"
  <2>1. KindsOf("weighted", "join") = WeightedPoolJoins
    BY DEF KindsOf
  <2>2. Len(WeightedPoolJoins) = 5 /\ WeightedPoolJoins[1] = "initialize" /\ WeightedPoolJoins[2] = "exactTokensIn" /\ WeightedPoolJoins[3] = "tokenIn" /\ WeightedPoolJoins[4] = "allTokensIn"
    BY DEF WeightedPoolJoins
  <2>3. Decoded("weighted", "join", 0) = WeightedPoolJoins[1]
    <3>1. 0 \in Nat /\ 0 < 255 /\ 0 < Len(WeightedPoolJoins) /\ 1 = 0 + 1
      BY <2>2
    <3> QED BY <3>1, <2>1, DecodedIs
  <2>4. Decoded("weighted", "join", 1) = WeightedPoolJoins[2]
    <3>1. 1 \in Nat /\ 1 < 255 /\ 1 < Len(WeightedPoolJoins) /\ 2 = 1 + 1
      BY <2>2
    <3> QED BY <3>1, <2>1, DecodedIs
  <2>5. Decoded("weighted", "join", 2) = WeightedPoolJoins[3]
    <3>1. 2 \in Nat /\ 2 < 255 /\ 2 < Len(WeightedPoolJoins) /\ 3 = 2 + 1
      BY <2>2
    <3> QED BY <3>1, <2>1, DecodedIs
  <2>6. Decoded("weighted", "join", 3) = WeightedPoolJoins[4]
    <3>1. 3 \in Nat /\ 3 < 255 /\ 3 < Len(WeightedPoolJoins) /\ 4 = 3 + 1
      BY <2>2
    <3> QED BY <3>1, <2>1, DecodedIs
  <2> QED BY <2>2, <2>3, <2>4, <2>5, <2>6
<1>2. /\ Decoded("weighted", "exit", 0) = "oneTokenOut"
      /\ Decoded("weighted", "exit", 1) = "allTokensOut"
      /\ Decoded("weighted", "exit", 2) = "exactTokensOut"
  <2>1. KindsOf("weighted", "exit") = WeightedPoolExits
    BY DEF KindsOf
  <2>2. Len(WeightedPoolExits) = 4 /\ WeightedPoolExits[1] = "oneTokenOut" /\ WeightedPoolExits[2] = "allTokensOut" /\ WeightedPoolExits[3] = "exactTokensOut"
    BY DEF WeightedPoolExits
  <2>3. Decoded("weighted", "exit", 0) = WeightedPoolExits[1]
    <3>1. 0 \in Nat /\ 0 < 255 /\ 0 < Len(WeightedPoolExits) /\ 1 = 0 + 1
      BY <2>2
    <3> QED BY <3>1, <2>1, DecodedIs
  <2>4. Decoded("weighted", "exit", 1) = WeightedPoolExits[2]
    <3>1. 1 \in Nat /\ 1 < 255 /\ 1 < Len(WeightedPoolExits) /\ 2 = 1 + 1
      BY <2>2
    <3> QED BY <3>1, <2>1, DecodedIs
  <2>5. Decoded("weighted", "exit", 2) = WeightedPoolExits[3]
    <3>1. 2 \in Nat /\ 2 < 255 /\ 2 < Len(WeightedPoolExits) /\ 3 = 2 + 1
      BY <2>2
    <3> QED BY <3>1, <2>1, DecodedIs
  <2> QED BY <2>2, <2>3, <2>4, <2>5
<1>3. /\ Decoded("stable", "join", 0) = "initialize"
      /\ Decoded("stable", "join", 1) = "exactTokensIn"
      /\ Decoded("stable", "join", 2) = "tokenIn"
  <2>1. KindsOf("stable", "join") = StablePoolJoins
    BY DEF KindsOf
  <2>2. Len(StablePoolJoins) = 3 /\ StablePoolJoins[1] = "initialize" /\ StablePoolJoins[2] = "exactTokensIn" /\ StablePoolJoins[3] = "tokenIn"
    BY DEF StablePoolJoins
  <2>3. Decoded("stable", "join", 0) = StablePoolJoins[1]
    <3>1. 0 \in Nat /\ 0 < 255 /\ 0 < Len(StablePoolJoins) /\ 1 = 0 + 1
      BY <2>2
    <3> QED BY <3>1, <2>1, DecodedIs
  <2>4. Decoded("stable", "join", 1) = StablePoolJoins[2]
    <3>1. 1 \in Nat /\ 1 < 255 /\ 1 < Len(StablePoolJoins) /\ 2 = 1 + 1
      BY <2>2
    <3> QED BY <3>1, <2>1, DecodedIs
  <2>5. Decoded("stable", "join", 2) = StablePoolJoins[3]
    <3>1. 2 \in Nat /\ 2 < 255 /\ 2 < Len(StablePoolJoins) /\ 3 = 2 + 1
      BY <2>2
    <3> QED BY <3>1, <2>1, DecodedIs
  <2> QED BY <2>2, <2>3, <2>4, <2>5
<1>4. /\ Decoded("stable", "exit", 0) = "oneTokenOut"
      /\ Decoded("stable", "exit", 1) = "exactTokensOut"
  <2>1. KindsOf("stable", "exit") = StablePoolExits
    BY DEF KindsOf
  <2>2. Len(StablePoolExits) = 2 /\ StablePoolExits[1] = "oneTokenOut" /\ StablePoolExits[2] = "exactTokensOut"
    BY DEF StablePoolExits
  <2>3. Decoded("stable", "exit", 0) = StablePoolExits[1]
    <3>1. 0 \in Nat /\ 0 < 255 /\ 0 < Len(StablePoolExits) /\ 1 = 0 + 1
      BY <2>2
    <3> QED BY <3>1, <2>1, DecodedIs
  <2>4. Decoded("stable", "exit", 1) = StablePoolExits[2]
    <3>1. 1 \in Nat /\ 1 < 255 /\ 1 < Len(StablePoolExits) /\ 2 = 1 + 1
      BY <2>2
    <3> QED BY <3>1, <2>1, DecodedIs
  <2> QED BY <2>2, <2>3, <2>4
<1>5. \A family : Decoded(family, "exit", 255) = "recovery"
  BY DEF Decoded, RECOVERY_MODE_EXIT_KIND
<1> QED BY <1>1, <1>2, <1>3, <1>4, <1>5

\* The kind that the encoder of a family writes, and that the Pool does for it what its
\* name says.
KindOf(family, data) ==
  IF family = "stable" THEN StablePoolEncoder[data] ELSE WeightedPoolEncoder[data]
Means(family, side, data) ==
  /\ Decoded(family, side, KindOf(family, data)) = Purpose[data]
  /\ data = "joinInit" => Purpose[data] = "initialize"
  /\ data \in {"joinExactTokensInForBPTOut", "exitBPTInForExactTokensOut"} =>
       Purpose[data] \in {"exactTokensIn", "exactTokensOut"}
  /\ data \in {"joinTokenInForExactBPTOut", "exitExactBPTInForOneTokenOut"} =>
       Purpose[data] \in {"tokenIn", "oneTokenOut"}

LEMMA EncodersMean ==
  /\ Means("weighted", "join", "joinInit")
  /\ Means("weighted", "join", "joinExactTokensInForBPTOut")
  /\ Means("weighted", "join", "joinTokenInForExactBPTOut")
  /\ Means("weighted", "join", "joinAllTokensInForExactBPTOut")
  /\ Means("weighted", "exit", "exitExactBPTInForOneTokenOut")
  /\ Means("weighted", "exit", "exitExactBPTInForTokensOut")
  /\ Means("weighted", "exit", "exitBPTInForExactTokensOut")
  /\ Means("weighted", "exit", "recoveryModeExit")
  /\ Means("stable", "join", "joinInit")
  /\ Means("stable", "join", "joinExactTokensInForBPTOut")
  /\ Means("stable", "join", "joinTokenInForExactBPTOut")
  /\ Means("stable", "exit", "exitExactBPTInForOneTokenOut")
  /\ Means("stable", "exit", "exitBPTInForExactTokensOut")
  /\ Means("stable", "exit", "recoveryModeExit")
<1>1. Means("weighted", "join", "joinInit")
  <2>1. KindOf("weighted", "joinInit") = 0
    BY DEF KindOf, WeightedPoolEncoder, WeightedPoolJoinKind, WeightedPoolExitKind, RECOVERY_MODE_EXIT_KIND
  <2>2. Purpose["joinInit"] = "initialize"
    BY DEF Purpose
  <2> QED BY <2>1, <2>2, KindsDecoded DEF Means
<1>2. Means("weighted", "join", "joinExactTokensInForBPTOut")
  <2>1. KindOf("weighted", "joinExactTokensInForBPTOut") = 1
    BY DEF KindOf, WeightedPoolEncoder, WeightedPoolJoinKind, WeightedPoolExitKind, RECOVERY_MODE_EXIT_KIND
  <2>2. Purpose["joinExactTokensInForBPTOut"] = "exactTokensIn"
    BY DEF Purpose
  <2> QED BY <2>1, <2>2, KindsDecoded DEF Means
<1>3. Means("weighted", "join", "joinTokenInForExactBPTOut")
  <2>1. KindOf("weighted", "joinTokenInForExactBPTOut") = 2
    BY DEF KindOf, WeightedPoolEncoder, WeightedPoolJoinKind, WeightedPoolExitKind, RECOVERY_MODE_EXIT_KIND
  <2>2. Purpose["joinTokenInForExactBPTOut"] = "tokenIn"
    BY DEF Purpose
  <2> QED BY <2>1, <2>2, KindsDecoded DEF Means
<1>4. Means("weighted", "join", "joinAllTokensInForExactBPTOut")
  <2>1. KindOf("weighted", "joinAllTokensInForExactBPTOut") = 3
    BY DEF KindOf, WeightedPoolEncoder, WeightedPoolJoinKind, WeightedPoolExitKind, RECOVERY_MODE_EXIT_KIND
  <2>2. Purpose["joinAllTokensInForExactBPTOut"] = "allTokensIn"
    BY DEF Purpose
  <2> QED BY <2>1, <2>2, KindsDecoded DEF Means
<1>5. Means("weighted", "exit", "exitExactBPTInForOneTokenOut")
  <2>1. KindOf("weighted", "exitExactBPTInForOneTokenOut") = 0
    BY DEF KindOf, WeightedPoolEncoder, WeightedPoolJoinKind, WeightedPoolExitKind, RECOVERY_MODE_EXIT_KIND
  <2>2. Purpose["exitExactBPTInForOneTokenOut"] = "oneTokenOut"
    BY DEF Purpose
  <2> QED BY <2>1, <2>2, KindsDecoded DEF Means
<1>6. Means("weighted", "exit", "exitExactBPTInForTokensOut")
  <2>1. KindOf("weighted", "exitExactBPTInForTokensOut") = 1
    BY DEF KindOf, WeightedPoolEncoder, WeightedPoolJoinKind, WeightedPoolExitKind, RECOVERY_MODE_EXIT_KIND
  <2>2. Purpose["exitExactBPTInForTokensOut"] = "allTokensOut"
    BY DEF Purpose
  <2> QED BY <2>1, <2>2, KindsDecoded DEF Means
<1>7. Means("weighted", "exit", "exitBPTInForExactTokensOut")
  <2>1. KindOf("weighted", "exitBPTInForExactTokensOut") = 2
    BY DEF KindOf, WeightedPoolEncoder, WeightedPoolJoinKind, WeightedPoolExitKind, RECOVERY_MODE_EXIT_KIND
  <2>2. Purpose["exitBPTInForExactTokensOut"] = "exactTokensOut"
    BY DEF Purpose
  <2> QED BY <2>1, <2>2, KindsDecoded DEF Means
<1>8. Means("weighted", "exit", "recoveryModeExit")
  <2>1. KindOf("weighted", "recoveryModeExit") = 255
    BY DEF KindOf, WeightedPoolEncoder, WeightedPoolJoinKind, WeightedPoolExitKind, RECOVERY_MODE_EXIT_KIND
  <2>2. Purpose["recoveryModeExit"] = "recovery"
    BY DEF Purpose
  <2> QED BY <2>1, <2>2, KindsDecoded DEF Means
<1>9. Means("stable", "join", "joinInit")
  <2>1. KindOf("stable", "joinInit") = 0
    BY DEF KindOf, StablePoolEncoder, StablePoolJoinKind, StablePoolExitKind, RECOVERY_MODE_EXIT_KIND
  <2>2. Purpose["joinInit"] = "initialize"
    BY DEF Purpose
  <2> QED BY <2>1, <2>2, KindsDecoded DEF Means
<1>10. Means("stable", "join", "joinExactTokensInForBPTOut")
  <2>1. KindOf("stable", "joinExactTokensInForBPTOut") = 1
    BY DEF KindOf, StablePoolEncoder, StablePoolJoinKind, StablePoolExitKind, RECOVERY_MODE_EXIT_KIND
  <2>2. Purpose["joinExactTokensInForBPTOut"] = "exactTokensIn"
    BY DEF Purpose
  <2> QED BY <2>1, <2>2, KindsDecoded DEF Means
<1>11. Means("stable", "join", "joinTokenInForExactBPTOut")
  <2>1. KindOf("stable", "joinTokenInForExactBPTOut") = 2
    BY DEF KindOf, StablePoolEncoder, StablePoolJoinKind, StablePoolExitKind, RECOVERY_MODE_EXIT_KIND
  <2>2. Purpose["joinTokenInForExactBPTOut"] = "tokenIn"
    BY DEF Purpose
  <2> QED BY <2>1, <2>2, KindsDecoded DEF Means
<1>12. Means("stable", "exit", "exitExactBPTInForOneTokenOut")
  <2>1. KindOf("stable", "exitExactBPTInForOneTokenOut") = 0
    BY DEF KindOf, StablePoolEncoder, StablePoolJoinKind, StablePoolExitKind, RECOVERY_MODE_EXIT_KIND
  <2>2. Purpose["exitExactBPTInForOneTokenOut"] = "oneTokenOut"
    BY DEF Purpose
  <2> QED BY <2>1, <2>2, KindsDecoded DEF Means
<1>13. Means("stable", "exit", "exitBPTInForExactTokensOut")
  <2>1. KindOf("stable", "exitBPTInForExactTokensOut") = 1
    BY DEF KindOf, StablePoolEncoder, StablePoolJoinKind, StablePoolExitKind, RECOVERY_MODE_EXIT_KIND
  <2>2. Purpose["exitBPTInForExactTokensOut"] = "exactTokensOut"
    BY DEF Purpose
  <2> QED BY <2>1, <2>2, KindsDecoded DEF Means
<1>14. Means("stable", "exit", "recoveryModeExit")
  <2>1. KindOf("stable", "recoveryModeExit") = 255
    BY DEF KindOf, StablePoolEncoder, StablePoolJoinKind, StablePoolExitKind, RECOVERY_MODE_EXIT_KIND
  <2>2. Purpose["recoveryModeExit"] = "recovery"
    BY DEF Purpose
  <2> QED BY <2>1, <2>2, KindsDecoded DEF Means
<1> QED BY <1>1, <1>2, <1>3, <1>4, <1>5, <1>6, <1>7, <1>8, <1>9, <1>10, <1>11, <1>12, <1>13, <1>14

\* So it is of a method of a model: only those of stable Pools drop amounts, and its request
\* is of a kind that is what it is called by.
MeantBy(family, m) ==
  /\ m.call \in {"join", "joinRelayer", "queryJoin", "exit", "exitRelayer", "queryExit"}
  /\ m.drops => family = "stable"
  /\ Means(family, Side(m), m.data)

AllMean(family, methods) == \A n \in DOMAIN methods : MeantBy(family, methods[n])

LEMMA AndMeans ==
  ASSUME NEW family, NEW f, NEW g, AllMean(family, f), AllMean(family, g)
  PROVE  AllMean(family, And(f, g))
BY DEF And, AllMean

LEMMA RequestsMean ==
  ASSUME NEW family, NEW call \in {"join", "joinRelayer", "queryJoin", "exit", "exitRelayer", "queryExit"},
         NEW data, Means(family, IF call \in {"join", "joinRelayer", "queryJoin"} THEN "join" ELSE "exit", data)
  PROVE  /\ MeantBy(family, M(call, data))
         /\ family = "stable" => MeantBy(family, Dropping(call, data))
BY DEF MeantBy, M, Dropping, Side

LEMMA WeightedInitsMean == \A n \in DOMAIN WeightedInits : MeantBy("weighted", WeightedInits[n])
<1>1. DOMAIN WeightedInits = {"init", "initRelayer"}
  BY DEF WeightedInits
<1>2. MeantBy("weighted", WeightedInits["init"])
  BY EncodersMean, RequestsMean DEF WeightedInits
<1>3. MeantBy("weighted", WeightedInits["initRelayer"])
  BY EncodersMean, RequestsMean DEF WeightedInits
<1> QED BY <1>1, <1>2, <1>3

LEMMA WeightedJoinsMean == \A n \in DOMAIN WeightedJoins : MeantBy("weighted", WeightedJoins[n])
<1>1. DOMAIN WeightedJoins = {"joinGivenIn", "joinGivenInRelayer", "queryJoinGivenIn", "joinGivenOut", "queryJoinGivenOut", "joinAllGivenOut", "queryJoinAllGivenOut"}
  BY DEF WeightedJoins
<1>2. MeantBy("weighted", WeightedJoins["joinGivenIn"])
  BY EncodersMean, RequestsMean DEF WeightedJoins
<1>3. MeantBy("weighted", WeightedJoins["joinGivenInRelayer"])
  BY EncodersMean, RequestsMean DEF WeightedJoins
<1>4. MeantBy("weighted", WeightedJoins["queryJoinGivenIn"])
  BY EncodersMean, RequestsMean DEF WeightedJoins
<1>5. MeantBy("weighted", WeightedJoins["joinGivenOut"])
  BY EncodersMean, RequestsMean DEF WeightedJoins
<1>6. MeantBy("weighted", WeightedJoins["queryJoinGivenOut"])
  BY EncodersMean, RequestsMean DEF WeightedJoins
<1>7. MeantBy("weighted", WeightedJoins["joinAllGivenOut"])
  BY EncodersMean, RequestsMean DEF WeightedJoins
<1>8. MeantBy("weighted", WeightedJoins["queryJoinAllGivenOut"])
  BY EncodersMean, RequestsMean DEF WeightedJoins
<1> QED BY <1>1, <1>2, <1>3, <1>4, <1>5, <1>6, <1>7, <1>8

LEMMA WeightedExitsMean == \A n \in DOMAIN WeightedExits : MeantBy("weighted", WeightedExits[n])
<1>1. DOMAIN WeightedExits = {"exitGivenOut", "exitGivenOutRelayer", "queryExitGivenOut", "singleExitGivenIn", "querySingleExitGivenIn", "multiExitGivenIn", "multiExitGivenInRelayer", "queryMultiExitGivenIn"}
  BY DEF WeightedExits
<1>2. MeantBy("weighted", WeightedExits["exitGivenOut"])
  BY EncodersMean, RequestsMean DEF WeightedExits
<1>3. MeantBy("weighted", WeightedExits["exitGivenOutRelayer"])
  BY EncodersMean, RequestsMean DEF WeightedExits
<1>4. MeantBy("weighted", WeightedExits["queryExitGivenOut"])
  BY EncodersMean, RequestsMean DEF WeightedExits
<1>5. MeantBy("weighted", WeightedExits["singleExitGivenIn"])
  BY EncodersMean, RequestsMean DEF WeightedExits
<1>6. MeantBy("weighted", WeightedExits["querySingleExitGivenIn"])
  BY EncodersMean, RequestsMean DEF WeightedExits
<1>7. MeantBy("weighted", WeightedExits["multiExitGivenIn"])
  BY EncodersMean, RequestsMean DEF WeightedExits
<1>8. MeantBy("weighted", WeightedExits["multiExitGivenInRelayer"])
  BY EncodersMean, RequestsMean DEF WeightedExits
<1>9. MeantBy("weighted", WeightedExits["queryMultiExitGivenIn"])
  BY EncodersMean, RequestsMean DEF WeightedExits
<1> QED BY <1>1, <1>2, <1>3, <1>4, <1>5, <1>6, <1>7, <1>8, <1>9

LEMMA StableInitsMean == \A n \in DOMAIN StableInits : MeantBy("stable", StableInits[n])
<1>1. DOMAIN StableInits = {"init", "initRelayer"}
  BY DEF StableInits
<1>2. MeantBy("stable", StableInits["init"])
  BY EncodersMean, RequestsMean DEF StableInits
<1>3. MeantBy("stable", StableInits["initRelayer"])
  BY EncodersMean, RequestsMean DEF StableInits
<1> QED BY <1>1, <1>2, <1>3

LEMMA StableJoinsMean == \A n \in DOMAIN StableJoins : MeantBy("stable", StableJoins[n])
<1>1. DOMAIN StableJoins = {"joinGivenIn", "joinGivenInRelayer", "queryJoinGivenIn", "joinGivenOut", "queryJoinGivenOut"}
  BY DEF StableJoins
<1>2. MeantBy("stable", StableJoins["joinGivenIn"])
  BY EncodersMean, RequestsMean DEF StableJoins
<1>3. MeantBy("stable", StableJoins["joinGivenInRelayer"])
  BY EncodersMean, RequestsMean DEF StableJoins
<1>4. MeantBy("stable", StableJoins["queryJoinGivenIn"])
  BY EncodersMean, RequestsMean DEF StableJoins
<1>5. MeantBy("stable", StableJoins["joinGivenOut"])
  BY EncodersMean, RequestsMean DEF StableJoins
<1>6. MeantBy("stable", StableJoins["queryJoinGivenOut"])
  BY EncodersMean, RequestsMean DEF StableJoins
<1> QED BY <1>1, <1>2, <1>3, <1>4, <1>5, <1>6

LEMMA StableExitsMean == \A n \in DOMAIN StableExits : MeantBy("stable", StableExits[n])
<1>1. DOMAIN StableExits = {"exitGivenOut", "queryExitGivenOut", "singleExitGivenIn", "singleExitGivenInRelayer", "querySingleExitGivenIn"}
  BY DEF StableExits
<1>2. MeantBy("stable", StableExits["exitGivenOut"])
  BY EncodersMean, RequestsMean DEF StableExits
<1>3. MeantBy("stable", StableExits["queryExitGivenOut"])
  BY EncodersMean, RequestsMean DEF StableExits
<1>4. MeantBy("stable", StableExits["singleExitGivenIn"])
  BY EncodersMean, RequestsMean DEF StableExits
<1>5. MeantBy("stable", StableExits["singleExitGivenInRelayer"])
  BY EncodersMean, RequestsMean DEF StableExits
<1>6. MeantBy("stable", StableExits["querySingleExitGivenIn"])
  BY EncodersMean, RequestsMean DEF StableExits
<1> QED BY <1>1, <1>2, <1>3, <1>4, <1>5, <1>6

\* All methods of a Pool's model are such.
LEMMA MethodsMean == AllMean(Family(pool.type), Methods)
<1>1. /\ AllMean("weighted", WeightedInits) /\ AllMean("weighted", WeightedJoins)
      /\ AllMean("weighted", WeightedExits) /\ AllMean("stable", StableInits)
      /\ AllMean("stable", StableJoins) /\ AllMean("stable", StableExits)
  BY WeightedInitsMean, WeightedJoinsMean, WeightedExitsMean, StableInitsMean, StableJoinsMean,
     StableExitsMean DEF AllMean
<1>2. ASSUME NEW family \in {"weighted", "stable"} PROVE AllMean(family, recoveryModeExit)
  <2>1. DOMAIN recoveryModeExit = {"recoveryModeExit"}
    BY DEF recoveryModeExit
  <2>2. MeantBy(family, M("exit", "recoveryModeExit"))
    BY EncodersMean, RequestsMean
  <2> QED BY <2>1, <2>2 DEF recoveryModeExit, AllMean
<1>3. CASE IsStable
  <2>1. Family(pool.type) = "stable"
    BY <1>3 DEF IsStable
  <2>2. AllMean("stable", And(StableInits, And(StableJoins, StableExits)))
    BY <1>1, AndMeans
  <2> QED BY <1>2, <1>3, <2>1, <2>2, AndMeans DEF Methods
<1>4. CASE ~IsStable
  <2>1. Family(pool.type) = "weighted"
    BY <1>4 DEF IsStable, Family
  <2>2. AllMean("weighted", And(WeightedInits, And(WeightedJoins, WeightedExits)))
    BY <1>1, AndMeans
  <2> QED BY <1>2, <1>4, <2>1, <2>2, AndMeans DEF Methods
<1> QED BY <1>3, <1>4

-----------------------------------------------------------------------------
\* A list that grows from each to the next grows from each to all later ones.
LEMMA OrderGrows ==
  ASSUME NEW n \in Nat, NEW a \in [1..n -> Nat], \A i \in 1..(n - 1) : a[i] < a[i + 1]
  PROVE  \A i, j \in 1..n : i < j => a[i] < a[j]
<1> DEFINE T == {d \in Nat : \A i \in 1..n : i + d + 1 \in 1..n => a[i] < a[i + d + 1]}
<1>1. 0 \in T
  OBVIOUS
<1>2. ASSUME NEW d \in Nat, d \in T PROVE d + 1 \in T
  <2>1. ASSUME NEW i \in 1..n, i + (d + 1) + 1 \in 1..n PROVE a[i] < a[i + (d + 1) + 1]
    <3> DEFINE k == i + d + 1
    <3>1. k \in 1..n /\ k \in 1..(n - 1) /\ k + 1 = i + (d + 1) + 1 /\ k + 1 \in 1..n
      BY <2>1
    <3>2. a[i] < a[k]
      BY <1>2, <3>1
    <3>3. a[k] < a[k + 1] /\ a[i] \in Nat /\ a[k] \in Nat /\ a[k + 1] \in Nat
      BY <3>1
    <3>4. a[k + 1] = a[i + (d + 1) + 1]
      BY <3>1
    <3> HIDE DEF k
    <3>5. a[i] < a[k + 1]
      BY <3>2, <3>3
    <3> QED BY <3>4, <3>5
  <2> QED BY <2>1
<1>3. Nat \subseteq T
  <2> HIDE DEF T
  <2> QED BY <1>1, <1>2, SetInduction
<1>4. ASSUME NEW i \in 1..n, NEW j \in 1..n, i < j PROVE a[i] < a[j]
  <2>1. j - i - 1 \in Nat /\ i + (j - i - 1) + 1 = j
    BY <1>4
  <2>2. j - i - 1 \in T
    BY <1>3, <2>1
  <2> QED BY <2>1, <2>2
<1> QED BY <1>4

\* Two lists in order of the same things are the same.
LEMMA OrderIsOne ==
  ASSUME NEW n \in Nat, NEW a \in [1..n -> Nat], NEW b \in [1..n -> Nat],
         \A i, j \in 1..n : i < j => a[i] < a[j],
         \A i, j \in 1..n : i < j => b[i] < b[j],
         \A i \in 1..n : \E j \in 1..n : a[i] = b[j],
         \A i \in 1..n : \E j \in 1..n : b[i] = a[j]
  PROVE  a = b
<1> DEFINE T == {m \in Nat : \A i \in 1..n : i <= m => a[i] = b[i]}
<1>1. 0 \in T
  OBVIOUS
<1>2. ASSUME NEW m \in Nat, m \in T PROVE m + 1 \in T
  <2>1. ASSUME NEW k \in 1..n, k = m + 1 PROVE a[k] = b[k]
    <3>0. k \in 1..n /\ \A i \in 1..n : i < k => a[i] = b[i]
      BY <1>2, <2>1
    <3> HIDE DEF T
    <3>1. PICK j \in 1..n : a[k] = b[j]
      BY <3>0
    <3>2. PICK l \in 1..n : b[k] = a[l]
      BY <3>0
    <3>3. ~(j < k)
      <4> SUFFICES ASSUME j < k PROVE FALSE
        OBVIOUS
      <4>1. a[j] = b[j] /\ a[j] < a[k] /\ a[j] \in Nat /\ a[k] \in Nat
        BY <3>0
      <4> QED BY <4>1, <3>1
    <3>4. ~(l < k)
      <4> SUFFICES ASSUME l < k PROVE FALSE
        OBVIOUS
      <4>1. a[l] = b[l] /\ b[l] < b[k] /\ b[l] \in Nat /\ b[k] \in Nat
        BY <3>0
      <4> QED BY <4>1, <3>2
    <3>5. a[k] \in Nat /\ b[k] \in Nat /\ b[j] \in Nat /\ a[l] \in Nat /\ k \in Int /\ j \in Int /\ l \in Int
      BY <3>0
    <3>6. b[k] <= b[j]
      <4>1. CASE k < j
        BY <4>1, <3>0, <3>5
      <4>2. CASE k = j
        BY <4>2, <3>5
      <4> QED BY <4>1, <4>2, <3>3, <3>5
    <3>7. a[k] <= a[l]
      <4>1. CASE k < l
        BY <4>1, <3>0, <3>5
      <4>2. CASE k = l
        BY <4>2, <3>5
      <4> QED BY <4>1, <4>2, <3>4, <3>5
    <3>8. a[k] = b[k]
      <4>1. b[k] <= a[k]
        BY <3>1, <3>6
      <4>2. a[k] <= b[k]
        BY <3>2, <3>7
      <4> QED BY <4>1, <4>2, <3>5
    <3> QED BY <3>8
  <2>2. ASSUME NEW i \in 1..n, i <= m + 1 PROVE a[i] = b[i]
    <3>1. CASE i <= m
      BY <3>1, <1>2
    <3>2. CASE i = m + 1
      BY <3>2, <2>1
    <3> QED BY <2>2, <3>1, <3>2
  <2> QED BY <2>2
<1>3. Nat \subseteq T
  <2> HIDE DEF T
  <2> QED BY <1>1, <1>2, SetInduction
<1>4. ASSUME NEW i \in 1..n PROVE a[i] = b[i]
  <2>1. n \in T
    <3> HIDE DEF T
    <3> QED BY <1>3
  <2> QED BY <2>1
<1> HIDE DEF T
<1> QED BY <1>4
-----------------------------------------------------------------------------
\* There is a place for the BPT: after the last token with an address before its.
LEMMA PlaceFound ==
  ASSUME NEW A \in Seq(Nat), NEW bpt \in Nat
  PROVE  placeOf(A, bpt) \in 0..Len(A)
<1> DEFINE P(k) == (k > 0 => ~(A[k] > bpt)) /\ \A i \in (k + 1)..Len(A) : A[i] > bpt
           T == {d \in Nat : d <= Len(A) =>
                   \/ \E k \in 0..Len(A) : P(k)
                   \/ \A i \in 1..Len(A) : i > Len(A) - d => A[i] > bpt}
<1>1. 0 \in T
  OBVIOUS
<1>2. ASSUME NEW d \in Nat, d \in T PROVE d + 1 \in T
  <2> SUFFICES ASSUME d + 1 <= Len(A), ~ \E k \in 0..Len(A) : P(k)
               PROVE  \A i \in 1..Len(A) : i > Len(A) - (d + 1) => A[i] > bpt
    OBVIOUS
  <2>1. \A i \in 1..Len(A) : i > Len(A) - d => A[i] > bpt
    <3> HIDE DEF P
    <3> QED BY <1>2
  <2> DEFINE k == Len(A) - d
  <2>2. k \in 1..Len(A) /\ k \in 0..Len(A)
    OBVIOUS
  <2>3. \A i \in (k + 1)..Len(A) : A[i] > bpt
    BY <2>1, <2>2
  <2>4. ~P(k)
    <3> HIDE DEF P, k
    <3> QED BY <2>2
  <2>5. A[k] > bpt
    BY <2>2, <2>3, <2>4
  <2> QED BY <2>1, <2>2, <2>5
<1>3. Len(A) \in T
  <2> HIDE DEF T
  <2>1. Nat \subseteq T
    BY <1>1, <1>2, SetInduction
  <2> QED BY <2>1
<1>4. \E k \in 0..Len(A) : P(k)
  <2>1. CASE \A i \in 1..Len(A) : i > Len(A) - Len(A) => A[i] > bpt
    <3>1. P(0)
      BY <2>1
    <3> HIDE DEF P
    <3> QED BY <3>1
  <2> HIDE DEF P
  <2> QED BY <1>3, <2>1
<1> HIDE DEF P, T
<1>5. placeOf(A, bpt) = CHOOSE k \in 0..Len(A) : P(k)
  BY DEF placeOf, P
<1> QED BY <1>4, <1>5

\* A Pool of stable tokens registers itself among them, at bptIndex.
InsertedAt(A, bpt, order, b) ==
  /\ order \in Seq(Nat) /\ Len(order) = Len(A) + 1
  /\ b \in 0..Len(A) /\ order[b + 1] = bpt
  /\ \A i \in 1..Len(A) : A[i] = order[IF i <= b THEN i ELSE i + 1]

LEMMA InsertsAt ==
  ASSUME NEW A \in Seq(Nat), NEW bpt \in Nat, \A i \in 1..Len(A) : A[i] # bpt
  PROVE  InsertedAt(A, bpt, insertSorted(A, bpt), position(insertSorted(A, bpt), bpt))
<1> DEFINE k == placeOf(A, bpt)
           order == insertSorted(A, bpt)
           b == position(order, bpt)
<1>1. k \in 0..Len(A)
  BY PlaceFound
<1> HIDE DEF k
<1>2. order = [i \in 1..(Len(A) + 1) |-> IF i <= k THEN A[i] ELSE IF i = k + 1 THEN bpt ELSE A[i - 1]]
  BY DEF insertSorted, k
<1> HIDE DEF order
<1>3. order \in [1..(Len(A) + 1) -> Nat]
  BY <1>1, <1>2
<1>4. order \in Seq(Nat) /\ Len(order) = Len(A) + 1 /\ DOMAIN order = 1..(Len(A) + 1)
  BY <1>3
<1>5. order[k + 1] = bpt /\ k + 1 \in DOMAIN order
  BY <1>1, <1>2, <1>4
<1>6. \A i \in DOMAIN order : order[i] = bpt => i = k + 1
  BY <1>1, <1>2, <1>4
<1>7. b = k
  <2> DEFINE c == CHOOSE i \in DOMAIN order : order[i] = bpt
  <2>1. c = k + 1
    BY <1>5, <1>6
  <2>2. b = c - 1
    <3>1. \E i \in DOMAIN order : order[i] = bpt
      BY <1>5
    <3> QED BY <3>1, Zenon DEF position
  <2> HIDE DEF c, b
  <2> QED BY <2>1, <2>2, <1>1
<1>8. \A i \in 1..Len(A) : A[i] = order[IF i <= k THEN i ELSE i + 1]
  BY <1>1, <1>2
<1> HIDE DEF b
<1>9. InsertedAt(A, bpt, order, b)
  BY <1>1, <1>4, <1>5, <1>7, <1>8 DEF InsertedAt
<1> QED BY <1>9 DEF order, b

-----------------------------------------------------------------------------
\* The tokens, which have the addresses they were mined at.
TokensInv ==
  /\ \E S : tokens \in Seq(S)
  /\ \A i \in 1..Len(tokens) : tokens[i].address \in Nat \ BptAddresses

\* The list of their addresses.
LEMMA AddressesAre ==
  ASSUME TokensInv
  PROVE  /\ Len(tokens) \in Nat /\ DOMAIN tokens = 1..Len(tokens)
         /\ addresses(tokens) \in Seq(Nat) /\ Len(addresses(tokens)) = Len(tokens)
         /\ addresses(tokens) \in [1..Len(tokens) -> Nat]
         /\ \A i \in 1..Len(tokens) : /\ addresses(tokens)[i] = tokens[i].address
                                      /\ addresses(tokens)[i] \notin BptAddresses
<1>1. Len(tokens) \in Nat /\ DOMAIN tokens = 1..Len(tokens)
  BY DEF TokensInv
<1>2. addresses(tokens) = [i \in 1..Len(tokens) |-> tokens[i].address]
  BY <1>1 DEF addresses
<1>3. addresses(tokens) \in [1..Len(tokens) -> Nat]
  BY <1>2 DEF TokensInv
<1>4. \A i \in 1..Len(tokens) : addresses(tokens)[i] = tokens[i].address /\ addresses(tokens)[i] \notin BptAddresses
  BY <1>2 DEF TokensInv
<1> HIDE DEF addresses
<1> QED BY <1>1, <1>3, <1>4

\* The Pool's tokens are those of the model's list, in its order, and besides them, in a
\* stable Pool, its BPT at bptIndex.  A weighted Pool has others only on a real Vault.
StableOrder ==
  /\ pool.order \in Seq(Nat) /\ Len(pool.order) = Len(tokens) + 1
  /\ pool.bptIndex \in 0..Len(tokens)
  /\ \A i \in 1..Len(tokens) :
       /\ addresses(tokens)[i] = pool.order[IF i <= pool.bptIndex THEN i ELSE i + 1]
       /\ addresses(tokens)[i] # pool.order[pool.bptIndex + 1]
WeightedOrder == pool.mocked => pool.order = addresses(tokens)
PoolInv ==
  /\ DOMAIN pool = {"type", "mocked", "order", "bptIndex", "settings", "initialized", "paused", "recovery"}
  /\ pool = [f \in DOMAIN pool |-> pool[f]]
  /\ Deployed =>
       /\ tokens # <<>> /\ InOrder(tokens)
       /\ IsStable => StableOrder /\ "amplification" \in DOMAIN pool.settings
       /\ ~IsStable => WeightedOrder /\ {"weights", "swapFee"} \subseteq DOMAIN pool.settings

\* A list of amounts is of the Pool's tokens, or of the model's; or, where a stable Pool's
\* methods dropped amounts from it, too short for both.
Meant(amounts) ==
  \/ amounts = One(Each)
  \/ amounts = Many(pool.order)
  \/ amounts = Many(addresses(tokens))
  \/ IsStable /\ \E s \in Seq(Nat) : Len(s) < Len(tokens) /\ amounts = Many(s)
HeldInv == IF Deployed THEN Meant(held) ELSE held = One(Each)

ClientInv == TokensInv /\ PoolInv /\ HeldInv

LEMMA OnesAndManys ==
  /\ \A x : One(x).items = <<x>> /\ ~IsMany(One(x)) /\ One(x).list = FALSE
  /\ \A s : Many(s).items = s /\ IsMany(Many(s)) /\ Many(s).list = TRUE
BY DEF One, Many, IsMany

\* Without the amount at bptIndex, a list is one shorter.
LEMMA DropIs ==
  ASSUME NEW s \in Seq(Nat), s # <<>>, NEW n, n = Len(s) - 1, pool.bptIndex \in Nat
  PROVE  /\ dropBptItem(s) \in Seq(Nat) /\ Len(dropBptItem(s)) = n
         /\ \A i \in 1..n : dropBptItem(s)[i] = s[IF i <= pool.bptIndex THEN i ELSE i + 1]
<1>1. n \in Nat /\ Len(s) = n + 1
  OBVIOUS
<1>2. dropBptItem(s) = [i \in 1..n |-> s[IF i <= pool.bptIndex THEN i ELSE i + 1]]
  BY <1>1 DEF dropBptItem
<1>3. dropBptItem(s) \in [1..n -> Nat]
  BY <1>1, <1>2
<1> QED BY <1>1, <1>2, <1>3

\* Of no amounts, none is left.
LEMMA DropNone == dropBptItem(<<>>) = <<>>
<1>1. Len(<<>>) - 1 = 0 - 1 /\ 1..(0 - 1) = {}
  OBVIOUS
<1>2. dropBptItem(<<>>) = [i \in 1..(0 - 1) |-> <<>>[IF i <= pool.bptIndex THEN i ELSE i + 1]]
  BY <1>1 DEF dropBptItem
<1> QED BY <1>1, <1>2

\* So what is left of the Pool's tokens without the BPT are the model's tokens.
LEMMA StableBesides ==
  ASSUME ClientInv, Deployed, IsStable
  PROVE  dropBptItem(pool.order) = addresses(tokens) /\ Besides = addresses(tokens)
<1>1. StableOrder /\ Len(tokens) \in Nat /\ addresses(tokens) \in [1..Len(tokens) -> Nat]
  BY AddressesAre DEF ClientInv, PoolInv
<1>2. dropBptItem(pool.order) = [i \in 1..Len(tokens) |-> pool.order[IF i <= pool.bptIndex THEN i ELSE i + 1]]
  BY <1>1 DEF dropBptItem, StableOrder
<1>3. dropBptItem(pool.order) = addresses(tokens)
  BY <1>1, <1>2 DEF StableOrder
<1> QED BY <1>3 DEF Besides

\* What a method leaves of the amounts in the parameters is such a list again.
LEMMA KeptMeant ==
  ASSUME ClientInv, Deployed, NEW m, m.drops => IsStable
  PROVE  Meant(keptAmounts(m))
<1>1. Meant(held)
  BY DEF ClientInv, HeldInv
<1>2. CASE ~m.drops
  BY <1>1, <1>2 DEF keptAmounts
<1>3. CASE m.drops
  <2>1. /\ IsStable /\ StableOrder /\ pool.bptIndex \in Nat
        /\ Len(tokens) \in Nat /\ Len(tokens) > 0
        /\ addresses(tokens) \in Seq(Nat) /\ Len(addresses(tokens)) = Len(tokens)
    <3>1. tokens # <<>> /\ StableOrder /\ TokensInv
      BY <1>3 DEF ClientInv, PoolInv
    <3>2. Len(tokens) \in Nat /\ Len(tokens) > 0
      BY <3>1 DEF TokensInv
    <3> QED BY <1>3, <3>1, <3>2, AddressesAre, SMTT(30) DEF StableOrder
  <2>2. keptAmounts(m) = Many(dropBptItem(held.items))
    BY <1>3, OnesAndManys DEF keptAmounts, toList
  <2>3. ASSUME NEW s \in Seq(Nat), Len(s) <= Len(tokens), keptAmounts(m) = Many(dropBptItem(s))
        PROVE  Meant(keptAmounts(m))
    <3>1. CASE s = <<>>
      <4>1. dropBptItem(s) = <<>>
        BY <3>1, DropNone
      <4>2. <<>> \in Seq(Nat) /\ Len(<<>>) < Len(tokens)
        BY <2>1
      <4> QED BY <2>1, <2>3, <4>1, <4>2 DEF Meant
    <3>2. CASE s # <<>>
      <4>1. dropBptItem(s) \in Seq(Nat) /\ Len(dropBptItem(s)) = Len(s) - 1
        BY <3>2, <2>1, DropIs
      <4>2. Len(dropBptItem(s)) < Len(tokens)
        BY <4>1, <2>1, <2>3
      <4> QED BY <2>1, <2>3, <4>1, <4>2 DEF Meant
    <3> QED BY <3>1, <3>2
  <2>4. CASE held = One(Each)
    <3>1. held.items = <<Each>> /\ <<Each>> \in Seq(Nat) /\ Len(<<Each>>) = 1
      BY <2>4, OnesAndManys DEF Each
    <3>2. keptAmounts(m) = Many(dropBptItem(<<Each>>)) /\ Len(<<Each>>) <= Len(tokens)
      BY <2>1, <2>2, <3>1
    <3> QED BY <2>3, <3>1, <3>2
  <2>5. CASE held = Many(pool.order)
    BY <2>2, <2>5, OnesAndManys, StableBesides, <2>1 DEF Meant
  <2>6. CASE held = Many(addresses(tokens))
    BY <2>1, <2>2, <2>3, <2>6, OnesAndManys
  <2>7. CASE \E s \in Seq(Nat) : Len(s) < Len(tokens) /\ held = Many(s)
    <3>1. PICK s \in Seq(Nat) : Len(s) < Len(tokens) /\ held = Many(s)
      BY <2>7
    <3>2. held.items = s /\ Len(s) <= Len(tokens)
      BY <3>1, <2>1, OnesAndManys
    <3> QED BY <2>2, <2>3, <3>2
  <2> QED BY <1>1, <2>4, <2>5, <2>6, <2>7 DEF Meant
<1> QED BY <1>2, <1>3

\* A token that is named by itself or by its place is the one at the index.
LEMMA WhichIs ==
  ASSUME ClientInv, NEW which \in Whiches
  PROVE  /\ indexOf(tokens, which) \in 0..(Len(tokens) - 1)
         /\ get(tokens, which).address = addresses(tokens)[indexOf(tokens, which) + 1]
<1>1. /\ Len(tokens) \in Nat /\ DOMAIN tokens = 1..Len(tokens)
      /\ \A i \in 1..Len(tokens) : addresses(tokens)[i] = tokens[i].address
  BY AddressesAre DEF ClientInv
<1>2. CASE \E i \in 0..(Len(tokens) - 1) : which = ByIndex(i)
  <2>1. PICK i \in 0..(Len(tokens) - 1) : which = ByIndex(i)
    BY <1>2
  <2>2. which.index = i /\ IsIndex(which)
    BY <2>1 DEF ByIndex, IsIndex
  <2>3. indexOf(tokens, which) = i /\ get(tokens, which) = tokens[i + 1]
    BY <2>2 DEF indexOf, get
  <2>4. i + 1 \in 1..Len(tokens)
    BY <1>1
  <2> QED BY <1>1, <2>3, <2>4
<1>3. CASE \E i \in DOMAIN tokens : which = ByToken(tokens[i])
  <2>1. PICK i \in DOMAIN tokens : which = ByToken(tokens[i])
    BY <1>3
  <2>2. which.token = tokens[i] /\ ~IsIndex(which)
    BY <2>1 DEF ByToken, IsIndex
  <2> DEFINE c == CHOOSE j \in DOMAIN tokens : tokens[j] = tokens[i]
  <2>3. c \in DOMAIN tokens /\ tokens[c] = tokens[i]
    OBVIOUS
  <2>4. position(tokens, tokens[i]) = c - 1
    BY Zenon DEF position
  <2>5. indexOf(tokens, which) = position(tokens, tokens[i]) /\ get(tokens, which) = tokens[i]
    BY <2>2 DEF indexOf, get
  <2> HIDE DEF c
  <2>6. c \in 1..Len(tokens) /\ (c - 1) + 1 = c /\ c - 1 \in 0..(Len(tokens) - 1)
    BY <1>1, <2>3
  <2> QED BY <1>1, <2>3, <2>4, <2>5, <2>6
<1> QED BY <1>2, <1>3 DEF Whiches

\* Amounts by tokens of the Pool's number are by its tokens.
LEMMA ListsMeant ==
  ASSUME ClientInv, Deployed, NEW amounts, Meant(amounts), ~IsStable => pool.order = addresses(tokens),
         NEW filledIn, filledIn = filled(amounts)
  PROVE  /\ Len(filledIn) = Len(pool.order) =>
              \A i \in DOMAIN filledIn : filledIn[i] \in {Each, pool.order[i]}
         /\ Len(filledIn) = Len(Besides) =>
              \A i \in DOMAIN filledIn : filledIn[i] \in {Each, Besides[i]}
<1>1. Len(tokens) \in Nat /\ Len(addresses(tokens)) = Len(tokens)
  BY AddressesAre DEF ClientInv
<1>2. Besides = addresses(tokens)
  BY StableBesides DEF Besides
<1> DEFINE Whole == /\ Len(filledIn) = Len(pool.order) =>
                         \A i \in DOMAIN filledIn : filledIn[i] \in {Each, pool.order[i]}
                    /\ Len(filledIn) = Len(Besides) =>
                         \A i \in DOMAIN filledIn : filledIn[i] \in {Each, Besides[i]}
<1>3. ASSUME amounts = One(Each) PROVE Whole
  <2>1. filledIn = [i \in 1..Len(tokens) |-> Each]
    <3>1. <<Each>>[1] = Each
      OBVIOUS
    <3> QED BY <1>3, <3>1, OnesAndManys DEF filled
  <2> QED BY <2>1
<1>4. ASSUME filledIn = pool.order \/ filledIn = addresses(tokens) \/ (Len(filledIn) < Len(tokens) /\ IsStable)
      PROVE  Whole
  <2>1. filledIn = pool.order \/ filledIn = addresses(tokens) \/ (Len(filledIn) < Len(tokens) /\ IsStable)
    BY <1>4
  <2>3. CASE ~IsStable
    BY <1>2, <2>1, <2>3
  <2>4. CASE IsStable
    <3>1. Len(pool.order) = Len(tokens) + 1
      BY <2>4 DEF ClientInv, PoolInv, StableOrder
    <3>2. Len(filledIn) = Len(pool.order) => filledIn = pool.order
      <4>1. CASE filledIn = pool.order
        BY <4>1
      <4>2. CASE filledIn = addresses(tokens)
        BY <1>1, <3>1, <4>2
      <4>3. CASE Len(filledIn) < Len(tokens)
        BY <1>1, <3>1, <4>3
      <4> QED BY <2>1, <4>1, <4>2, <4>3
    <3>3. Len(filledIn) = Len(Besides) => filledIn = Besides
      <4>1. CASE filledIn = pool.order
        BY <1>1, <1>2, <3>1, <4>1
      <4>2. CASE filledIn = addresses(tokens)
        BY <1>2, <4>2
      <4>3. CASE Len(filledIn) < Len(tokens)
        BY <1>1, <1>2, <4>3
      <4> QED BY <2>1, <4>1, <4>2, <4>3
    <3> QED BY <3>2, <3>3
  <2> QED BY <2>3, <2>4
<1>5. Whole
  <2> HIDE DEF Whole
  <2>1. CASE amounts = Many(pool.order)
    <3>1. filledIn = pool.order
      BY <2>1, OnesAndManys DEF filled
    <3> QED BY <1>4, <3>1
  <2>2. CASE amounts = Many(addresses(tokens))
    <3>1. filledIn = addresses(tokens)
      BY <2>2, OnesAndManys DEF filled
    <3> QED BY <1>4, <3>1
  <2>3. CASE IsStable /\ \E s \in Seq(Nat) : Len(s) < Len(tokens) /\ amounts = Many(s)
    <3>1. PICK s \in Seq(Nat) : Len(s) < Len(tokens) /\ amounts = Many(s)
      BY <2>3
    <3>2. filledIn = s
      BY <3>1, OnesAndManys DEF filled
    <3> QED BY <1>4, <2>3, <3>1, <3>2
  <2>4. CASE amounts = One(Each)
    BY <1>3, <2>4
  <2> QED BY <2>1, <2>2, <2>3, <2>4 DEF Meant
<1> QED BY <1>5

-----------------------------------------------------------------------------
\* What an action leaves as it was: the tokens, and the Pool but for its state.
SamePool ==
  /\ tokens' = tokens
  /\ DOMAIN pool' = DOMAIN pool /\ pool' = [f \in DOMAIN pool |-> pool'[f]]
  /\ pool'.type = pool.type /\ pool'.mocked = pool.mocked
  /\ pool'.order = pool.order /\ pool'.bptIndex = pool.bptIndex
  /\ DOMAIN pool'.settings = DOMAIN pool.settings

LEMMA SameBesides ==
  ASSUME SamePool
  PROVE  /\ Besides' = Besides /\ addresses(tokens)' = addresses(tokens)
         /\ Unchanged' <=> Unchanged
         /\ IsStable' <=> IsStable
         /\ Deployed' <=> Deployed
BY DEF SamePool, Besides, IsStable, Deployed, Unchanged, dropBptItem

LEMMA SamePoolKeeps ==
  ASSUME ClientInv, SamePool, HeldInv'
  PROVE  ClientInv'
<1>1. TokensInv'
  BY DEF ClientInv, SamePool, TokensInv
<1>2. StableOrder => StableOrder'
  BY DEF SamePool, StableOrder
<1>3. WeightedOrder => WeightedOrder'
  BY DEF SamePool, WeightedOrder
<1>4. PoolInv'
  BY <1>2, <1>3, SameBesides DEF ClientInv, PoolInv, SamePool
<1> QED BY <1>1, <1>4 DEF ClientInv

LEMMA SameHeldKeeps ==
  ASSUME ClientInv, SamePool, held' = held
  PROVE  ClientInv'
<1>1. HeldInv'
  BY SameBesides DEF ClientInv, HeldInv, Meant, SamePool
<1> QED BY <1>1, SamePoolKeeps

\* A Pool that is used stays as it is but for a part of its state.
LEMMA StateOnly ==
  ASSUME ClientInv, tokens' = tokens, NEW v,
         \/ pool' = pool
         \/ pool' = [pool EXCEPT !.initialized = v]
         \/ pool' = [pool EXCEPT !.paused = v]
         \/ pool' = [pool EXCEPT !.recovery = v]
         \/ \E f : pool' = [pool EXCEPT !.settings[f] = v]
  PROVE  SamePool
<1>1. /\ DOMAIN pool = {"type", "mocked", "order", "bptIndex", "settings", "initialized", "paused", "recovery"}
      /\ pool = [f \in DOMAIN pool |-> pool[f]]
  BY DEF ClientInv, PoolInv
<1>2. CASE pool' = pool
  BY <1>1, <1>2 DEF SamePool
<1>3. CASE pool' = [pool EXCEPT !.initialized = v]
  BY <1>1, <1>3 DEF SamePool
<1>4. CASE pool' = [pool EXCEPT !.paused = v]
  BY <1>1, <1>4 DEF SamePool
<1>5. CASE pool' = [pool EXCEPT !.recovery = v]
  BY <1>1, <1>5 DEF SamePool
<1>6. CASE \E f : pool' = [pool EXCEPT !.settings[f] = v]
  <2>1. PICK f : pool' = [pool EXCEPT !.settings[f] = v]
    BY <1>6
  <2>2. pool'.settings = [pool.settings EXCEPT ![f] = v]
    BY <1>1, <2>1
  <2>3. DOMAIN pool'.settings = DOMAIN pool.settings
    BY <2>2
  <2> QED BY <1>1, <2>1, <2>3 DEF SamePool
<1> QED BY <1>2, <1>3, <1>4, <1>5, <1>6

\* Nothing that was done or estimated needs no meaning.
LEMMA NothingMeans == ASSUME sent' = Nothing PROVE AcceptedAsMeant' /\ EstimatesLineUp'
BY DEF Nothing, AcceptedAsMeant, EstimatesLineUp

\* A weighted Pool that takes a request has the tokens that the model lists.
LEMMA TakesListed ==
  ASSUME ClientInv, Deployed, ~IsStable, NEW m, NEW from, NEW held_, VaultTakes(m, from, held_),
         m.call \in {"queryJoin", "queryExit"} => Unchanged
  PROVE  pool.order = addresses(tokens)
<1>1. CASE m.call \in {"queryJoin", "queryExit"}
  BY <1>1 DEF Unchanged, Besides
<1>2. CASE pool.mocked
  BY <1>2 DEF ClientInv, PoolInv, WeightedOrder
<1>3. CASE ~pool.mocked /\ Assets(m) = pool.order
  BY <1>3 DEF Assets, weightedAssets
<1> QED BY <1>1, <1>2, <1>3 DEF VaultTakes

-----------------------------------------------------------------------------
\* What the data of a request is made of.
LEMMA DataIs ==
  ASSUME NEW m, NEW amounts, NEW which, NEW data, data = DataOf(m, amounts, which)
  PROVE  /\ data.kind = KindOf(Family(pool.type), m.data)
         /\ TakesAmounts(m) => data.amounts = filled(amounts)
         /\ TakesToken(m) => data.index = indexOf(tokens, which)
<1>1. TakesToken(m) => ~TakesAmounts(m)
  BY DEF TakesToken, TakesAmounts
<1> HIDE DEF TakesToken, TakesAmounts
<1>2. CASE IsStable
  <2>1. KindOf(Family(pool.type), m.data) = StablePoolEncoder[m.data]
    BY <1>2 DEF IsStable, KindOf
  <2>2. data = stableData(m, amounts, which)
    BY <1>2 DEF DataOf
  <2> QED BY <1>1, <2>1, <2>2 DEF stableData, Encoded
<1>3. CASE ~IsStable
  <2>1. KindOf(Family(pool.type), m.data) = WeightedPoolEncoder[m.data]
    BY <1>3 DEF IsStable, KindOf
  <2>2. data = weightedData(m, amounts, which)
    BY <1>3 DEF DataOf
  <2> QED BY <1>1, <2>1, <2>2 DEF weightedData, Encoded
<1> QED BY <1>2, <1>3

\* What the Pool takes the parts of a request to be is what they were given for.
LEMMA PairsMeant ==
  ASSUME ClientInv, Deployed, NEW m, MeantBy(Family(pool.type), m),
         NEW amounts, Meant(amounts), ~IsStable => pool.order = addresses(tokens),
         NEW which, TakesToken(m) => which \in Whiches,
         NEW data, data = DataOf(m, amounts, which), PoolTakes(m, data)
  PROVE  /\ Decoded(Family(pool.type), Side(m), data.kind) = Purpose[m.data]
         /\ \A p \in Taken(m, data, which) : p[1] \in {Each, p[2]}
<1> DEFINE does == Decoded(Family(pool.type), Side(m), data.kind)
<1>1. does = Purpose[m.data] /\ Means(Family(pool.type), Side(m), m.data)
  BY DataIs DEF MeantBy, Means
<1>2. Accepts(Family(pool.type), Side(m), data, Len(pool.order), Len(Besides))
  BY DEF PoolTakes
<1> HIDE DEF does
<1>3. \/ does = "initialize" /\ Len(data.amounts) = Len(pool.order)
      \/ does \in {"exactTokensIn", "exactTokensOut"} /\ Len(data.amounts) = Len(Besides)
      \/ does \in {"tokenIn", "oneTokenOut"} /\ data.index < Len(Besides)
      \/ does \in {"allTokensIn", "allTokensOut", "recovery"}
  BY <1>2 DEF Accepts, does
<1> DEFINE against == IF m.data = "joinInit" THEN pool.order ELSE Besides
<1>4. ASSUME TakesAmounts(m), NEW i \in DOMAIN data.amounts
      PROVE  data.amounts[i] \in {Each, against[i]}
  <2>1. data.amounts = filled(amounts)
    BY <1>4, DataIs
  <2>2. CASE m.data = "joinInit"
    <3>1. Purpose[m.data] = "initialize"
      BY <1>1, <2>2 DEF Means
    <3>2. Len(data.amounts) = Len(pool.order)
      BY <1>1, <1>3, <3>1
    <3> QED BY <1>4, <2>1, <2>2, <3>2, ListsMeant
  <2>3. CASE m.data # "joinInit"
    <3>1. Purpose[m.data] \in {"exactTokensIn", "exactTokensOut"}
      BY <1>1, <1>4, <2>3 DEF Means, TakesAmounts
    <3>2. Len(data.amounts) = Len(Besides)
      BY <1>1, <1>3, <3>1
    <3> QED BY <1>4, <2>1, <2>3, <3>2, ListsMeant
  <2> QED BY <2>2, <2>3
<1>5. ASSUME TakesToken(m) PROVE get(tokens, which).address = Besides[data.index + 1]
  <2>1. Besides = addresses(tokens)
    BY StableBesides DEF Besides
  <2>2. data.index = indexOf(tokens, which)
    BY <1>5, DataIs
  <2> QED BY <1>5, <2>1, <2>2, WhichIs
<1>6. ASSUME NEW p \in Taken(m, data, which) PROVE p[1] \in {Each, p[2]}
  <2>1. CASE TakesAmounts(m) /\ p \in Pairs(data.amounts, against)
    <3>1. PICK i \in DOMAIN data.amounts : p = <<data.amounts[i], against[i]>>
      BY <2>1 DEF Pairs
    <3>2. data.amounts[i] \in {Each, against[i]}
      BY <2>1, <1>4
    <3> HIDE DEF against
    <3> QED BY <3>1, <3>2
  <2>2. CASE TakesToken(m) /\ p = <<get(tokens, which).address, Besides[data.index + 1]>>
    <3>1. p[1] = get(tokens, which).address /\ p[2] = Besides[data.index + 1]
      BY <2>2
    <3> QED BY <1>5, <2>2, <3>1
  <2> QED BY <1>6, <2>1, <2>2 DEF Taken
<1> QED BY <1>1, <1>6 DEF does

\* Calls of the models' methods.
LEMMA CallMeans ==
  ASSUME ClientInv, NEW name \in DOMAIN Methods, NEW from, NEW which,
         TakesToken(Methods[name]) => which \in Whiches, Call(name, which, from)
  PROVE  ClientInv' /\ AcceptedAsMeant' /\ EstimatesLineUp'
<1> DEFINE m == Methods[name]
           amounts == keptAmounts(m)
           data == DataOf(m, amounts, which)
           funded == fundsAfter(m, from)
           does == Decoded(Family(pool.type), Side(m), data.kind)
           Taking == /\ VaultTakes(m, from, funded) /\ PoolTakes(m, data)
                     /\ sent' = [call |-> m.call, does |-> does, purpose |-> Purpose[m.data],
                                 pairs |-> Taken(m, data, which)]
                     /\ pool' = IF does = "initialize" THEN [pool EXCEPT !.initialized = TRUE] ELSE pool
<1>1. Deployed /\ held' = amounts /\ tokens' = tokens
  BY DEF Call
<1>2. Taking \/ (sent' = Nothing /\ pool' = pool)
  BY DEF Call
<1>3. MeantBy(Family(pool.type), m)
  BY MethodsMean DEF AllMean
<1>4. m.call # "estimate" /\ (m.drops => IsStable)
  BY <1>3 DEF MeantBy, IsStable
<1>5. TakesToken(m) => which \in Whiches
  OBVIOUS
<1> HIDE DEF m
<1>6. Meant(amounts)
  BY <1>1, <1>4, KeptMeant
<1>7. SamePool
  BY <1>1, <1>2, StateOnly
<1> HIDE DEF amounts
<1>8. ClientInv'
  <2>1. Meant(held)'
    BY <1>1, <1>6, <1>7, SameBesides DEF Meant, SamePool
  <2>2. HeldInv'
    BY <1>1, <1>7, <2>1, SameBesides DEF HeldInv
  <2> QED BY <1>7, <2>2, SamePoolKeeps
<1> HIDE DEF data, funded
<1>9. CASE Taking
  <2>1. sent'.call = m.call /\ sent'.does = does /\ sent'.purpose = Purpose[m.data] /\ sent'.pairs = Taken(m, data, which)
    BY <1>9
  <2>2. EstimatesLineUp'
    BY <1>4, <2>1 DEF EstimatesLineUp
  <2>3. ASSUME m.call \in {"queryJoin", "queryExit"} => Unchanged
        PROVE  does = Purpose[m.data] /\ \A p \in Taken(m, data, which) : p[1] \in {Each, p[2]}
    <3>1. ~IsStable => pool.order = addresses(tokens)
      BY <1>1, <1>9, <2>3, TakesListed
    <3>2. data = DataOf(m, amounts, which) /\ PoolTakes(m, data)
      BY <1>9 DEF data
    <3> QED BY <1>1, <1>3, <1>5, <1>6, <3>1, <3>2, PairsMeant
  <2>4. AcceptedAsMeant'
    <3> HIDE DEF does
    <3> QED BY <2>1, <2>3, <1>7, SameBesides DEF AcceptedAsMeant
  <2> QED BY <1>8, <2>2, <2>4
<1>10. CASE sent' = Nothing
  BY <1>8, <1>10, NothingMeans
<1> QED BY <1>2, <1>9, <1>10

\* A Pool that is only request stays as it is, and so do the lists of the caller.
LEMMA AskedKeeps ==
  ASSUME ClientInv, tokens' = tokens, pool' = pool, held' = held
  PROVE  ClientInv' /\ SamePool
BY StateOnly, SameHeldKeeps

\* Where an address is found in a list, there it is.
LEMMA PositionIn ==
  ASSUME NEW s, NEW x, NEW n \in Nat, DOMAIN s = 1..n, NEW i \in 1..n, s[i] = x
  PROVE  /\ position(s, x) \in 0..(n - 1) /\ position(s, x) + 1 \in DOMAIN s
         /\ s[position(s, x) + 1] = x
<1> DEFINE c == CHOOSE j \in DOMAIN s : s[j] = x
<1>1. c \in DOMAIN s /\ s[c] = x
  OBVIOUS
<1>2. position(s, x) = c - 1
  BY Zenon DEF position
<1> HIDE DEF c
<1>3. c \in 1..n /\ (c - 1) + 1 = c /\ c - 1 \in 0..(n - 1)
  BY <1>1
<1> QED BY <1>1, <1>2, <1>3

\* Swaps are of the tokens they are asked for.
LEMMA SwapMeans ==
  ASSUME ClientInv, tokens' = tokens, pool' = pool, held' = held, NEW pairs, sent' = Swapped(pairs),
         \A p \in pairs : p[1] = p[2]
  PROVE  ClientInv' /\ AcceptedAsMeant' /\ EstimatesLineUp'
<1>1. ClientInv'
  BY AskedKeeps
<1>2. sent'.call = "swap" /\ sent'.does = "swap" /\ sent'.purpose = "swap" /\ sent'.pairs = pairs
  BY DEF Swapped
<1> QED BY <1>1, <1>2 DEF AcceptedAsMeant, EstimatesLineUp

LEMMA SwapWeightedMeans ==
  ASSUME ClientInv, NEW tokenIn \in Whiches, NEW tokenOut \in Whiches, SwapWeighted(tokenIn, tokenOut)
  PROVE  ClientInv' /\ AcceptedAsMeant' /\ EstimatesLineUp'
<1>1. pool.order = addresses(tokens)
  BY DEF SwapWeighted, ClientInv, PoolInv, WeightedOrder
<1>2. ASSUME NEW p \in weightedSwap(tokenIn, tokenOut) PROVE p[1] = p[2]
  <2>1. \/ p = <<get(tokens, tokenIn).address, pool.order[indexOf(tokens, tokenIn) + 1]>>
        \/ p = <<get(tokens, tokenOut).address, pool.order[indexOf(tokens, tokenOut) + 1]>>
    BY <1>2 DEF weightedSwap, indicesOf
  <2> QED BY <2>1, <1>1, WhichIs
<1> QED BY <1>2, SwapMeans DEF SwapWeighted

LEMMA OrderDomain ==
  ASSUME ClientInv, Deployed, IsStable
  PROVE  DOMAIN pool.order = 1..(Len(tokens) + 1) /\ Len(tokens) + 1 \in Nat
BY AddressesAre DEF ClientInv, PoolInv, StableOrder

LEMMA SwapStableMeans ==
  ASSUME ClientInv, NEW i \in DOMAIN pool.order, NEW j \in DOMAIN pool.order,
         SwapStable(pool.order[i], pool.order[j]) \/ QuerySwapStable(pool.order[i], pool.order[j])
  PROVE  ClientInv' /\ AcceptedAsMeant' /\ EstimatesLineUp'
<1> DEFINE pairs == {<<pool.order[i], pool.order[position(pool.order, pool.order[i]) + 1]>>,
                     <<pool.order[j], pool.order[position(pool.order, pool.order[j]) + 1]>>}
<1>1. Deployed /\ IsStable /\ tokens' = tokens /\ pool' = pool /\ held' = held
  BY DEF SwapStable, QuerySwapStable
<1>2. sent' = Swapped(pairs)
  <2>1. CASE SwapStable(pool.order[i], pool.order[j])
    BY <2>1 DEF SwapStable, stableSwap
  <2>2. CASE QuerySwapStable(pool.order[i], pool.order[j])
    BY <2>2 DEF QuerySwapStable, querySwap
  <2> QED BY <2>1, <2>2
<1>3. /\ pool.order[position(pool.order, pool.order[i]) + 1] = pool.order[i]
      /\ pool.order[position(pool.order, pool.order[j]) + 1] = pool.order[j]
  BY <1>1, OrderDomain, PositionIn
<1>4. \A p \in pairs : p[1] = p[2]
  BY <1>3
<1> HIDE DEF pairs
<1> QED BY <1>1, <1>2, <1>4, SwapMeans

-----------------------------------------------------------------------------
\* Estimates read from the model what the Pool was deployed with.
LEMMA WeightedCached == \A n \in DOMAIN WeightedEstimates : WeightedEstimates[n].cached \subseteq {"weights", "swapFee"}
<1>1. DOMAIN WeightedEstimates =
        {"estimateSpotPrice", "estimateBptPrice", "estimateInvariant", "estimateSwapFeeAmount",
         "estimateMaxSwapFeeAmount", "estimateGivenIn", "estimateGivenOut", "estimateBptOut",
         "estimateTokenIn", "estimateTokenOut"}
  BY DEF WeightedEstimates
<1>2. /\ WeightedEstimates["estimateSpotPrice"].cached = {"weights"}
      /\ WeightedEstimates["estimateBptPrice"].cached = {"weights"}
      /\ WeightedEstimates["estimateInvariant"].cached = {"weights"}
      /\ WeightedEstimates["estimateSwapFeeAmount"].cached = {"weights"}
      /\ WeightedEstimates["estimateMaxSwapFeeAmount"].cached = {"weights"}
      /\ WeightedEstimates["estimateGivenIn"].cached = {"weights"}
      /\ WeightedEstimates["estimateGivenOut"].cached = {"weights"}
  BY DEF WeightedEstimates, E
<1>3. /\ WeightedEstimates["estimateBptOut"].cached = {"weights", "swapFee"}
      /\ WeightedEstimates["estimateTokenIn"].cached = {"weights", "swapFee"}
      /\ WeightedEstimates["estimateTokenOut"].cached = {"weights", "swapFee"}
  BY DEF WeightedEstimates, E
<1> QED BY <1>1, <1>2, <1>3

LEMMA StableCached == \A n \in DOMAIN StableEstimates : StableEstimates[n].cached = {"amplification"}
<1>1. DOMAIN StableEstimates =
        {"estimateInvariant", "estimateTokenOutGivenTokenIn", "estimateTokenInGivenTokenOut",
         "estimateTokenOutGivenBptIn", "estimateTokenInGivenBptOut", "estimateBptOutGivenTokenIn",
         "estimateBptInGivenTokenOut", "estimateBptOut"}
  BY DEF StableEstimates
<1>2. /\ StableEstimates["estimateInvariant"].cached = {"amplification"}
      /\ StableEstimates["estimateTokenOutGivenTokenIn"].cached = {"amplification"}
      /\ StableEstimates["estimateTokenInGivenTokenOut"].cached = {"amplification"}
      /\ StableEstimates["estimateTokenOutGivenBptIn"].cached = {"amplification"}
      /\ StableEstimates["estimateTokenInGivenBptOut"].cached = {"amplification"}
      /\ StableEstimates["estimateBptOutGivenTokenIn"].cached = {"amplification"}
      /\ StableEstimates["estimateBptInGivenTokenOut"].cached = {"amplification"}
      /\ StableEstimates["estimateBptOut"].cached = {"amplification"}
  BY DEF StableEstimates, E
<1> QED BY <1>1, <1>2

LEMMA EstimatesCached ==
  ASSUME ClientInv, Deployed, NEW name \in DOMAIN Estimates
  PROVE  Estimates[name].cached \subseteq DOMAIN pool.settings
<1>1. CASE IsStable
  BY <1>1, StableCached DEF Estimates, ClientInv, PoolInv
<1>2. CASE ~IsStable
  BY <1>2, WeightedCached DEF Estimates, ClientInv, PoolInv
<1> QED BY <1>1, <1>2

\* The place of a token of the list in a stable Pool, less the BPT's, is its own.
LEMMA SkipsBpt ==
  ASSUME ClientInv, Deployed, IsStable, NEW which \in Whiches
  PROVE  get(tokens, which).address =
           Besides[skipBptIndex(position(pool.order, get(tokens, which).address)) + 1]
<1> DEFINE n == Len(tokens)
           b == pool.bptIndex
           k == indexOf(tokens, which) + 1
           x == get(tokens, which).address
           p == position(pool.order, x)
<1>1. /\ n \in Nat /\ k \in 1..n /\ x = addresses(tokens)[k]
  <2>1. n \in Nat
    BY AddressesAre DEF ClientInv
  <2> QED BY <2>1, WhichIs
<1>2. StableOrder /\ b \in 0..n /\ DOMAIN pool.order = 1..(n + 1)
  BY OrderDomain DEF ClientInv, PoolInv, StableOrder
<1> HIDE DEF k, x
<1>3. x = pool.order[IF k <= b THEN k ELSE k + 1] /\ x # pool.order[b + 1]
  BY <1>1, <1>2 DEF StableOrder
<1>4. (IF k <= b THEN k ELSE k + 1) \in 1..(n + 1)
  BY <1>1, <1>2
<1>5. p \in 0..n /\ pool.order[p + 1] = x
  <2> DEFINE i == IF k <= b THEN k ELSE k + 1
  <2>1. i \in 1..(n + 1) /\ pool.order[i] = x /\ n + 1 \in Nat
    BY <1>1, <1>3, <1>4
  <2> HIDE DEF i
  <2>2. p \in 0..((n + 1) - 1) /\ pool.order[p + 1] = x
    BY <2>1, <1>2, PositionIn
  <2> QED BY <2>2, <1>1
<1> HIDE DEF p
<1>6. p # b
  BY <1>3, <1>5
<1>7. Besides = addresses(tokens)
  BY StableBesides
<1>8. \A i \in 1..n : Besides[i] = pool.order[IF i <= b THEN i ELSE i + 1]
  BY <1>2, <1>7 DEF StableOrder
<1>9. CASE p < b
  <2>1. skipBptIndex(p) = p /\ p + 1 \in 1..n /\ p + 1 <= b
    BY <1>1, <1>2, <1>5, <1>9 DEF skipBptIndex
  <2>2. Besides[p + 1] = pool.order[p + 1]
    BY <1>8, <2>1
  <2>3. Besides[skipBptIndex(p) + 1] = x
    BY <2>1, <2>2, <1>5
  <2> QED BY <2>3 DEF p, x
<1>10. CASE b < p
  <2>1. skipBptIndex(p) = p - 1 /\ p \in 1..n /\ ~(p <= b) /\ (p - 1) + 1 = p
    BY <1>1, <1>2, <1>5, <1>10 DEF skipBptIndex
  <2>2. Besides[p] = pool.order[p + 1]
    BY <1>8, <2>1
  <2>3. Besides[skipBptIndex(p) + 1] = x
    BY <2>1, <2>2, <1>5
  <2> QED BY <2>3 DEF p, x
<1> QED BY <1>1, <1>2, <1>5, <1>6, <1>9, <1>10

\* A list of as many amounts as the Pool has tokens, with the BPT or without, is of its
\* tokens once the BPT's is left out.
LEMMA StableListed ==
  ASSUME ClientInv, Deployed, IsStable, IsMany(held), Len(held.items) \in {Len(pool.order), Len(Besides)}
  PROVE  withoutBpt(held.items) = Besides
<1>1. /\ Len(tokens) \in Nat /\ Len(addresses(tokens)) = Len(tokens)
      /\ Len(pool.order) = Len(tokens) + 1
  BY AddressesAre DEF ClientInv, PoolInv, StableOrder
<1>2. Besides = addresses(tokens) /\ dropBptItem(pool.order) = Besides
  BY StableBesides
<1>3. Meant(held)
  BY DEF ClientInv, HeldInv
<1>4. CASE held = One(Each)
  BY <1>4, OnesAndManys
<1>5. CASE held = Many(pool.order)
  BY <1>2, <1>5, OnesAndManys DEF withoutBpt
<1>6. CASE held = Many(addresses(tokens))
  BY <1>1, <1>2, <1>6, OnesAndManys DEF withoutBpt
<1>7. CASE \E s \in Seq(Nat) : Len(s) < Len(tokens) /\ held = Many(s)
  <2>1. PICK s \in Seq(Nat) : Len(s) < Len(tokens) /\ held = Many(s)
    BY <1>7
  <2>2. held.items = s
    BY <2>1, OnesAndManys
  <2> QED BY <1>1, <1>2, <2>1, <2>2
<1> QED BY <1>3, <1>4, <1>5, <1>6, <1>7 DEF Meant

\* A list of amounts for a weighted Pool whose tokens are as the model's is of them.
LEMMA WeightedListed ==
  ASSUME ClientInv, Deployed, ~IsStable, IsMany(held), pool.order = addresses(tokens)
  PROVE  held.items = pool.order
BY OnesAndManys DEF ClientInv, HeldInv, Meant

\* Estimates compare like with like.
LEMMA EstimateMeans ==
  ASSUME ClientInv, NEW name \in DOMAIN Estimates,
         NEW whiches \in [1..Estimates[name].about -> Whiches], Estimate(name, whiches)
  PROVE  ClientInv' /\ AcceptedAsMeant' /\ EstimatesLineUp'
<1> DEFINE e == Estimates[name]
<1>1. /\ Deployed /\ tokens' = tokens /\ pool' = pool /\ held' = held
      /\ e.list => IsMany(held) /\ Len(held.items) \in {Len(pool.order), Len(Besides)}
  BY DEF Estimate
<1>2. /\ sent'.call = "estimate" /\ sent'.does = {f \in e.cached : f \in DOMAIN pool.settings}
      /\ sent'.purpose = e.cached
      /\ sent'.pairs = IF IsStable THEN stableFigures(e, whiches) ELSE weightedFigures(e, whiches)
  BY DEF Estimate
<1>3. e.cached \subseteq DOMAIN pool.settings
  BY <1>1, EstimatesCached
<1>4. \A i \in 1..e.about : whiches[i] \in Whiches
  OBVIOUS
<1> HIDE DEF e
<1>5. ClientInv' /\ SamePool
  BY <1>1, AskedKeeps
<1>6. AcceptedAsMeant'
  BY <1>2 DEF AcceptedAsMeant
<1>7. ASSUME IsStable, NEW p \in stableFigures(e, whiches) PROVE p[1] = p[2]
  <2>1. CASE e.list /\ p \in Pairs(withoutBpt(held.items), Besides)
    <3>1. withoutBpt(held.items) = Besides
      BY <1>1, <1>7, <2>1, StableListed
    <3> QED BY <2>1, <3>1 DEF Pairs
  <2>2. ASSUME NEW i \in 1..e.about,
               p = <<get(tokens, whiches[i]).address,
                     Besides[skipBptIndex(position(pool.order, get(tokens, whiches[i]).address)) + 1]>>
        PROVE  p[1] = p[2]
    BY <1>1, <1>4, <1>7, <2>2, SkipsBpt
  <2> QED BY <1>7, <2>1, <2>2 DEF stableFigures
<1>8. ASSUME ~IsStable, Unchanged, NEW p \in weightedFigures(e, whiches) PROVE p[1] = p[2]
  <2>0. pool.order = addresses(tokens)
    BY <1>8 DEF Unchanged, Besides
  <2>1. CASE p \in Pairs(pool.order, addresses(tokens))
    BY <2>0, <2>1 DEF Pairs
  <2>2. CASE e.list /\ p \in Pairs(held.items, pool.order)
    <3>1. held.items = pool.order
      BY <1>1, <1>8, <2>0, <2>2, WeightedListed
    <3> QED BY <2>2, <3>1 DEF Pairs
  <2>3. ASSUME NEW i \in 1..e.about,
               p = <<get(tokens, whiches[i]).address, pool.order[indexOf(tokens, whiches[i]) + 1]>>
        PROVE  p[1] = p[2]
    BY <1>4, <2>0, <2>3, WhichIs
  <2> QED BY <1>8, <2>1, <2>2, <2>3 DEF weightedFigures
<1>9. EstimatesLineUp'
  <2>1. {f \in e.cached : f \in DOMAIN pool.settings} = e.cached
    BY <1>3
  <2>2. ASSUME Unchanged PROVE \A p \in sent'.pairs : p[1] = p[2]
    BY <1>2, <1>7, <1>8, <2>2
  <2> QED BY <1>2, <1>5, <2>1, <2>2, SameBesides DEF EstimatesLineUp
<1> QED BY <1>5, <1>6, <1>9

-----------------------------------------------------------------------------
\* Tokens come to be at the addresses they are mined at, in whatever order they are listed.
LEMMA CreateTokensKeeps ==
  ASSUME ClientInv, NEW minedAt \in Minings, NEW sorted \in BOOLEAN, CreateTokens(minedAt, sorted)
  PROVE  ClientInv'
<1>1. ~Deployed /\ pool' = pool /\ held' = held
  BY DEF CreateTokens, ClientInv, PoolInv
<1> DEFINE n == Len(Symbols)
<1>2. /\ n \in Nat /\ DOMAIN Symbols = 1..n
      /\ \A i \in 1..n : minedAt[i] \in Nat \ BptAddresses
  <2>1. Symbols \in Seq(STRING) /\ minedAt \in [DOMAIN Symbols -> Nat]
    BY ClientAssumption
  <2>2. \A i \in DOMAIN minedAt : minedAt[i] \notin BptAddresses
    BY ClientAssumption
  <2> QED BY <2>1, <2>2
<1> HIDE DEF n
<1>3. /\ tokens' = [i \in 1..n |-> tokens'[i]]
      /\ \A i \in 1..n : tokens'[i].address \in Nat \ BptAddresses
  <2>1. CASE ~sorted
    <3> DEFINE made == [i \in DOMAIN Symbols |-> deployToken(Symbols[i], minedAt[i])]
    <3>1. tokens' = made
      BY <2>1 DEF CreateTokens, DeployTokens
    <3>2. DOMAIN made = 1..n /\ \A i \in 1..n : made[i].address = minedAt[i]
      BY <1>2 DEF deployToken
    <3>3. made = [i \in 1..n |-> made[i]]
      BY <1>2
    <3> HIDE DEF made
    <3> QED BY <1>2, <3>1, <3>2, <3>3
  <2>2. CASE sorted
    <3> DEFINE request == trimParamsForSortedDeploy(Symbols)
               made == [i \in DOMAIN request |-> deployToken(request[i], minedAt[i])]
    <3>1. DOMAIN request = 1..n
      BY <1>2 DEF trimParamsForSortedDeploy
    <3>2. tokens' \in sortTokensDeployment(made, Symbols)
      BY <2>2 DEF CreateTokens, DeployTokens
    <3> HIDE DEF request
    <3>3. /\ DOMAIN made = 1..n
          /\ \A i \in 1..n : /\ made[i].address = minedAt[i]
                             /\ DOMAIN made[i] = {"address", "symbol", "contract"}
      <4>1. made = [i \in DOMAIN request |-> deployToken(request[i], minedAt[i])]
        OBVIOUS
      <4> HIDE DEF made
      <4> QED BY <3>1, <4>1 DEF deployToken
    <3> HIDE DEF made
    <3>4. PICK s \in sort(made) : tokens' = [i \in DOMAIN Symbols |-> [s[i] EXCEPT !.symbol = Symbols[i]]]
      BY <3>2 DEF sortTokensDeployment
    <3>5. s \in [DOMAIN made -> {made[j] : j \in DOMAIN made}]
      BY DEF sort, ToSet
    <3>6. ASSUME NEW i \in 1..n PROVE tokens'[i].address \in Nat \ BptAddresses
      <4>1. PICK j \in 1..n : s[i] = made[j]
        BY <3>3, <3>5
      <4>2. tokens'[i] = [made[j] EXCEPT !.symbol = Symbols[i]]
        BY <1>2, <3>4, <4>1
      <4>3. tokens'[i].address = made[j].address
        BY <3>3, <4>2
      <4> QED BY <1>2, <3>3, <4>3
    <3>7. tokens' = [i \in 1..n |-> tokens'[i]]
      BY <1>2, <3>4
    <3> QED BY <3>6, <3>7
  <2> QED BY <2>1, <2>2
<1>4. TokensInv'
  <2>1. tokens' \in Seq({tokens'[i] : i \in 1..n}) /\ Len(tokens') = n
    <3>1. tokens' \in [1..n -> {tokens'[i] : i \in 1..n}]
      BY <1>3
    <3> QED BY <1>2, <3>1
  <2> QED BY <1>3, <2>1 DEF TokensInv
<1>5. PoolInv' /\ HeldInv'
  BY <1>1 DEF ClientInv, PoolInv, HeldInv, Deployed
<1> QED BY <1>4, <1>5 DEF ClientInv

\* A list that is in order is as it was when it is sorted.
LEMMA SortedOnce ==
  ASSUME TokensInv, InOrder(tokens), tokens' \in sort(tokens)
  PROVE  addresses(tokens') = addresses(tokens) /\ Len(tokens') = Len(tokens)
<1> DEFINE n == Len(tokens)
           a == addresses(tokens)
           b == addresses(tokens')
<1>1. n \in Nat /\ DOMAIN tokens = 1..n /\ a \in [1..n -> Nat] /\ \A i \in 1..n : a[i] = tokens[i].address
  BY AddressesAre
<1>2. /\ tokens' \in [1..n -> ToSet(tokens)] /\ InOrder(tokens') /\ ToSet(tokens') = ToSet(tokens)
  BY <1>1 DEF sort
<1>3. Len(tokens') = n /\ DOMAIN tokens' = 1..n
  BY <1>1, <1>2
<1>4. \A i \in 1..n : \E j \in 1..n : tokens'[i] = tokens[j]
  BY <1>1, <1>2 DEF ToSet
<1>5. \A i \in 1..n : \E j \in 1..n : tokens[i] = tokens'[j]
  <2>1. ASSUME NEW i \in 1..n PROVE \E j \in 1..n : tokens[i] = tokens'[j]
    <3>1. tokens[i] \in ToSet(tokens')
      BY <1>1, <1>2 DEF ToSet
    <3> QED BY <1>3, <3>1 DEF ToSet
  <2> QED BY <2>1
<1>6. /\ b \in [1..n -> Nat] /\ \A i \in 1..n : b[i] = tokens'[i].address
  <2>1. b = [i \in 1..n |-> tokens'[i].address]
    BY <1>3 DEF addresses
  <2>2. ASSUME NEW i \in 1..n PROVE tokens'[i].address \in Nat
    <3>1. PICK j \in 1..n : tokens'[i] = tokens[j]
      BY <1>4
    <3> QED BY <1>1, <3>1
  <2> QED BY <2>1, <2>2
<1>7. \A i \in 1..(n - 1) : a[i] < a[i + 1]
  <2>1. ASSUME NEW i \in 1..(n - 1) PROVE a[i] < a[i + 1]
    <3>1. i \in 1..n /\ i + 1 \in 1..n /\ Before(tokens[i], tokens[i + 1])
      BY <1>1 DEF InOrder
    <3> QED BY <1>1, <3>1 DEF Before
  <2> QED BY <2>1
<1>8. \A i \in 1..(n - 1) : b[i] < b[i + 1]
  <2>1. ASSUME NEW i \in 1..(n - 1) PROVE b[i] < b[i + 1]
    <3>1. i \in 1..n /\ i + 1 \in 1..n /\ Before(tokens'[i], tokens'[i + 1])
      BY <1>1, <1>2, <1>3 DEF InOrder
    <3> QED BY <1>6, <3>1 DEF Before
  <2> QED BY <2>1
<1>9. /\ \A i \in 1..n : \E j \in 1..n : a[i] = b[j]
      /\ \A i \in 1..n : \E j \in 1..n : b[i] = a[j]
  <2> HIDE DEF a, b
  <2>1. ASSUME NEW i \in 1..n PROVE \E j \in 1..n : a[i] = b[j]
    <3>1. PICK j \in 1..n : tokens[i] = tokens'[j]
      BY <1>5
    <3>2. a[i] = b[j]
      BY <1>1, <1>6, <3>1
    <3> QED BY <3>2
  <2>2. ASSUME NEW i \in 1..n PROVE \E j \in 1..n : b[i] = a[j]
    <3>1. PICK j \in 1..n : tokens'[i] = tokens[j]
      BY <1>4
    <3>2. b[i] = a[j]
      BY <1>1, <1>6, <3>1
    <3> QED BY <3>2
  <2> QED BY <2>1, <2>2
<1> HIDE DEF a, b, n
<1>10. /\ \A i, j \in 1..n : i < j => a[i] < a[j]
       /\ \A i, j \in 1..n : i < j => b[i] < b[j]
  BY <1>1, <1>6, <1>7, <1>8, OrderGrows
<1>11. a = b
  BY <1>1, <1>6, <1>9, <1>10, OrderIsOne
<1> QED BY <1>3, <1>11 DEF a, b, n

LEMMA SortTokensKeeps == ASSUME ClientInv, SortTokens PROVE ClientInv'
<1>1. tokens' \in sort(tokens) /\ pool' = pool /\ held' = held
  BY DEF SortTokens
<1>2. TokensInv /\ Len(tokens) \in Nat /\ DOMAIN tokens = 1..Len(tokens)
  BY AddressesAre DEF ClientInv
<1>3. /\ tokens' \in [1..Len(tokens) -> ToSet(tokens)] /\ InOrder(tokens')
  BY <1>1, <1>2 DEF sort
<1>4. TokensInv'
  <2>1. tokens' \in Seq(ToSet(tokens)) /\ Len(tokens') = Len(tokens)
    BY <1>2, <1>3
  <2>2. ASSUME NEW i \in 1..Len(tokens) PROVE tokens'[i].address \in Nat \ BptAddresses
    <3>1. PICK j \in 1..Len(tokens) : tokens'[i] = tokens[j]
      BY <1>2, <1>3 DEF ToSet
    <3> QED BY <1>2, <3>1 DEF TokensInv
  <2> QED BY <2>1, <2>2 DEF TokensInv
<1>5. CASE ~Deployed
  BY <1>1, <1>4, <1>5 DEF ClientInv, PoolInv, HeldInv, Deployed
<1>6. CASE Deployed
  <2>1. tokens # <<>> /\ InOrder(tokens)
    BY <1>6 DEF ClientInv, PoolInv
  <2>2. addresses(tokens') = addresses(tokens) /\ Len(tokens') = Len(tokens)
    BY <1>1, <1>2, <2>1, SortedOnce
  <2>3. tokens' # <<>>
    BY <1>2, <2>1, <2>2
  <2>4. (StableOrder => StableOrder') /\ (WeightedOrder => WeightedOrder')
    BY <1>1, <2>2 DEF StableOrder, WeightedOrder
  <2>5. (Deployed' <=> Deployed) /\ (IsStable' <=> IsStable)
    BY <1>1 DEF Deployed, IsStable
  <2>6. PoolInv'
    BY <1>1, <1>3, <2>3, <2>4, <2>5 DEF ClientInv, PoolInv
  <2>7. HeldInv'
    BY <1>1, <2>2, <2>5 DEF ClientInv, HeldInv, Meant
  <2> QED BY <1>4, <2>6, <2>7 DEF ClientInv
<1> QED BY <1>5, <1>6

\* What every way to deploy a weighted Pool passes on.
LEMMA ReachesWeighted ==
  ASSUME NEW type, Family(type) # "stable", NEW fromFactory \in BOOLEAN
  PROVE  {"weights", "swapFee"} \subseteq Reach(type, fromFactory)
<1>1. type \in {"WEIGHTED", "BOOTSTRAPPING", "MANAGED", "RELAYED"}
  BY DEF Family, WeightedPoolTypes
<1>2. {"weights", "swapFee"} \subseteq deployFromFactory(type)
  BY <1>1, Zenon DEF deployFromFactory
<1>3. {"weights", "swapFee"} \subseteq deployStandaloneWeighted(type)
  BY <1>1, Zenon DEF deployStandaloneWeighted
<1> QED BY <1>2, <1>3 DEF Reach

LEMMA DeployPoolKeeps ==
  ASSUME ClientInv, NEW type, NEW fromFactory \in BOOLEAN, NEW vault, NEW bpt \in BptAddresses,
         DeployPool(type, fromFactory, vault, bpt)
  PROVE  ClientInv'
<1> DEFINE order == Registered(type, tokens, bpt)
<1>1. /\ ~Deployed /\ tokens # <<>> /\ InOrder(tokens) /\ tokens' = tokens /\ held' = held
      /\ pool' = [NoPool EXCEPT !.type = type, !.order = order,
                                !.mocked = VaultIsMocked(type, fromFactory, vault),
                                !.bptIndex = position(order, bpt),
                                !.settings = [f \in Reach(type, fromFactory) |-> "deployed"]]
  BY DEF DeployPool
<1> HIDE DEF order
<1>2. /\ DOMAIN pool' = {"type", "mocked", "order", "bptIndex", "settings", "initialized", "paused", "recovery"}
      /\ pool' = [f \in DOMAIN pool' |-> pool'[f]]
      /\ pool'.type = type /\ pool'.order = order /\ pool'.bptIndex = position(order, bpt)
      /\ DOMAIN pool'.settings = Reach(type, fromFactory)
  BY <1>1 DEF NoPool
<1>3. TokensInv'
  BY <1>1 DEF ClientInv, TokensInv
<1>4. HeldInv'
  <2>1. held = One(Each)
    BY <1>1 DEF ClientInv, HeldInv
  <2> QED BY <1>1, <2>1 DEF HeldInv, Meant
<1>5. CASE Family(type) = "stable"
  <2>1. IsStable'
    BY <1>2, <1>5 DEF IsStable
  <2>2. /\ Len(tokens) \in Nat /\ addresses(tokens) \in Seq(Nat) /\ Len(addresses(tokens)) = Len(tokens)
        /\ \A i \in 1..Len(tokens) : addresses(tokens)[i] # bpt
    BY AddressesAre DEF ClientInv
  <2>3. order = insertSorted(addresses(tokens), bpt) /\ bpt \in Nat
    BY <1>5, ClientAssumption DEF order, Registered
  <2> DEFINE b == position(order, bpt)
  <2>4. /\ order \in Seq(Nat) /\ Len(order) = Len(tokens) + 1
        /\ b \in 0..Len(tokens) /\ order[b + 1] = bpt
        /\ \A i \in 1..Len(tokens) : addresses(tokens)[i] = order[IF i <= b THEN i ELSE i + 1]
    <3> DEFINE A == addresses(tokens)
    <3>1. A \in Seq(Nat) /\ Len(A) = Len(tokens) /\ \A i \in 1..Len(A) : A[i] # bpt
      BY <2>2
    <3>2. order = insertSorted(A, bpt) /\ bpt \in Nat /\ b = position(order, bpt)
      BY <2>3
    <3> HIDE DEF A
    <3>3. InsertedAt(A, bpt, order, b)
      BY <3>1, <3>2, InsertsAt
    <3> HIDE DEF b
    <3>4. /\ order \in Seq(Nat) /\ Len(order) = Len(A) + 1
          /\ b \in 0..Len(A) /\ order[b + 1] = bpt
          /\ \A i \in 1..Len(A) : A[i] = order[IF i <= b THEN i ELSE i + 1]
      BY <3>3 DEF InsertedAt
    <3> QED BY <3>1, <3>4 DEF A
  <2>5. addresses(tokens)' = addresses(tokens) /\ Len(tokens)' = Len(tokens) /\ pool'.bptIndex = b
    BY <1>1, <1>2
  <2> HIDE DEF b
  <2>6. StableOrder'
    BY <1>2, <2>2, <2>4, <2>5 DEF StableOrder
  <2>7. "amplification" \in Reach(type, fromFactory)
    BY <1>5 DEF Reach, deployStandaloneStable, toStablePoolDeployment
  <2>8. PoolInv'
    BY <1>1, <1>2, <2>1, <2>6, <2>7 DEF PoolInv
  <2> QED BY <1>3, <1>4, <2>8 DEF ClientInv
<1>6. CASE Family(type) # "stable"
  <2>1. ~IsStable'
    BY <1>2, <1>6 DEF IsStable
  <2>2. WeightedOrder'
    BY <1>1, <1>2, <1>6 DEF WeightedOrder, Registered, order
  <2>3. {"weights", "swapFee"} \subseteq Reach(type, fromFactory)
    BY <1>6, ReachesWeighted
  <2>4. PoolInv'
    BY <1>1, <1>2, <2>1, <2>2, <2>3 DEF PoolInv
  <2> QED BY <1>3, <1>4, <2>4 DEF ClientInv
<1> QED BY <1>5, <1>6

\* Lists that the caller writes are of the Pool's tokens or the model's.
LEMMA WriteAmountsKeeps ==
  ASSUME ClientInv, NEW amounts \in Lists \cup {One(Each)}, WriteAmounts(amounts)
  PROVE  ClientInv'
<1>1. Deployed /\ tokens' = tokens /\ pool' = pool /\ held' = amounts
  BY DEF WriteAmounts
<1>2. SamePool
  BY <1>1, StateOnly
<1>3. Meant(amounts)
  BY DEF Lists, Meant
<1>4. Meant(held)'
  BY <1>1, <1>3 DEF Meant, IsStable
<1>5. HeldInv'
  BY <1>1, <1>2, <1>4, SameBesides DEF HeldInv
<1> QED BY <1>2, <1>5, SamePoolKeeps

LEMMA StateChangeKeeps ==
  ASSUME ClientInv,
         \/ \E method \in DOMAIN Setters : Set(method)
         \/ \E paused \in BOOLEAN : SetPaused(paused)
         \/ \E enabled \in BOOLEAN : SetRecovery(enabled)
         \/ \E to \in Funded : Fund(to)
         \/ Answered
  PROVE  ClientInv'
<1>1. CASE \E method \in DOMAIN Setters : Set(method)
  <2>1. PICK method \in DOMAIN Setters : Set(method)
    BY <1>1
  <2>2. tokens' = tokens /\ held' = held /\ \E f : pool' = [pool EXCEPT !.settings[f] = "changed"]
    BY <2>1 DEF Set
  <2> QED BY <2>2, StateOnly, SameHeldKeeps
<1>2. CASE \E paused \in BOOLEAN : SetPaused(paused)
  <2>1. PICK paused \in BOOLEAN : SetPaused(paused)
    BY <1>2
  <2> QED BY <2>1, StateOnly, SameHeldKeeps DEF SetPaused
<1>3. CASE \E enabled \in BOOLEAN : SetRecovery(enabled)
  <2>1. PICK enabled \in BOOLEAN : SetRecovery(enabled)
    BY <1>3
  <2> QED BY <2>1, StateOnly, SameHeldKeeps DEF SetRecovery
<1>4. CASE \E to \in Funded : Fund(to)
  BY <1>4, StateOnly, SameHeldKeeps DEF Fund
<1>5. CASE Answered
  BY <1>5, StateOnly, SameHeldKeeps DEF Answered
<1> QED BY <1>1, <1>2, <1>3, <1>4, <1>5

\* A Pool's tokens change on a real Vault only, and with them the lists that are written.
LEMMA TokenChangeKeeps ==
  ASSUME ClientInv, NEW address, addToken(address) \/ removeToken(address)
  PROVE  ClientInv'
<1>1. /\ pool.type = "MANAGED" /\ ~pool.mocked /\ tokens' = tokens /\ held' = One(Each)
      /\ \E order : pool' = [pool EXCEPT !.order = order, !.settings["weights"] = "changed"]
  <2>1. CASE addToken(address)
    BY <2>1 DEF addToken, ManagedOnVault
  <2>2. CASE removeToken(address)
    BY <2>2 DEF removeToken, ManagedOnVault
  <2> QED BY <2>1, <2>2
<1>2. PICK order : pool' = [pool EXCEPT !.order = order, !.settings["weights"] = "changed"]
  BY <1>1
<1>3. /\ DOMAIN pool = {"type", "mocked", "order", "bptIndex", "settings", "initialized", "paused", "recovery"}
      /\ pool = [f \in DOMAIN pool |-> pool[f]]
  BY DEF ClientInv, PoolInv
<1>4. pool'.settings = [pool.settings EXCEPT !["weights"] = "changed"]
  BY <1>2, <1>3
<1>5. /\ DOMAIN pool' = DOMAIN pool /\ pool' = [f \in DOMAIN pool' |-> pool'[f]]
      /\ pool'.type = pool.type /\ pool'.mocked = pool.mocked
      /\ DOMAIN pool'.settings = DOMAIN pool.settings
  BY <1>2, <1>3, <1>4
<1>6. Deployed /\ Deployed' /\ ~IsStable /\ ~IsStable'
  <2>1. Family("MANAGED") = "weighted"
    BY DEF Family, WeightedPoolTypes
  <2> QED BY <1>1, <1>5, <2>1 DEF Deployed, IsStable
<1>7. TokensInv'
  BY <1>1 DEF ClientInv, TokensInv
<1>8. HeldInv'
  BY <1>1, <1>6 DEF HeldInv, Meant
<1>9. WeightedOrder'
  BY <1>1, <1>5 DEF WeightedOrder
<1>10. PoolInv'
  BY <1>1, <1>3, <1>5, <1>6, <1>9 DEF ClientInv, PoolInv
<1> QED BY <1>7, <1>8, <1>10 DEF ClientInv

-----------------------------------------------------------------------------
Meaningful == AcceptedAsMeant /\ EstimatesLineUp

LEMMA ClientStarts == ClientInit => ClientInv /\ Meaningful
<1> SUFFICES ASSUME ClientInit PROVE ClientInv /\ Meaningful
  OBVIOUS
<1>1. tokens = <<>> /\ pool = NoPool /\ held = One(Each) /\ sent = Nothing
  BY DEF ClientInit
<1>2. TokensInv
  <2>1. tokens \in Seq({}) /\ Len(tokens) = 0
    BY <1>1
  <2> QED BY <2>1 DEF TokensInv
<1>3. ~Deployed
  BY <1>1 DEF Deployed, NoPool
<1>4. PoolInv
  <2>1. /\ DOMAIN pool = {"type", "mocked", "order", "bptIndex", "settings", "initialized", "paused", "recovery"}
        /\ pool = [f \in DOMAIN pool |-> pool[f]]
    BY <1>1 DEF NoPool
  <2> QED BY <1>3, <2>1 DEF PoolInv
<1>5. HeldInv
  BY <1>1, <1>3 DEF HeldInv
<1>6. Meaningful
  BY <1>1 DEF Meaningful, AcceptedAsMeant, EstimatesLineUp, Nothing
<1> QED BY <1>2, <1>4, <1>5, <1>6 DEF ClientInv

LEMMA ClientDoes ==
  ASSUME ClientInv, sent = Nothing, Does
  PROVE  ClientInv' /\ Meaningful'
<1>1. ASSUME sent' = sent PROVE Meaningful'
  BY <1>1, NothingMeans DEF Meaningful
<1>2. ASSUME NEW minedAt \in Minings, NEW sorted \in BOOLEAN, CreateTokens(minedAt, sorted)
      PROVE  ClientInv' /\ Meaningful'
  <2>1. sent' = sent
    BY <1>2 DEF CreateTokens
  <2> QED BY <1>1, <1>2, <2>1, CreateTokensKeeps
<1>3. CASE SortTokens
  <2>1. sent' = sent
    BY <1>3 DEF SortTokens
  <2> QED BY <1>1, <1>3, <2>1, SortTokensKeeps
<1>4. ASSUME NEW type \in Types, NEW fromFactory \in BOOLEAN, NEW vault \in {"new", "mocked", "real"},
             NEW bpt \in BptAddresses, DeployPool(type, fromFactory, vault, bpt)
      PROVE  ClientInv' /\ Meaningful'
  <2>1. sent' = sent
    BY <1>4 DEF DeployPool
  <2> QED BY <1>1, <1>4, <2>1, DeployPoolKeeps
<1>5. ASSUME NEW amounts \in Lists \cup {One(Each)}, WriteAmounts(amounts)
      PROVE  ClientInv' /\ Meaningful'
  <2>1. sent' = sent
    BY <1>5 DEF WriteAmounts
  <2> QED BY <1>1, <1>5, <2>1, WriteAmountsKeeps
<1>6. ASSUME NEW name \in DOMAIN Methods, NEW from \in Senders,
             NEW which \in IF TakesToken(Methods[name]) THEN Whiches ELSE {ByIndex(0)},
             Call(name, which, from)
      PROVE  ClientInv' /\ Meaningful'
  <2>1. TakesToken(Methods[name]) => which \in Whiches
    OBVIOUS
  <2> QED BY <1>6, <2>1, CallMeans DEF Meaningful
<1>7. ASSUME NEW tokenIn \in Whiches, NEW tokenOut \in Whiches, SwapWeighted(tokenIn, tokenOut)
      PROVE  ClientInv' /\ Meaningful'
  BY <1>7, SwapWeightedMeans DEF Meaningful
<1>8. ASSUME NEW i \in DOMAIN pool.order, NEW j \in DOMAIN pool.order,
             SwapStable(pool.order[i], pool.order[j]) \/ QuerySwapStable(pool.order[i], pool.order[j])
      PROVE  ClientInv' /\ Meaningful'
  BY <1>8, SwapStableMeans DEF Meaningful
<1>9. ASSUME NEW name \in DOMAIN Estimates, NEW whiches \in [1..Estimates[name].about -> Whiches],
             Estimate(name, whiches)
      PROVE  ClientInv' /\ Meaningful'
  BY <1>9, EstimateMeans DEF Meaningful
<1>10. ASSUME NEW method \in DOMAIN Setters, Set(method) PROVE ClientInv' /\ Meaningful'
  <2>1. sent' = sent
    BY <1>10 DEF Set
  <2> QED BY <1>1, <1>10, <2>1, StateChangeKeeps
<1>11. ASSUME NEW paused \in BOOLEAN, SetPaused(paused) PROVE ClientInv' /\ Meaningful'
  <2>1. sent' = sent
    BY <1>11 DEF SetPaused
  <2> QED BY <1>1, <1>11, <2>1, StateChangeKeeps
<1>12. ASSUME NEW enabled \in BOOLEAN, SetRecovery(enabled) PROVE ClientInv' /\ Meaningful'
  <2>1. sent' = sent
    BY <1>12 DEF SetRecovery
  <2> QED BY <1>1, <1>12, <2>1, StateChangeKeeps
<1>13. ASSUME NEW to \in Funded, Fund(to) PROVE ClientInv' /\ Meaningful'
  <2>1. sent' = sent
    BY <1>13 DEF Fund
  <2> QED BY <1>1, <1>13, <2>1, StateChangeKeeps
<1>14. ASSUME NEW address, addToken(address) \/ removeToken(address) PROVE ClientInv' /\ Meaningful'
  <2>1. sent' = sent
    BY <1>14 DEF addToken, removeToken
  <2> QED BY <1>1, <1>14, <2>1, TokenChangeKeeps
<1> QED BY <1>2, <1>3, <1>4, <1>5, <1>6, <1>7, <1>8, <1>9, <1>10, <1>11, <1>12, <1>13, <1>14 DEF Does

LEMMA ClientStep == ClientInv /\ Meaningful /\ [ClientNext]_clientVars => ClientInv' /\ Meaningful'
<1> SUFFICES ASSUME ClientInv, Meaningful, [ClientNext]_clientVars PROVE ClientInv' /\ Meaningful'
  OBVIOUS
<1>1. CASE sent = Nothing /\ Does
  BY <1>1, ClientDoes
<1>2. CASE Answered
  BY <1>2, StateChangeKeeps, NothingMeans DEF Answered, Meaningful
<1>3. CASE UNCHANGED clientVars
  <2>1. tokens' = tokens /\ pool' = pool /\ held' = held /\ sent' = sent
    BY <1>3 DEF clientVars
  <2>2. ClientInv' /\ SamePool
    BY <2>1, AskedKeeps
  <2>3. AcceptedAsMeant'
    BY <2>1, <2>2, SameBesides DEF Meaningful, AcceptedAsMeant
  <2>4. EstimatesLineUp'
    BY <2>1, <2>2, SameBesides DEF Meaningful, EstimatesLineUp
  <2> QED BY <2>2, <2>3, <2>4 DEF Meaningful
<1> QED BY <1>1, <1>2, <1>3 DEF ClientNext

(***************************************************************************)
(* A call of a Pool's model that is accepted is the join or exit that its  *)
(* method is named for, and each amount and index in it is taken for the   *)
(* token it was given for: for any tokens, mined at any addresses, Pools   *)
(* of either family with the BPT anywhere among them, and whatever calls   *)
(* were made before with the same parameters (WeightedPool.ts,             *)
(* StablePool.ts, BasePool.ts, the encoders and the Pools' userData).      *)
(***************************************************************************)
THEOREM CallsAreMeant == ClientSpec => []AcceptedAsMeant
<1>1. ClientInv /\ Meaningful => AcceptedAsMeant
  BY DEF Meaningful
<1> QED BY ClientStarts, ClientStep, <1>1, PTL DEF ClientSpec

(***************************************************************************)
(* Estimates of the models are computed from lists that are of the same    *)
(* tokens, place by place, without the BPT; and the parameters they take   *)
(* from the model are ones that the Pool was deployed with, whatever type  *)
(* and factory it is of (WeightedPool.ts, StablePool.ts,                   *)
(* WeightedPoolDeployer.ts, StablePoolDeployer.ts).                        *)
(***************************************************************************)
THEOREM FiguresLineUp == ClientSpec => []EstimatesLineUp
<1>1. ClientInv /\ Meaningful => EstimatesLineUp
  BY DEF Meaningful
<1> QED BY ClientStarts, ClientStep, <1>1, PTL DEF ClientSpec

-----------------------------------------------------------------------------
(***************************************************************************)
(* The nodes of trees are what hashing makes of leaves: the least set that *)
(* has the leaves and is closed under it.                                  *)
(***************************************************************************)
Leaves == {<<e>> : e \in Elements}
Hashed(T) == \A a, b \in T : keccak256(a, b) \in T
Nodes == {x \in Seq(Int) : \A T \in SUBSET Seq(Int) : Leaves \subseteq T /\ Hashed(T) => x \in T}

\* What a hash is made of is read off its numbers.
LEMMA KeccakIs ==
  ASSUME NEW a \in Seq(Int), NEW b \in Seq(Int)
  PROVE  LET h == keccak256(a, b) IN
         /\ h \in Seq(Int)
         /\ Len(h) = 1 + Len(a) + Len(b)
         /\ h[1] = Mark
         /\ \A i \in 1..Len(a) : h[1 + i] = -a[i]
         /\ \A i \in 1..Len(b) : h[1 + Len(a) + i] = -b[i]
<1> DEFINE nodes == a \o b
           n == [i \in DOMAIN nodes |-> -nodes[i]]
           h == <<Mark>> \o n
<1>1. /\ nodes \in Seq(Int) /\ Len(nodes) = Len(a) + Len(b)
      /\ \A i \in 1..Len(a) : nodes[i] = a[i]
      /\ \A i \in 1..Len(b) : nodes[Len(a) + i] = b[i]
  OBVIOUS
<1> HIDE DEF nodes
<1>2. /\ n \in Seq(Int) /\ Len(n) = Len(a) + Len(b)
      /\ \A i \in 1..Len(n) : n[i] = -nodes[i]
  <2>1. DOMAIN nodes = 1..(Len(a) + Len(b)) /\ \A i \in DOMAIN nodes : nodes[i] \in Int
    BY <1>1
  <2> QED BY <2>1
<1> HIDE DEF n
<1>3. Mark \in Int
  BY MerkleAssumption
<1>4. /\ h \in Seq(Int) /\ Len(h) = 1 + Len(n) /\ h[1] = Mark
      /\ \A i \in 1..Len(n) : h[1 + i] = n[i]
  <2> DEFINE mark == <<Mark>>
  <2>1. mark \in Seq(Int) /\ Len(mark) = 1 /\ mark[1] = Mark
    BY <1>3
  <2>2. h = mark \o n
    OBVIOUS
  <2> HIDE DEF mark, h
  <2>0. n \in Seq(Int) /\ Len(n) \in Nat
    BY <1>2
  <2>3. /\ h \in Seq(Int) /\ Len(h) = 1 + Len(n)
        /\ \A i \in 1..(1 + Len(n)) : h[i] = IF i <= 1 THEN mark[i] ELSE n[i - 1]
    <3>1. mark \in Seq(Int)
      BY <2>1
    <3>2. /\ mark \o n \in Seq(Int) /\ Len(mark \o n) = Len(mark) + Len(n)
          /\ \A i \in 1..(Len(mark) + Len(n)) :
               (mark \o n)[i] = IF i <= Len(mark) THEN mark[i] ELSE n[i - Len(mark)]
      BY <2>0, <3>1, ConcatProperties, Zenon
    <3> QED BY <2>1, <2>2, <3>2, Zenon
  <2>4. 1 \in 1..(1 + Len(n))
    BY <2>0
  <2>5. \A i \in 1..Len(n) : 1 + i \in 1..(1 + Len(n)) /\ ~(1 + i <= 1) /\ (1 + i) - 1 = i
    BY <2>0
  <2>6. h[1] = Mark
    BY <2>1, <2>3, <2>4
  <2> QED BY <2>3, <2>4, <2>5, <2>6
<1> HIDE DEF h
<1>5. ASSUME NEW i \in 1..Len(a) PROVE h[1 + i] = -a[i]
  <2>1. i \in 1..Len(n)
    BY <1>2
  <2> QED BY <1>1, <1>2, <1>4, <2>1
<1>6. ASSUME NEW i \in 1..Len(b) PROVE h[1 + Len(a) + i] = -b[i]
  <2>1. Len(a) + i \in 1..Len(n) /\ 1 + Len(a) + i = 1 + (Len(a) + i)
    BY <1>2
  <2>2. n[Len(a) + i] = -nodes[Len(a) + i] /\ nodes[Len(a) + i] = b[i]
    BY <1>1, <1>2, <2>1
  <2>3. h[1 + (Len(a) + i)] = n[Len(a) + i]
    BY <1>4, <2>1
  <2> QED BY <2>1, <2>2, <2>3, Zenon
<1>7. h = keccak256(a, b)
  BY DEF keccak256, h, n, nodes
<1> QED BY <1>2, <1>4, <1>5, <1>6, <1>7

LEMMA LeavesAre == \A x \in Leaves : /\ x \in Seq(Int) /\ Len(x) = 1
                                     /\ x[1] \in Elements /\ x[1] # Mark /\ x = <<x[1]>>
<1> SUFFICES ASSUME NEW x \in Leaves
             PROVE  x \in Seq(Int) /\ Len(x) = 1 /\ x[1] \in Elements /\ x[1] # Mark /\ x = <<x[1]>>
  OBVIOUS
<1>1. PICK e \in Elements : x = <<e>>
  BY DEF Leaves
<1>2. e \in Int /\ e # Mark
  BY MerkleAssumption
<1> QED BY <1>1, <1>2

LEMMA NodesClosed == /\ Nodes \subseteq Seq(Int)
                     /\ Leaves \subseteq Nodes
                     /\ \A a, b \in Nodes : keccak256(a, b) \in Nodes
<1>1. Nodes \subseteq Seq(Int)
  BY DEF Nodes
<1>2. Leaves \subseteq Nodes
  BY LeavesAre DEF Nodes
<1>3. ASSUME NEW a \in Nodes, NEW b \in Nodes PROVE keccak256(a, b) \in Nodes
  <2>1. keccak256(a, b) \in Seq(Int)
    BY <1>1, KeccakIs
  <2>2. ASSUME NEW T \in SUBSET Seq(Int), Leaves \subseteq T, Hashed(T) PROVE keccak256(a, b) \in T
    <3>1. a \in T /\ b \in T
      BY <2>2, <1>3 DEF Nodes
    <3> QED BY <3>1, <2>2 DEF Hashed
  <2> QED BY <2>1, <2>2 DEF Nodes
<1> QED BY <1>1, <1>2, <1>3

\* What leaves have and hashing hands on, every node has.
LEMMA NodeInduction ==
  ASSUME NEW T, T \subseteq Nodes, Leaves \subseteq T,
         \A a, b \in T : keccak256(a, b) \in T
  PROVE  Nodes \subseteq T
<1>1. T \in SUBSET Seq(Int)
  BY NodesClosed
<1>2. Hashed(T)
  BY DEF Hashed
<1> QED BY <1>1, <1>2 DEF Nodes

LEMMA NodeIs ==
  ASSUME NEW x \in Nodes
  PROVE  x \in Leaves \/ \E a, b \in Nodes : x = keccak256(a, b)
<1> DEFINE T == {y \in Nodes : y \in Leaves \/ \E a, b \in Nodes : y = keccak256(a, b)}
<1>1. T \subseteq Nodes /\ Leaves \subseteq T
  BY NodesClosed
<1>2. \A a, b \in T : keccak256(a, b) \in T
  BY NodesClosed
<1>3. Nodes \subseteq T
  <2> HIDE DEF T
  <2> QED BY <1>1, <1>2, NodeInduction
<1> QED BY <1>3

-----------------------------------------------------------------------------
\* No node is the beginning of another: a leaf has no mark, nor has a leaf that is hashed,
\* and where the first of two hashed nodes ends is where the second begins.
Agree(a, b) == \A i \in 1..Len(a) : i <= Len(b) => a[i] = b[i]

LEMMA HashesAgree ==
  ASSUME NEW a \in Seq(Int), NEW b \in Seq(Int), NEW c \in Seq(Int), NEW d \in Seq(Int),
         Agree(keccak256(a, b), keccak256(c, d))
  PROVE  Agree(a, c) /\ (a = c => Agree(b, d))
<1> DEFINE g == keccak256(a, b)
           h == keccak256(c, d)
<1>1. /\ Len(g) = 1 + Len(a) + Len(b)
      /\ \A i \in 1..Len(a) : g[1 + i] = -a[i]
      /\ \A i \in 1..Len(b) : g[1 + Len(a) + i] = -b[i]
  BY KeccakIs
<1>2. /\ Len(h) = 1 + Len(c) + Len(d)
      /\ \A i \in 1..Len(c) : h[1 + i] = -c[i]
      /\ \A i \in 1..Len(d) : h[1 + Len(c) + i] = -d[i]
  BY KeccakIs
<1>3. \A i \in 1..Len(g) : i <= Len(h) => g[i] = h[i]
  BY DEF Agree
<1> HIDE DEF g, h
<1>4. ASSUME NEW i \in 1..Len(a), i <= Len(c) PROVE a[i] = c[i]
  <2>1. 1 + i \in 1..Len(g) /\ 1 + i <= Len(h) /\ i \in 1..Len(c) /\ a[i] \in Int /\ c[i] \in Int
    BY <1>1, <1>2, <1>4, SMTT(30)
  <2>2. -a[i] = -c[i]
    BY <2>1, <1>1, <1>2, <1>3
  <2> QED BY <2>1, <2>2, SMTT(30)
<1>5. ASSUME a = c, NEW i \in 1..Len(b), i <= Len(d) PROVE b[i] = d[i]
  <2>1. /\ 1 + Len(a) + i \in 1..Len(g) /\ 1 + Len(a) + i <= Len(h) /\ i \in 1..Len(d)
        /\ b[i] \in Int /\ d[i] \in Int
    BY <1>1, <1>2, <1>5
  <2>2. -b[i] = -d[i]
    BY <2>1, <1>1, <1>2, <1>3, <1>5
  <2> QED BY <2>1, <2>2, SMTT(30)
<1> QED BY <1>4, <1>5 DEF Agree

LEMMA AgreeMarks ==
  ASSUME NEW x \in Leaves, NEW a \in Nodes, NEW b \in Nodes
  PROVE  ~Agree(x, keccak256(a, b)) /\ ~Agree(keccak256(a, b), x)
<1>1. /\ Len(keccak256(a, b)) = 1 + Len(a) + Len(b) /\ keccak256(a, b)[1] = Mark
      /\ Len(a) \in Nat /\ Len(b) \in Nat
  <2>1. a \in Seq(Int) /\ b \in Seq(Int)
    BY NodesClosed
  <2> DEFINE h == keccak256(a, b)
  <2>2. Len(h) = 1 + Len(a) + Len(b) /\ h[1] = Mark
    BY <2>1, KeccakIs
  <2> QED BY <2>1, <2>2
<1>2. Len(x) = 1 /\ x[1] # Mark
  BY LeavesAre
<1> QED BY <1>1, <1>2 DEF Agree

LEMMA NodesAgree ==
  ASSUME NEW x \in Nodes, NEW y \in Nodes, Agree(x, y)
  PROVE  x = y
<1> DEFINE T == {a \in Nodes : \A b \in Nodes : Agree(a, b) => a = b}
<1>1. T \subseteq Nodes
  OBVIOUS
<1>2. ASSUME NEW a \in Leaves PROVE a \in T
  <2>1. a \in Nodes
    BY NodesClosed
  <2>2. ASSUME NEW b \in Nodes, Agree(a, b) PROVE a = b
    <3>1. b \in Leaves
      BY <2>2, NodeIs, AgreeMarks
    <3>2. Len(a) = 1 /\ Len(b) = 1 /\ a = <<a[1]>> /\ b = <<b[1]>>
      BY <3>1, LeavesAre
    <3>3. a[1] = b[1]
      BY <3>2, <2>2 DEF Agree
    <3> QED BY <3>2, <3>3
  <2> QED BY <2>1, <2>2
<1>3. ASSUME NEW a \in T, NEW b \in T PROVE keccak256(a, b) \in T
  <2>1. keccak256(a, b) \in Nodes
    BY NodesClosed
  <2>2. ASSUME NEW z \in Nodes, Agree(keccak256(a, b), z) PROVE keccak256(a, b) = z
    <3>1. PICK c \in Nodes, d \in Nodes : z = keccak256(c, d)
      BY <2>2, NodeIs, AgreeMarks
    <3>2. Agree(a, c) /\ (a = c => Agree(b, d))
      BY <2>2, <3>1, HashesAgree, NodesClosed
    <3> QED BY <3>1, <3>2
  <2> QED BY <2>1, <2>2
<1>4. Nodes \subseteq T
  <2> HIDE DEF T
  <2> QED BY <1>1, <1>2, <1>3, NodeInduction
<1> QED BY <1>4

\* Nodes are told apart by their hashes.
LEMMA HashesDiffer ==
  ASSUME NEW a \in Nodes, NEW b \in Nodes, NEW c \in Nodes, NEW d \in Nodes,
         keccak256(a, b) = keccak256(c, d)
  PROVE  a = c /\ b = d
<1>1. Agree(keccak256(a, b), keccak256(c, d))
  <2> DEFINE h == keccak256(a, b)
  <2>1. Agree(h, h)
    BY DEF Agree
  <2> HIDE DEF h
  <2> QED BY <2>1 DEF h
<1>2. Agree(a, c) /\ (a = c => Agree(b, d))
  BY <1>1, HashesAgree, NodesClosed
<1> QED BY <1>2, NodesAgree

LEMMA SmallestOf ==
  ASSUME NEW S, S \subseteq Nat, S # {}
  PROVE  \E m \in S : \A i \in S : m <= i
<1>1. PICK k \in S : \A i \in S : ~(<<i, k>> \in LessOnNat)
  BY NatWF, WFMin
<1>2. ASSUME NEW i \in S PROVE k <= i
  <2>1. i \in Nat /\ k \in Nat /\ ~(<<i, k>> \in LessOnNat)
    BY <1>1
  <2>2. ~(i < k)
    BY <2>1 DEF LessOnNat
  <2> QED BY <2>1, <2>2
<1> QED BY <1>2

\* The bytes of two nodes are in one order or the other.
LEMMA NodesOrdered ==
  ASSUME NEW a \in Nodes, NEW b \in Nodes, a # b
  PROVE  LessBytes(a, b) <=> ~LessBytes(b, a)
<1> DEFINE Differ == {i \in 1..Len(a) : i <= Len(b) /\ a[i] # b[i]}
<1>1. /\ a \in Seq(Int) /\ b \in Seq(Int) /\ Len(a) \in Nat /\ Len(b) \in Nat
      /\ DOMAIN a \cap DOMAIN b = {i \in 1..Len(a) : i <= Len(b)}
      /\ \A i \in 1..Len(a) : a[i] \in Int
      /\ \A i \in 1..Len(b) : b[i] \in Int
  BY NodesClosed
<1>2. Differ # {}
  BY NodesAgree DEF Agree
<1>3. PICK m \in Differ : \A i \in Differ : m <= i
  <2>1. Differ \subseteq Nat
    OBVIOUS
  <2> HIDE DEF Differ
  <2> QED BY <1>2, <2>1, SmallestOf
<1>4. m \in DOMAIN a \cap DOMAIN b /\ \A i \in 1..(m - 1) : a[i] = b[i] /\ i \in DOMAIN a \cap DOMAIN b
  BY <1>1, <1>3, SMTT(30)
<1>5. a[m] # b[m] /\ a[m] \in Int /\ b[m] \in Int /\ m \in Nat
  BY <1>1, <1>3
<1>6. \A i \in DOMAIN a \cap DOMAIN b : a[i] # b[i] => m \in 1..i
  BY <1>1, <1>3
<1>7. LessBytes(a, b) <=> a[m] < b[m]
  <2>1. CASE a[m] < b[m]
    BY <2>1, <1>4 DEF LessBytes
  <2>2. ASSUME LessBytes(a, b) PROVE a[m] < b[m]
    <3>1. PICK i \in DOMAIN a \cap DOMAIN b : a[i] < b[i] /\ \A j \in 1..(i - 1) : a[j] = b[j]
      BY <2>2 DEF LessBytes
    <3>2. i \in Nat /\ a[i] \in Int /\ b[i] \in Int
      BY <1>1
    <3>3. m \in 1..i
      BY <3>1, <3>2, <1>6
    <3>4. m \notin 1..(i - 1)
      BY <3>1, <1>5
    <3>5. i = m
      BY <3>2, <3>3, <3>4, <1>5
    <3> QED BY <3>1, <3>5
  <2> QED BY <2>1, <2>2
<1>8. LessBytes(b, a) <=> b[m] < a[m]
  <2>1. CASE b[m] < a[m]
    BY <2>1, <1>4 DEF LessBytes
  <2>2. ASSUME LessBytes(b, a) PROVE b[m] < a[m]
    <3>1. PICK i \in DOMAIN b \cap DOMAIN a : b[i] < a[i] /\ \A j \in 1..(i - 1) : b[j] = a[j]
      BY <2>2 DEF LessBytes
    <3>2. i \in Nat /\ a[i] \in Int /\ b[i] \in Int
      BY <1>1
    <3>3. m \in 1..i
      BY <3>1, <3>2, <1>6
    <3>4. m \notin 1..(i - 1)
      BY <3>1, <1>5
    <3>5. i = m
      BY <3>2, <3>3, <3>4, <1>5
    <3> QED BY <3>1, <3>5
  <2> QED BY <2>1, <2>2
<1> QED BY <1>5, <1>7, <1>8

\* Two nodes have one hash, in whichever order they are given, and with one of them given
\* it tells what the other is.
LEMMA CombinedHash ==
  ASSUME NEW a \in Nodes, NEW b \in Nodes
  PROVE  /\ combinedHash(a, b) \in Nodes
         /\ combinedHash(a, b) = IF LessBytes(b, a) THEN keccak256(b, a) ELSE keccak256(a, b)
         /\ combinedHash(a, b) = combinedHash(b, a)
<1>1. combinedHash(a, b) = IF LessBytes(b, a) THEN keccak256(b, a) ELSE keccak256(a, b)
  BY DEF combinedHash, sortAndConcat
<1>2. combinedHash(b, a) = IF LessBytes(a, b) THEN keccak256(a, b) ELSE keccak256(b, a)
  BY DEF combinedHash, sortAndConcat
<1> QED BY <1>1, <1>2, NodesOrdered, NodesClosed

LEMMA CombinedDiffer ==
  ASSUME NEW a \in Nodes, NEW b \in Nodes, NEW c \in Nodes,
         combinedHash(a, c) = combinedHash(b, c)
  PROVE  a = b
<1>1. \/ combinedHash(a, c) = keccak256(a, c)
      \/ combinedHash(a, c) = keccak256(c, a)
  BY CombinedHash
<1>2. \/ combinedHash(b, c) = keccak256(b, c)
      \/ combinedHash(b, c) = keccak256(c, b)
  BY CombinedHash
<1> QED BY <1>1, <1>2, HashesDiffer
-----------------------------------------------------------------------------
\* A loop that counts from 1.
IteratesFromOne(D, N, start, F, g) ==
  /\ g \in [1..(N + 1) -> D]
  /\ g[1] = start
  /\ \A k \in 1..N : g[k + 1] = F[<<g[k], k>>]

LEMMA LoopFromOne ==
  ASSUME NEW D, NEW N \in Nat, NEW start \in D, NEW F \in [D \X (1..N) -> D]
  PROVE  \E g : IteratesFromOne(D, N, start, F, g)
<1>1. PICK h : Iterates(D, N, start, F, h)
  BY LoopExists
<1>2. h \in [0..N -> D] /\ h[0] = start /\ \A n \in 1..N : h[n] = F[<<h[n - 1], n>>]
  BY <1>1 DEF Iterates
<1> DEFINE g == [k \in 1..(N + 1) |-> h[k - 1]]
<1>3. \A k \in 1..(N + 1) : k - 1 \in 0..N
  OBVIOUS
<1>4. g \in [1..(N + 1) -> D]
  BY <1>2, <1>3
<1>5. 1 \in 1..(N + 1) /\ \A k \in 1..N : /\ k \in 1..(N + 1) /\ k + 1 \in 1..(N + 1)
                                          /\ (k + 1) - 1 = k
  OBVIOUS
<1>6. g[1] = start /\ \A k \in 1..N : g[k + 1] = F[<<g[k], k>>]
  BY <1>2, <1>5
<1> HIDE DEF g
<1> QED BY <1>4, <1>6 DEF IteratesFromOne

LEMMA LoopFromOneKeeps ==
  ASSUME NEW G, NEW N \in Nat, NEW f, f[1] \in G, \A k \in 1..N : f[k] \in G => f[k + 1] \in G
  PROVE  \A k \in 1..(N + 1) : f[k] \in G
<1> DEFINE h == [n \in 0..N |-> f[n + 1]]
<1>1. h[0] \in G
  OBVIOUS
<1>2. ASSUME NEW n \in 1..N, h[n - 1] \in G PROVE h[n] \in G
  <2>1. h[n - 1] = f[n] /\ h[n] = f[n + 1]
    OBVIOUS
  <2> QED BY <2>1, <1>2
<1>3. \A n \in 0..N : h[n] \in G
  <2> HIDE DEF h
  <2> QED BY <1>1, <1>2, LoopPreserves
<1>4. ASSUME NEW k \in 1..(N + 1) PROVE f[k] \in G
  <2>1. k - 1 \in 0..N /\ (k - 1) + 1 = k
    OBVIOUS
  <2> QED BY <1>3, <2>1
<1> QED BY <1>4

\* FlattenSeq puts one sequence after the other.
Flattens(S, s, F) ==
  /\ F \in [0..Len(s) -> Seq(S)]
  /\ F[0] = <<>>
  /\ \A k \in 1..Len(s) : F[k] = F[k - 1] \o s[k]
  /\ FlattenSeq(s) = F[Len(s)]

LEMMA FlattenUnfolds ==
  ASSUME NEW S, NEW s \in Seq(Seq(S))
  PROVE  \E F : Flattens(S, s, F)
<1> DEFINE D == Seq(S)
           n == Len(s)
<1>1. n \in Nat /\ \A k \in 1..n : s[k] \in D
  OBVIOUS
<1>2. CASE n = 0
  <2>1. s = <<>> /\ FlattenSeq(s) = s
    BY <1>2 DEF FlattenSeq
  <2> DEFINE F == [k \in 0..0 |-> <<>>]
  <2>2. /\ F \in [0..n -> D] /\ F[0] = <<>>
        /\ \A k \in 1..n : F[k] = F[k - 1] \o s[k]
        /\ FlattenSeq(s) = F[n]
    BY <1>2, <2>1
  <2> HIDE DEF F
  <2> QED BY <2>2 DEF Flattens
<1>3. CASE n # 0
  <2> DEFINE R(f, i) == IF i = 1 THEN s[i] ELSE f[i - 1] \o s[i]
             Is(f) == f = [i \in 1..n |-> R(f, i)]
             G == [x \in D \X (1..(n - 1)) |-> x[1] \o s[x[2] + 1]]
             flat == CHOOSE f : Is(f)
  <2>1. G \in [D \X (1..(n - 1)) -> D]
    <3> SUFFICES ASSUME NEW x \in D \X (1..(n - 1)) PROVE x[1] \o s[x[2] + 1] \in D
      OBVIOUS
    <3>1. x[1] \in D /\ x[2] + 1 \in 1..n
      BY <1>1
    <3>2. s[x[2] + 1] \in D
      BY <3>1, <1>1
    <3> QED BY <3>1, <3>2
  <2>2. PICK g \in [1..n -> D] : g[1] = s[1] /\ \A k \in 1..(n - 1) : g[k + 1] = G[<<g[k], k>>]
    <3>1. n - 1 \in Nat /\ (n - 1) + 1 = n /\ s[1] \in D
      BY <1>1, <1>3
    <3> DEFINE N == n - 1
               first == s[1]
    <3>2. N \in Nat /\ first \in D /\ G \in [D \X (1..N) -> D]
      BY <2>1, <3>1
    <3> HIDE DEF G, D, n, N, first
    <3>3. \E g : IteratesFromOne(D, N, first, G, g)
      BY <3>2, LoopFromOne
    <3> QED BY <3>1, <3>3 DEF N, first, IteratesFromOne
  <2>3. Is(g)
    <3>1. ASSUME NEW i \in 1..n PROVE g[i] = R(g, i)
      <4>1. CASE i = 1
        BY <4>1, <2>2
      <4>2. CASE i # 1
        <5>1. i - 1 \in 1..(n - 1) /\ i - 1 \in 1..n /\ (i - 1) + 1 = i
          BY <4>2, <1>1
        <5>2. <<g[i - 1], i - 1>> \in D \X (1..(n - 1))
          BY <5>1, <2>2
        <5>3. G[<<g[i - 1], i - 1>>] = g[i - 1] \o s[i]
          BY <5>1, <5>2
        <5> QED BY <4>2, <5>1, <5>3, <2>2
      <4> QED BY <4>1, <4>2
    <3> HIDE DEF R
    <3> QED BY <3>1, <2>2
  <2>4. Is(flat)
    <3> HIDE DEF Is
    <3> QED BY <2>3
  <2>5. FlattenSeq(s) = flat[n]
    BY <1>1, <1>3 DEF FlattenSeq
  <2> HIDE DEF flat
  <2>6. \A i \in 1..n : flat[i] = R(flat, i)
    <3> HIDE DEF R
    <3> QED BY <2>4
  <2>7. flat[1] = s[1] /\ \A i \in 1..(n - 1) : flat[i + 1] = flat[i] \o s[i + 1]
    <3>1. 1 \in 1..n /\ \A i \in 1..(n - 1) : i + 1 \in 1..n /\ i + 1 # 1 /\ (i + 1) - 1 = i
      BY <1>1, <1>3
    <3>2. flat[1] = R(flat, 1) /\ \A i \in 1..(n - 1) : flat[i + 1] = R(flat, i + 1)
      BY <3>1, <2>6
    <3> QED BY <3>1, <3>2
  <2>8. \A i \in 1..n : flat[i] \in D
    <3>1. flat[1] \in D
      BY <2>7, <1>1, <1>3
    <3>2. ASSUME NEW i \in 1..(n - 1), flat[i] \in D PROVE flat[i + 1] \in D
      <4>1. s[i + 1] \in D
        BY <1>1
      <4>2. flat[i + 1] = flat[i] \o s[i + 1]
        BY <2>7
      <4> QED BY <4>1, <4>2, <3>2, ConcatProperties
    <3>3. n - 1 \in Nat /\ (n - 1) + 1 = n
      BY <1>1, <1>3
    <3> HIDE DEF D, n
    <3>4. \A i \in 1..((n - 1) + 1) : flat[i] \in D
      BY <3>1, <3>2, <3>3, LoopFromOneKeeps
    <3> QED BY <3>3, <3>4
  <2> DEFINE F == [k \in 0..n |-> IF k = 0 THEN <<>> ELSE flat[k]]
  <2>9. F \in [0..n -> D] /\ F[0] = <<>> /\ FlattenSeq(s) = F[n]
    BY <2>5, <2>8, <1>1, <1>3
  <2>10. ASSUME NEW k \in 1..n PROVE F[k] = F[k - 1] \o s[k]
    <3>1. CASE k = 1
      <4>1. F[k] = s[1] /\ F[k - 1] = <<>> /\ s[k] = s[1] /\ s[1] \in D
        BY <3>1, <2>7, <1>1
      <4> HIDE DEF F
      <4> QED BY <4>1, ConcatEmptySeq
    <3>2. CASE k # 1
      <4>1. k - 1 \in 1..(n - 1) /\ (k - 1) + 1 = k
        BY <3>2, <1>1
      <4>2. F[k] = flat[k] /\ F[k - 1] = flat[k - 1]
        BY <4>1
      <4> QED BY <2>7, <4>1, <4>2
    <3> QED BY <3>1, <3>2
  <2> HIDE DEF F
  <2> QED BY <2>9, <2>10 DEF Flattens
<1> QED BY <1>2, <1>3

\* What was put first stays first.
LEMMA FlattenKeeps ==
  ASSUME NEW S, NEW s \in Seq(Seq(S)), NEW F, Flattens(S, s, F), NEW k \in 0..Len(s)
  PROVE  LET all == FlattenSeq(s) IN
         /\ all \in Seq(S) /\ F[k] \in Seq(S)
         /\ Len(F[k]) <= Len(all)
         /\ \A i \in 1..Len(F[k]) : all[i] = F[k][i]
<1> DEFINE n == Len(s)
           Kept(m) == /\ Len(F[k]) <= Len(F[m])
                      /\ \A i \in 1..Len(F[k]) : F[m][i] = F[k][i]
           T == {m \in Nat : m >= k /\ m <= n => Kept(m)}
<1>1. /\ n \in Nat /\ k \in Nat
      /\ \A m \in 0..n : F[m] \in Seq(S)
      /\ \A m \in 1..n : F[m] = F[m - 1] \o s[m] /\ s[m] \in Seq(S)
      /\ FlattenSeq(s) = F[n]
  <2>1. /\ F \in [0..n -> Seq(S)] /\ FlattenSeq(s) = F[n]
        /\ \A m \in 1..n : F[m] = F[m - 1] \o s[m]
    BY DEF Flattens
  <2>2. n \in Nat /\ k \in Nat /\ \A m \in 1..n : s[m] \in Seq(S)
    OBVIOUS
  <2> HIDE DEF n
  <2> QED BY <2>1, <2>2
<1>2. 0 \in T
  BY <1>1
<1>3. ASSUME NEW m \in Nat, m \in T PROVE m + 1 \in T
  <2> SUFFICES ASSUME m + 1 >= k, m + 1 <= n PROVE Kept(m + 1)
    <3> HIDE DEF Kept
    <3> QED OBVIOUS
  <2>1. CASE m + 1 = k
    BY <2>1, <1>1
  <2>2. CASE m + 1 # k
    <3>1. Kept(m)
      BY <2>2, <1>3, <1>1
    <3> DEFINE a == F[m]
               b == s[m + 1]
               c == F[m + 1]
    <3>2. a \in Seq(S) /\ b \in Seq(S) /\ c = a \o b
      <4>1. m \in 0..n /\ m + 1 \in 1..n /\ (m + 1) - 1 = m
        BY <1>1
      <4> QED BY <4>1, <1>1
    <3>3. F[k] \in Seq(S)
      BY <1>1
    <3> HIDE DEF a, b, c
    <3>4. Len(a) <= Len(c) /\ \A i \in 1..Len(a) : c[i] = a[i]
      BY <3>2
    <3>5. Len(F[k]) \in Nat /\ Len(a) \in Nat /\ Len(c) \in Nat
      BY <3>2, <3>3
    <3> QED BY <3>1, <3>4, <3>5, SMTT(30) DEF a, c
  <2> QED BY <2>1, <2>2
<1>4. Nat \subseteq T
  <2> HIDE DEF T
  <2> QED BY <1>2, <1>3, SetInduction
<1>5. Kept(n)
  <2> HIDE DEF Kept
  <2> QED BY <1>1, <1>4
<1> QED BY <1>1, <1>5
-----------------------------------------------------------------------------
Occurs(x, s) == \E i \in 1..Len(s) : s[i] = x

LEMMA LeavesOrdered ==
  ASSUME NEW x \in Leaves, NEW y \in Leaves
  PROVE  /\ LessBytes(x, y) <=> x[1] < y[1]
         /\ x = y <=> x[1] = y[1]
         /\ x[1] \in Int /\ y[1] \in Int
<1>1. /\ Len(x) = 1 /\ x[1] \in Elements /\ x = <<x[1]>> /\ x \in Seq(Int)
      /\ Len(y) = 1 /\ y[1] \in Elements /\ y = <<y[1]>> /\ y \in Seq(Int)
  BY LeavesAre
<1>2. DOMAIN x = {1} /\ DOMAIN y = {1}
  BY <1>1
<1>3. LessBytes(x, y) <=> x[1] < y[1]
  BY <1>2 DEF LessBytes
<1> QED BY <1>1, <1>3, MerkleAssumption

\* Each buffer has a place of its own, and so sorting keeps them all.
LEMMA SortKeeps ==
  ASSUME NEW e \in Seq(Leaves)
  PROVE  LET s == sortBuffers(e) IN
         s \in Seq(Leaves) /\ Len(s) = Len(e) /\ \A x : Occurs(x, s) <=> Occurs(x, e)
<1> DEFINE n == Len(e)
           v(i) == e[i][1]
           B(i) == {j \in DOMAIN e : LessBytes(e[j], e[i]) \/ (e[j] = e[i] /\ j <= i)}
           C(i) == {j \in 1..n : v(j) < v(i) \/ (v(j) = v(i) /\ j <= i)}
           place == [i \in DOMAIN e |-> Cardinality(B(i))]
           spot(k) == CHOOSE i \in DOMAIN e : place[i] = k
           s == [k \in DOMAIN e |-> e[spot(k)]]
<1>1. n \in Nat /\ DOMAIN e = 1..n /\ \A i \in 1..n : e[i] \in Leaves
  OBVIOUS
<1>2. \A i \in 1..n : v(i) \in Int
  BY <1>1, LeavesOrdered
<1>3. \A i \in 1..n : B(i) = C(i)
  <2> SUFFICES ASSUME NEW i \in 1..n, NEW j \in 1..n
               PROVE  /\ LessBytes(e[j], e[i]) <=> v(j) < v(i)
                      /\ e[j] = e[i] <=> v(j) = v(i)
    BY <1>1
  <2> QED BY <1>1, LeavesOrdered
<1>4. IsFiniteSet(1..n) /\ Cardinality(1..n) = n
  <2> HIDE DEF n
  <2>1. IsFiniteSet(1..n) /\ Cardinality(1..n) = IF 1 > n THEN 0 ELSE n - 1 + 1
    BY <1>1, FS_Interval
  <2> QED BY <1>1, <2>1
<1>5. \A i \in 1..n : /\ IsFiniteSet(C(i)) /\ Cardinality(C(i)) \in 1..n
  <2> SUFFICES ASSUME NEW i \in 1..n PROVE IsFiniteSet(C(i)) /\ Cardinality(C(i)) \in 1..n
    OBVIOUS
  <2>1. C(i) \in SUBSET (1..n) /\ i \in C(i)
    BY <1>2
  <2> HIDE DEF C, n
  <2>2. IsFiniteSet(C(i)) /\ Cardinality(C(i)) <= n /\ Cardinality(C(i)) \in Nat
    BY <2>1, <1>4, FS_Subset, FS_CardinalityType
  <2>3. Cardinality(C(i)) # 0
    BY <2>1, <2>2, FS_EmptySet
  <2> QED BY <2>2, <2>3, <1>1
<1>6. \A i, j \in 1..n : Cardinality(C(i)) = Cardinality(C(j)) => i = j
  <2>1. ASSUME NEW i \in 1..n, NEW j \in 1..n, v(i) < v(j) \/ (v(i) = v(j) /\ i < j)
        PROVE  Cardinality(C(i)) # Cardinality(C(j))
    <3>1. \A k \in C(i) : k \in C(j)
      <4> SUFFICES ASSUME NEW k \in 1..n, v(k) < v(i) \/ (v(k) = v(i) /\ k <= i)
                   PROVE  v(k) < v(j) \/ (v(k) = v(j) /\ k <= j)
        OBVIOUS
      <4>1. v(k) \in Int /\ v(i) \in Int /\ v(j) \in Int
        BY <1>2
      <4> HIDE DEF v
      <4> QED BY <4>1, <2>1
    <3>2. j \in C(j) /\ j \notin C(i)
      <4>1. v(i) \in Int /\ v(j) \in Int
        BY <1>2
      <4> HIDE DEF v
      <4> QED BY <4>1, <2>1
    <3>3. C(i) \in SUBSET C(j) /\ C(i) # C(j)
      BY <3>1, <3>2
    <3> HIDE DEF C
    <3> QED BY <3>3, <1>5, FS_Subset
  <2> SUFFICES ASSUME NEW i \in 1..n, NEW j \in 1..n, i # j
               PROVE  Cardinality(C(i)) # Cardinality(C(j))
    OBVIOUS
  <2>2. v(i) \in Int /\ v(j) \in Int
    BY <1>2
  <2>3. \/ v(i) < v(j) \/ (v(i) = v(j) /\ i < j)
        \/ v(j) < v(i) \/ (v(j) = v(i) /\ j < i)
    <3> HIDE DEF v
    <3> QED BY <2>2
  <2> HIDE DEF C, v
  <2> QED BY <2>1, <2>3
<1>7. place \in [1..n -> 1..n] /\ \A i, j \in 1..n : place[i] = place[j] => i = j
  <2>1. \A i \in 1..n : place[i] = Cardinality(C(i))
    BY <1>1, <1>3
  <2>2. place = [i \in 1..n |-> Cardinality(C(i))]
    <3> HIDE DEF C, B
    <3> QED BY <1>1, <1>3
  <2> HIDE DEF place, C
  <2> QED BY <2>1, <2>2, <1>5, <1>6
<1> HIDE DEF place
<1>8. \A k \in 1..n : \E i \in 1..n : place[i] = k
  <2>1. place \in Injection(1..n, 1..n)
    BY <1>7 DEF Injection, IsInjective
  <2> HIDE DEF n
  <2>2. place \in Surjection(1..n, 1..n)
    BY <2>1, <1>4, FS_Injection
  <2> QED BY <2>2 DEF Surjection
<1>9. \A k \in 1..n : spot(k) \in 1..n /\ place[spot(k)] = k
  BY <1>1, <1>8
<1>10. s \in Seq(Leaves) /\ Len(s) = n /\ \A k \in 1..n : s[k] = e[spot(k)]
  <2> HIDE DEF spot
  <2> QED BY <1>1, <1>9
<1>11. ASSUME NEW i \in 1..n PROVE s[place[i]] = e[i] /\ place[i] \in 1..n
  <2>1. place[i] \in 1..n
    BY <1>7
  <2>2. spot(place[i]) = i
    <3> HIDE DEF spot
    <3> QED BY <1>7, <1>9, <2>1
  <2> QED BY <1>10, <2>1, <2>2
<1>12. s = sortBuffers(e)
  BY DEF sortBuffers, place
<1> HIDE DEF s, spot
<1>13. \A x : Occurs(x, s) <=> Occurs(x, e)
  BY <1>9, <1>10, <1>11 DEF Occurs
<1> QED BY <1>10, <1>12, <1>13

LEMMA OccursAppend ==
  ASSUME NEW S, NEW s \in Seq(S), NEW y \in S
  PROVE  \A x : Occurs(x, Append(s, y)) <=> (y = x \/ Occurs(x, s))
<1> DEFINE t == Append(s, y)
<1>1. Len(t) = Len(s) + 1 /\ Len(s) \in Nat /\ t[Len(s) + 1] = y /\ \A i \in 1..Len(s) : t[i] = s[i]
  OBVIOUS
<1> HIDE DEF t
<1> SUFFICES ASSUME NEW x PROVE Occurs(x, t) <=> (y = x \/ Occurs(x, s))
  BY DEF t
<1>2. \A i \in 1..Len(t) : i \in 1..Len(s) \/ i = Len(s) + 1
  BY <1>1
<1>3. Len(s) + 1 \in 1..Len(t) /\ \A i \in 1..Len(s) : i \in 1..Len(t)
  BY <1>1
<1> QED BY <1>1, <1>2, <1>3, Zenon DEF Occurs

\* Of equal buffers one stays.
LEMMA DedupKeeps ==
  ASSUME NEW e \in Seq(Leaves)
  PROVE  LET d == bufDedup(e) IN
         d \in Seq(Leaves) /\ \A x : Occurs(x, d) <=> Occurs(x, e)
<1> DEFINE n == Len(e)
           p == [i \in DOMAIN e |-> IF i = 1 \/ e[i - 1] # e[i] THEN <<e[i]>> ELSE <<>>]
<1>1. n \in Nat /\ DOMAIN e = 1..n /\ \A i \in 1..n : e[i] \in Leaves
  OBVIOUS
<1>2. p \in Seq(Seq(Leaves)) /\ Len(p) = n
  <2>1. \A i \in 1..n : p[i] \in Seq(Leaves)
    BY <1>1
  <2>2. p \in [1..n -> Seq(Leaves)]
    BY <1>1, <2>1
  <2> HIDE DEF p
  <2> QED BY <1>1, <2>2
<1>3. \A i \in 1..n : p[i] = IF i = 1 \/ e[i - 1] # e[i] THEN <<e[i]>> ELSE <<>>
  BY <1>1
<1>4. bufDedup(e) = FlattenSeq(p)
  BY DEF bufDedup
<1> HIDE DEF p
<1>5. PICK F : Flattens(Leaves, p, F)
  BY <1>2, FlattenUnfolds
<1>6. /\ \A k \in 0..n : F[k] \in Seq(Leaves)
      /\ F[0] = <<>> /\ \A k \in 1..n : F[k] = F[k - 1] \o p[k]
      /\ bufDedup(e) = F[n]
  BY <1>2, <1>4, <1>5 DEF Flattens
<1> DEFINE Has(k) == \A x : Occurs(x, F[k]) <=> \E i \in 1..k : e[i] = x
           T == {k \in Nat : k <= n => Has(k)}
<1>7. 0 \in T
  <2>1. Has(0)
    BY <1>6 DEF Occurs
  <2> QED BY <2>1
<1>8. ASSUME NEW k \in Nat, k \in T PROVE k + 1 \in T
  <2> SUFFICES ASSUME k + 1 <= n PROVE Has(k + 1)
    <3> HIDE DEF Has
    <3> QED OBVIOUS
  <2>1. k \in 0..n /\ k + 1 \in 1..n /\ k + 1 \in 0..n /\ (k + 1) - 1 = k
    BY <1>1
  <2>2. Has(k)
    BY <1>8, <2>1
  <2>3. F[k + 1] = F[k] \o p[k + 1] /\ F[k] \in Seq(Leaves) /\ e[k + 1] \in Leaves
    BY <1>1, <1>6, <2>1
  <2>4. \A x : (\E i \in 1..(k + 1) : e[i] = x) <=> (e[k + 1] = x \/ \E i \in 1..k : e[i] = x)
    <3>1. \A i \in 1..(k + 1) : i \in 1..k \/ i = k + 1
      OBVIOUS
    <3>2. \A i \in 1..k : i \in 1..(k + 1)
      OBVIOUS
    <3>3. k + 1 \in 1..(k + 1)
      OBVIOUS
    <3> QED BY <3>1, <3>2, <3>3, Zenon
  <2>5. CASE k + 1 = 1 \/ e[k] # e[k + 1]
    <3>1. p[k + 1] = <<e[k + 1]>>
      BY <2>5, <1>3, <2>1
    <3>2. F[k + 1] = Append(F[k], e[k + 1])
      <4> DEFINE a == F[k]
                 y == e[k + 1]
      <4>1. a \in Seq(Leaves) /\ y \in Leaves
        BY <2>3
      <4> HIDE DEF a, y
      <4>2. a \o <<y>> = Append(a, y)
        BY <4>1, AppendIsConcat
      <4> QED BY <2>3, <3>1, <4>2 DEF a, y
    <3>3. \A x : Occurs(x, F[k + 1]) <=> (e[k + 1] = x \/ Occurs(x, F[k]))
      <4> DEFINE a == F[k]
                 y == e[k + 1]
      <4>1. a \in Seq(Leaves) /\ y \in Leaves
        BY <2>3
      <4> HIDE DEF a, y
      <4>2. \A x : Occurs(x, Append(a, y)) <=> (y = x \/ Occurs(x, a))
        BY <4>1, OccursAppend
      <4> QED BY <3>2, <4>2 DEF a, y
    <3> QED BY <2>2, <2>4, <3>3, Zenon
  <2>6. CASE ~(k + 1 = 1 \/ e[k] # e[k + 1])
    <3>1. p[k + 1] = <<>>
      BY <2>6, <1>3, <2>1
    <3>2. F[k + 1] = F[k]
      BY <2>3, <3>1
    <3>3. k \in 1..k /\ e[k] = e[k + 1]
      BY <2>6
    <3> QED BY <2>2, <2>4, <3>2, <3>3, Zenon
  <2> QED BY <2>5, <2>6
<1>9. Has(n)
  <2>1. Nat \subseteq T
    <3> HIDE DEF T
    <3> QED BY <1>7, <1>8, SetInduction
  <2> HIDE DEF Has
  <2> QED BY <2>1, <1>1
<1>10. \A x : Occurs(x, bufDedup(e)) <=> Occurs(x, e)
  BY <1>6, <1>9 DEF Occurs
<1> QED BY <1>1, <1>6, <1>10
-----------------------------------------------------------------------------
\* What the contracts compute from a leaf and the first elements of a proof.
Hashes(proof, leaf) ==
  CHOOSE hashes : hashes =
    [i \in 0..Len(proof) |->
       IF i = 0 THEN leaf
       ELSE IF LessBytes(proof[i], hashes[i - 1])
            THEN keccak256(proof[i], hashes[i - 1])
            ELSE keccak256(hashes[i - 1], proof[i])]

LEMMA VerifyIs ==
  ASSUME NEW proof, NEW root, NEW leaf
  PROVE  verify(proof, root, leaf) <=> Hashes(proof, leaf)[Len(proof)] = root
BY Zenon DEF verify, Hashes

LEMMA HashesAre ==
  ASSUME NEW proof \in Seq(Nodes), NEW leaf \in Nodes
  PROVE  LET H == Hashes(proof, leaf) IN
         /\ H \in [0..Len(proof) -> Nodes]
         /\ H[0] = leaf
         /\ \A i \in 1..Len(proof) : H[i] = combinedHash(H[i - 1], proof[i])
<1> DEFINE n == Len(proof)
           R(f, i) == IF i = 0 THEN leaf
                      ELSE IF LessBytes(proof[i], f[i - 1])
                           THEN keccak256(proof[i], f[i - 1])
                           ELSE keccak256(f[i - 1], proof[i])
           Is(f) == f = [i \in 0..n |-> R(f, i)]
           G == [x \in Nodes \X (1..n) |-> combinedHash(x[1], proof[x[2]])]
           H == Hashes(proof, leaf)
<1>1. n \in Nat /\ \A i \in 1..n : proof[i] \in Nodes
  OBVIOUS
<1>2. G \in [Nodes \X (1..n) -> Nodes]
  <2> SUFFICES ASSUME NEW x \in Nodes \X (1..n) PROVE combinedHash(x[1], proof[x[2]]) \in Nodes
    OBVIOUS
  <2>1. x[1] \in Nodes /\ proof[x[2]] \in Nodes
    BY <1>1
  <2> QED BY <2>1, CombinedHash
<1>3. PICK g : Iterates(Nodes, n, leaf, G, g)
  <2> HIDE DEF G, n
  <2> QED BY <1>1, <1>2, LoopExists
<1>4. g \in [0..n -> Nodes] /\ g[0] = leaf /\ \A i \in 1..n : g[i] = G[<<g[i - 1], i>>]
  BY <1>3 DEF Iterates
<1>5. \A f : \A i \in 1..n : R(f, i) = combinedHash(f[i - 1], proof[i])
  BY DEF combinedHash, sortAndConcat
<1>6. \A i \in 0..n : g[i] = R(g, i)
  <2> SUFFICES ASSUME NEW i \in 0..n PROVE g[i] = R(g, i)
    OBVIOUS
  <2>1. CASE i = 0
    BY <2>1, <1>4
  <2>2. CASE i # 0
    <3>1. i \in 1..n /\ i - 1 \in 0..n
      BY <2>2, <1>1
    <3>2. <<g[i - 1], i>> \in Nodes \X (1..n)
      BY <3>1, <1>4
    <3>3. G[<<g[i - 1], i>>] = combinedHash(g[i - 1], proof[i])
      BY <3>2
    <3> HIDE DEF R, G
    <3> QED BY <3>1, <3>3, <1>4, <1>5
  <2> QED BY <2>1, <2>2
<1>7. Is(g)
  <2> HIDE DEF R
  <2> QED BY <1>4, <1>6
<1>8. Is(H)
  <2>1. H = CHOOSE f : Is(f)
    BY DEF Hashes
  <2> HIDE DEF Is, H
  <2> QED BY <1>7, <2>1
<1> HIDE DEF H
<1>9. \A i \in 0..n : H[i] = R(H, i)
  <2> HIDE DEF R
  <2> QED BY <1>8
<1>10. H[0] = leaf /\ \A i \in 1..n : H[i] = combinedHash(H[i - 1], proof[i])
  <2>1. H[0] = R(H, 0)
    BY <1>1, <1>9
  <2>2. \A i \in 1..n : H[i] = R(H, i)
    <3> HIDE DEF R
    <3> QED BY <1>9
  <2> HIDE DEF R
  <2>3. R(H, 0) = leaf
    BY DEF R
  <2> QED BY <1>5, <2>1, <2>2, <2>3
<1>11. \A i \in 0..n : H[i] \in Nodes
  <2>1. ASSUME NEW i \in 1..n, H[i - 1] \in Nodes PROVE H[i] \in Nodes
    BY <2>1, <1>1, <1>10, CombinedHash
  <2> HIDE DEF n
  <2> QED BY <2>1, <1>1, <1>10, LoopPreserves
<1>12. H \in [0..n -> Nodes]
  <2> HIDE DEF R
  <2> QED BY <1>8, <1>11
<1> QED BY <1>10, <1>12 DEF H

\* With one proof no two leaves come to the same hash.
LEMMA LeavesDiffer ==
  ASSUME NEW proof \in Seq(Nodes), NEW x \in Nodes, NEW y \in Nodes,
         Hashes(proof, x)[Len(proof)] = Hashes(proof, y)[Len(proof)]
  PROVE  x = y
<1> DEFINE n == Len(proof)
           H == Hashes(proof, x)
           J == Hashes(proof, y)
           T == {i \in Nat : i <= n => (H[i] = J[i] => x = y)}
<1>1. /\ H \in [0..n -> Nodes] /\ H[0] = x
      /\ \A i \in 1..n : H[i] = combinedHash(H[i - 1], proof[i])
  BY HashesAre
<1>2. /\ J \in [0..n -> Nodes] /\ J[0] = y
      /\ \A i \in 1..n : J[i] = combinedHash(J[i - 1], proof[i])
  BY HashesAre
<1>3. n \in Nat /\ \A i \in 1..n : proof[i] \in Nodes
  OBVIOUS
<1>4. H[n] = J[n]
  OBVIOUS
<1> HIDE DEF H, J, n
<1>5. 0 \in T
  BY <1>1, <1>2
<1>6. ASSUME NEW i \in Nat, i \in T PROVE i + 1 \in T
  <2> SUFFICES ASSUME i + 1 <= n, H[i + 1] = J[i + 1] PROVE x = y
    OBVIOUS
  <2>1. i + 1 \in 1..n /\ (i + 1) - 1 = i /\ i \in 0..n /\ i <= n
    BY <1>3
  <2>2. H[i] \in Nodes /\ J[i] \in Nodes /\ proof[i + 1] \in Nodes
    BY <1>1, <1>2, <1>3, <2>1
  <2>3. combinedHash(H[i], proof[i + 1]) = combinedHash(J[i], proof[i + 1])
    BY <1>1, <1>2, <2>1
  <2>4. H[i] = J[i]
    BY <2>2, <2>3, CombinedDiffer
  <2> QED BY <2>1, <2>4, <1>6
<1>7. Nat \subseteq T
  <2> HIDE DEF T
  <2> QED BY <1>5, <1>6, SetInduction
<1> QED BY <1>3, <1>4, <1>7

-----------------------------------------------------------------------------
LEMMA Halves ==
  ASSUME NEW n \in Nat
  PROVE  /\ (n + 1) \div 2 \in Nat
         /\ n > 1 => (n + 1) \div 2 < n
         /\ n >= 1 => (n + 1) \div 2 >= 1
         /\ 2 * ((n + 1) \div 2) = n \/ 2 * ((n + 1) \div 2) = n + 1
         /\ n \div 2 \in Nat
         /\ n % 2 = 0 => n = 2 * (n \div 2)
         /\ n % 2 # 0 => n = 2 * (n \div 2) + 1
OBVIOUS

\* Half as many nodes, rounded up, each the hash of two or the one without another.
LEMMA NextLayerIs ==
  ASSUME NEW layer \in Seq(Nodes)
  PROVE  LET next == getNextLayer(layer) IN
         /\ next \in Seq(Nodes) /\ Len(next) = (Len(layer) + 1) \div 2
         /\ \A k \in 1..Len(next) :
              /\ 2 * k <= Len(layer) => next[k] = combinedHash(layer[2 * k - 1], layer[2 * k])
              /\ 2 * k > Len(layer) => next[k] = layer[2 * k - 1]
<1> DEFINE n == Len(layer)
           m == (n + 1) \div 2
           val(k) == IF 2 * k <= n THEN combinedHash(layer[2 * k - 1], layer[2 * k]) ELSE layer[2 * k - 1]
           next == [k \in 1..m |-> val(k)]
<1>1. n \in Nat /\ \A i \in 1..n : layer[i] \in Nodes
  OBVIOUS
<1>2. m \in Nat /\ (2 * m = n \/ 2 * m = n + 1)
  <2> HIDE DEF n
  <2> QED BY <1>1, Halves
<1> HIDE DEF n, m
<1>3. ASSUME NEW k \in 1..m PROVE val(k) \in Nodes
  <2>1. 2 * k - 1 \in 1..n
    BY <1>1, <1>2
  <2>2. CASE 2 * k <= n
    <3>1. 2 * k \in 1..n
      BY <2>2, <1>1
    <3>2. layer[2 * k - 1] \in Nodes /\ layer[2 * k] \in Nodes
      BY <1>1, <2>1, <3>1
    <3>3. combinedHash(layer[2 * k - 1], layer[2 * k]) \in Nodes
      BY <3>2, CombinedHash
    <3> QED BY <2>2, <3>3
  <2>3. CASE ~(2 * k <= n)
    BY <2>1, <2>3, <1>1
  <2> QED BY <2>2, <2>3
<1>4. next \in Seq(Nodes) /\ Len(next) = m /\ \A k \in 1..m : next[k] = val(k)
  <2> HIDE DEF val
  <2> QED BY <1>2, <1>3
<1>5. next = getNextLayer(layer)
  BY DEF getNextLayer, n, m
<1> HIDE DEF next
<1>6. \A k \in 1..m : 2 * k <= n \/ 2 * k > n
  BY <1>1, <1>2
<1>7. \A k \in 1..m : 2 * k > n => ~(2 * k <= n)
  BY <1>1, <1>2
<1> QED BY <1>4, <1>5, <1>7 DEF n, m
-----------------------------------------------------------------------------
\* The layers, one made from another until a root is reached.
LayersOf(elements) ==
  CHOOSE layer : layer =
    [k \in 1..(Len(elements) + 1) |->
       IF k = 1 THEN elements
       ELSE IF Len(layer[k - 1]) > 1 THEN getNextLayer(layer[k - 1]) ELSE layer[k - 1]]
LayerAfter(layer) == IF Len(layer) > 1 THEN getNextLayer(layer) ELSE layer

LEMMA LayersFrom ==
  ASSUME NEW elements \in Seq(Nodes)
  PROVE  LET L == LayersOf(elements)
             n == Len(elements)
         IN  /\ L \in [1..(n + 1) -> Seq(Nodes)]
             /\ L[1] = elements
             /\ \A k \in 1..n : L[k + 1] = LayerAfter(L[k])
<1> DEFINE n == Len(elements)
           D == Seq(Nodes)
           R(f, k) == IF k = 1 THEN elements
                      ELSE IF Len(f[k - 1]) > 1 THEN getNextLayer(f[k - 1]) ELSE f[k - 1]
           Is(f) == f = [k \in 1..(n + 1) |-> R(f, k)]
           G == [x \in D \X (1..n) |-> LayerAfter(x[1])]
           L == LayersOf(elements)
<1>1. n \in Nat /\ elements \in D
  OBVIOUS
<1>2. \A x \in D : LayerAfter(x) \in D
  BY NextLayerIs DEF LayerAfter
<1>3. G \in [D \X (1..n) -> D]
  <2> HIDE DEF D
  <2> QED BY <1>2
<1>4. PICK g : IteratesFromOne(D, n, elements, G, g)
  <2> HIDE DEF D, G, n
  <2> QED BY <1>1, <1>3, LoopFromOne
<1>5. g \in [1..(n + 1) -> D] /\ g[1] = elements /\ \A k \in 1..n : g[k + 1] = G[<<g[k], k>>]
  BY <1>4 DEF IteratesFromOne
<1>6. \A f, k : k # 1 => R(f, k) = LayerAfter(f[k - 1])
  BY DEF LayerAfter
<1>7. \A k \in 1..(n + 1) : g[k] = R(g, k)
  <2> SUFFICES ASSUME NEW k \in 1..(n + 1) PROVE g[k] = R(g, k)
    OBVIOUS
  <2>1. CASE k = 1
    BY <2>1, <1>5
  <2>2. CASE k # 1
    <3>1. k - 1 \in 1..n /\ k - 1 \in 1..(n + 1) /\ (k - 1) + 1 = k
      BY <2>2, <1>1
    <3>2. g[k - 1] \in D
      <4> HIDE DEF D, G
      <4> QED BY <3>1, <1>5
    <3>3. G[<<g[k - 1], k - 1>>] = LayerAfter(g[k - 1])
      <4> HIDE DEF D
      <4> QED BY <3>1, <3>2
    <3> HIDE DEF G, R
    <3> QED BY <3>1, <3>3, <2>2, <1>5, <1>6
  <2> QED BY <2>1, <2>2
<1>8. Is(L)
  <2>1. L = CHOOSE f : Is(f)
    BY DEF LayersOf
  <2>2. Is(g)
    <3> HIDE DEF R
    <3> QED BY <1>5, <1>7
  <2> HIDE DEF Is, L
  <2> QED BY <2>1, <2>2
<1> HIDE DEF L
<1>9. \A k \in 1..(n + 1) : L[k] = R(L, k)
  <2> HIDE DEF R
  <2> QED BY <1>8
<1>10. L[1] = elements /\ \A k \in 1..n : L[k + 1] = LayerAfter(L[k])
  <2>1. 1 \in 1..(n + 1) /\ \A k \in 1..n : k + 1 \in 1..(n + 1) /\ k + 1 # 1 /\ (k + 1) - 1 = k
    BY <1>1
  <2>2. R(L, 1) = elements
    OBVIOUS
  <2> HIDE DEF R
  <2> QED BY <1>6, <1>9, <2>1, <2>2
<1>11. \A k \in 1..(n + 1) : L[k] \in D
  <2>1. ASSUME NEW k \in 1..n, L[k] \in D PROVE L[k + 1] \in D
    <3> HIDE DEF D
    <3> QED BY <2>1, <1>2, <1>10
  <2> HIDE DEF n, D
  <2> QED BY <2>1, <1>1, <1>10, LoopFromOneKeeps
<1>12. L \in [1..(n + 1) -> D]
  <2> HIDE DEF R, D
  <2> QED BY <1>8, <1>11
<1> QED BY <1>10, <1>12 DEF L

\* As layers get shorter, one is the root's.
LEMMA LayersEnd ==
  ASSUME NEW elements \in Seq(Nodes), Len(elements) >= 1
  PROVE  LET L == LayersOf(elements)
             n == Len(elements)
         IN  /\ \A k \in 1..(n + 1) : Len(L[k]) \in Nat /\ Len(L[k]) >= 1
             /\ Len(L[n + 1]) = 1
<1> DEFINE L == LayersOf(elements)
           n == Len(elements)
           Shorter(k) == Len(L[k]) >= 1 /\ (Len(L[k]) = 1 \/ Len(L[k]) + k <= n + 1)
           T == {k \in Nat : k + 1 \in 1..(n + 1) => Shorter(k + 1)}
<1>1. /\ L \in [1..(n + 1) -> Seq(Nodes)]
      /\ L[1] = elements
      /\ \A k \in 1..n : L[k + 1] = LayerAfter(L[k])
  BY LayersFrom
<1>2. n \in Nat /\ n >= 1
  OBVIOUS
<1>3. \A k \in 1..(n + 1) : L[k] \in Seq(Nodes) /\ Len(L[k]) \in Nat
  BY <1>1
<1> HIDE DEF L
<1>4. 0 \in T
  BY <1>1
<1> HIDE DEF n
<1>5. ASSUME NEW k \in Nat, k \in T PROVE k + 1 \in T
  <2> SUFFICES ASSUME (k + 1) + 1 \in 1..(n + 1) PROVE Shorter((k + 1) + 1)
    <3> HIDE DEF Shorter
    <3> QED OBVIOUS
  <2>1. k + 1 \in 1..n /\ k + 1 \in 1..(n + 1)
    BY <1>2
  <2>2. Shorter(k + 1)
    BY <2>1, <1>5
  <2> DEFINE layer == L[k + 1]
             next == L[(k + 1) + 1]
  <2>3. layer \in Seq(Nodes) /\ Len(layer) \in Nat /\ next = LayerAfter(layer)
    BY <2>1, <1>1, <1>3
  <2>4. Len(layer) >= 1 /\ (Len(layer) = 1 \/ Len(layer) + (k + 1) <= n + 1)
    BY <2>2
  <2> HIDE DEF layer, next
  <2> DEFINE length == Len(layer)
  <2>n. length \in Nat /\ length >= 1 /\ (length = 1 \/ length + (k + 1) <= n + 1)
    BY <2>3, <2>4
  <2> HIDE DEF length
  <2>5. CASE Len(layer) > 1
    <3>1. Len(next) = (Len(layer) + 1) \div 2
      BY <2>3, <2>5, NextLayerIs DEF LayerAfter
    <3>2. Len(next) \in Nat /\ Len(next) >= 1 /\ Len(next) < Len(layer)
      BY <2>3, <2>5, <3>1, Halves
    <3>3. length > 1 /\ Len(next) < length
      BY <2>5, <3>2 DEF length
    <3>4. Len(next) + ((k + 1) + 1) <= n + 1
      BY <2>n, <3>2, <3>3, <1>2
    <3> QED BY <3>2, <3>4 DEF next
  <2>6. CASE ~(Len(layer) > 1)
    <3>1. next = layer
      BY <2>3, <2>6 DEF LayerAfter
    <3>2. Len(layer) = 1
      <4>1. ~(length > 1)
        BY <2>6 DEF length
      <4>2. length = 1
        BY <2>n, <4>1
      <4> QED BY <4>2 DEF length
    <3> QED BY <3>1, <3>2 DEF next
  <2> QED BY <2>5, <2>6
<1>6. Nat \subseteq T
  <2> HIDE DEF T
  <2> QED BY <1>4, <1>5, SetInduction
<1>7. \A k \in 1..(n + 1) : Shorter(k)
  <2> SUFFICES ASSUME NEW k \in 1..(n + 1) PROVE Shorter(k)
    OBVIOUS
  <2>1. k - 1 \in Nat /\ (k - 1) + 1 = k
    BY <1>2
  <2> HIDE DEF Shorter
  <2> QED BY <2>1, <1>6
<1>8. Len(L[n + 1]) = 1
  <2>1. n + 1 \in 1..(n + 1) /\ Len(L[n + 1]) \in Nat
    BY <1>2, <1>3
  <2>2. Shorter(n + 1)
    BY <2>1, <1>7
  <2> DEFINE last == Len(L[n + 1])
  <2>3. last \in Nat /\ last >= 1 /\ (last = 1 \/ last + (n + 1) <= n + 1)
    BY <2>1, <2>2
  <2> HIDE DEF last
  <2>4. last = 1
    BY <2>3, <1>2
  <2> QED BY <2>4 DEF last
<1> QED BY <1>3, <1>7, <1>8 DEF L, n

\* What the layers of a tree have in common.
IsTree(t, elements) ==
  /\ t \in Seq(Seq(Nodes)) /\ Len(t) >= 1
  /\ t[1] = elements
  /\ \A k \in 1..(Len(t) - 1) : t[k + 1] = getNextLayer(t[k])
  /\ \A k \in 1..Len(t) : Len(t[k]) >= 1
  /\ Len(t[Len(t)]) = 1

LEMMA GetLayersAre ==
  ASSUME NEW elements \in Seq(Nodes), Len(elements) >= 1
  PROVE  IsTree(getLayers(elements), elements)
<1> DEFINE L == LayersOf(elements)
           n == Len(elements)
           Top(k) == Len(L[k]) <= 1 /\ \A j \in 1..(k - 1) : Len(L[j]) > 1
           top == CHOOSE k \in DOMAIN L : Top(k)
           t == SubSeq(L, 1, top)
<1>1. /\ L \in [1..(n + 1) -> Seq(Nodes)]
      /\ L[1] = elements
      /\ \A k \in 1..n : L[k + 1] = LayerAfter(L[k])
  BY LayersFrom
<1>2. /\ \A k \in 1..(n + 1) : Len(L[k]) \in Nat /\ Len(L[k]) >= 1
      /\ Len(L[n + 1]) = 1
  BY LayersEnd
<1>3. n \in Nat
  OBVIOUS
<1>4. getLayers(elements) = t
  BY Zenon DEF getLayers, LayersOf
<1> HIDE DEF L, n
<1>5. DOMAIN L = 1..(n + 1) /\ L \in Seq(Seq(Nodes)) /\ Len(L) = n + 1
  BY <1>1, <1>3
<1>6. \E k \in 1..(n + 1) : Top(k)
  <2> DEFINE Ends == {k \in 1..(n + 1) : Len(L[k]) <= 1}
  <2>1. n + 1 \in Ends
    <3>1. n + 1 \in 1..(n + 1)
      BY <1>3
    <3> QED BY <3>1, <1>2
  <2>2. Ends \subseteq Nat /\ Ends # {}
    BY <2>1
  <2> HIDE DEF Ends
  <2>3. PICK m \in Ends : \A k \in Ends : m <= k
    BY <2>2, SmallestOf
  <2> USE DEF Ends
  <2>4. m \in 1..(n + 1) /\ Len(L[m]) <= 1
    BY <2>3
  <2>5. ASSUME NEW j \in 1..(m - 1) PROVE Len(L[j]) > 1
    <3>1. j \in 1..(n + 1) /\ ~(m <= j)
      BY <2>4, <1>3
    <3>2. ~(Len(L[j]) <= 1) /\ Len(L[j]) \in Nat
      BY <2>3, <3>1, <1>2
    <3> QED BY <3>2
  <2> QED BY <2>4, <2>5
<1>7. top \in 1..(n + 1) /\ Top(top)
  <2> HIDE DEF Top
  <2> QED BY <1>5, <1>6
<1> HIDE DEF top
<1>8. /\ t \in Seq(Seq(Nodes)) /\ Len(t) = top
      /\ \A k \in 1..top : t[k] = L[k]
  BY <1>3, <1>5, <1>7
<1> HIDE DEF t
<1>9. top \in Nat /\ top >= 1 /\ top <= n + 1
  BY <1>3, <1>7
<1>10. ASSUME NEW k \in 1..(top - 1) PROVE t[k + 1] = getNextLayer(t[k])
  <2>1. k \in 1..n /\ k \in 1..top /\ k + 1 \in 1..top
    BY <1>3, <1>9
  <2>2. Len(L[k]) > 1
    BY <1>7
  <2> QED BY <2>1, <2>2, <1>1, <1>8 DEF LayerAfter
<1>11. ASSUME NEW k \in 1..top PROVE Len(t[k]) >= 1
  <2>1. k \in 1..(n + 1)
    BY <1>3, <1>9
  <2> QED BY <2>1, <1>2, <1>8
<1>12. Len(t[top]) = 1
  <2>1. top \in 1..top /\ Len(L[top]) \in Nat /\ Len(L[top]) >= 1 /\ Len(L[top]) <= 1
    BY <1>2, <1>7, <1>9
  <2> DEFINE length == Len(L[top])
  <2>2. length \in Nat /\ length >= 1 /\ length <= 1
    BY <2>1
  <2> HIDE DEF length
  <2>3. length = 1
    BY <2>2
  <2> QED BY <2>1, <2>3, <1>8 DEF length
<1>13. t[1] = elements
  BY <1>1, <1>8, <1>9
<1>14. IsTree(t, elements)
  BY <1>8, <1>9, <1>10, <1>11, <1>12, <1>13 DEF IsTree
<1> QED BY <1>4, <1>14

LEMMA HaveLeaves ==
  ASSUME NEW elements \in Seq(Elements)
  PROVE  LET l == [i \in DOMAIN elements |-> <<elements[i]>>] IN
         /\ l \in Seq(Leaves)
         /\ \A el : Occurs(<<el>>, l) <=> Occurs(el, elements)
<1> DEFINE n == Len(elements)
           l == [i \in DOMAIN elements |-> <<elements[i]>>]
<1>1. n \in Nat /\ DOMAIN elements = 1..n /\ \A i \in 1..n : elements[i] \in Elements
  OBVIOUS
<1>2. \A i \in 1..n : <<elements[i]>> \in Leaves
  BY <1>1 DEF Leaves
<1>3. l = [i \in 1..n |-> <<elements[i]>>]
  BY <1>1
<1>4. l \in Seq(Leaves) /\ Len(l) = n /\ \A i \in 1..n : l[i] = <<elements[i]>>
  <2> HIDE DEF n
  <2> QED BY <1>1, <1>2, <1>3
<1> HIDE DEF l
<1>5. ASSUME NEW el PROVE Occurs(<<el>>, l) <=> Occurs(el, elements)
  <2>1. \A i \in 1..n : l[i] = <<el>> <=> elements[i] = el
    BY <1>4
  <2> QED BY <1>4, <2>1 DEF Occurs
<1> QED BY <1>4, <1>5 DEF l

\* A tree of no elements has a root that is no node's.
NoTree == << << <<>> >> >>

LEMMA TreeIs ==
  ASSUME NEW elements \in Seq(Elements)
  PROVE  LET t == Tree(elements) IN
         \/ elements = <<>> /\ t = NoTree
         \/ \E l \in Seq(Leaves) : /\ IsTree(t, l)
                                   /\ \A el : Occurs(<<el>>, l) <=> Occurs(el, elements)
<1> DEFINE leaves == [i \in DOMAIN elements |-> <<elements[i]>>]
           s == sortBuffers(leaves)
           d == bufDedup(s)
<1>1. leaves \in Seq(Leaves) /\ \A el : Occurs(<<el>>, leaves) <=> Occurs(el, elements)
  BY HaveLeaves
<1> HIDE DEF leaves
<1>2. s \in Seq(Leaves) /\ \A x : Occurs(x, s) <=> Occurs(x, leaves)
  BY <1>1, SortKeeps
<1> HIDE DEF s
<1>3. d \in Seq(Leaves) /\ \A x : Occurs(x, d) <=> Occurs(x, s)
  BY <1>2, DedupKeeps
<1> HIDE DEF d
<1>4. Tree(elements) = IF d = <<>> THEN NoTree ELSE getLayers(d)
  BY DEF Tree, NoTree, d, s, leaves
<1>5. \A el : Occurs(<<el>>, d) <=> Occurs(el, elements)
  BY <1>1, <1>2, <1>3
<1>6. CASE d = <<>>
  <2>1. \A x : ~Occurs(x, d)
    BY <1>6 DEF Occurs
  <2>2. elements = <<>>
    <3>1. \A i \in 1..Len(elements) : Occurs(elements[i], elements)
      BY DEF Occurs
    <3>2. \A i \in 1..Len(elements) : FALSE
      BY <2>1, <3>1, <1>5
    <3> QED BY <3>2
  <2> QED BY <1>4, <1>6, <2>2
<1>7. CASE d # <<>>
  <2>1. d \in Seq(Nodes) /\ Len(d) >= 1
    <3>1. Leaves \subseteq Nodes
      BY NodesClosed
    <3>2. Len(d) \in Nat /\ Len(d) # 0 /\ \A i \in 1..Len(d) : d[i] \in Leaves
      BY <1>3, <1>7
    <3>3. d = [i \in 1..Len(d) |-> d[i]]
      BY <1>3
    <3> QED BY <3>1, <3>2, <3>3
  <2>2. IsTree(getLayers(d), d)
    BY <2>1, GetLayersAre
  <2> QED BY <1>3, <1>4, <1>5, <1>7, <2>2
<1> QED BY <1>6, <1>7
-----------------------------------------------------------------------------
\* The pair of a node is what it is hashed with for the next layer.
LEMMA PairIs ==
  ASSUME NEW layer \in Seq(Nodes), NEW i \in Nat, i < Len(layer)
  PROVE  LET pair == getPairElement(i, layer)
             next == getNextLayer(layer)
         IN  /\ i \div 2 \in Nat /\ i \div 2 < Len(next)
             /\ \/ pair = <<>> /\ next[i \div 2 + 1] = layer[i + 1]
                \/ \E node \in Nodes : /\ pair = <<node>>
                                       /\ next[i \div 2 + 1] = combinedHash(layer[i + 1], node)
<1> DEFINE n == Len(layer)
           h == i \div 2
           other == IF i % 2 = 0 THEN i + 1 ELSE i - 1
           next == getNextLayer(layer)
           pair == getPairElement(i, layer)
<1>1. n \in Nat /\ i < n /\ \A k \in 1..n : layer[k] \in Nodes
  OBVIOUS
<1>2. /\ h \in Nat
      /\ i % 2 = 0 => i = 2 * h
      /\ i % 2 # 0 => i = 2 * h + 1
  BY Halves
<1>3. /\ Len(next) = (n + 1) \div 2
      /\ \A k \in 1..Len(next) :
           /\ 2 * k <= n => next[k] = combinedHash(layer[2 * k - 1], layer[2 * k])
           /\ 2 * k > n => next[k] = layer[2 * k - 1]
  BY NextLayerIs
<1>4. pair = IF other < n THEN <<layer[other + 1]>> ELSE <<>>
  BY DEF getPairElement
<1> HIDE DEF n, h, next, pair
<1>5. Len(next) \in Nat /\ (2 * Len(next) = n \/ 2 * Len(next) = n + 1)
  BY <1>1, <1>3, Halves
<1>6. CASE i % 2 = 0
  <2>1. i = 2 * h /\ other = i + 1
    BY <1>2, <1>6
  <2>2. h < Len(next) /\ h + 1 \in 1..Len(next) /\ 2 * (h + 1) = i + 2 /\ 2 * (h + 1) - 1 = i + 1
    BY <1>1, <1>2, <1>5, <2>1
  <2>3. CASE i + 1 < n
    <3>1. i + 1 \in 1..n /\ i + 2 \in 1..n /\ 2 * (h + 1) <= n /\ (i + 1) + 1 = i + 2
      BY <1>1, <2>2, <2>3
    <3>2. next[h + 1] = combinedHash(layer[i + 1], layer[i + 2])
      BY <1>3, <2>2, <3>1
    <3>3. pair = <<layer[i + 2]>> /\ layer[i + 2] \in Nodes
      BY <1>1, <1>4, <2>1, <2>3, <3>1
    <3> QED BY <1>2, <2>2, <3>2, <3>3 DEF h, next, pair
  <2>4. CASE ~(i + 1 < n)
    <3>1. 2 * (h + 1) > n
      BY <1>1, <2>2, <2>4
    <3>2. next[h + 1] = layer[i + 1]
      BY <1>3, <2>2, <3>1
    <3>3. pair = <<>>
      BY <1>4, <2>1, <2>4
    <3> QED BY <1>2, <2>2, <3>2, <3>3 DEF h, next, pair
  <2> QED BY <2>3, <2>4
<1>7. CASE i % 2 # 0
  <2>1. i = 2 * h + 1 /\ other = i - 1
    BY <1>2, <1>7
  <2>2. /\ h < Len(next) /\ h + 1 \in 1..Len(next) /\ 2 * (h + 1) = i + 1 /\ 2 * (h + 1) - 1 = i
        /\ 2 * (h + 1) <= n
    BY <1>1, <1>2, <1>5, <2>1
  <2>3. i \in 1..n /\ i + 1 \in 1..n /\ (i - 1) + 1 = i /\ i - 1 < n
    BY <1>1, <1>2, <2>1
  <2>4. layer[i] \in Nodes /\ layer[i + 1] \in Nodes
    BY <1>1, <2>3
  <2>5. next[h + 1] = combinedHash(layer[i], layer[i + 1])
    BY <1>3, <2>2
  <2>6. next[h + 1] = combinedHash(layer[i + 1], layer[i])
    BY <2>4, <2>5, CombinedHash
  <2>7. pair = <<layer[i]>>
    BY <1>4, <2>1, <2>3
  <2> QED BY <1>2, <2>2, <2>4, <2>6, <2>7 DEF h, next, pair
<1> QED BY <1>6, <1>7

\* The places of an element's ancestors.
PlacesOf(el, layers) ==
  CHOOSE idx : idx = [k \in DOMAIN layers |->
                        IF k = 1 THEN bufIndexOf(el, layers[1]) ELSE idx[k - 1] \div 2]

LEMMA ProofIs ==
  ASSUME NEW el, NEW layers
  PROVE  getProof(el, layers) =
           FlattenSeq([k \in DOMAIN layers |-> getPairElement(PlacesOf(el, layers)[k], layers[k])])
BY Zenon DEF getProof, PlacesOf

LEMMA IndexIs ==
  ASSUME NEW el, NEW s \in Seq(Leaves)
  PROVE  /\ bufIndexOf(el, s) # -1 <=> Occurs(el, s)
         /\ Occurs(el, s) => /\ bufIndexOf(el, s) \in Nat /\ bufIndexOf(el, s) < Len(s)
                             /\ s[bufIndexOf(el, s) + 1] = el
<1> DEFINE spot == CHOOSE i \in DOMAIN s : s[i] = el
           idx == bufIndexOf(el, s)
<1>1. DOMAIN s = 1..Len(s) /\ Len(s) \in Nat
  OBVIOUS
<1>2. CASE Occurs(el, s)
  <2>1. \E i \in DOMAIN s : s[i] = el
    BY <1>1, <1>2 DEF Occurs
  <2>2. spot \in 1..Len(s) /\ s[spot] = el
    BY <2>1, <1>1
  <2>3. idx = spot - 1
    BY <2>1 DEF bufIndexOf
  <2> HIDE DEF spot, idx
  <2>4. idx # -1 /\ idx \in Nat /\ idx < Len(s) /\ idx + 1 = spot
    BY <2>2, <2>3, <1>1
  <2> QED BY <2>2, <2>4, <1>2 DEF idx
<1>3. CASE ~Occurs(el, s)
  <2>1. ~(\E i \in DOMAIN s : s[i] = el)
    BY <1>1, <1>3 DEF Occurs
  <2>2. bufIndexOf(el, s) = -1
    BY <2>1 DEF bufIndexOf
  <2> QED BY <2>2, <1>3
<1> QED BY <1>2, <1>3

LEMMA PlacesAre ==
  ASSUME NEW l \in Seq(Leaves), NEW t, IsTree(t, l), NEW el, Occurs(el, l)
  PROVE  LET idx == PlacesOf(el, t)
             N == Len(t)
         IN  /\ \A k \in 1..N : idx[k] \in Nat /\ idx[k] < Len(t[k])
             /\ l[idx[1] + 1] = el
             /\ \A k \in 1..(N - 1) : idx[k + 1] = idx[k] \div 2
<1> DEFINE N == Len(t)
           walk == N - 1
           first == bufIndexOf(el, t[1])
           R(f, k) == IF k = 1 THEN first ELSE f[k - 1] \div 2
           Is(f) == f = [k \in 1..N |-> R(f, k)]
           G == [x \in Nat \X (1..walk) |-> x[1] \div 2]
           idx == PlacesOf(el, t)
<1>1. /\ t \in Seq(Seq(Nodes)) /\ N \in Nat /\ N >= 1 /\ DOMAIN t = 1..N /\ t[1] = l
      /\ \A k \in 1..(N - 1) : t[k + 1] = getNextLayer(t[k])
  BY DEF IsTree
<1>2. first \in Nat /\ first < Len(t[1]) /\ l[first + 1] = el
  BY <1>1, IndexIs
<1> HIDE DEF first
<1>3. walk \in Nat /\ walk + 1 = N
  BY <1>1
<1>4. G \in [Nat \X (1..walk) -> Nat]
  <2> SUFFICES ASSUME NEW x \in Nat \X (1..walk) PROVE x[1] \div 2 \in Nat
    OBVIOUS
  <2>1. x[1] \in Nat
    OBVIOUS
  <2> QED BY <2>1, Halves
<1>5. PICK g : IteratesFromOne(Nat, walk, first, G, g)
  <2> HIDE DEF G, walk
  <2> QED BY <1>2, <1>3, <1>4, LoopFromOne
<1>6. g \in [1..N -> Nat] /\ g[1] = first /\ \A k \in 1..walk : g[k + 1] = G[<<g[k], k>>]
  <2> HIDE DEF G, walk, N
  <2> QED BY <1>3, <1>5 DEF IteratesFromOne
<1>7. \A k \in 1..N : g[k] = R(g, k)
  <2> SUFFICES ASSUME NEW k \in 1..N PROVE g[k] = R(g, k)
    OBVIOUS
  <2>1. CASE k = 1
    BY <2>1, <1>6
  <2>2. CASE k # 1
    <3>1. k - 1 \in 1..walk /\ k - 1 \in 1..N /\ (k - 1) + 1 = k
      BY <2>2, <1>1
    <3>2. G[<<g[k - 1], k - 1>>] = g[k - 1] \div 2
      BY <3>1, <1>6
    <3> HIDE DEF G
    <3> QED BY <3>1, <3>2, <2>2, <1>6
  <2> QED BY <2>1, <2>2
<1>8. Is(idx)
  <2>1. idx = CHOOSE f : Is(f)
    BY <1>1, Zenon DEF PlacesOf, first
  <2>2. Is(g)
    <3> HIDE DEF R
    <3> QED BY <1>6, <1>7
  <2> HIDE DEF Is, idx
  <2> QED BY <2>1, <2>2
<1> HIDE DEF idx
<1>9. \A k \in 1..N : idx[k] = R(idx, k)
  <2> HIDE DEF R
  <2> QED BY <1>8
<1>10. idx[1] = first /\ \A k \in 1..walk : idx[k + 1] = idx[k] \div 2
  <2>1. 1 \in 1..N /\ \A k \in 1..walk : k + 1 \in 1..N /\ k + 1 # 1 /\ (k + 1) - 1 = k
    BY <1>1
  <2> QED BY <1>9, <2>1
<1> DEFINE In == {k \in Nat : k + 1 \in 1..N => idx[k + 1] \in Nat /\ idx[k + 1] < Len(t[k + 1])}
<1>11. 0 \in In
  BY <1>2, <1>10
<1>12. ASSUME NEW k \in Nat, k \in In PROVE k + 1 \in In
  <2> SUFFICES ASSUME (k + 1) + 1 \in 1..N
               PROVE  idx[(k + 1) + 1] \in Nat /\ idx[(k + 1) + 1] < Len(t[(k + 1) + 1])
    OBVIOUS
  <2>1. k + 1 \in 1..walk /\ k + 1 \in 1..N /\ k + 1 \in 1..(N - 1)
    BY <1>1
  <2> DEFINE layer == t[k + 1]
             i == idx[k + 1]
  <2>2. layer \in Seq(Nodes)
    BY <1>1, <2>1
  <2>3. i \in Nat /\ i < Len(layer)
    BY <1>12, <2>1
  <2>4. t[(k + 1) + 1] = getNextLayer(layer) /\ idx[(k + 1) + 1] = i \div 2
    <3> HIDE DEF walk, N
    <3> QED BY <1>1, <1>10, <2>1
  <2> HIDE DEF layer, i
  <2>5. i \div 2 \in Nat /\ i \div 2 < Len(getNextLayer(layer))
    BY <2>2, <2>3, PairIs
  <2> QED BY <2>4, <2>5
<1>13. \A k \in 1..N : idx[k] \in Nat /\ idx[k] < Len(t[k])
  <2>1. Nat \subseteq In
    <3> HIDE DEF In
    <3> QED BY <1>11, <1>12, SetInduction
  <2>2. ASSUME NEW k \in 1..N PROVE k - 1 \in In /\ (k - 1) + 1 = k
    <3>1. k - 1 \in Nat /\ (k - 1) + 1 = k
      BY <1>1
    <3> HIDE DEF In
    <3> QED BY <2>1, <3>1
  <2> QED BY <2>2
<1> QED BY <1>2, <1>10, <1>13 DEF idx
\* From an element the contracts come to the root, layer by layer.
LEMMA ProofReaches ==
  ASSUME NEW l \in Seq(Leaves), NEW t, IsTree(t, l), NEW el \in Leaves, Occurs(el, l)
  PROVE  /\ getProof(el, t) \in Seq(Nodes)
         /\ Hashes(getProof(el, t), el)[Len(getProof(el, t))] = getRoot(t)
<1> DEFINE N == Len(t)
           idx == PlacesOf(el, t)
           pair(k) == getPairElement(idx[k], t[k])
           s == [k \in DOMAIN t |-> pair(k)]
           p == getProof(el, t)
           H == Hashes(p, el)
<1>1. /\ t \in Seq(Seq(Nodes)) /\ N \in Nat /\ N >= 1 /\ DOMAIN t = 1..N /\ t[1] = l
      /\ \A k \in 1..(N - 1) : t[k + 1] = getNextLayer(t[k])
      /\ Len(t[N]) = 1
  BY DEF IsTree
<1>2. /\ \A k \in 1..N : idx[k] \in Nat /\ idx[k] < Len(t[k])
      /\ l[idx[1] + 1] = el
      /\ \A k \in 1..(N - 1) : idx[k + 1] = idx[k] \div 2
  BY PlacesAre
<1> HIDE DEF idx
<1>3. \A k \in 1..N : \/ pair(k) = <<>>
                      \/ \E node \in Nodes : pair(k) = <<node>>
  <2> SUFFICES ASSUME NEW k \in 1..N
               PROVE  pair(k) = <<>> \/ \E node \in Nodes : pair(k) = <<node>>
    OBVIOUS
  <2> DEFINE layer == t[k]
             i == idx[k]
  <2>1. layer \in Seq(Nodes) /\ i \in Nat /\ i < Len(layer)
    BY <1>1, <1>2
  <2> HIDE DEF layer, i
  <2>2. \/ getPairElement(i, layer) = <<>>
        \/ \E node \in Nodes : getPairElement(i, layer) = <<node>>
    BY <2>1, PairIs
  <2> QED BY <2>2 DEF layer, i
<1>4. s \in Seq(Seq(Nodes)) /\ Len(s) = N /\ \A k \in 1..N : s[k] = pair(k)
  <2>1. ASSUME NEW k \in 1..N PROVE pair(k) \in Seq(Nodes)
    <3> HIDE DEF pair, N
    <3>1. <<>> \in Seq(Nodes) /\ \A node \in Nodes : <<node>> \in Seq(Nodes)
      OBVIOUS
    <3> QED BY <1>3, <3>1, Zenon
  <2> HIDE DEF pair, N
  <2> QED BY <1>1, <2>1
<1>5. p = FlattenSeq(s)
  BY ProofIs DEF idx
<1> HIDE DEF s, p
<1>6. PICK F : Flattens(Nodes, s, F)
  BY <1>4, FlattenUnfolds
<1>7. /\ \A k \in 0..N : F[k] \in Seq(Nodes)
      /\ F[0] = <<>> /\ \A k \in 1..N : F[k] = F[k - 1] \o pair(k)
      /\ p = F[N]
  <2> HIDE DEF pair, N
  <2> QED BY <1>4, <1>5, <1>6 DEF Flattens
<1>8. p \in Seq(Nodes) /\ \A k \in 0..N : /\ Len(F[k]) <= Len(p)
                                          /\ \A i \in 1..Len(F[k]) : p[i] = F[k][i]
  <2> HIDE DEF N
  <2>1. 0 \in 0..N /\ s \in Seq(Seq(Nodes)) /\ Len(s) = N
    BY <1>1, <1>4
  <2>2. ASSUME NEW k \in 0..N
        PROVE  /\ p \in Seq(Nodes) /\ Len(F[k]) <= Len(p)
               /\ \A i \in 1..Len(F[k]) : p[i] = F[k][i]
    BY <1>5, <1>6, <2>1, FlattenKeeps
  <2> QED BY <2>1, <2>2
<1>9. el \in Nodes
  BY NodesClosed
<1>10. H[0] = el /\ \A i \in 1..Len(p) : H[i] = combinedHash(H[i - 1], p[i])
  BY <1>8, <1>9, HashesAre
<1> HIDE DEF H, N, pair
<1> DEFINE Reached(k) == H[Len(F[k - 1])] = t[k][idx[k] + 1]
           T == {k \in Nat : k + 1 \in 1..N => Reached(k + 1)}
<1>11. 0 \in T
  <2>1. Reached(1)
    BY <1>1, <1>2, <1>7, <1>10
  <2> HIDE DEF Reached
  <2> QED BY <2>1
<1>12. ASSUME NEW k \in Nat, k \in T PROVE k + 1 \in T
  <2> SUFFICES ASSUME (k + 1) + 1 \in 1..N PROVE Reached((k + 1) + 1)
    <3> HIDE DEF Reached
    <3> QED OBVIOUS
  <2>1. /\ k + 1 \in 1..N /\ k + 1 \in 1..(N - 1) /\ k \in 0..N /\ k + 1 \in 0..N
        /\ (k + 1) - 1 = k /\ ((k + 1) + 1) - 1 = k + 1
    BY <1>1
  <2> DEFINE layer == t[k + 1]
             i == idx[k + 1]
             a == F[k]
             b == F[k + 1]
             m == Len(a)
  <2>2. H[m] = layer[i + 1]
    BY <1>12, <2>1
  <2>3. layer \in Seq(Nodes) /\ i \in Nat /\ i < Len(layer)
    BY <1>1, <1>2, <2>1, SMTT(30)
  <2>4. t[(k + 1) + 1][idx[(k + 1) + 1] + 1] = getNextLayer(layer)[i \div 2 + 1]
    BY <1>1, <1>2, <2>1
  <2>5. a \in Seq(Nodes) /\ b = a \o pair(k + 1)
    BY <1>7, <2>1
  <2>6. Len(b) <= Len(p) /\ \A j \in 1..Len(b) : p[j] = b[j]
    BY <1>8, <2>1
  <2>7. pair(k + 1) = getPairElement(i, layer)
    BY DEF pair
  <2>8. Reached((k + 1) + 1) <=> H[Len(b)] = getNextLayer(layer)[i \div 2 + 1]
    BY <2>1, <2>4
  <2> HIDE DEF layer, i, a, b, Reached
  <2>9. CASE pair(k + 1) = <<>> /\ getNextLayer(layer)[i \div 2 + 1] = layer[i + 1]
    <3>1. b = a
      BY <2>5, <2>9, ConcatEmptySeq
    <3> QED BY <2>2, <2>8, <2>9, <3>1
  <2>10. ASSUME NEW node \in Nodes, pair(k + 1) = <<node>>,
                getNextLayer(layer)[i \div 2 + 1] = combinedHash(layer[i + 1], node)
         PROVE  Reached((k + 1) + 1)
    <3>1. b = Append(a, node)
      BY <2>5, <2>10, AppendIsConcat
    <3>2. Len(b) = m + 1 /\ b[m + 1] = node /\ m \in Nat
      BY <2>5, <3>1
    <3>3. m + 1 \in 1..Len(b) /\ m + 1 \in 1..Len(p) /\ (m + 1) - 1 = m
      <4>1. Len(p) \in Nat
        BY <1>8
      <4> HIDE DEF m
      <4> QED BY <2>6, <3>2, <4>1
    <3>4. p[m + 1] = node
      BY <2>6, <3>2, <3>3
    <3>5. H[m + 1] = combinedHash(H[m], node)
      <4> HIDE DEF m
      <4> QED BY <1>10, <3>3, <3>4
    <3> QED BY <2>2, <2>8, <2>10, <3>2, <3>5
  <2> QED BY <2>3, <2>7, <2>9, <2>10, PairIs
<1>13. Reached(N)
  <2>1. Nat \subseteq T
    <3> HIDE DEF T
    <3> QED BY <1>11, <1>12, SetInduction
  <2>2. N - 1 \in Nat /\ (N - 1) + 1 = N /\ N \in 1..N
    BY <1>1
  <2> HIDE DEF Reached
  <2>3. N - 1 \in T
    <3> HIDE DEF T
    <3> QED BY <2>1, <2>2
  <2> QED BY <2>2, <2>3
<1>14. N \in 1..N /\ N - 1 \in 0..N
  BY <1>1
<1>15. idx[N] = 0 /\ pair(N) = <<>>
  <2>1. idx[N] \in Nat /\ idx[N] < 1
    BY <1>1, <1>2, <1>14
  <2>2. idx[N] = 0
    BY <2>1
  <2>3. getPairElement(0, t[N]) = <<>>
    BY <1>1 DEF getPairElement
  <2> QED BY <2>2, <2>3 DEF pair
<1>16. p = F[N - 1]
  <2>1. F[N - 1] \in Seq(Nodes)
    BY <1>7, <1>14
  <2>2. F[N] = F[N - 1] \o <<>>
    BY <1>7, <1>14, <1>15
  <2> QED BY <1>7, <2>1, <2>2, ConcatEmptySeq
<1>17. getRoot(t) = t[N][1]
  BY DEF getRoot, Last, N
<1> QED BY <1>8, <1>13, <1>15, <1>16, <1>17 DEF H, p

-----------------------------------------------------------------------------
\* The tree is of the elements given, and what was proven is one of them.
IsProven(record) ==
  \E el \in Elements : /\ bufIndexOf(<<el>>, tree[1]) # -1
                       /\ record = <<[element |-> el, proof |-> getProof(<<el>>, tree)]>>
TreesInv ==
  /\ given \in Seq(Elements)
  /\ tree = Tree(given)
  /\ proven = <<>> \/ IsProven(proven)

LEMMA TreesInvHolds == MerkleSpec => []TreesInv
<1>1. MerkleInit => TreesInv
  BY DEF MerkleInit, TreesInv
<1>2. TreesInv /\ [MerkleNext]_merkleVars => TreesInv'
  <2> SUFFICES ASSUME TreesInv, [MerkleNext]_merkleVars PROVE TreesInv'
    OBVIOUS
  <2>1. ASSUME NEW n \in 0..MaxElements, NEW elements \in [1..n -> Elements], Distribute(elements)
        PROVE  TreesInv'
    <3>1. elements \in Seq(Elements)
      BY MerkleAssumption
    <3> QED BY <2>1, <3>1 DEF Distribute, TreesInv
  <2>2. ASSUME NEW el \in Elements, getHexProof(el) PROVE TreesInv'
    <3>1. IsProven(proven)'
      BY <2>2 DEF getHexProof, IsProven
    <3> QED BY <2>2, <3>1 DEF getHexProof, TreesInv
  <2>3. CASE UNCHANGED merkleVars
    BY <2>3 DEF merkleVars, TreesInv, IsProven
  <2> QED BY <2>1, <2>2, <2>3 DEF MerkleNext
<1> QED BY <1>1, <1>2, PTL DEF MerkleSpec

LEMMA TreesInvMeans == TreesInv => ProofsVerify
<1> SUFFICES ASSUME TreesInv PROVE ProofsVerify
  OBVIOUS
<1>1. given \in Seq(Elements) /\ tree = Tree(given)
  BY DEF TreesInv
<1>2. CASE given = <<>> /\ tree = NoTree
  <2>1. ASSUME NEW el \in Elements PROVE bufIndexOf(<<el>>, tree[1]) = -1
    <3>1. tree[1] = << <<>> >>
      BY <1>2 DEF NoTree
    <3>2. \A i \in DOMAIN tree[1] : tree[1][i] = <<>>
      BY <3>1
    <3> QED BY <3>2, SMTT(30) DEF bufIndexOf
  <2>2. proven = <<>>
    BY <2>1 DEF TreesInv, IsProven
  <2> QED BY <1>2, <2>2 DEF ProofsVerify
<1>3. ASSUME NEW l \in Seq(Leaves), IsTree(tree, l),
             \A el : Occurs(<<el>>, l) <=> Occurs(el, given)
      PROVE  ProofsVerify
  <2>1. tree[1] = l
    BY <1>3 DEF IsTree
  <2>2. ASSUME NEW i \in DOMAIN given PROVE bufIndexOf(<<given[i]>>, tree[1]) # -1
    <3>1. Occurs(given[i], given)
      BY <1>1 DEF Occurs
    <3> QED BY <3>1, <1>3, <2>1, IndexIs
  <2>3. ASSUME proven # <<>>, NEW el \in Elements
        PROVE  verify(proven[1].proof, getRoot(tree), <<el>>) = (el = proven[1].element)
    <3>1. PICK e \in Elements : /\ bufIndexOf(<<e>>, tree[1]) # -1
                                /\ proven = <<[element |-> e, proof |-> getProof(<<e>>, tree)]>>
      BY <2>3 DEF TreesInv, IsProven
    <3> DEFINE p == getProof(<<e>>, tree)
               x == <<e>>
               y == <<el>>
    <3>2. x \in Leaves /\ y \in Leaves /\ (x = y <=> e = el)
      BY DEF Leaves
    <3>3. Occurs(x, l)
      BY <3>1, <2>1, IndexIs
    <3>4. p \in Seq(Nodes) /\ Hashes(p, x)[Len(p)] = getRoot(tree)
      BY <1>3, <3>2, <3>3, ProofReaches
    <3>5. proven[1].proof = p /\ proven[1].element = e
      BY <3>1
    <3>6. x \in Nodes /\ y \in Nodes
      BY <3>2, NodesClosed
    <3> HIDE DEF p, x, y
    <3>7. verify(p, getRoot(tree), y) <=> Hashes(p, y)[Len(p)] = getRoot(tree)
      BY VerifyIs
    <3>8. Hashes(p, y)[Len(p)] = getRoot(tree) <=> x = y
      BY <3>4, <3>6, LeavesDiffer
    <3>9. verify(p, getRoot(tree), y) \in BOOLEAN
      BY DEF verify
    <3> QED BY <3>2, <3>5, <3>7, <3>8, <3>9 DEF y
  <2> QED BY <2>2, <2>3 DEF ProofsVerify
<1> QED BY <1>1, <1>2, <1>3, TreeIs

\* Whatever elements a distribution has, however many and in whatever order they are
\* listed: each can be proven, and its proof passes for it and for no other.
THEOREM ProofsAreTaken == MerkleSpec => []ProofsVerify
BY TreesInvHolds, TreesInvMeans, PTL
-----------------------------------------------------------------------------
\* What is in a tree is in it because of what it is made of: a leaf is one of the first
\* layer, and the two nodes of a hash are in the tree as well.
InTree(x, t) == \E k \in 1..Len(t) : Occurs(x, t[k])
Grounded(x, t) ==
  /\ x \in Leaves => Occurs(x, t[1])
  /\ \A a, b \in Nodes : x = keccak256(a, b) => InTree(a, t) /\ InTree(b, t)

LEMMA LeafIsNoHash ==
  ASSUME NEW x \in Leaves, NEW a \in Nodes, NEW b \in Nodes
  PROVE  x # keccak256(a, b)
<1>1. keccak256(a, b)[1] = Mark
  BY KeccakIs, NodesClosed
<1>2. x[1] \in Elements
  BY DEF Leaves
<1> QED BY <1>1, <1>2, MerkleAssumption

LEMMA TreeIsGrounded ==
  ASSUME NEW t, NEW l \in Seq(Leaves), IsTree(t, l)
  PROVE  \A x : InTree(x, t) => x \in Nodes /\ Grounded(x, t)
<1> DEFINE top == Len(t)
           N == top - 1
           Good(s) == \A i \in 1..Len(s) : s[i] \in Nodes /\ Grounded(s[i], t)
           G == {s \in Seq(Nodes) : Good(s)}
<1>1. /\ top \in Nat /\ top >= 1 /\ N \in Nat
      /\ t[1] = l
      /\ \A k \in 1..top : t[k] \in Seq(Nodes)
      /\ \A k \in 1..N : t[k + 1] = getNextLayer(t[k])
  <2>1. t \in Seq(Seq(Nodes)) /\ Len(t) >= 1
    BY DEF IsTree
  <2> QED BY <2>1 DEF IsTree
<1> HIDE DEF top
<1>2. t[1] \in G
  <2>1. t[1] \in Seq(Nodes)
    BY <1>1
  <2>2. ASSUME NEW i \in 1..Len(t[1]) PROVE t[1][i] \in Nodes /\ Grounded(t[1][i], t)
    <3>1. t[1][i] \in Leaves
      BY <2>2, <1>1
    <3>2. Occurs(t[1][i], t[1])
      BY DEF Occurs
    <3> QED BY <3>1, <3>2, NodesClosed, LeafIsNoHash DEF Grounded
  <2> QED BY <2>1, <2>2
<1>3. ASSUME NEW k \in 1..N, t[k] \in G PROVE t[k + 1] \in G
  <2> DEFINE layer == t[k]
             next == getNextLayer(layer)
             n == Len(layer)
  <2>1. k \in 1..top /\ next = t[k + 1] /\ layer \in Seq(Nodes)
    BY <1>1
  <2>2. n \in Nat /\ \A i \in 1..n : /\ layer[i] \in Nodes /\ Grounded(layer[i], t)
                                     /\ InTree(layer[i], t)
    <3>1. n \in Nat /\ \A i \in 1..n : layer[i] \in Nodes /\ Grounded(layer[i], t)
      BY <1>3, <2>1
    <3>2. \A i \in 1..n : Occurs(layer[i], layer)
      BY DEF Occurs
    <3>3. \A i \in 1..n : InTree(layer[i], t)
      BY <2>1, <3>2 DEF InTree, top
    <3> QED BY <3>1, <3>3
  <2>3. /\ next \in Seq(Nodes) /\ Len(next) = (n + 1) \div 2
        /\ \A i \in 1..Len(next) :
             /\ 2 * i <= n => next[i] = combinedHash(layer[2 * i - 1], layer[2 * i])
             /\ 2 * i > n => next[i] = layer[2 * i - 1]
    BY <2>1, NextLayerIs
  <2>4. \A i \in 1..((n + 1) \div 2) : /\ 2 * i - 1 \in 1..n
                                       /\ 2 * i <= n \/ 2 * i > n
                                       /\ 2 * i <= n => 2 * i \in 1..n
    <3> HIDE DEF n
    <3>1. (n + 1) \div 2 \in Nat /\ (2 * ((n + 1) \div 2) = n \/ 2 * ((n + 1) \div 2) = n + 1)
      BY <2>2, Halves
    <3> DEFINE m == (n + 1) \div 2
    <3>2. m \in Nat /\ (2 * m = n \/ 2 * m = n + 1)
      BY <3>1
    <3> HIDE DEF m
    <3>3. \A i \in 1..m : /\ 2 * i - 1 \in 1..n
                          /\ 2 * i <= n \/ 2 * i > n
                          /\ 2 * i <= n => 2 * i \in 1..n
      BY <3>2, <2>2
    <3> QED BY <3>3 DEF m
  <2> HIDE DEF next, layer, n
  <2>5. ASSUME NEW i \in 1..Len(next) PROVE next[i] \in Nodes /\ Grounded(next[i], t)
    <3>0. 2 * i - 1 \in 1..n /\ (2 * i <= n \/ 2 * i > n)
      BY <2>3, <2>4
    <3>1. CASE 2 * i > n
      BY <3>0, <3>1, <2>2, <2>3
    <3>2. CASE 2 * i <= n
      <4> DEFINE u == layer[2 * i - 1]
                 v == layer[2 * i]
      <4>1. 2 * i \in 1..n
        BY <3>2, <2>3, <2>4
      <4>2. /\ u \in Nodes /\ v \in Nodes /\ InTree(u, t) /\ InTree(v, t)
            /\ next[i] = combinedHash(u, v)
        BY <3>0, <3>2, <4>1, <2>2, <2>3
      <4> HIDE DEF u, v
      <4>3. next[i] \in Nodes /\ (next[i] = keccak256(u, v) \/ next[i] = keccak256(v, u))
        BY <4>2, CombinedHash
      <4>4. next[i] \notin Leaves
        BY <4>2, <4>3, LeafIsNoHash
      <4>5. ASSUME NEW a \in Nodes, NEW b \in Nodes, next[i] = keccak256(a, b)
            PROVE  InTree(a, t) /\ InTree(b, t)
        <5>1. (a = u /\ b = v) \/ (a = v /\ b = u)
          BY <4>2, <4>3, <4>5, HashesDiffer
        <5> QED BY <5>1, <4>2
      <4> QED BY <4>3, <4>4, <4>5 DEF Grounded
    <3> QED BY <3>0, <3>1, <3>2
  <2> QED BY <2>1, <2>3, <2>5
<1>4. \A k \in 1..(N + 1) : t[k] \in G
  <2> HIDE DEF G, N
  <2> QED BY <1>1, <1>2, <1>3, LoopFromOneKeeps
<1>5. \A k \in 1..top : Good(t[k])
  <2>1. N + 1 = top
    BY <1>1
  <2> HIDE DEF Good
  <2> QED BY <1>4, <2>1
<1> QED BY <1>5 DEF InTree, Occurs, top

\* So where hashes come to the root, what they were made from is in the tree.
LEMMA RootIsReachedFromTree ==
  ASSUME NEW t, NEW l \in Seq(Leaves), IsTree(t, l),
         NEW proof \in Seq(Nodes), NEW x \in Leaves,
         Hashes(proof, x)[Len(proof)] = getRoot(t)
  PROVE  Occurs(x, l)
<1> DEFINE n == Len(proof)
           H == Hashes(proof, x)
           T == {j \in Nat : j <= n => InTree(H[n - j], t)}
<1>1. x \in Nodes
  BY NodesClosed
<1>2. /\ H \in [0..n -> Nodes] /\ H[0] = x
      /\ \A i \in 1..n : H[i] = combinedHash(H[i - 1], proof[i])
  BY <1>1, HashesAre
<1>3. n \in Nat /\ \A i \in 1..n : proof[i] \in Nodes
  OBVIOUS
<1>4. H[n] = getRoot(t)
  OBVIOUS
<1>5. InTree(getRoot(t), t)
  <2>1. t \in Seq(Seq(Nodes)) /\ Len(t) >= 1 /\ Len(t[Len(t)]) = 1
    BY DEF IsTree
  <2>2. getRoot(t) = t[Len(t)][1]
    BY DEF getRoot, Last
  <2>3. Len(t) \in 1..Len(t)
    BY <2>1
  <2>4. Occurs(getRoot(t), t[Len(t)])
    BY <2>1, <2>2 DEF Occurs
  <2> QED BY <2>3, <2>4 DEF InTree
<1> HIDE DEF H, n
<1>6. 0 \in T
  BY <1>3, <1>4, <1>5
<1>7. ASSUME NEW j \in Nat, j \in T PROVE j + 1 \in T
  <2> SUFFICES ASSUME j + 1 <= n PROVE InTree(H[n - (j + 1)], t)
    OBVIOUS
  <2> DEFINE i == n - j
  <2>1. i \in 1..n /\ i - 1 = n - (j + 1) /\ i - 1 \in 0..n /\ i \in 0..n /\ j <= n
    BY <1>3
  <2>2. InTree(H[i], t)
    BY <1>7, <2>1
  <2> HIDE DEF i
  <2>3. H[i - 1] \in Nodes /\ proof[i] \in Nodes /\ H[i] = combinedHash(H[i - 1], proof[i])
    BY <1>2, <1>3, <2>1
  <2>4. H[i] = keccak256(H[i - 1], proof[i]) \/ H[i] = keccak256(proof[i], H[i - 1])
    BY <2>3, CombinedHash
  <2>5. Grounded(H[i], t)
    BY <2>2, TreeIsGrounded
  <2>6. InTree(H[i - 1], t)
    BY <2>3, <2>4, <2>5 DEF Grounded
  <2> QED BY <2>1, <2>6
<1>8. Nat \subseteq T
  <2> HIDE DEF T
  <2> QED BY <1>6, <1>7, SetInduction
<1>9. InTree(x, t)
  <2>1. n \in T /\ n <= n /\ n - n = 0
    BY <1>3, <1>8
  <2> QED BY <2>1, <1>2
<1>10. Grounded(x, t) /\ t[1] = l
  BY <1>9, TreeIsGrounded DEF IsTree
<1> QED BY <1>10 DEF Grounded

\* No other proof passes either: whatever nodes a claim is sent with, in whatever number
\* and order, MerkleProof.verify takes it for an element of the distribution only.
OnlyGivenPass ==
  \A proof \in Seq(Nodes), el \in Elements :
    verify(proof, getRoot(tree), <<el>>) => \E i \in DOMAIN given : given[i] = el

LEMMA TreesInvGuards == TreesInv => OnlyGivenPass
<1> SUFFICES ASSUME TreesInv, NEW proof \in Seq(Nodes), NEW el \in Elements,
                    verify(proof, getRoot(tree), <<el>>)
             PROVE  \E i \in DOMAIN given : given[i] = el
  BY DEF OnlyGivenPass
<1> DEFINE x == <<el>>
<1>1. x \in Leaves /\ x \in Nodes
  BY NodesClosed DEF Leaves
<1>2. given \in Seq(Elements) /\ tree = Tree(given)
  BY DEF TreesInv
<1>3. Hashes(proof, x)[Len(proof)] = getRoot(tree)
  BY VerifyIs
<1>4. CASE tree = NoTree
  <2>1. getRoot(tree) = <<>>
    BY <1>4 DEF NoTree, getRoot, Last
  <2>2. Len(proof) \in 0..Len(proof)
    OBVIOUS
  <2>3. Hashes(proof, x)[Len(proof)] \in Nodes
    <3> HIDE DEF x
    <3> QED BY <1>1, <2>2, HashesAre
  <2>4. <<>> \notin Nodes
    <3>1. \A y \in Leaves : y # <<>>
      BY LeavesAre
    <3>2. ASSUME NEW a \in Nodes, NEW b \in Nodes PROVE keccak256(a, b) # <<>>
      <4> DEFINE h == keccak256(a, b)
      <4>1. a \in Seq(Int) /\ b \in Seq(Int)
        BY NodesClosed
      <4>2. Len(h) = 1 + Len(a) + Len(b)
        BY <4>1, KeccakIs
      <4> HIDE DEF h
      <4>3. Len(h) # 0
        BY <4>1, <4>2
      <4>4. h # <<>>
        BY <4>3
      <4> QED BY <4>4 DEF h
    <3> QED BY <3>1, <3>2, NodeIs
  <2> QED BY <1>3, <2>1, <2>3, <2>4
<1>5. ASSUME NEW l \in Seq(Leaves), IsTree(tree, l),
             \A e : Occurs(<<e>>, l) <=> Occurs(e, given)
      PROVE  \E i \in DOMAIN given : given[i] = el
  <2>1. Occurs(x, l)
    <3> HIDE DEF x
    <3> QED BY <1>1, <1>3, <1>5, RootIsReachedFromTree
  <2>2. Occurs(el, given)
    BY <2>1, <1>5
  <2> QED BY <1>2, <2>2 DEF Occurs
<1> QED BY <1>2, <1>4, <1>5, TreeIs

(***************************************************************************)
(* A claim passes for an element of the distribution and for nothing else, *)
(* whatever nodes it is sent with for a proof, ones of the tree or others, *)
(* too few or too many (MerkleProof.sol, with the roots of merkleTree.ts). *)
(***************************************************************************)
THEOREM NoOthersPass == MerkleSpec => []OnlyGivenPass
BY TreesInvHolds, TreesInvGuards, PTL

=============================================================================
