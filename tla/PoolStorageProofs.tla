--------------------------- MODULE PoolStorageProofs ---------------------------
(***************************************************************************)
(* Proofs about PoolStorage.  Loops over lists are recursive functions of  *)
(* the number of iterations; what they return is shown by induction on it. *)
(***************************************************************************)
EXTENDS PoolStorage, Induction, SequenceTheorems, FiniteSetTheorems

\* EnumerableMap: typed maps, and those whose slots and indices agree.
Maps == [entries: Seq([key: Tokens, value: Balance]), indexes: [Tokens -> Nat]]
GoodMaps == {m \in Maps : Map!Consistent(m)}

\* A map is still one after a key gets a value.
LEMMA SetTyped ==
  ASSUME NEW m \in Maps, NEW key \in Tokens, NEW value \in Balance,
         Map!contains(m, key) => m.indexes[key] \in 1..Len(m.entries)
  PROVE  Map!set(m, key, value) \in Maps
<1>1. CASE Map!contains(m, key)
  <2> DEFINE i == m.indexes[key]
             entry == [m.entries[i] EXCEPT !.value = value]
  <2>0. m.entries \in Seq([key: Tokens, value: Balance])
    BY DEF Maps
  <2>1. i \in 1..Len(m.entries) /\ m.entries[i] \in [key: Tokens, value: Balance]
    <3>1. i \in 1..Len(m.entries)
      BY <1>1
    <3> HIDE DEF i
    <3> QED BY <2>0, <3>1, ElementOfSeq
  <2>2. entry \in [key: Tokens, value: Balance]
    BY <2>1
  <2>3. Map!set(m, key, value) = [m EXCEPT !.entries = [m.entries EXCEPT ![i] = entry]]
    BY <1>1 DEF Map!set, Maps
  <2> HIDE DEF i, entry
  <2>4. [m.entries EXCEPT ![i] = entry] \in Seq([key: Tokens, value: Balance])
    BY <2>1, <2>2 DEF Maps
  <2> QED BY <2>3, <2>4 DEF Maps
<1>2. CASE ~Map!contains(m, key)
  BY <1>2 DEF Maps, Map!set, Map!contains
<1> QED BY <1>1, <1>2

\* ... and its slots and indices agree.
LEMMA SetGood ==
  ASSUME NEW m \in GoodMaps, NEW key \in Tokens, NEW value \in Balance
  PROVE  Map!set(m, key, value) \in GoodMaps
<1>1. Map!set(m, key, value) \in Maps
  BY SetTyped DEF GoodMaps, Map!Consistent, Map!Keys, Map!contains, Maps
<1>2. CASE Map!contains(m, key)
  <2> DEFINE s == Map!set(m, key, value)
  <2>1. /\ Len(s.entries) = Len(m.entries) /\ s.indexes = m.indexes
        /\ \A i \in 1..Len(m.entries) : s.entries[i].key = m.entries[i].key
    BY <1>2 DEF GoodMaps, Maps, Map!set
  <2> HIDE DEF s
  <2> QED BY <1>1, <2>1 DEF GoodMaps, Map!Consistent, Map!Keys, Map!contains, s
<1>3. CASE ~Map!contains(m, key)
  <2> DEFINE s == Map!set(m, key, value)
             n == Len(m.entries)
  <2>1. /\ Len(s.entries) = n + 1
        /\ \A i \in 1..n : s.entries[i] = m.entries[i]
        /\ s.entries[n + 1].key = key
        /\ s.indexes = [m.indexes EXCEPT ![key] = n + 1]
    BY <1>3 DEF GoodMaps, Maps, Map!set
  <2> HIDE DEF s
  <2>2. Map!Consistent(s)
    <3>1. \A i \in 1..n : /\ m.entries[i].key \in Tokens \ {key}
                          /\ m.indexes[m.entries[i].key] = i
      BY <1>3 DEF GoodMaps, Maps, Map!Consistent, Map!contains
    <3>2. \A k \in Tokens \ {key} : m.indexes[k] # 0 =>
            m.indexes[k] \in 1..n /\ m.entries[m.indexes[k]].key = k
      BY DEF GoodMaps, Maps, Map!Consistent, Map!contains, Map!Keys
    <3>3. m.indexes \in [Tokens -> Nat] /\ n \in Nat
      BY DEF GoodMaps, Maps
    <3> HIDE DEF n
    <3>4. ASSUME NEW i \in 1..(n + 1)
          PROVE  s.entries[i].key \in DOMAIN s.indexes /\ s.indexes[s.entries[i].key] = i
      <4>1. CASE i = n + 1
        BY <2>1, <3>3, <4>1
      <4>2. CASE i # n + 1
        <5>1. i \in 1..n
          BY <3>3, <4>2
        <5> QED BY <2>1, <3>1, <3>3, <5>1
      <4> QED BY <4>1, <4>2
    <3>5. ASSUME NEW k \in DOMAIN s.indexes, s.indexes[k] # 0
          PROVE  s.indexes[k] \in 1..(n + 1) /\ s.entries[s.indexes[k]].key = k
      <4>1. CASE k = key
        BY <2>1, <3>3, <4>1
      <4>2. CASE k # key
        <5>1. k \in Tokens \ {key} /\ s.indexes[k] = m.indexes[k]
          BY <2>1, <3>3, <4>2
        <5>2. m.indexes[k] \in 1..n /\ m.entries[m.indexes[k]].key = k
          BY <3>2, <3>5, <5>1
        <5> QED BY <2>1, <3>3, <5>1, <5>2
      <4> QED BY <4>1, <4>2
    <3> QED BY <2>1, <3>4, <3>5 DEF Map!Consistent, Map!Keys, Map!contains
  <2> QED BY <1>1, <2>2 DEF GoodMaps, s
<1> QED BY <1>2, <1>3

\* A list without its last element, with one place taken by it, is a list.
LEMMA SwapAndPopTyped ==
  ASSUME NEW S, NEW list \in Seq(S), NEW place
  PROVE  [i \in 1..(Len(list) - 1) |-> IF i = place THEN list[Len(list)] ELSE list[i]]
           \in Seq(S)
<1> DEFINE n == Len(list)
           popped == [i \in 1..(n - 1) |-> IF i = place THEN list[n] ELSE list[i]]
<1>1. n \in Nat /\ \A i \in 1..n : list[i] \in S
  BY ElementOfSeq
<1>2. CASE n = 0
  <2>1. popped = [i \in 1..0 |-> IF i = place THEN list[n] ELSE list[i]]
    BY <1>2
  <2>2. [i \in 1..0 |-> IF i = place THEN list[n] ELSE list[i]] \in [1..0 -> S]
    OBVIOUS
  <2> HIDE DEF popped
  <2>3. popped \in [1..0 -> S]
    BY <2>1, <2>2
  <2>4. popped \in Seq(S)
    BY <2>3, IsASeq
  <2> QED BY <2>4 DEF popped
<1>3. CASE n # 0
  <2>1. n - 1 \in Nat /\ n \in 1..n /\ \A i \in 1..(n - 1) : i \in 1..n
    BY <1>1, <1>3
  <2> HIDE DEF n
  <2>2. popped \in [1..(n - 1) -> S]
    BY <1>1, <2>1
  <2> HIDE DEF popped
  <2>3. popped \in Seq(S)
    BY <2>1, <2>2, IsASeq
  <2> QED BY <2>3 DEF popped, n
<1> QED BY <1>2, <1>3

\* A map is still one, as far as types go, after the removal of any key.
LEMMA RemoveTyped ==
  ASSUME NEW m \in Maps, NEW key \in Tokens
  PROVE  Map!remove(m, key) \in Maps
<1> DEFINE n == Len(m.entries)
           last == m.entries[n]
           list == [i \in 1..(n - 1) |-> IF i = m.indexes[key] THEN last ELSE m.entries[i]]
           indexes == [m.indexes EXCEPT ![last.key] = m.indexes[key], ![key] = 0]
<1>1. list \in Seq([key: Tokens, value: Balance])
  BY SwapAndPopTyped DEF Maps
<1>2. indexes \in [Tokens -> Nat]
  <2>1. m.indexes \in [Tokens -> Nat] /\ m.indexes[key] \in Nat
    BY DEF Maps
  <2> HIDE DEF last
  <2> QED BY <2>1
<1>3. Map!remove(m, key) = [entries |-> list, indexes |-> indexes]
  BY DEF Map!remove
<1> HIDE DEF list, indexes
<1> QED BY <1>1, <1>2, <1>3 DEF Maps

\* Swap and pop: without a key of its own, a map's slots and indices still agree.
LEMMA RemoveGood ==
  ASSUME NEW m \in GoodMaps, NEW key \in Tokens, Map!contains(m, key)
  PROVE  Map!remove(m, key) \in GoodMaps
<1> DEFINE n == Len(m.entries)
           last == m.entries[n].key
           r == Map!remove(m, key)
<1>1. r \in Maps
  BY RemoveTyped DEF GoodMaps
<1>2. /\ n \in Nat \ {0}
      /\ m.indexes \in [Tokens -> Nat]
      /\ m.indexes[key] \in 1..n
      /\ m.entries[m.indexes[key]].key = key
  BY DEF GoodMaps, Maps, Map!Consistent, Map!Keys, Map!contains
<1>3. \A i \in 1..n : m.entries[i].key \in Tokens /\ m.indexes[m.entries[i].key] = i
  BY DEF GoodMaps, Maps, Map!Consistent
<1>4. \A k \in Tokens : m.indexes[k] # 0 =>
        m.indexes[k] \in 1..n /\ m.entries[m.indexes[k]].key = k
  BY DEF GoodMaps, Maps, Map!Consistent, Map!contains, Map!Keys
<1>5. /\ Len(r.entries) = n - 1
      /\ \A i \in 1..(n - 1) :
           r.entries[i].key = IF i = m.indexes[key] THEN last ELSE m.entries[i].key
      /\ r.indexes = [m.indexes EXCEPT ![last] = m.indexes[key], ![key] = 0]
  BY <1>2 DEF Map!remove
<1>6. last \in Tokens /\ m.indexes[last] = n
  BY <1>2, <1>3
<1> HIDE DEF n, r, last
<1>7. DOMAIN r.indexes = Tokens
  BY <1>2, <1>5
<1>8. ASSUME NEW i \in 1..(n - 1)
      PROVE  r.entries[i].key \in Tokens /\ r.indexes[r.entries[i].key] = i
  <2>1. i \in 1..n /\ i # n
    BY <1>2
  <2>2. CASE i = m.indexes[key]
    <3>1. last # key
      BY <1>6, <2>1, <2>2
    <3> QED BY <1>2, <1>5, <1>6, <2>2, <3>1
  <2>3. CASE i # m.indexes[key]
    <3>1. m.entries[i].key # key /\ m.entries[i].key # last
      BY <1>3, <1>6, <2>1, <2>3
    <3> QED BY <1>2, <1>3, <1>5, <2>1, <2>3, <3>1
  <2> QED BY <2>2, <2>3
<1>9. ASSUME NEW k \in Tokens, r.indexes[k] # 0
      PROVE  r.indexes[k] \in 1..(n - 1) /\ r.entries[r.indexes[k]].key = k
  <2>1. k # key
    BY <1>2, <1>5, <1>9
  <2>2. CASE k = last
    <3>1. r.indexes[k] = m.indexes[key]
      BY <1>2, <1>5, <1>6, <2>1, <2>2
    <3>2. m.indexes[key] # n
      BY <1>2, <2>1, <2>2 DEF last
    <3> QED BY <1>2, <1>5, <2>2, <3>1, <3>2
  <2>3. CASE k # last
    <3>1. r.indexes[k] = m.indexes[k]
      BY <1>2, <1>5, <2>1, <2>3
    <3>2. m.indexes[k] \in 1..n /\ m.entries[m.indexes[k]].key = k
      BY <1>4, <1>9, <3>1
    <3>3. m.indexes[k] # n /\ m.indexes[k] # m.indexes[key]
      BY <1>2, <2>1, <2>3, <3>2 DEF last
    <3> QED BY <1>2, <1>5, <3>1, <3>2, <3>3
  <2> QED BY <2>2, <2>3
<1>10. Map!Consistent(r)
  BY <1>5, <1>7, <1>8, <1>9 DEF Map!Consistent, Map!Keys, Map!contains
<1> QED BY <1>1, <1>10 DEF GoodMaps, r
-----------------------------------------------------------------------------
\* EnumerableSet: typed sets, and those whose array and indices agree.
Sets == [values: Seq(Tokens), indexes: [Tokens -> Nat]]
GoodSets == {s \in Sets : TokenSet!Consistent(s)}

\* Adding any value keeps the types.
LEMMA AddTyped ==
  ASSUME NEW s \in Sets, NEW v \in Tokens
  PROVE  TokenSet!add(s, v) \in Sets
<1>1. Append(s.values, v) \in Seq(Tokens) /\ Len(s.values) + 1 \in Nat
  BY DEF Sets
<1>2. [s.indexes EXCEPT ![v] = Len(s.values) + 1] \in [Tokens -> Nat]
  BY <1>1 DEF Sets
<1> QED BY <1>1, <1>2 DEF TokenSet!add, Sets

\* Removing any value keeps the types.
LEMMA SetRemoveTyped ==
  ASSUME NEW s \in Sets, NEW v \in Tokens
  PROVE  TokenSet!remove(s, v) \in Sets
<1> DEFINE n == Len(s.values)
           last == s.values[n]
           list == [i \in 1..(n - 1) |-> IF i = s.indexes[v] THEN last ELSE s.values[i]]
           indexes == [s.indexes EXCEPT ![last] = s.indexes[v], ![v] = 0]
<1>1. list \in Seq(Tokens)
  BY SwapAndPopTyped DEF Sets
<1>2. indexes \in [Tokens -> Nat]
  <2>1. s.indexes \in [Tokens -> Nat] /\ s.indexes[v] \in Nat
    BY DEF Sets
  <2> HIDE DEF last
  <2> QED BY <2>1
<1>3. TokenSet!remove(s, v) = [values |-> list, indexes |-> indexes]
  BY DEF TokenSet!remove
<1> HIDE DEF list, indexes
<1> QED BY <1>1, <1>2, <1>3 DEF Sets

\* A new value goes last, and its index says so.
LEMMA AddGood ==
  ASSUME NEW s \in GoodSets, NEW v \in Tokens, ~TokenSet!contains(s, v)
  PROVE  TokenSet!add(s, v) \in GoodSets
<1> DEFINE n == Len(s.values)
           r == TokenSet!add(s, v)
<1>1. r \in Sets
  BY AddTyped DEF GoodSets
<1>2. n \in Nat /\ s.indexes \in [Tokens -> Nat] /\ s.indexes[v] = 0
  BY DEF GoodSets, Sets, TokenSet!contains
<1>3. \A i \in 1..n : s.values[i] \in Tokens \ {v} /\ s.indexes[s.values[i]] = i
  BY DEF GoodSets, Sets, TokenSet!Consistent, TokenSet!contains
<1>4. \A u \in Tokens : s.indexes[u] # 0 =>
        s.indexes[u] \in 1..n /\ s.values[s.indexes[u]] = u
  BY DEF GoodSets, Sets, TokenSet!Consistent, TokenSet!contains, TokenSet!Members
<1>5. /\ Len(r.values) = n + 1
      /\ \A i \in 1..n : r.values[i] = s.values[i]
      /\ r.values[n + 1] = v
      /\ r.indexes = [s.indexes EXCEPT ![v] = n + 1]
  BY DEF TokenSet!add, GoodSets, Sets
<1> HIDE DEF n, r
<1>6. ASSUME NEW i \in 1..(n + 1)
      PROVE  r.values[i] \in Tokens /\ r.indexes[r.values[i]] = i
  <2>1. CASE i = n + 1
    BY <1>2, <1>5, <2>1
  <2>2. CASE i # n + 1
    <3>1. i \in 1..n
      BY <1>2, <2>2
    <3> QED BY <1>2, <1>3, <1>5, <3>1
  <2> QED BY <2>1, <2>2
<1>7. ASSUME NEW u \in Tokens, r.indexes[u] # 0
      PROVE  r.indexes[u] \in 1..(n + 1) /\ r.values[r.indexes[u]] = u
  <2>1. CASE u = v
    BY <1>2, <1>5, <2>1
  <2>2. CASE u # v
    <3>1. r.indexes[u] = s.indexes[u]
      BY <1>2, <1>5, <2>2
    <3>2. s.indexes[u] \in 1..n /\ s.values[s.indexes[u]] = u
      BY <1>4, <1>7, <3>1
    <3> QED BY <1>2, <1>5, <3>1, <3>2
  <2> QED BY <2>1, <2>2
<1>8. TokenSet!Consistent(r)
  BY <1>2, <1>5, <1>6, <1>7
  DEF TokenSet!Consistent, TokenSet!Members, TokenSet!contains
<1> QED BY <1>1, <1>8 DEF GoodSets, r

\* Swap and pop: without a value, a set's array and indices still agree.
LEMMA SetRemoveGood ==
  ASSUME NEW s \in GoodSets, NEW v \in Tokens, TokenSet!contains(s, v)
  PROVE  TokenSet!remove(s, v) \in GoodSets
<1> DEFINE n == Len(s.values)
           last == s.values[n]
           r == TokenSet!remove(s, v)
<1>1. r \in Sets
  BY SetRemoveTyped DEF GoodSets
<1>2. /\ n \in Nat \ {0}
      /\ s.indexes \in [Tokens -> Nat]
      /\ s.indexes[v] \in 1..n
      /\ s.values[s.indexes[v]] = v
  BY DEF GoodSets, Sets, TokenSet!Consistent, TokenSet!Members, TokenSet!contains
<1>3. \A i \in 1..n : s.values[i] \in Tokens /\ s.indexes[s.values[i]] = i
  BY DEF GoodSets, Sets, TokenSet!Consistent
<1>4. \A u \in Tokens : s.indexes[u] # 0 =>
        s.indexes[u] \in 1..n /\ s.values[s.indexes[u]] = u
  BY DEF GoodSets, Sets, TokenSet!Consistent, TokenSet!contains, TokenSet!Members
<1>5. /\ Len(r.values) = n - 1
      /\ \A i \in 1..(n - 1) :
           r.values[i] = IF i = s.indexes[v] THEN last ELSE s.values[i]
      /\ r.indexes = [s.indexes EXCEPT ![last] = s.indexes[v], ![v] = 0]
  BY <1>2 DEF TokenSet!remove
<1>6. last \in Tokens /\ s.indexes[last] = n
  BY <1>2, <1>3
<1> HIDE DEF n, r, last
<1>7. ASSUME NEW i \in 1..(n - 1)
      PROVE  r.values[i] \in Tokens /\ r.indexes[r.values[i]] = i
  <2>1. i \in 1..n /\ i # n
    BY <1>2
  <2>2. CASE i = s.indexes[v]
    <3>1. last # v
      BY <1>6, <2>1, <2>2
    <3> QED BY <1>2, <1>5, <1>6, <2>2, <3>1
  <2>3. CASE i # s.indexes[v]
    <3>1. s.values[i] # v /\ s.values[i] # last
      BY <1>3, <1>6, <2>1, <2>3
    <3> QED BY <1>2, <1>3, <1>5, <2>1, <2>3, <3>1
  <2> QED BY <2>2, <2>3
<1>8. ASSUME NEW u \in Tokens, r.indexes[u] # 0
      PROVE  r.indexes[u] \in 1..(n - 1) /\ r.values[r.indexes[u]] = u
  <2>1. u # v
    BY <1>2, <1>5, <1>8
  <2>2. CASE u = last
    <3>1. r.indexes[u] = s.indexes[v]
      BY <1>2, <1>5, <1>6, <2>1, <2>2
    <3>2. s.indexes[v] # n
      BY <1>2, <2>1, <2>2 DEF last
    <3> QED BY <1>2, <1>5, <2>2, <3>1, <3>2
  <2>3. CASE u # last
    <3>1. r.indexes[u] = s.indexes[u]
      BY <1>2, <1>5, <2>1, <2>3
    <3>2. s.indexes[u] \in 1..n /\ s.values[s.indexes[u]] = u
      BY <1>4, <1>8, <3>1
    <3>3. s.indexes[u] # n /\ s.indexes[u] # s.indexes[v]
      BY <1>2, <2>1, <2>3, <3>2 DEF last
    <3> QED BY <1>2, <1>5, <3>1, <3>2, <3>3
  <2> QED BY <2>2, <2>3
<1>9. TokenSet!Consistent(r)
  BY <1>2, <1>5, <1>7, <1>8
  DEF TokenSet!Consistent, TokenSet!Members, TokenSet!contains
<1> QED BY <1>1, <1>9 DEF GoodSets, r
-----------------------------------------------------------------------------
\* What the loop of registerGeneralPoolTokens goes through.
LEMMA MapsAddingLoop ==
  ASSUME NEW start \in GoodMaps, NEW tokens \in Seq(Tokens)
  PROVE  LET after == MapsAdding(start, tokens)
         IN /\ after[0] = start
            /\ \A n \in 1..Len(tokens) :
                 after[n] = Map!set(after[n - 1], tokens[n], EmptyBalance)
<1> DEFINE N == Len(tokens)
           F == [x \in GoodMaps \X (1..N) |-> Map!set(x[1], tokens[x[2]], EmptyBalance)]
           Runs(g) == g = [n \in 0..N |->
             IF n = 0 THEN start ELSE Map!set(g[n - 1], tokens[n], EmptyBalance)]
<1>1. N \in Nat /\ \A n \in 1..N : tokens[n] \in Tokens
  BY ElementOfSeq
<1>2. EmptyBalance \in Balance
  BY TotalCapAssumption DEF EmptyBalance, Balance
<1>3. F \in [GoodMaps \X (1..N) -> GoodMaps]
  BY <1>1, <1>2, SetGood
<1>4. \A m \in GoodMaps, n \in 1..N : F[<<m, n>>] = Map!set(m, tokens[n], EmptyBalance)
  OBVIOUS
<1> HIDE DEF F, N
<1>5. PICK g : Iterates(GoodMaps, N, start, F, g)
  BY <1>1, <1>3, LoopExists
<1>6. \A n \in 1..N : g[n] = Map!set(g[n - 1], tokens[n], EmptyBalance)
  <2> TAKE n \in 1..N
  <2>1. n - 1 \in 0..N /\ g[n - 1] \in GoodMaps /\ g[n] = F[<<g[n - 1], n>>]
    BY <1>1, <1>5 DEF Iterates
  <2> QED BY <1>4, <2>1
<1>7. \E h : Runs(h)
  <2>1. Runs(g)
    BY <1>1, <1>5, <1>6 DEF Iterates
  <2> QED BY <2>1
<1>8. Runs(MapsAdding(start, tokens))
  BY <1>7 DEF MapsAdding, N
<1> QED BY <1>1, <1>8 DEF N

\* ... deregisterGeneralPoolTokens ...
LEMMA MapsRemovingLoop ==
  ASSUME NEW start \in Maps, NEW tokens \in Seq(Tokens)
  PROVE  LET after == MapsRemoving(start, tokens)
         IN /\ after[0] = start
            /\ \A n \in 1..Len(tokens) : after[n] = Map!remove(after[n - 1], tokens[n])
<1> DEFINE N == Len(tokens)
           F == [x \in Maps \X (1..N) |-> Map!remove(x[1], tokens[x[2]])]
           Runs(g) == g = [n \in 0..N |->
             IF n = 0 THEN start ELSE Map!remove(g[n - 1], tokens[n])]
<1>1. N \in Nat /\ \A n \in 1..N : tokens[n] \in Tokens
  BY ElementOfSeq
<1>2. F \in [Maps \X (1..N) -> Maps]
  BY <1>1, RemoveTyped
<1>3. \A m \in Maps, n \in 1..N : F[<<m, n>>] = Map!remove(m, tokens[n])
  OBVIOUS
<1> HIDE DEF F, N
<1>4. PICK g : Iterates(Maps, N, start, F, g)
  BY <1>1, <1>2, LoopExists
<1>5. \A n \in 1..N : g[n] = Map!remove(g[n - 1], tokens[n])
  <2> TAKE n \in 1..N
  <2>1. n - 1 \in 0..N /\ g[n - 1] \in Maps /\ g[n] = F[<<g[n - 1], n>>]
    BY <1>1, <1>4 DEF Iterates
  <2> QED BY <1>3, <2>1
<1>6. \E h : Runs(h)
  <2>1. Runs(g)
    BY <1>1, <1>4, <1>5 DEF Iterates
  <2> QED BY <2>1
<1>7. Runs(MapsRemoving(start, tokens))
  BY <1>6 DEF MapsRemoving, N
<1> QED BY <1>1, <1>7 DEF N

\* ... registerMinimalSwapInfoPoolTokens ...
LEMMA SetsAddingLoop ==
  ASSUME NEW start \in Sets, NEW tokens \in Seq(Tokens)
  PROVE  LET after == SetsAdding(start, tokens)
         IN /\ after[0] = start
            /\ \A n \in 1..Len(tokens) : after[n] = TokenSet!add(after[n - 1], tokens[n])
<1> DEFINE N == Len(tokens)
           F == [x \in Sets \X (1..N) |-> TokenSet!add(x[1], tokens[x[2]])]
           Runs(g) == g = [n \in 0..N |->
             IF n = 0 THEN start ELSE TokenSet!add(g[n - 1], tokens[n])]
<1>1. N \in Nat /\ \A n \in 1..N : tokens[n] \in Tokens
  BY ElementOfSeq
<1>2. F \in [Sets \X (1..N) -> Sets]
  BY <1>1, AddTyped
<1>3. \A m \in Sets, n \in 1..N : F[<<m, n>>] = TokenSet!add(m, tokens[n])
  OBVIOUS
<1> HIDE DEF F, N
<1>4. PICK g : Iterates(Sets, N, start, F, g)
  BY <1>1, <1>2, LoopExists
<1>5. \A n \in 1..N : g[n] = TokenSet!add(g[n - 1], tokens[n])
  <2> TAKE n \in 1..N
  <2>1. n - 1 \in 0..N /\ g[n - 1] \in Sets /\ g[n] = F[<<g[n - 1], n>>]
    BY <1>1, <1>4 DEF Iterates
  <2> QED BY <1>3, <2>1
<1>6. \E h : Runs(h)
  <2>1. Runs(g)
    BY <1>1, <1>4, <1>5 DEF Iterates
  <2> QED BY <2>1
<1>7. Runs(SetsAdding(start, tokens))
  BY <1>6 DEF SetsAdding, N
<1> QED BY <1>1, <1>7 DEF N

\* ... and deregisterMinimalSwapInfoPoolTokens.
LEMMA SetsRemovingLoop ==
  ASSUME NEW start \in Sets, NEW tokens \in Seq(Tokens)
  PROVE  LET after == SetsRemoving(start, tokens)
         IN /\ after[0] = start
            /\ \A n \in 1..Len(tokens) : after[n] = TokenSet!remove(after[n - 1], tokens[n])
<1> DEFINE N == Len(tokens)
           F == [x \in Sets \X (1..N) |-> TokenSet!remove(x[1], tokens[x[2]])]
           Runs(g) == g = [n \in 0..N |->
             IF n = 0 THEN start ELSE TokenSet!remove(g[n - 1], tokens[n])]
<1>1. N \in Nat /\ \A n \in 1..N : tokens[n] \in Tokens
  BY ElementOfSeq
<1>2. F \in [Sets \X (1..N) -> Sets]
  BY <1>1, SetRemoveTyped
<1>3. \A m \in Sets, n \in 1..N : F[<<m, n>>] = TokenSet!remove(m, tokens[n])
  OBVIOUS
<1> HIDE DEF F, N
<1>4. PICK g : Iterates(Sets, N, start, F, g)
  BY <1>1, <1>2, LoopExists
<1>5. \A n \in 1..N : g[n] = TokenSet!remove(g[n - 1], tokens[n])
  <2> TAKE n \in 1..N
  <2>1. n - 1 \in 0..N /\ g[n - 1] \in Sets /\ g[n] = F[<<g[n - 1], n>>]
    BY <1>1, <1>4 DEF Iterates
  <2> QED BY <1>3, <2>1
<1>6. \E h : Runs(h)
  <2>1. Runs(g)
    BY <1>1, <1>4, <1>5 DEF Iterates
  <2> QED BY <2>1
<1>7. Runs(SetsRemoving(start, tokens))
  BY <1>6 DEF SetsRemoving, N
<1> QED BY <1>1, <1>7 DEF N
-----------------------------------------------------------------------------
\* Registering keeps a General Pool's map good.
LEMMA RegisteredMapGood ==
  ASSUME NEW start \in GoodMaps, NEW tokens \in Seq(Tokens)
  PROVE  MapsAdding(start, tokens)[Len(tokens)] \in GoodMaps
<1> DEFINE after == MapsAdding(start, tokens)
           N == Len(tokens)
<1>1. N \in Nat /\ \A n \in 1..N : tokens[n] \in Tokens
  BY ElementOfSeq
<1>2. EmptyBalance \in Balance
  BY TotalCapAssumption DEF EmptyBalance, Balance
<1>3. after[0] = start /\ \A n \in 1..N : after[n] = Map!set(after[n - 1], tokens[n], EmptyBalance)
  BY MapsAddingLoop
<1> HIDE DEF after, N
<1>4. \A n \in 1..N : after[n - 1] \in GoodMaps => after[n] \in GoodMaps
  BY <1>1, <1>2, <1>3, SetGood
<1>5. \A n \in 0..N : after[n] \in GoodMaps
  BY <1>1, <1>3, <1>4, LoopPreserves
<1> QED BY <1>1, <1>5 DEF after, N

\* Deregistering tokens that are in it does, too.
LEMMA DeregisteredMapGood ==
  ASSUME NEW start \in GoodMaps, NEW tokens \in Seq(Tokens),
         \A n \in 1..Len(tokens) : Map!contains(MapsRemoving(start, tokens)[n - 1], tokens[n])
  PROVE  MapsRemoving(start, tokens)[Len(tokens)] \in GoodMaps
<1> DEFINE after == MapsRemoving(start, tokens)
           N == Len(tokens)
<1>1. N \in Nat /\ \A n \in 1..N : tokens[n] \in Tokens
  BY ElementOfSeq
<1>2. \A n \in 1..N : Map!contains(after[n - 1], tokens[n])
  OBVIOUS
<1>3. after[0] = start /\ \A n \in 1..N : after[n] = Map!remove(after[n - 1], tokens[n])
  BY MapsRemovingLoop DEF GoodMaps
<1> HIDE DEF after, N
<1>4. \A n \in 1..N : after[n - 1] \in GoodMaps => after[n] \in GoodMaps
  BY <1>1, <1>2, <1>3, RemoveGood
<1>5. \A n \in 0..N : after[n] \in GoodMaps
  BY <1>1, <1>3, <1>4, LoopPreserves
<1> QED BY <1>1, <1>5 DEF after, N

\* Adding a value adds that value only, removing it removes it only.
LEMMA AddMembers ==
  ASSUME NEW s \in GoodSets, NEW v \in Tokens, NEW t \in Tokens
  PROVE  TokenSet!contains(TokenSet!add(s, v), t) <=> t = v \/ TokenSet!contains(s, t)
<1>1. Len(s.values) \in Nat /\ s.indexes \in [Tokens -> Nat]
  BY DEF GoodSets, Sets
<1> QED BY <1>1 DEF TokenSet!add, TokenSet!contains

\* A set without a value has the others, the one moved into its place included.
LEMMA SetRemoveMembers ==
  ASSUME NEW s \in GoodSets, NEW v \in Tokens, TokenSet!contains(s, v), NEW t \in Tokens
  PROVE  TokenSet!contains(TokenSet!remove(s, v), t) <=> t # v /\ TokenSet!contains(s, t)
<1> DEFINE last == s.values[Len(s.values)]
<1>1. s.indexes \in [Tokens -> Nat] /\ s.indexes[v] # 0 /\ s.indexes[last] # 0
  BY DEF GoodSets, Sets, TokenSet!Consistent, TokenSet!contains, TokenSet!Members
<1>2. TokenSet!remove(s, v).indexes = [s.indexes EXCEPT ![last] = s.indexes[v], ![v] = 0]
  BY DEF TokenSet!remove
<1> HIDE DEF last
<1> QED BY <1>1, <1>2 DEF TokenSet!contains

\* Registering keeps a Minimal Swap Info Pool's set good, and its members.
LEMMA RegisteredSetGood ==
  ASSUME NEW start \in GoodSets, NEW tokens \in Seq(Tokens),
         \A n \in 1..Len(tokens) : ~TokenSet!contains(SetsAdding(start, tokens)[n - 1], tokens[n])
  PROVE  LET end == SetsAdding(start, tokens)[Len(tokens)]
         IN /\ end \in GoodSets
            /\ \A t \in Tokens : TokenSet!contains(start, t) => TokenSet!contains(end, t)
<1> DEFINE after == SetsAdding(start, tokens)
           N == Len(tokens)
           G == {s \in GoodSets : \A t \in Tokens :
                   TokenSet!contains(start, t) => TokenSet!contains(s, t)}
<1>1. N \in Nat /\ \A n \in 1..N : tokens[n] \in Tokens
  BY ElementOfSeq
<1>2. \A n \in 1..N : ~TokenSet!contains(after[n - 1], tokens[n])
  OBVIOUS
<1>3. after[0] = start /\ \A n \in 1..N : after[n] = TokenSet!add(after[n - 1], tokens[n])
  BY SetsAddingLoop DEF GoodSets
<1> HIDE DEF after, N
<1>4. \A n \in 1..N : after[n - 1] \in G => after[n] \in G
  BY <1>1, <1>2, <1>3, AddGood, AddMembers
<1>5. after[0] \in G
  BY <1>3
<1> HIDE DEF G
<1>6. \A n \in 0..N : after[n] \in G
  BY <1>1, <1>4, <1>5, LoopPreserves
<1> QED BY <1>1, <1>6 DEF after, N, G

\* Deregistering keeps it good, and all members but those removed.
LEMMA DeregisteredSetGood ==
  ASSUME NEW start \in GoodSets, NEW tokens \in Seq(Tokens),
         \A n \in 1..Len(tokens) : TokenSet!contains(SetsRemoving(start, tokens)[n - 1], tokens[n])
  PROVE  LET end == SetsRemoving(start, tokens)[Len(tokens)]
         IN /\ end \in GoodSets
            /\ \A t \in Tokens :
                 (\A n \in 1..Len(tokens) : tokens[n] # t)
                   => (TokenSet!contains(start, t) => TokenSet!contains(end, t))
<1> DEFINE after == SetsRemoving(start, tokens)
           N == Len(tokens)
           Kept == {t \in Tokens : \A n \in 1..N : tokens[n] # t}
           G == {s \in GoodSets : \A t \in Kept :
                   TokenSet!contains(start, t) => TokenSet!contains(s, t)}
<1>1. N \in Nat /\ \A n \in 1..N : tokens[n] \in Tokens
  BY ElementOfSeq
<1>2. \A n \in 1..N : TokenSet!contains(after[n - 1], tokens[n])
  OBVIOUS
<1>3. after[0] = start /\ \A n \in 1..N : after[n] = TokenSet!remove(after[n - 1], tokens[n])
  BY SetsRemovingLoop DEF GoodSets
<1> HIDE DEF after, N
<1>4. \A n \in 1..N : after[n - 1] \in G => after[n] \in G
  <2> TAKE n \in 1..N
  <2> HAVE after[n - 1] \in G
  <2>1. after[n] \in GoodSets
    BY <1>1, <1>2, <1>3, SetRemoveGood
  <2>2. \A t \in Kept : TokenSet!contains(after[n - 1], t) => TokenSet!contains(after[n], t)
    BY <1>1, <1>2, <1>3, SetRemoveMembers
  <2> QED BY <2>1, <2>2
<1>5. after[0] \in G
  BY <1>3
<1> HIDE DEF G
<1>6. \A n \in 0..N : after[n] \in G
  BY <1>1, <1>4, <1>5, LoopPreserves
<1> QED BY <1>1, <1>6 DEF after, N, G
-----------------------------------------------------------------------------
\* The invariant: types, the collections, and the reads of a pending call.
StorageInv == StorageTypeOK /\ CollectionsConsistent /\ ReadsCurrent

\* A changed balance that fits is a balance.
LEMMA FitsTyped ==
  ASSUME NEW cash \in Int, NEW managed \in Int, NEW n \in Nat,
         Fits(toBalance(cash, managed, n))
  PROVE  toBalance(cash, managed, n) \in Balance
BY TotalCapAssumption DEF Fits, toBalance, Balance, total

\* So are the balances every change makes, if they fit.
LEMMA ChangedTyped ==
  ASSUME NEW b \in Balance, NEW amount \in Int, NEW n \in Nat
  PROVE  /\ Fits(increaseCash(b, amount, n)) => increaseCash(b, amount, n) \in Balance
         /\ Fits(decreaseCash(b, amount, n)) => decreaseCash(b, amount, n) \in Balance
         /\ \A mutation \in {"cashToManaged", "managedToCash", "setManaged"} :
              Fits(mutate(mutation, b, amount, n)) => mutate(mutation, b, amount, n) \in Balance
<1>1. b.cash \in Int /\ b.managed \in Int /\ b.lastChangeBlock \in Nat
  BY DEF Balance
<1>2. Fits(increaseCash(b, amount, n)) => increaseCash(b, amount, n) \in Balance
  BY <1>1, FitsTyped DEF increaseCash
<1>3. Fits(decreaseCash(b, amount, n)) => decreaseCash(b, amount, n) \in Balance
  BY <1>1, FitsTyped DEF decreaseCash
<1>4. Fits(cashToManaged(b, amount)) => cashToManaged(b, amount) \in Balance
  BY <1>1, FitsTyped DEF cashToManaged
<1>5. Fits(managedToCash(b, amount)) => managedToCash(b, amount) \in Balance
  BY <1>1, FitsTyped DEF managedToCash
<1>6. Fits(setManaged(b, amount, n)) => setManaged(b, amount, n) \in Balance
  BY <1>1, FitsTyped DEF setManaged
<1> QED BY <1>2, <1>3, <1>4, <1>5, <1>6 DEF mutate

\* A Two Token Pool's words decode to balances.
LEMMA PairTyped ==
  ASSUME StorageTypeOK, NEW pair \in (Tokens \union {NoToken}) \X (Tokens \union {NoToken})
  PROVE  BalanceA(pair) \in Balance /\ BalanceB(pair) \in Balance
<1>1. pairBalances[pair] \in Words
  BY DEF StorageTypeOK
<1> QED BY <1>1
  DEF Words, BalanceA, BalanceB, fromSharedToBalanceA, fromSharedToBalanceB, toBalance, Balance

\* The collections as the lemmas above have them.
LEMMA CollectionsGood ==
  ASSUME StorageTypeOK, CollectionsConsistent
  PROVE  generalPoolBalances \in GoodMaps /\ minimalPoolTokens \in GoodSets
BY DEF StorageTypeOK, CollectionsConsistent, GoodMaps, Maps, GoodSets, Sets

\* A key in a map has a slot, with its value.
LEMMA GetTyped ==
  ASSUME NEW m \in GoodMaps, NEW key \in Tokens, Map!contains(m, key)
  PROVE  /\ m.indexes[key] \in 1..Len(m.entries)
         /\ Map!get(m, key) \in Balance
<1>1. m.indexes[key] \in 1..Len(m.entries)
  BY DEF GoodMaps, Maps, Map!Consistent, Map!Keys, Map!contains
<1>2. m.entries[m.indexes[key]] \in [key: Tokens, value: Balance]
  BY <1>1, ElementOfSeq DEF GoodMaps, Maps
<1> QED BY <1>1, <1>2 DEF Map!get

\* What _getPoolTokens returns.
LEMMA PoolTokensTyped ==
  ASSUME StorageTypeOK, CollectionsConsistent
  PROVE  /\ getPoolTokens \in Seq([token: Tokens, balance: Balance])
         /\ specialization = "TWO_TOKEN" => Len(getPoolTokens) \in {0, 2}
<1> DEFINE R == [token: Tokens, balance: Balance]
<1>1. CASE specialization = "TWO_TOKEN"
  <2>1. CASE tokenPair = NoPair
    BY <1>1, <2>1 DEF getPoolTokens, getTwoTokenPoolTokens
  <2>2. CASE tokenPair # NoPair
    <3>1. tokenPair \in Tokens \X Tokens
      BY <2>2 DEF StorageTypeOK
    <3>2. BalanceA(tokenPair) \in Balance /\ BalanceB(tokenPair) \in Balance
      BY <3>1, PairTyped
    <3>3. getPoolTokens = <<[token |-> tokenPair[1], balance |-> BalanceA(tokenPair)],
                            [token |-> tokenPair[2], balance |-> BalanceB(tokenPair)]>>
      BY <1>1, <2>2 DEF getPoolTokens, getTwoTokenPoolTokens
    <3> QED BY <3>1, <3>2, <3>3
  <2> QED BY <2>1, <2>2
<1>2. CASE specialization = "MINIMAL_SWAP_INFO"
  <2> DEFINE s == minimalPoolTokens
             n == Len(s.values)
             list == [i \in 1..n |-> [token |-> s.values[i], balance |-> minimalPoolBalances[s.values[i]]]]
  <2>1. n \in Nat /\ \A i \in 1..n : s.values[i] \in Tokens
    BY ElementOfSeq DEF StorageTypeOK
  <2>2. getPoolTokens = list
    BY <1>2 DEF getPoolTokens, getMinimalSwapInfoPoolTokens
  <2>3. list \in [1..n -> R]
    BY <2>1 DEF StorageTypeOK
  <2> HIDE DEF n, list
  <2> HIDE DEF R
  <2>4. list \in Seq(R)
    BY <2>1, <2>3
  <2>5. getPoolTokens \in Seq(R)
    BY <2>2, <2>4
  <2> QED BY <1>2, <2>5 DEF R
<1>3. CASE specialization = "GENERAL"
  <2> DEFINE e == generalPoolBalances.entries
             n == Len(e)
             list == [i \in 1..n |-> [token |-> e[i].key, balance |-> e[i].value]]
  <2>1. getPoolTokens = list
    BY <1>3 DEF getPoolTokens, getGeneralPoolTokens
  <2>2. e \in Seq([key: Tokens, value: Balance])
    BY DEF StorageTypeOK
  <2> HIDE DEF e
  <2>3. n \in Nat /\ \A i \in 1..n : e[i] \in [key: Tokens, value: Balance]
    <3> DEFINE Entries == [key: Tokens, value: Balance]
    <3>1. e \in Seq(Entries)
      BY <2>2
    <3> HIDE DEF Entries
    <3>2. n \in Nat /\ \A i \in 1..n : e[i] \in Entries
      BY <3>1, ElementOfSeq
    <3> QED BY <3>2 DEF Entries
  <2>4. \A i \in 1..n : e[i].key \in Tokens /\ e[i].value \in Balance
    BY <2>3
  <2> HIDE DEF n
  <2>5. list \in [1..n -> R]
    <3>1. \A i \in 1..n : [token |-> e[i].key, balance |-> e[i].value] \in R
      BY <2>4
    <3> HIDE DEF R
    <3> QED BY <3>1
  <2> HIDE DEF list, R
  <2>6. list \in Seq(R)
    BY <2>3, <2>5
  <2>7. getPoolTokens \in Seq(R)
    BY <2>1, <2>6
  <2> QED BY <1>3, <2>7 DEF R
<1> QED BY <1>1, <1>2, <1>3, InputsAssumption DEF StorageTypeOK

\* What a swap reads, if it may go on.
LEMMA SwapReadsTyped ==
  ASSUME StorageTypeOK, CollectionsConsistent,
         NEW tokenIn \in Tokens, NEW tokenOut \in Tokens, maySwap(tokenIn, tokenOut)
  PROVE  swapReads(tokenIn, tokenOut) \in
           [in: Balance, out: Balance]
             \union [indexIn: Nat, indexOut: Nat, in: Balance, out: Balance]
<1>1. CASE specialization = "TWO_TOKEN"
  <2> DEFINE pair == sortTwoTokens(tokenIn, tokenOut)
  <2>1. BalanceA(pair) \in Balance /\ BalanceB(pair) \in Balance
    <3>1. pair \in (Tokens \union {NoToken}) \X (Tokens \union {NoToken})
      BY DEF sortTwoTokens
    <3> QED BY <3>1, PairTyped
  <2> QED BY <1>1, <2>1 DEF swapReads, twoTokenPoolSwapReads
<1>2. CASE specialization = "MINIMAL_SWAP_INFO"
  BY <1>2 DEF swapReads, minimalPoolSwapReads, StorageTypeOK
<1>3. CASE specialization = "GENERAL"
  <2> DEFINE m == generalPoolBalances
  <2>1. m \in GoodMaps /\ Map!contains(m, tokenIn) /\ Map!contains(m, tokenOut)
    BY <1>3, CollectionsGood DEF maySwap, mayGeneralPoolSwap, Map!contains
  <2>2. Map!get(m, tokenIn) \in Balance /\ Map!get(m, tokenOut) \in Balance
    BY <2>1, GetTyped
  <2>3. m.indexes[tokenIn] \in Nat /\ m.indexes[tokenOut] \in Nat
    BY DEF StorageTypeOK
  <2> QED BY <1>3, <2>2, <2>3 DEF swapReads, generalPoolSwapReads
<1> QED BY <1>1, <1>2, <1>3, InputsAssumption DEF StorageTypeOK
-----------------------------------------------------------------------------
\* What is read does not change if the layouts do not.
LEMMA SameReads ==
  ASSUME UNCHANGED <<layoutVars, specialization>>
  PROVE  /\ getPoolTokens' = getPoolTokens
         /\ \A a, b : (maySwap(a, b)' <=> maySwap(a, b)) /\ swapReads(a, b)' = swapReads(a, b)
<1>1. getPoolTokens' = getPoolTokens
  BY DEF layoutVars, getPoolTokens, getTwoTokenPoolTokens, getMinimalSwapInfoPoolTokens,
         getGeneralPoolTokens, BalanceA, BalanceB
<1>2. ASSUME NEW a, NEW b
      PROVE  maySwap(a, b)' <=> maySwap(a, b)
  BY DEF layoutVars, maySwap, mayTwoTokenPoolSwap, mayMinimalPoolSwap, mayGeneralPoolSwap,
         hasTwoTokenPoolSharedBalances, hasMinimalSwapInfoPoolBalance,
         isTwoTokenPoolTokenRegistered
<1>3. ASSUME NEW a, NEW b
      PROVE  swapReads(a, b)' = swapReads(a, b)
  BY DEF layoutVars, swapReads, twoTokenPoolSwapReads, minimalPoolSwapReads,
         generalPoolSwapReads, BalanceA, BalanceB
<1> QED BY <1>1, <1>2, <1>3

\* A step that writes no layout and begins no call.
LEMMA NoWrite ==
  ASSUME StorageInv, UNCHANGED <<layoutVars, specialization>>, block' \in Nat,
         pending' = pending \/ pending' = NoCall
  PROVE  StorageInv'
<1>1. StorageTypeOK' /\ CollectionsConsistent'
  BY DEF StorageInv, StorageTypeOK, CollectionsConsistent, layoutVars, Calls
<1>2. ReadsCurrent'
  <2>1. CASE pending' = NoCall
    BY <2>1 DEF ReadsCurrent, NoCall
  <2>2. CASE pending' = pending
    BY <2>2, SameReads DEF StorageInv, ReadsCurrent
  <2> QED BY <2>1, <2>2
<1> QED BY <1>1, <1>2 DEF StorageInv

\* A step that writes a General Pool's layout, and leaves no call pending, keeps the
\* invariant if what it leaves is a consistent map.
LEMMA GeneralWritten ==
  ASSUME StorageInv, generalPoolBalances' \in GoodMaps, OnlyGeneral,
         UNCHANGED <<specialization, block>>, pending' = NoCall
  PROVE  StorageInv'
<1>1. StorageTypeOK' /\ CollectionsConsistent'
  BY DEF StorageInv, StorageTypeOK, CollectionsConsistent, OnlyGeneral, GoodMaps, Maps, Calls
<1>2. ReadsCurrent'
  BY DEF ReadsCurrent, NoCall
<1> QED BY <1>1, <1>2 DEF StorageInv

\* So does one that writes a Minimal Swap Info Pool's, if what it leaves is a set and balances.
LEMMA MinimalWritten ==
  ASSUME StorageInv, minimalPoolTokens' \in GoodSets, minimalPoolBalances' \in [Tokens -> Balance],
         OnlyMinimal, UNCHANGED <<specialization, block>>, pending' = NoCall
  PROVE  StorageInv'
<1>1. StorageTypeOK' /\ CollectionsConsistent'
  BY DEF StorageInv, StorageTypeOK, CollectionsConsistent, OnlyMinimal, GoodSets, Sets, Calls
<1>2. ReadsCurrent'
  BY DEF ReadsCurrent, NoCall
<1> QED BY <1>1, <1>2 DEF StorageInv

PairTable == [(Tokens \union {NoToken}) \X (Tokens \union {NoToken}) -> Words]

\* And one that writes a Two Token Pool's, if it leaves a pair of tokens and words.
LEMMA TwoTokenWritten ==
  ASSUME StorageInv, tokenPair' \in {NoPair} \union (Tokens \X Tokens),
         pairBalances' \in PairTable,
         OnlyTwoToken, UNCHANGED <<specialization, block>>, pending' = NoCall
  PROVE  StorageInv'
<1>1. StorageTypeOK' /\ CollectionsConsistent'
  BY DEF StorageInv, StorageTypeOK, CollectionsConsistent, OnlyTwoToken, PairTable, Calls
<1>2. ReadsCurrent'
  BY DEF ReadsCurrent, NoCall
<1> QED BY <1>1, <1>2 DEF StorageInv
-----------------------------------------------------------------------------
\* At first nothing is stored.
LEMMA StorageInitInv == StorageInit => StorageInv
<1> SUFFICES ASSUME StorageInit PROVE StorageInv
  OBVIOUS
<1>1. EmptyBalance \in Balance
  BY TotalCapAssumption DEF EmptyBalance, Balance
<1>2. [sharedCash |-> NoCash, sharedManaged |-> NoManaged] \in Words
  BY TotalCapAssumption DEF NoCash, NoManaged, Words
<1>3. Map!EmptyMap(Tokens) \in [entries: Seq([key: Tokens, value: Balance]), indexes: [Tokens -> Nat]]
  BY DEF Map!EmptyMap
<1>4. TokenSet!EmptySet(Tokens) \in [values: Seq(Tokens), indexes: [Tokens -> Nat]]
  BY DEF TokenSet!EmptySet
<1>5. StorageTypeOK
  BY <1>1, <1>2, <1>3, <1>4 DEF StorageInit, StorageTypeOK, Calls
<1>6. CollectionsConsistent
  BY DEF StorageInit, CollectionsConsistent, Map!EmptyMap, TokenSet!EmptySet,
         Map!Consistent, Map!Keys, Map!contains,
         TokenSet!Consistent, TokenSet!Members, TokenSet!contains
<1>7. ReadsCurrent
  BY DEF StorageInit, ReadsCurrent, NoCall
<1> QED BY <1>5, <1>6, <1>7 DEF StorageInv

\* registerTokens
LEMMA RegisterStep ==
  ASSUME StorageInv, NEW tokens \in Seq(Tokens), registerTokens(tokens)
  PROVE  StorageInv'
<1>1. UNCHANGED <<specialization, block>> /\ pending' = NoCall
  BY DEF registerTokens, nonReentrant
<1>2. CASE specialization = "TWO_TOKEN"
  <2>1. /\ Len(tokens) = 2
        /\ registerTwoTokenPoolTokens(tokens[1], tokens[2])
        /\ OnlyTwoToken
    BY <1>2 DEF registerTokens
  <2>2. tokens[1] \in Tokens /\ tokens[2] \in Tokens
    <3>1. 1 \in 1..Len(tokens) /\ 2 \in 1..Len(tokens)
      BY <2>1
    <3> QED BY <3>1, ElementOfSeq
  <2>3. tokenPair' \in Tokens \X Tokens /\ pairBalances' \in PairTable
    BY <2>1, <2>2 DEF registerTwoTokenPoolTokens, StorageInv, StorageTypeOK, PairTable
  <2> QED BY <1>1, <2>1, <2>3, TwoTokenWritten
<1>3. CASE specialization = "MINIMAL_SWAP_INFO"
  <2>1. registerMinimalSwapInfoPoolTokens(tokens) /\ OnlyMinimal
    BY <1>3 DEF registerTokens
  <2>2. minimalPoolTokens' \in GoodSets
    BY <2>1, CollectionsGood, RegisteredSetGood
    DEF registerMinimalSwapInfoPoolTokens, StorageInv
  <2>3. minimalPoolBalances' \in [Tokens -> Balance]
    BY <2>1 DEF registerMinimalSwapInfoPoolTokens, StorageInv, StorageTypeOK
  <2> QED BY <1>1, <2>1, <2>2, <2>3, MinimalWritten
<1>4. CASE specialization = "GENERAL"
  <2>1. registerGeneralPoolTokens(tokens) /\ OnlyGeneral
    BY <1>4 DEF registerTokens
  <2>2. generalPoolBalances' \in GoodMaps
    BY <2>1, CollectionsGood, RegisteredMapGood DEF registerGeneralPoolTokens, StorageInv
  <2> QED BY <1>1, <2>1, <2>2, GeneralWritten
<1> QED BY <1>2, <1>3, <1>4, InputsAssumption DEF StorageInv, StorageTypeOK

\* deregisterTokens
LEMMA DeregisterStep ==
  ASSUME StorageInv, NEW tokens \in Seq(Tokens), deregisterTokens(tokens)
  PROVE  StorageInv'
<1>1. UNCHANGED <<specialization, block>> /\ pending' = NoCall
  BY DEF deregisterTokens, nonReentrant
<1>2. CASE specialization = "TWO_TOKEN"
  <2>1. deregisterTwoTokenPoolTokens(tokens[1], tokens[2]) /\ OnlyTwoToken
    BY <1>2 DEF deregisterTokens
  <2>2. tokenPair' = NoPair
    BY <2>1 DEF deregisterTwoTokenPoolTokens
  <2>3. pairBalances' \in PairTable
    <3>1. NoCash \in [a: 0..(TotalCap - 1), b: 0..(TotalCap - 1), block: Nat]
      BY TotalCapAssumption DEF NoCash
    <3>2. pairBalances \in PairTable
      BY DEF StorageInv, StorageTypeOK, PairTable
    <3>3. PICK pair : pairBalances' = [pairBalances EXCEPT ![pair].sharedCash = NoCash]
      BY <2>1 DEF deregisterTwoTokenPoolTokens
    <3>4. \A word \in Words : [word EXCEPT !.sharedCash = NoCash] \in Words
      BY <3>1 DEF Words
    <3> QED BY <3>2, <3>3, <3>4 DEF PairTable
  <2> QED BY <1>1, <2>1, <2>2, <2>3, TwoTokenWritten
<1>3. CASE specialization = "MINIMAL_SWAP_INFO"
  <2>1. deregisterMinimalSwapInfoPoolTokens(tokens) /\ OnlyMinimal
    BY <1>3 DEF deregisterTokens
  <2>2. minimalPoolTokens' \in GoodSets
    BY <2>1, CollectionsGood, DeregisteredSetGood
    DEF deregisterMinimalSwapInfoPoolTokens, StorageInv
  <2>3. minimalPoolBalances' \in [Tokens -> Balance]
    <3>1. EmptyBalance \in Balance
      BY TotalCapAssumption DEF EmptyBalance, Balance
    <3> QED BY <2>1, <3>1
      DEF deregisterMinimalSwapInfoPoolTokens, StorageInv, StorageTypeOK
  <2> QED BY <1>1, <2>1, <2>2, <2>3, MinimalWritten
<1>4. CASE specialization = "GENERAL"
  <2>1. deregisterGeneralPoolTokens(tokens) /\ OnlyGeneral
    BY <1>4 DEF deregisterTokens
  <2>2. generalPoolBalances' \in GoodMaps
    BY <2>1, CollectionsGood, DeregisteredMapGood DEF deregisterGeneralPoolTokens, StorageInv
  <2> QED BY <1>1, <2>1, <2>2, GeneralWritten
<1> QED BY <1>2, <1>3, <1>4, InputsAssumption DEF StorageInv, StorageTypeOK
-----------------------------------------------------------------------------
\* Other values at the same keys.
LEMMA ValuesOnly ==
  ASSUME NEW m \in GoodMaps, NEW list \in Seq([key: Tokens, value: Balance]),
         Len(list) = Len(m.entries),
         \A i \in 1..Len(m.entries) : list[i].key = m.entries[i].key
  PROVE  [m EXCEPT !.entries = list] \in GoodMaps
<1> DEFINE r == [m EXCEPT !.entries = list]
<1>1. r.entries = list /\ r.indexes = m.indexes /\ r \in Maps
  BY DEF GoodMaps, Maps
<1> HIDE DEF r
<1>2. Map!Consistent(r)
  BY <1>1 DEF GoodMaps, Map!Consistent, Map!Keys, Map!contains
<1> QED BY <1>1, <1>2 DEF GoodMaps, r

\* Entries with other values.
LEMMA EntriesTyped ==
  ASSUME NEW m \in GoodMaps, NEW changed, NEW new,
         \A i \in changed : new[i] \in Balance
  PROVE  LET list == [i \in DOMAIN m.entries |->
                        IF i \in changed THEN [m.entries[i] EXCEPT !.value = new[i]]
                        ELSE m.entries[i]]
         IN [m EXCEPT !.entries = list] \in GoodMaps
<1> DEFINE Entries == [key: Tokens, value: Balance]
           n == Len(m.entries)
           entry(i) == IF i \in changed THEN [m.entries[i] EXCEPT !.value = new[i]]
                       ELSE m.entries[i]
           list == [i \in 1..n |-> entry(i)]
<1>1. n \in Nat /\ DOMAIN m.entries = 1..n
  BY DEF GoodMaps, Maps
<1>2. \A i \in 1..n : m.entries[i] \in [key: Tokens, value: Balance]
  <2>1. m.entries \in Seq(Entries)
    BY DEF GoodMaps, Maps
  <2> HIDE DEF Entries
  <2>2. \A i \in 1..n : m.entries[i] \in Entries
    BY <2>1, ElementOfSeq
  <2> QED BY <2>2 DEF Entries
<1> HIDE DEF n
<1>3. \A i \in 1..n : entry(i) \in Entries /\ entry(i).key = m.entries[i].key
  BY <1>2
<1> HIDE DEF entry, Entries
<1>4. list \in [1..n -> Entries]
  BY <1>3
<1>5. \A i \in 1..n : list[i].key = m.entries[i].key
  BY <1>3
<1> HIDE DEF list
<1>6. list \in Seq(Entries) /\ Len(list) = n
  BY <1>1, <1>4
<1>7. [m EXCEPT !.entries = list] \in GoodMaps
  BY <1>1, <1>5, <1>6, ValuesOnly DEF n, Entries
<1> QED BY <1>1, <1>7 DEF list, entry

\* Writing the value at one index keeps a map consistent.
LEMMA SetAtGood ==
  ASSUME NEW m \in GoodMaps, NEW i, NEW value \in Balance
  PROVE  Map!unchecked_setAt(m, i, value) \in GoodMaps
<1> DEFINE new == [j \in {i} |-> value]
           list == [j \in DOMAIN m.entries |->
                      IF j \in {i} THEN [m.entries[j] EXCEPT !.value = new[j]]
                      ELSE m.entries[j]]
<1>1. [m EXCEPT !.entries = list] \in GoodMaps
  <2>1. \A j \in {i} : new[j] \in Balance
    OBVIOUS
  <2> HIDE DEF new
  <2> QED BY <2>1, EntriesTyped
<1>2. CASE i \in DOMAIN m.entries
  <2>1. Map!unchecked_setAt(m, i, value)
          = [m EXCEPT !.entries = [m.entries EXCEPT ![i] = [m.entries[i] EXCEPT !.value = value]]]
    BY <1>2 DEF Map!unchecked_setAt, GoodMaps, Maps
  <2>2. m.entries = [j \in DOMAIN m.entries |-> m.entries[j]]
    BY DEF GoodMaps, Maps
  <2>3. [m.entries EXCEPT ![i] = [m.entries[i] EXCEPT !.value = value]] = list
    BY <1>2, <2>2
  <2> QED BY <1>1, <2>1, <2>3
<1>3. CASE i \notin DOMAIN m.entries
  BY <1>3 DEF Map!unchecked_setAt
<1> QED BY <1>2, <1>3

\* joinOrExit and swap, up to their hooks
LEMMA JoinOrExitStep ==
  ASSUME StorageInv, joinOrExit
  PROVE  StorageInv'
<1>1. StorageTypeOK'
  BY PoolTokensTyped DEF joinOrExit, StorageInv, StorageTypeOK, layoutVars, Calls
<1>2. CollectionsConsistent'
  BY DEF joinOrExit, StorageInv, CollectionsConsistent, layoutVars
<1>3. ReadsCurrent'
  <2>1. pending' = [kind |-> "joinOrExit", read |-> getPoolTokens]
    BY DEF joinOrExit
  <2>2. getPoolTokens' = getPoolTokens
    BY SameReads DEF joinOrExit
  <2>3. getPoolTokens # <<>>
    BY DEF joinOrExit
  <2> QED BY <2>1, <2>2, <2>3 DEF ReadsCurrent
<1> QED BY <1>1, <1>2, <1>3 DEF StorageInv

\* A swap leaves pending what it has read, which is what is stored.
LEMMA SwapStep ==
  ASSUME StorageInv, NEW tokenIn \in Tokens, NEW tokenOut \in Tokens,
         swap(tokenIn, tokenOut)
  PROVE  StorageInv'
<1>1. pending' = [kind |-> "swap", tokenIn |-> tokenIn, tokenOut |-> tokenOut,
                  read |-> swapReads(tokenIn, tokenOut)]
  BY DEF swap
<1>2. StorageTypeOK'
  <2>1. pending' \in Calls
    BY <1>1, SwapReadsTyped DEF swap, StorageInv, Calls
  <2> QED BY <2>1 DEF swap, StorageInv, StorageTypeOK, layoutVars
<1>3. CollectionsConsistent'
  BY DEF swap, StorageInv, CollectionsConsistent, layoutVars
<1>4. ReadsCurrent'
  <2>1. /\ maySwap(tokenIn, tokenOut)'
        /\ swapReads(tokenIn, tokenOut)' = swapReads(tokenIn, tokenOut)
    BY SameReads DEF swap
  <2>2. tokenIn # tokenOut
    BY DEF swap
  <2>3. /\ pending'.kind = "swap" /\ pending'.tokenIn = tokenIn
        /\ pending'.tokenOut = tokenOut /\ pending'.read = swapReads(tokenIn, tokenOut)
    BY <1>1
  <2>4. /\ maySwap(pending.tokenIn, pending.tokenOut)'
        /\ swapReads(pending.tokenIn, pending.tokenOut)' = swapReads(tokenIn, tokenOut)
    BY <2>1, <2>3
  <2> QED BY <2>2, <2>3, <2>4 DEF ReadsCurrent
<1> QED BY <1>2, <1>3, <1>4 DEF StorageInv

\* nothing is written by a revert, nor between blocks
LEMMA RevertStep == StorageInv /\ Revert => StorageInv'
BY NoWrite DEF Revert, StorageInv, StorageTypeOK

\* A new block changes no storage.
LEMMA NextBlockStep == StorageInv /\ NextBlock => StorageInv'
BY NoWrite DEF NextBlock, StorageInv, StorageTypeOK
-----------------------------------------------------------------------------
\* Words of balances.
LEMMA SharedTyped ==
  ASSUME NEW x \in Balance, NEW y \in Balance
  PROVE  /\ toSharedCash(x, y) \in [a: 0..(TotalCap - 1), b: 0..(TotalCap - 1), block: Nat]
         /\ toSharedManaged(x, y) \in [a: 0..(TotalCap - 1), b: 0..(TotalCap - 1)]
BY DEF toSharedCash, toSharedManaged, Balance

\* Writing one word for a pair.
LEMMA CashWritten ==
  ASSUME StorageInv, NEW pair, NEW x \in Balance, NEW y \in Balance
  PROVE  [pairBalances EXCEPT ![pair].sharedCash = toSharedCash(x, y)] \in PairTable
<1>1. pairBalances \in PairTable
  BY DEF StorageInv, StorageTypeOK, PairTable
<1>2. ASSUME pair \in DOMAIN pairBalances
      PROVE  [pairBalances[pair] EXCEPT !.sharedCash = toSharedCash(x, y)] \in Words
  <2>1. pairBalances[pair] \in Words
    BY <1>1, <1>2 DEF PairTable
  <2> QED BY <2>1, SharedTyped DEF Words
<1> HIDE DEF Words
<1> QED BY <1>1, <1>2 DEF PairTable

\* _joinOrExit, from the hook on
LEMMA JoinOrExitReturnStep ==
  ASSUME StorageInv, pending.kind = "joinOrExit",
         NEW change \in [DOMAIN pending.read -> Signed],
         JoinOrExitReturn(change)
  PROVE  StorageInv'
<1> DEFINE read == pending.read
           tokens == [i \in DOMAIN read |-> read[i].token]
           final == [i \in DOMAIN read |-> increaseCash(read[i].balance, change[i], block)]
<1>1. /\ read = getPoolTokens
      /\ read \in Seq([token: Tokens, balance: Balance])
      /\ specialization = "TWO_TOKEN" => Len(read) = 2
  <2>1. read = getPoolTokens /\ read # <<>>
    BY DEF StorageInv, ReadsCurrent
  <2>2. read \in Seq([token: Tokens, balance: Balance])
    BY <2>1, PoolTokensTyped DEF StorageInv
  <2>3. Len(read) # 0
    BY <2>1, <2>2
  <2> HIDE DEF read
  <2> QED BY <2>1, <2>2, <2>3, PoolTokensTyped DEF StorageInv
<1>2. \A i \in DOMAIN read : final[i] \in Balance /\ tokens[i] \in Tokens
  <2> TAKE i \in DOMAIN read
  <2>1. read[i] \in [token: Tokens, balance: Balance]
    <3> DEFINE Listed == [token: Tokens, balance: Balance]
    <3>1. read \in Seq(Listed) /\ i \in 1..Len(read)
      BY <1>1
    <3> HIDE DEF Listed, read
    <3>2. read[i] \in Listed
      BY <3>1, ElementOfSeq
    <3> QED BY <3>2 DEF Listed
  <2>2. read[i].balance \in Balance /\ change[i] \in Int /\ block \in Nat
    <3>1. Signed \subseteq Int
      <4>1. \A a \in Amounts : a \in Int /\ -a \in Int
        BY InputsAssumption
      <4> QED BY <4>1 DEF Signed
    <3>2. change[i] \in Signed
      OBVIOUS
    <3> HIDE DEF read
    <3> QED BY <2>1, <3>1, <3>2 DEF StorageInv, StorageTypeOK
  <2>3. Fits(increaseCash(read[i].balance, change[i], block))
    BY DEF JoinOrExitReturn
  <2> QED BY <2>1, <2>2, <2>3, ChangedTyped
<1>3. UNCHANGED <<specialization, block>> /\ pending' = NoCall
  BY DEF JoinOrExitReturn
<1>4. CASE specialization = "TWO_TOKEN"
  <2>1. /\ setTwoTokenPoolCashBalances(tokens[1], final[1], tokens[2], final[2])
        /\ OnlyTwoToken
    BY <1>4 DEF JoinOrExitReturn
  <2>2. tokenPair' \in {NoPair} \union (Tokens \X Tokens)
    BY <2>1 DEF setTwoTokenPoolCashBalances, StorageInv, StorageTypeOK
  <2>3. final[1] \in Balance /\ final[2] \in Balance
    <3>1. 1 \in DOMAIN read /\ 2 \in DOMAIN read
      BY <1>1, <1>4
    <3> QED BY <1>2, <3>1
  <2> HIDE DEF tokens, final
  <2>4. pairBalances' \in PairTable
    BY <2>1, <2>3, CashWritten DEF setTwoTokenPoolCashBalances
  <2> QED BY <1>3, <2>1, <2>2, <2>4, TwoTokenWritten
<1>5. CASE specialization = "MINIMAL_SWAP_INFO"
  <2>1. setMinimalSwapInfoPoolBalances(tokens, final) /\ OnlyMinimal
    BY <1>5 DEF JoinOrExitReturn
  <2>2. minimalPoolTokens' \in GoodSets
    BY <2>1, CollectionsGood DEF setMinimalSwapInfoPoolBalances, StorageInv
  <2>3. DOMAIN tokens = DOMAIN read
    OBVIOUS
  <2>4. minimalPoolBalances' \in [Tokens -> Balance]
    <3> HIDE DEF tokens, final, read
    <3> QED BY <1>2, <2>1, <2>3
        DEF setMinimalSwapInfoPoolBalances, StorageInv, StorageTypeOK
  <2> QED BY <1>3, <2>1, <2>2, <2>4, MinimalWritten
<1>6. CASE specialization = "GENERAL"
  <2>1. setGeneralPoolBalances(final) /\ OnlyGeneral
    BY <1>6 DEF JoinOrExitReturn
  <2>2. generalPoolBalances' \in GoodMaps
    <3>1. DOMAIN final = DOMAIN read
      OBVIOUS
    <3> HIDE DEF final, read
    <3>2. \A i \in DOMAIN final : final[i] \in Balance
      BY <1>2, <3>1
    <3>3. generalPoolBalances \in GoodMaps
      BY CollectionsGood DEF StorageInv
    <3> QED BY <2>1, <3>2, <3>3, EntriesTyped DEF setGeneralPoolBalances
  <2> QED BY <1>3, <2>1, <2>2, GeneralWritten
<1> QED BY <1>4, <1>5, <1>6, InputsAssumption DEF StorageInv, StorageTypeOK

\* _swapWithPool, from the hook on
LEMMA SwapReturnStep ==
  ASSUME StorageInv, pending.kind = "swap",
         NEW amountIn \in Amounts, NEW amountOut \in Amounts,
         SwapReturn(amountIn, amountOut)
  PROVE  StorageInv'
<1> DEFINE newIn == increaseCash(pending.read.in, amountIn, block)
           newOut == decreaseCash(pending.read.out, amountOut, block)
<1>1. pending.read.in \in Balance /\ pending.read.out \in Balance
  <2>1. pending \in Calls /\ NoCall.kind # "swap"
    BY DEF StorageInv, StorageTypeOK, NoCall
  <2>2. pending.read \in [in: Balance, out: Balance]
          \union [indexIn: Nat, indexOut: Nat, in: Balance, out: Balance]
    BY <2>1 DEF Calls
  <2> QED BY <2>2
<1>2. newIn \in Balance /\ newOut \in Balance
  <2>1. Fits(newIn) /\ Fits(newOut)
    BY DEF SwapReturn
  <2>2. amountIn \in Int /\ amountOut \in Int /\ block \in Nat
    BY InputsAssumption DEF StorageInv, StorageTypeOK
  <2> QED BY <1>1, <2>1, <2>2, ChangedTyped
<1>3. UNCHANGED <<specialization, block>> /\ pending' = NoCall
  BY DEF SwapReturn
<1>4. CASE specialization = "TWO_TOKEN"
  <2>1. /\ writeTwoTokenPoolSwap(pending.tokenIn, pending.tokenOut, newIn, newOut)
        /\ OnlyTwoToken
    BY <1>4 DEF SwapReturn
  <2>2. tokenPair' \in {NoPair} \union (Tokens \X Tokens)
    BY <2>1 DEF writeTwoTokenPoolSwap, StorageInv, StorageTypeOK
  <2> HIDE DEF newIn, newOut
  <2>3. pairBalances' \in PairTable
    <3>1. CASE pending.tokenIn < pending.tokenOut
      BY <1>2, <2>1, <3>1, CashWritten DEF writeTwoTokenPoolSwap
    <3>2. CASE ~(pending.tokenIn < pending.tokenOut)
      BY <1>2, <2>1, <3>2, CashWritten DEF writeTwoTokenPoolSwap
    <3> QED BY <3>1, <3>2
  <2> QED BY <1>3, <2>1, <2>2, <2>3, TwoTokenWritten
<1>5. CASE specialization = "MINIMAL_SWAP_INFO"
  <2>1. /\ writeMinimalPoolSwap(pending.tokenIn, pending.tokenOut, newIn, newOut)
        /\ OnlyMinimal
    BY <1>5 DEF SwapReturn
  <2>2. minimalPoolTokens' \in GoodSets
    BY <2>1, CollectionsGood DEF writeMinimalPoolSwap, StorageInv
  <2> HIDE DEF newIn, newOut
  <2>3. minimalPoolBalances' \in [Tokens -> Balance]
    BY <1>2, <2>1 DEF writeMinimalPoolSwap, StorageInv, StorageTypeOK
  <2> QED BY <1>3, <2>1, <2>2, <2>3, MinimalWritten
<1>6. CASE specialization = "GENERAL"
  <2>1. writeGeneralPoolSwap(pending.read, newIn, newOut) /\ OnlyGeneral
    BY <1>6 DEF SwapReturn
  <2> HIDE DEF newIn, newOut
  <2>2. generalPoolBalances' \in GoodMaps
    BY <1>2, <2>1, CollectionsGood, SetAtGood DEF writeGeneralPoolSwap, StorageInv
  <2> QED BY <1>3, <2>1, <2>2, GeneralWritten
<1> QED BY <1>4, <1>5, <1>6, InputsAssumption DEF StorageInv, StorageTypeOK

\* managePoolBalance
LEMMA ManageStep ==
  ASSUME StorageInv, NEW token \in Tokens, NEW amount \in Amounts,
         NEW mutation \in {"cashToManaged", "managedToCash", "setManaged"},
         managePoolBalance(token, mutation, amount)
  PROVE  StorageInv'
<1>1. UNCHANGED <<specialization, block>> /\ pending' = NoCall
  BY DEF managePoolBalance, nonReentrant
<1>2. amount \in Int /\ block \in Nat
  BY InputsAssumption DEF StorageInv, StorageTypeOK
<1>3. CASE specialization = "TWO_TOKEN"
  <2>1. updateTwoTokenPoolSharedBalance(token, mutation, amount, block) /\ OnlyTwoToken
    BY <1>3 DEF managePoolBalance
  <2>2. tokenPair' \in {NoPair} \union (Tokens \X Tokens)
    BY <2>1 DEF updateTwoTokenPoolSharedBalance, StorageInv, StorageTypeOK
  <2> DEFINE isA == token = tokenPair[1]
             newA == IF isA THEN mutate(mutation, BalanceA(tokenPair), amount, block)
                            ELSE BalanceA(tokenPair)
             newB == IF isA THEN BalanceB(tokenPair)
                            ELSE mutate(mutation, BalanceB(tokenPair), amount, block)
  <2>3. newA \in Balance /\ newB \in Balance
    <3>1. BalanceA(tokenPair) \in Balance /\ BalanceB(tokenPair) \in Balance
      <4>1. tokenPair \in (Tokens \union {NoToken}) \X (Tokens \union {NoToken})
        BY DEF StorageInv, StorageTypeOK, NoPair
      <4> QED BY <4>1, PairTyped DEF StorageInv
    <3>2. Fits(newA) /\ Fits(newB)
      BY <2>1 DEF updateTwoTokenPoolSharedBalance
    <3> QED BY <1>2, <3>1, <3>2, ChangedTyped
  <2>4. pairBalances' = [pairBalances EXCEPT
          ![tokenPair] = [sharedCash    |-> toSharedCash(newA, newB),
                          sharedManaged |-> toSharedManaged(newA, newB)]]
    BY <2>1 DEF updateTwoTokenPoolSharedBalance
  <2> HIDE DEF newA, newB
  <2>5. [sharedCash |-> toSharedCash(newA, newB),
         sharedManaged |-> toSharedManaged(newA, newB)] \in Words
    BY <2>3, SharedTyped DEF Words
  <2>6. pairBalances' \in PairTable
    BY <2>4, <2>5 DEF StorageInv, StorageTypeOK, PairTable
  <2> QED BY <1>1, <2>1, <2>2, <2>6, TwoTokenWritten
<1>4. CASE specialization = "MINIMAL_SWAP_INFO"
  <2>1. updateMinimalSwapInfoPoolBalance(token, mutation, amount, block) /\ OnlyMinimal
    BY <1>4 DEF managePoolBalance
  <2>2. minimalPoolTokens' \in GoodSets
    BY <2>1, CollectionsGood DEF updateMinimalSwapInfoPoolBalance, StorageInv
  <2> DEFINE new == mutate(mutation, minimalPoolBalances[token], amount, block)
  <2>3. new \in Balance
    BY <1>2, <2>1, ChangedTyped
    DEF updateMinimalSwapInfoPoolBalance, StorageInv, StorageTypeOK
  <2>4. minimalPoolBalances' = [minimalPoolBalances EXCEPT ![token] = new]
    BY <2>1 DEF updateMinimalSwapInfoPoolBalance
  <2> HIDE DEF new
  <2>5. minimalPoolBalances' \in [Tokens -> Balance]
    BY <2>3, <2>4 DEF StorageInv, StorageTypeOK
  <2> QED BY <1>1, <2>1, <2>2, <2>5, MinimalWritten
<1>5. CASE specialization = "GENERAL"
  <2>1. updateGeneralPoolBalance(token, mutation, amount, block) /\ OnlyGeneral
    BY <1>5 DEF managePoolBalance
  <2> DEFINE m == generalPoolBalances
             new == mutate(mutation, Map!get(m, token), amount, block)
  <2>2. m \in GoodMaps /\ Map!contains(m, token) /\ Fits(new) /\ m' = Map!set(m, token, new)
    BY <2>1, CollectionsGood DEF updateGeneralPoolBalance, StorageInv
  <2>3. new \in Balance
    BY <1>2, <2>2, GetTyped, ChangedTyped
  <2> HIDE DEF new
  <2>4. m' \in GoodMaps
    BY <2>2, <2>3, SetGood
  <2> QED BY <1>1, <2>1, <2>4, GeneralWritten
<1> QED BY <1>3, <1>4, <1>5, InputsAssumption DEF StorageInv, StorageTypeOK

\* Every step keeps the invariant.
LEMMA StorageNextInv == StorageInv /\ [StorageNext]_storageVars => StorageInv'
<1> SUFFICES ASSUME StorageInv, [StorageNext]_storageVars PROVE StorageInv'
  OBVIOUS
<1>1. ASSUME NEW tokens \in Lists[specialization], registerTokens(tokens)
      PROVE  StorageInv'
  BY <1>1, RegisterStep, InputsAssumption DEF StorageInv, StorageTypeOK
<1>2. ASSUME NEW tokens \in Lists[specialization], deregisterTokens(tokens)
      PROVE  StorageInv'
  BY <1>2, DeregisterStep, InputsAssumption DEF StorageInv, StorageTypeOK
<1>3. CASE joinOrExit
  BY <1>3, JoinOrExitStep
<1>4. ASSUME pending.kind = "joinOrExit", NEW change \in [DOMAIN pending.read -> Signed],
             JoinOrExitReturn(change)
      PROVE  StorageInv'
  BY <1>4, JoinOrExitReturnStep
<1>5. ASSUME NEW tokenIn \in Tokens, NEW tokenOut \in Tokens, swap(tokenIn, tokenOut)
      PROVE  StorageInv'
  BY <1>5, SwapStep
<1>6. ASSUME pending.kind = "swap", NEW amountIn \in Amounts, NEW amountOut \in Amounts,
             SwapReturn(amountIn, amountOut)
      PROVE  StorageInv'
  BY <1>6, SwapReturnStep
<1>7. CASE Revert
  BY <1>7, RevertStep
<1>8. ASSUME NEW token \in Tokens, NEW amount \in Amounts,
             \/ withdrawPoolBalance(token, amount)
             \/ depositPoolBalance(token, amount)
             \/ updateManagedBalance(token, amount)
      PROVE  StorageInv'
  BY <1>8, ManageStep DEF withdrawPoolBalance, depositPoolBalance, updateManagedBalance
<1>9. CASE NextBlock
  BY <1>9, NextBlockStep
<1>10. CASE UNCHANGED storageVars
  BY <1>10, NoWrite DEF storageVars, StorageInv, StorageTypeOK
<1> QED BY <1>1, <1>2, <1>3, <1>4, <1>5, <1>6, <1>7, <1>8, <1>9, <1>10 DEF StorageNext
-----------------------------------------------------------------------------
\* Every balance, stored or read by a call under way, fits its fields, whatever
\* Pools answer and in whatever layout (toBalance and its callers).
THEOREM StorageTypeCorrect == StorageSpec => []StorageTypeOK
<1>1. StorageInv => StorageTypeOK
  BY DEF StorageInv
<1> QED BY <1>1, StorageInitInv, StorageNextInv, PTL DEF StorageSpec

\* The arrays and index mappings of EnumerableMap and EnumerableSet agree, after any
\* registrations and removals, of lists of any length.
THEOREM CollectionsAgree == StorageSpec => []CollectionsConsistent
<1>1. StorageInv => CollectionsConsistent
  BY DEF StorageInv
<1> QED BY <1>1, StorageInitInv, StorageNextInv, PTL DEF StorageSpec

\* A call writes by what it read before its hook, positions and balances; they are
\* those stored (nonReentrant).
THEOREM ReadsStayCurrent == StorageSpec => []ReadsCurrent
<1>1. StorageInv => ReadsCurrent
  BY DEF StorageInv
<1> QED BY <1>1, StorageInitInv, StorageNextInv, PTL DEF StorageSpec
-----------------------------------------------------------------------------
\* Nobody deregisters a token of a Two Token Pool twice in one list.
NoRepeatedTokens ==
  "TWO_TOKEN" \in Specializations =>
    \A tokens \in Lists["TWO_TOKEN"] : Len(tokens) = 2 => tokens[1] # tokens[2]

NoWords == [sharedCash |-> NoCash, sharedManaged |-> NoManaged]

\* What tokens that are not registered leave in the mappings of balances: nothing.
UnregisteredEmpty ==
  /\ \A t \in Tokens :
       ~TokenSet!contains(minimalPoolTokens, t) => minimalPoolBalances[t] = EmptyBalance
  /\ tokenPair # NoPair => tokenPair[1] < tokenPair[2]
  /\ \A pair \in DOMAIN pairBalances :
       pair # tokenPair \/ tokenPair = NoPair => pairBalances[pair] = NoWords

\* Any pair of different tokens, sorted, that may swap is the Pool's.
LEMMA SwappingPair ==
  ASSUME StorageTypeOK, UnregisteredEmpty,
         NEW x \in Tokens, NEW y \in Tokens, x # y,
         hasTwoTokenPoolSharedBalances(sortTwoTokens(x, y))
  PROVE  tokenPair # NoPair /\ sortTwoTokens(x, y) = tokenPair
<1> DEFINE pair == sortTwoTokens(x, y)
<1>1. x \in Nat /\ y \in Nat /\ x # NoToken /\ y # NoToken
  BY TokensAssumption
<1>2. pair \in DOMAIN pairBalances /\ pair[1] < pair[2] /\ pair = <<pair[1], pair[2]>>
  BY <1>1 DEF sortTwoTokens, StorageTypeOK
<1> HIDE DEF pair
<1>3. CASE \/ isNotZero(pairBalances[pair].sharedCash)
           \/ isNotZero(pairBalances[pair].sharedManaged)
  BY <1>2, <1>3 DEF UnregisteredEmpty, NoWords, NoCash, NoManaged, isNotZero, pair
<1>4. CASE isTwoTokenPoolTokenRegistered(pair[1]) /\ isTwoTokenPoolTokenRegistered(pair[2])
  <2>1. tokenPair # NoPair
    BY <1>4 DEF isTwoTokenPoolTokenRegistered, NoPair
  <2>2. tokenPair \in Tokens \X Tokens /\ tokenPair[1] < tokenPair[2]
    BY <2>1 DEF StorageTypeOK, UnregisteredEmpty
  <2>3. tokenPair[1] \in Nat /\ tokenPair[2] \in Nat /\ tokenPair = <<tokenPair[1], tokenPair[2]>>
    <3>1. PICK a \in Tokens, b \in Tokens : tokenPair = <<a, b>>
      BY <2>2
    <3> QED BY <3>1, TokensAssumption
  <2>4. pair[1] \in {tokenPair[1], tokenPair[2]} /\ pair[2] \in {tokenPair[1], tokenPair[2]}
    BY <1>4 DEF isTwoTokenPoolTokenRegistered
  <2>5. pair[1] = tokenPair[1] /\ pair[2] = tokenPair[2]
    <3>1. \A a, b \in Nat : \A c, d \in {a, b} : a < b /\ c < d => c = a /\ d = b
      OBVIOUS
    <3> QED BY <1>2, <2>2, <2>3, <2>4, <3>1
  <2> QED BY <1>2, <2>1, <2>3, <2>5 DEF pair
<1> QED BY <1>3, <1>4 DEF hasTwoTokenPoolSharedBalances, pair

\* At first nothing is registered and everything is empty.
LEMMA UnregisteredInit == StorageInit => UnregisteredEmpty
<1> SUFFICES ASSUME StorageInit PROVE UnregisteredEmpty
  OBVIOUS
<1>1. \A t \in Tokens : minimalPoolBalances[t] = EmptyBalance
  BY DEF StorageInit
<1>2. tokenPair = NoPair
  BY DEF StorageInit
<1>3. \A pair \in DOMAIN pairBalances : pairBalances[pair] = NoWords
  BY DEF StorageInit, NoWords
<1> QED BY <1>1, <1>2, <1>3 DEF UnregisteredEmpty

\* A step that leaves both layouts alone.
LEMMA UnregisteredKept ==
  ASSUME UnregisteredEmpty,
         UNCHANGED <<minimalPoolTokens, minimalPoolBalances, tokenPair, pairBalances>>
  PROVE  UnregisteredEmpty'
BY DEF UnregisteredEmpty

\* One that writes the Minimal Swap Info layout.
LEMMA UnregisteredMinimal ==
  ASSUME UnregisteredEmpty, OnlyMinimal,
         \A t \in Tokens : ~TokenSet!contains(minimalPoolTokens', t) => minimalPoolBalances'[t] = EmptyBalance
  PROVE  UnregisteredEmpty'
BY DEF UnregisteredEmpty, OnlyMinimal

\* One that writes words of the registered pair, or of none.
LEMMA UnregisteredWord ==
  ASSUME StorageTypeOK, UnregisteredEmpty, OnlyTwoToken, UNCHANGED tokenPair, tokenPair # NoPair,
         NEW word, pairBalances' = [pairBalances EXCEPT ![tokenPair] = word]
  PROVE  UnregisteredEmpty'
<1>1. DOMAIN pairBalances' = DOMAIN pairBalances
  OBVIOUS
<1>2. \A pair \in DOMAIN pairBalances : pair # tokenPair => pairBalances'[pair] = pairBalances[pair]
  BY DEF StorageTypeOK
<1> QED BY <1>1, <1>2 DEF UnregisteredEmpty, OnlyTwoToken

\* registerTokens: what enters is empty.
LEMMA UnregisteredRegister ==
  ASSUME StorageInv, UnregisteredEmpty, NEW tokens \in Seq(Tokens), registerTokens(tokens)
  PROVE  UnregisteredEmpty'
<1>1. CASE specialization = "TWO_TOKEN"
  <2>1. registerTwoTokenPoolTokens(tokens[1], tokens[2]) /\ OnlyTwoToken
    BY <1>1 DEF registerTokens
  <2>2. /\ tokenPair = NoPair /\ tokenPair' = <<tokens[1], tokens[2]>> /\ tokens[1] < tokens[2]
        /\ pairBalances' = pairBalances
    BY <2>1 DEF registerTwoTokenPoolTokens
  <2> QED BY <2>1, <2>2 DEF UnregisteredEmpty, OnlyTwoToken
<1>2. CASE specialization = "MINIMAL_SWAP_INFO"
  <2>1. registerMinimalSwapInfoPoolTokens(tokens) /\ OnlyMinimal
    BY <1>2 DEF registerTokens
  <2>2. minimalPoolTokens \in GoodSets
    BY CollectionsGood DEF StorageInv
  <2>3. \A t \in Tokens :
          TokenSet!contains(minimalPoolTokens, t) => TokenSet!contains(minimalPoolTokens', t)
    BY <2>1, <2>2, RegisteredSetGood DEF registerMinimalSwapInfoPoolTokens
  <2>4. minimalPoolBalances' = minimalPoolBalances
    BY <2>1 DEF registerMinimalSwapInfoPoolTokens
  <2>5. \A t \in Tokens :
          ~TokenSet!contains(minimalPoolTokens', t) => minimalPoolBalances'[t] = EmptyBalance
    BY <2>3, <2>4 DEF UnregisteredEmpty
  <2> QED BY <2>1, <2>5, UnregisteredMinimal
<1>3. CASE specialization = "GENERAL"
  BY <1>3, UnregisteredKept DEF registerTokens, OnlyGeneral
<1> QED BY <1>1, <1>2, <1>3, InputsAssumption DEF StorageInv, StorageTypeOK

\* deregisterTokens: what leaves is zero, if the list of a Two Token Pool names both.
LEMMA UnregisteredDeregister ==
  ASSUME StorageInv, UnregisteredEmpty, NEW tokens \in Seq(Tokens), deregisterTokens(tokens),
         specialization = "TWO_TOKEN" /\ Len(tokens) = 2 => tokens[1] # tokens[2]
  PROVE  UnregisteredEmpty'
<1>1. CASE specialization = "TWO_TOKEN"
  <2> DEFINE pair == sortTwoTokens(tokens[1], tokens[2])
  <2>1. /\ Len(tokens) = 2
        /\ deregisterTwoTokenPoolTokens(tokens[1], tokens[2])
        /\ OnlyTwoToken
    BY <1>1 DEF deregisterTokens
  <2>2. tokens[1] \in Tokens /\ tokens[2] \in Tokens
    <3>1. 1 \in 1..Len(tokens) /\ 2 \in 1..Len(tokens)
      BY <2>1
    <3> QED BY <3>1, ElementOfSeq
  <2>3. /\ hasTwoTokenPoolSharedBalances(pair)
        /\ isZero(BalanceA(pair)) /\ isZero(BalanceB(pair))
        /\ tokenPair' = NoPair
        /\ pairBalances' = [pairBalances EXCEPT ![pair].sharedCash = NoCash]
    BY <2>1 DEF deregisterTwoTokenPoolTokens
  <2>4. tokenPair # NoPair /\ pair = tokenPair
    BY <1>1, <2>1, <2>2, <2>3, SwappingPair DEF StorageInv
  <2> HIDE DEF pair
  <2>5. pair \in DOMAIN pairBalances /\ pairBalances[pair] \in Words
    BY <2>4 DEF StorageInv, StorageTypeOK
  <2>6. pairBalances[pair].sharedManaged = NoManaged
    BY <2>3, <2>5 DEF isZero, NoManaged, BalanceA, BalanceB, fromSharedToBalanceA,
                      fromSharedToBalanceB, toBalance, Words
  <2>7. /\ DOMAIN pairBalances' = DOMAIN pairBalances
        /\ \A q \in DOMAIN pairBalances : q # pair => pairBalances'[q] = pairBalances[q]
        /\ pairBalances'[pair] = NoWords
    BY <2>3, <2>5, <2>6 DEF Words, NoWords
  <2>8. ASSUME NEW q \in DOMAIN pairBalances'
        PROVE  pairBalances'[q] = NoWords
    <3>1. CASE q = pair
      BY <2>7, <3>1
    <3>2. CASE q # pair
      BY <2>4, <2>7, <3>2 DEF UnregisteredEmpty
    <3> QED BY <3>1, <3>2
  <2> QED BY <2>1, <2>3, <2>8 DEF UnregisteredEmpty, OnlyTwoToken
<1>2. CASE specialization = "MINIMAL_SWAP_INFO"
  <2>1. deregisterMinimalSwapInfoPoolTokens(tokens) /\ OnlyMinimal
    BY <1>2 DEF deregisterTokens
  <2>2. minimalPoolTokens \in GoodSets
    BY CollectionsGood DEF StorageInv
  <2>3. \A t \in Tokens : (\A n \in 1..Len(tokens) : tokens[n] # t) =>
          (TokenSet!contains(minimalPoolTokens, t) => TokenSet!contains(minimalPoolTokens', t))
    BY <2>1, <2>2, DeregisteredSetGood DEF deregisterMinimalSwapInfoPoolTokens
  <2>4. \A t \in Tokens : minimalPoolBalances'[t] =
          IF \E n \in 1..Len(tokens) : tokens[n] = t THEN EmptyBalance ELSE minimalPoolBalances[t]
    BY <2>1 DEF deregisterMinimalSwapInfoPoolTokens, StorageInv, StorageTypeOK
  <2>5. ASSUME NEW t \in Tokens, ~TokenSet!contains(minimalPoolTokens', t)
        PROVE  minimalPoolBalances'[t] = EmptyBalance
    <3>1. CASE \E n \in 1..Len(tokens) : tokens[n] = t
      BY <2>4, <3>1
    <3>2. CASE \A n \in 1..Len(tokens) : tokens[n] # t
      BY <2>3, <2>4, <2>5, <3>2 DEF UnregisteredEmpty
    <3> QED BY <3>1, <3>2
  <2> QED BY <2>1, <2>5, UnregisteredMinimal
<1>3. CASE specialization = "GENERAL"
  BY <1>3, UnregisteredKept DEF deregisterTokens, OnlyGeneral
<1> QED BY <1>1, <1>2, <1>3, InputsAssumption DEF StorageInv, StorageTypeOK

\* joins and exits write for the Pool's tokens
LEMMA UnregisteredJoinOrExitReturn ==
  ASSUME StorageInv, UnregisteredEmpty, pending.kind = "joinOrExit", NEW change,
         JoinOrExitReturn(change)
  PROVE  UnregisteredEmpty'
<1> DEFINE read == pending.read
           tokens == [i \in DOMAIN read |-> read[i].token]
           final == [i \in DOMAIN read |-> increaseCash(read[i].balance, change[i], block)]
<1>1. read = getPoolTokens /\ read # <<>>
  BY DEF StorageInv, ReadsCurrent
<1>2. CASE specialization = "TWO_TOKEN"
  <2>1. /\ setTwoTokenPoolCashBalances(tokens[1], final[1], tokens[2], final[2])
        /\ OnlyTwoToken
    BY <1>2 DEF JoinOrExitReturn
  <2>2. tokenPair # NoPair
    BY <1>1, <1>2 DEF getPoolTokens, getTwoTokenPoolTokens
  <2>3. read = <<[token |-> tokenPair[1], balance |-> BalanceA(tokenPair)],
                 [token |-> tokenPair[2], balance |-> BalanceB(tokenPair)]>>
    BY <1>1, <1>2, <2>2 DEF getPoolTokens, getTwoTokenPoolTokens
  <2>4. tokens[1] = tokenPair[1] /\ tokens[2] = tokenPair[2]
    BY <2>3
  <2>5. tokenPair = <<tokens[1], tokens[2]>>
    BY <2>2, <2>4 DEF StorageInv, StorageTypeOK
  <2> HIDE DEF tokens, final
  <2> DEFINE word == [pairBalances[tokenPair] EXCEPT !.sharedCash = toSharedCash(final[1], final[2])]
  <2>6. pairBalances' = [pairBalances EXCEPT ![tokenPair] = word] /\ tokenPair' = tokenPair
    BY <2>1, <2>5 DEF setTwoTokenPoolCashBalances
  <2> HIDE DEF word
  <2> QED BY <2>1, <2>2, <2>6, UnregisteredWord DEF StorageInv
<1>3. CASE specialization = "MINIMAL_SWAP_INFO"
  <2>1. setMinimalSwapInfoPoolBalances(tokens, final) /\ OnlyMinimal
    BY <1>3 DEF JoinOrExitReturn
  <2>2. read = getMinimalSwapInfoPoolTokens
    BY <1>1, <1>3 DEF getPoolTokens
  <2>3. \A i \in DOMAIN tokens : TokenSet!contains(minimalPoolTokens, tokens[i])
    BY <2>2 DEF getMinimalSwapInfoPoolTokens, TokenSet!contains, TokenSet!Consistent,
                StorageInv, CollectionsConsistent
  <2> HIDE DEF tokens, final
  <2>4. \A t \in Tokens : ~TokenSet!contains(minimalPoolTokens, t) =>
          minimalPoolBalances'[t] = minimalPoolBalances[t]
    BY <2>1, <2>3 DEF setMinimalSwapInfoPoolBalances, StorageInv, StorageTypeOK
  <2>5. minimalPoolTokens' = minimalPoolTokens
    BY <2>1 DEF setMinimalSwapInfoPoolBalances
  <2>6. \A t \in Tokens :
          ~TokenSet!contains(minimalPoolTokens', t) => minimalPoolBalances'[t] = EmptyBalance
    BY <2>4, <2>5 DEF UnregisteredEmpty
  <2> QED BY <2>1, <2>6, UnregisteredMinimal
<1>4. CASE specialization = "GENERAL"
  BY <1>4, UnregisteredKept DEF JoinOrExitReturn, OnlyGeneral
<1> QED BY <1>2, <1>3, <1>4, InputsAssumption DEF StorageInv, StorageTypeOK

\* swaps write for two tokens that may swap
LEMMA UnregisteredSwapReturn ==
  ASSUME StorageInv, UnregisteredEmpty, pending.kind = "swap", NEW amountIn, NEW amountOut,
         SwapReturn(amountIn, amountOut)
  PROVE  UnregisteredEmpty'
<1> DEFINE newIn == increaseCash(pending.read.in, amountIn, block)
           newOut == decreaseCash(pending.read.out, amountOut, block)
           x == pending.tokenIn
           y == pending.tokenOut
<1>1. x \in Tokens /\ y \in Tokens /\ x # y /\ maySwap(x, y)
  BY DEF StorageInv, StorageTypeOK, ReadsCurrent, Calls, NoCall
<1>2. CASE specialization = "TWO_TOKEN"
  <2>1. writeTwoTokenPoolSwap(x, y, newIn, newOut) /\ OnlyTwoToken
    BY <1>2 DEF SwapReturn
  <2>2. tokenPair # NoPair /\ sortTwoTokens(x, y) = tokenPair
    BY <1>1, <1>2, SwappingPair DEF StorageInv, maySwap, mayTwoTokenPoolSwap
  <2> HIDE DEF newIn, newOut, x, y
  <2> DEFINE word == [pairBalances[tokenPair] EXCEPT !.sharedCash =
                        IF x < y THEN toSharedCash(newIn, newOut) ELSE toSharedCash(newOut, newIn)]
  <2>3. pairBalances' = [pairBalances EXCEPT ![tokenPair] = word] /\ tokenPair' = tokenPair
    BY <2>1, <2>2 DEF writeTwoTokenPoolSwap
  <2> HIDE DEF word
  <2> QED BY <2>1, <2>2, <2>3, UnregisteredWord DEF StorageInv
<1>3. CASE specialization = "MINIMAL_SWAP_INFO"
  <2>1. writeMinimalPoolSwap(x, y, newIn, newOut) /\ OnlyMinimal
    BY <1>3 DEF SwapReturn
  <2>2. TokenSet!contains(minimalPoolTokens, x) /\ TokenSet!contains(minimalPoolTokens, y)
    BY <1>1, <1>3
    DEF maySwap, mayMinimalPoolSwap, hasMinimalSwapInfoPoolBalance, UnregisteredEmpty,
        EmptyBalance, isZero
  <2> HIDE DEF newIn, newOut, x, y
  <2>3. \A t \in Tokens : ~TokenSet!contains(minimalPoolTokens, t) =>
          minimalPoolBalances'[t] = minimalPoolBalances[t]
    BY <2>1, <2>2 DEF writeMinimalPoolSwap, StorageInv, StorageTypeOK
  <2>4. minimalPoolTokens' = minimalPoolTokens
    BY <2>1 DEF writeMinimalPoolSwap
  <2>5. \A t \in Tokens :
          ~TokenSet!contains(minimalPoolTokens', t) => minimalPoolBalances'[t] = EmptyBalance
    BY <2>3, <2>4 DEF UnregisteredEmpty
  <2> QED BY <2>1, <2>5, UnregisteredMinimal
<1>4. CASE specialization = "GENERAL"
  BY <1>4, UnregisteredKept DEF SwapReturn, OnlyGeneral
<1> QED BY <1>2, <1>3, <1>4, InputsAssumption DEF StorageInv, StorageTypeOK

\* Asset Managers change what is registered
LEMMA UnregisteredManage ==
  ASSUME StorageInv, UnregisteredEmpty, NEW token \in Tokens, NEW mutation, NEW amount,
         managePoolBalance(token, mutation, amount)
  PROVE  UnregisteredEmpty'
<1>1. CASE specialization = "TWO_TOKEN"
  <2>1. /\ updateTwoTokenPoolSharedBalance(token, mutation, amount, block)
        /\ OnlyTwoToken
        /\ isTwoTokenPoolTokenRegistered(token)
    BY <1>1 DEF managePoolBalance, isTokenRegistered
  <2>2. tokenPair # NoPair
    BY <2>1 DEF isTwoTokenPoolTokenRegistered, NoPair
  <2>3. PICK word : pairBalances' = [pairBalances EXCEPT ![tokenPair] = word]
    BY <2>1 DEF updateTwoTokenPoolSharedBalance
  <2>4. tokenPair' = tokenPair
    BY <2>1 DEF updateTwoTokenPoolSharedBalance
  <2> QED BY <2>1, <2>2, <2>3, <2>4, UnregisteredWord DEF StorageInv
<1>2. CASE specialization = "MINIMAL_SWAP_INFO"
  <2>1. updateMinimalSwapInfoPoolBalance(token, mutation, amount, block) /\ OnlyMinimal
        /\ TokenSet!contains(minimalPoolTokens, token)
    BY <1>2 DEF managePoolBalance, isTokenRegistered
  <2>2. \A t \in Tokens : t # token => minimalPoolBalances'[t] = minimalPoolBalances[t]
    BY <2>1 DEF updateMinimalSwapInfoPoolBalance, StorageInv, StorageTypeOK
  <2>3. minimalPoolTokens' = minimalPoolTokens
    BY <2>1 DEF updateMinimalSwapInfoPoolBalance
  <2>4. \A t \in Tokens :
          ~TokenSet!contains(minimalPoolTokens', t) => minimalPoolBalances'[t] = EmptyBalance
    BY <2>1, <2>2, <2>3 DEF UnregisteredEmpty
  <2> QED BY <2>1, <2>4, UnregisteredMinimal
<1>3. CASE specialization = "GENERAL"
  BY <1>3, UnregisteredKept DEF managePoolBalance, OnlyGeneral
<1> QED BY <1>1, <1>2, <1>3, InputsAssumption DEF StorageInv, StorageTypeOK

\* Every step keeps it, if lists do not repeat a token.
LEMMA UnregisteredNext ==
  ASSUME NoRepeatedTokens
  PROVE  StorageInv /\ UnregisteredEmpty /\ [StorageNext]_storageVars => UnregisteredEmpty'
<1> SUFFICES ASSUME StorageInv, UnregisteredEmpty, [StorageNext]_storageVars
             PROVE  UnregisteredEmpty'
  OBVIOUS
<1>1. \A tokens \in Lists[specialization] :
        /\ tokens \in Seq(Tokens)
        /\ specialization = "TWO_TOKEN" /\ Len(tokens) = 2 => tokens[1] # tokens[2]
  BY InputsAssumption DEF StorageInv, StorageTypeOK, NoRepeatedTokens
<1>2. ASSUME NEW tokens \in Lists[specialization], registerTokens(tokens)
      PROVE  UnregisteredEmpty'
  BY <1>1, <1>2, UnregisteredRegister
<1>3. ASSUME NEW tokens \in Lists[specialization], deregisterTokens(tokens)
      PROVE  UnregisteredEmpty'
  BY <1>1, <1>3, UnregisteredDeregister
<1>4. ASSUME joinOrExit \/ Revert \/ NextBlock \/ UNCHANGED storageVars
             \/ \E tokenIn, tokenOut \in Tokens : swap(tokenIn, tokenOut)
      PROVE  UnregisteredEmpty'
  BY <1>4, UnregisteredKept DEF joinOrExit, swap, Revert, NextBlock, storageVars, layoutVars
<1>5. ASSUME pending.kind = "joinOrExit", NEW change, JoinOrExitReturn(change)
      PROVE  UnregisteredEmpty'
  BY <1>5, UnregisteredJoinOrExitReturn
<1>6. ASSUME pending.kind = "swap", NEW amountIn, NEW amountOut, SwapReturn(amountIn, amountOut)
      PROVE  UnregisteredEmpty'
  BY <1>6, UnregisteredSwapReturn
<1>7. ASSUME NEW token \in Tokens, NEW amount \in Amounts,
             \/ withdrawPoolBalance(token, amount)
             \/ depositPoolBalance(token, amount)
             \/ updateManagedBalance(token, amount)
      PROVE  UnregisteredEmpty'
  BY <1>7, UnregisteredManage DEF withdrawPoolBalance, depositPoolBalance, updateManagedBalance
<1> QED BY <1>2, <1>3, <1>4, <1>5, <1>6, <1>7 DEF StorageNext
-----------------------------------------------------------------------------
\* The ledger of a list of tokens, each listed once.
LEMMA LedgerOfList ==
  ASSUME NEW t, NEW n \in DOMAIN getPoolTokens, getPoolTokens[n].token = t,
         \A i \in DOMAIN getPoolTokens : getPoolTokens[i].token = t => i = n
  PROVE  t \in DOMAIN LedgerOf /\ LedgerOf[t] = getPoolTokens[n].balance
<1>1. t \in TokensListed
  BY DEF TokensListed
<1>2. (CHOOSE i \in DOMAIN getPoolTokens : getPoolTokens[i].token = t) = n
  OBVIOUS
<1> QED BY <1>1, <1>2 DEF LedgerOf

\* The ledger of each layout.
LEMMA GeneralLedger ==
  ASSUME StorageInv, specialization = "GENERAL", NEW t \in Tokens
  PROVE  /\ t \in DOMAIN LedgerOf <=> Map!contains(generalPoolBalances, t)
         /\ Map!contains(generalPoolBalances, t) => LedgerOf[t] = Map!get(generalPoolBalances, t)
<1> DEFINE m == generalPoolBalances
           n == m.indexes[t]
<1>1. getPoolTokens = [i \in 1..Len(m.entries) |->
                         [token |-> m.entries[i].key, balance |-> m.entries[i].value]]
  BY DEF getPoolTokens, getGeneralPoolTokens
<1>2. \A i \in 1..Len(m.entries) : m.indexes[m.entries[i].key] = i
  BY DEF StorageInv, CollectionsConsistent, Map!Consistent
<1>3. CASE Map!contains(m, t)
  <2>1. n \in 1..Len(m.entries) /\ m.entries[n].key = t
    BY <1>3 DEF StorageInv, StorageTypeOK, CollectionsConsistent, Map!Consistent, Map!Keys
  <2>2. \A i \in DOMAIN getPoolTokens : getPoolTokens[i].token = t => i = n
    BY <1>1, <1>2
  <2>3. n \in DOMAIN getPoolTokens /\ getPoolTokens[n].token = t
        /\ getPoolTokens[n].balance = m.entries[n].value
    BY <1>1, <2>1
  <2> QED BY <1>3, <2>2, <2>3, LedgerOfList DEF Map!get
<1>4. CASE ~Map!contains(m, t)
  <2>1. \A i \in 1..Len(m.entries) : m.entries[i].key # t
    BY <1>2, <1>4 DEF Map!contains
  <2>2. t \notin TokensListed
    BY <1>1, <2>1 DEF TokensListed
  <2>3. DOMAIN LedgerOf = TokensListed
    BY DEF LedgerOf
  <2> QED BY <1>4, <2>2, <2>3
<1> QED BY <1>3, <1>4

\* What getPoolTokens lists of a Minimal Swap Info Pool: its set, with the mapping's balances.
LEMMA MinimalLedger ==
  ASSUME StorageInv, specialization = "MINIMAL_SWAP_INFO", NEW t \in Tokens
  PROVE  /\ t \in DOMAIN LedgerOf <=> TokenSet!contains(minimalPoolTokens, t)
         /\ TokenSet!contains(minimalPoolTokens, t) => LedgerOf[t] = minimalPoolBalances[t]
<1> DEFINE s == minimalPoolTokens
           n == s.indexes[t]
<1>1. getPoolTokens = [i \in 1..Len(s.values) |->
                         [token |-> s.values[i], balance |-> minimalPoolBalances[s.values[i]]]]
  BY DEF getPoolTokens, getMinimalSwapInfoPoolTokens
<1>2. \A i \in 1..Len(s.values) : s.indexes[s.values[i]] = i
  BY DEF StorageInv, CollectionsConsistent, TokenSet!Consistent
<1>3. CASE TokenSet!contains(s, t)
  <2>1. n \in 1..Len(s.values) /\ s.values[n] = t
    BY <1>3 DEF StorageInv, StorageTypeOK, CollectionsConsistent, TokenSet!Consistent,
                TokenSet!Members
  <2>2. \A i \in DOMAIN getPoolTokens : getPoolTokens[i].token = t => i = n
    BY <1>1, <1>2
  <2>3. n \in DOMAIN getPoolTokens /\ getPoolTokens[n].token = t
        /\ getPoolTokens[n].balance = minimalPoolBalances[t]
    BY <1>1, <2>1
  <2> QED BY <1>3, <2>2, <2>3, LedgerOfList
<1>4. CASE ~TokenSet!contains(s, t)
  <2>1. \A i \in 1..Len(s.values) : s.values[i] # t
    BY <1>2, <1>4 DEF TokenSet!contains
  <2>2. t \notin TokensListed
    BY <1>1, <2>1 DEF TokensListed
  <2>3. DOMAIN LedgerOf = TokensListed
    BY DEF LedgerOf
  <2> QED BY <1>4, <2>2, <2>3
<1> QED BY <1>3, <1>4

\* What getPoolTokens lists of a Two Token Pool: its pair, with the balances of the words.
LEMMA TwoTokenLedger ==
  ASSUME StorageInv, UnregisteredEmpty, specialization = "TWO_TOKEN"
  PROVE  /\ tokenPair = NoPair => DOMAIN LedgerOf = {}
         /\ tokenPair # NoPair =>
              /\ DOMAIN LedgerOf = {tokenPair[1], tokenPair[2]}
              /\ LedgerOf[tokenPair[1]] = BalanceA(tokenPair)
              /\ LedgerOf[tokenPair[2]] = BalanceB(tokenPair)
<1>1. DOMAIN LedgerOf = {getPoolTokens[i].token : i \in DOMAIN getPoolTokens}
  BY DEF LedgerOf, TokensListed
<1>2. CASE tokenPair = NoPair
  <2>1. getPoolTokens = <<>>
    BY <1>2 DEF getPoolTokens, getTwoTokenPoolTokens
  <2> QED BY <1>1, <1>2, <2>1
<1>3. CASE tokenPair # NoPair
  <2>1. getPoolTokens = <<[token |-> tokenPair[1], balance |-> BalanceA(tokenPair)],
                          [token |-> tokenPair[2], balance |-> BalanceB(tokenPair)]>>
    BY <1>3 DEF getPoolTokens, getTwoTokenPoolTokens
  <2>2. DOMAIN getPoolTokens = {1, 2}
    BY <2>1
  <2>3. tokenPair[1] # tokenPair[2]
    <3>1. tokenPair[1] < tokenPair[2] /\ tokenPair \in Tokens \X Tokens
      BY <1>3 DEF UnregisteredEmpty, StorageInv, StorageTypeOK
    <3>2. tokenPair[1] \in Nat /\ tokenPair[2] \in Nat
      BY <3>1, TokensAssumption
    <3> QED BY <3>1, <3>2
  <2>4. /\ getPoolTokens[1].token = tokenPair[1] /\ getPoolTokens[1].balance = BalanceA(tokenPair)
        /\ getPoolTokens[2].token = tokenPair[2] /\ getPoolTokens[2].balance = BalanceB(tokenPair)
    BY <2>1
  <2>5. LedgerOf[tokenPair[1]] = BalanceA(tokenPair)
    BY <2>2, <2>3, <2>4, LedgerOfList
  <2>6. LedgerOf[tokenPair[2]] = BalanceB(tokenPair)
    BY <2>2, <2>3, <2>4, LedgerOfList
  <2> QED BY <1>1, <1>3, <2>2, <2>4, <2>5, <2>6
<1> QED BY <1>2, <1>3

\* A swap may go on for the registered tokens, and reads their balances.
LEMMA SwapsRead ==
  ASSUME StorageInv, UnregisteredEmpty
  PROVE  SwapsReadTheLedger
<1> SUFFICES ASSUME NEW tokenIn \in Tokens, NEW tokenOut \in Tokens, tokenIn # tokenOut
             PROVE  /\ maySwap(tokenIn, tokenOut) <=> {tokenIn, tokenOut} \subseteq DOMAIN LedgerOf
                    /\ maySwap(tokenIn, tokenOut) =>
                         /\ swapReads(tokenIn, tokenOut).in = LedgerOf[tokenIn]
                         /\ swapReads(tokenIn, tokenOut).out = LedgerOf[tokenOut]
  BY DEF SwapsReadTheLedger
<1>1. CASE specialization = "GENERAL"
  <2>1. maySwap(tokenIn, tokenOut) <=> /\ Map!contains(generalPoolBalances, tokenIn)
                                       /\ Map!contains(generalPoolBalances, tokenOut)
    BY <1>1 DEF maySwap, mayGeneralPoolSwap, Map!contains
  <2>2. /\ swapReads(tokenIn, tokenOut).in = Map!get(generalPoolBalances, tokenIn)
        /\ swapReads(tokenIn, tokenOut).out = Map!get(generalPoolBalances, tokenOut)
    BY <1>1 DEF swapReads, generalPoolSwapReads
  <2> QED BY <1>1, <2>1, <2>2, GeneralLedger
<1>2. CASE specialization = "MINIMAL_SWAP_INFO"
  <2>1. maySwap(tokenIn, tokenOut) <=> /\ TokenSet!contains(minimalPoolTokens, tokenIn)
                                       /\ TokenSet!contains(minimalPoolTokens, tokenOut)
    BY <1>2 DEF maySwap, mayMinimalPoolSwap, hasMinimalSwapInfoPoolBalance,
                UnregisteredEmpty, EmptyBalance, isZero
  <2>2. /\ swapReads(tokenIn, tokenOut).in = minimalPoolBalances[tokenIn]
        /\ swapReads(tokenIn, tokenOut).out = minimalPoolBalances[tokenOut]
    BY <1>2 DEF swapReads, minimalPoolSwapReads
  <2> QED BY <1>2, <2>1, <2>2, MinimalLedger
<1>3. CASE specialization = "TWO_TOKEN"
  <2> DEFINE pair == sortTwoTokens(tokenIn, tokenOut)
  <2>1. maySwap(tokenIn, tokenOut) <=> hasTwoTokenPoolSharedBalances(pair)
    BY <1>3 DEF maySwap, mayTwoTokenPoolSwap
  <2>2. swapReads(tokenIn, tokenOut) = twoTokenPoolSwapReads(tokenIn, tokenOut)
    BY <1>3 DEF swapReads
  <2>3. tokenIn \in Nat /\ tokenOut \in Nat /\ tokenIn # NoToken /\ tokenOut # NoToken
    BY TokensAssumption
  <2>4. CASE hasTwoTokenPoolSharedBalances(pair)
    <3>1. tokenPair # NoPair /\ pair = tokenPair
      BY <2>4, SwappingPair DEF StorageInv
    <3>2. CASE tokenIn < tokenOut
      <4>1. tokenPair[1] = tokenIn /\ tokenPair[2] = tokenOut
        BY <3>1, <3>2 DEF sortTwoTokens
      <4>2. /\ swapReads(tokenIn, tokenOut).in = BalanceA(tokenPair)
            /\ swapReads(tokenIn, tokenOut).out = BalanceB(tokenPair)
        BY <2>2, <3>1, <3>2 DEF twoTokenPoolSwapReads
      <4> QED BY <1>3, <2>1, <2>4, <3>1, <4>1, <4>2, TwoTokenLedger
    <3>3. CASE ~(tokenIn < tokenOut)
      <4>1. tokenPair[1] = tokenOut /\ tokenPair[2] = tokenIn
        BY <3>1, <3>3 DEF sortTwoTokens
      <4>2. /\ swapReads(tokenIn, tokenOut).in = BalanceB(tokenPair)
            /\ swapReads(tokenIn, tokenOut).out = BalanceA(tokenPair)
        BY <2>2, <3>1, <3>3 DEF twoTokenPoolSwapReads
      <4> QED BY <1>3, <2>1, <2>4, <3>1, <4>1, <4>2, TwoTokenLedger
    <3> QED BY <3>2, <3>3
  <2>5. CASE ~hasTwoTokenPoolSharedBalances(pair)
    <3>1. ~({tokenIn, tokenOut} \subseteq DOMAIN LedgerOf)
      <4>1. SUFFICES ASSUME {tokenIn, tokenOut} \subseteq DOMAIN LedgerOf
                     PROVE  FALSE
        OBVIOUS
      <4>2. {tokenIn, tokenOut} \subseteq {tokenPair[1], tokenPair[2]}
        BY <1>3, <4>1, TwoTokenLedger
      <4>3. pair[1] \in {tokenIn, tokenOut} /\ pair[2] \in {tokenIn, tokenOut}
        BY DEF sortTwoTokens
      <4>4. isTwoTokenPoolTokenRegistered(pair[1]) /\ isTwoTokenPoolTokenRegistered(pair[2])
        BY <2>3, <4>2, <4>3 DEF isTwoTokenPoolTokenRegistered
      <4> QED BY <2>5, <4>4 DEF hasTwoTokenPoolSharedBalances
    <3> QED BY <2>1, <2>5, <3>1
  <2> QED BY <2>4, <2>5
<1> QED BY <1>1, <1>2, <1>3, InputsAssumption DEF StorageInv, StorageTypeOK

\* A balance that is not zero is of two registered tokens.
LEMMA NonZeroRegistered ==
  ASSUME StorageInv, UnregisteredEmpty
  PROVE  NonZeroIsRegistered
<1> SUFFICES ASSUME NEW pair \in DOMAIN pairBalances,
                    \/ isNotZero(pairBalances[pair].sharedCash)
                    \/ isNotZero(pairBalances[pair].sharedManaged)
             PROVE  /\ isTwoTokenPoolTokenRegistered(pair[1])
                    /\ isTwoTokenPoolTokenRegistered(pair[2])
  BY DEF NonZeroIsRegistered
<1>1. pair = tokenPair /\ tokenPair # NoPair
  BY DEF UnregisteredEmpty, NoWords, NoCash, NoManaged, isNotZero
<1>2. pair \in Tokens \X Tokens
  BY <1>1 DEF StorageInv, StorageTypeOK
<1>3. pair[1] # NoToken /\ pair[2] # NoToken
  BY <1>2, TokensAssumption
<1> QED BY <1>1, <1>3 DEF isTwoTokenPoolTokenRegistered
-----------------------------------------------------------------------------
\* Swaps go on exactly if both tokens are registered and read these tokens' balances,
\* though they look up neither (_processTwoTokenPoolSwapRequest and its like).
THEOREM SwapsReadBalances ==
  ASSUME NoRepeatedTokens
  PROVE  StorageSpec => []SwapsReadTheLedger
<1>1. StorageInit => StorageInv /\ UnregisteredEmpty
  BY StorageInitInv, UnregisteredInit
<1>2. StorageInv /\ UnregisteredEmpty /\ [StorageNext]_storageVars
        => (StorageInv /\ UnregisteredEmpty)'
  BY StorageNextInv, UnregisteredNext
<1>3. StorageInv /\ UnregisteredEmpty => SwapsReadTheLedger
  BY SwapsRead
<1> QED BY <1>1, <1>2, <1>3, PTL DEF StorageSpec

\* What TwoTokenPoolsBalance.sol:357 says holds as long as nobody deregisters a token
\* twice in one list, the case the run MCPoolStorage_repeats shows.
THEOREM NonZeroShowsRegistration ==
  ASSUME NoRepeatedTokens
  PROVE  StorageSpec => []NonZeroIsRegistered
<1>1. StorageInit => StorageInv /\ UnregisteredEmpty
  BY StorageInitInv, UnregisteredInit
<1>2. StorageInv /\ UnregisteredEmpty /\ [StorageNext]_storageVars
        => (StorageInv /\ UnregisteredEmpty)'
  BY StorageNextInv, UnregisteredNext
<1>3. StorageInv /\ UnregisteredEmpty => NonZeroIsRegistered
  BY NonZeroRegistered
<1> QED BY <1>1, <1>2, <1>3, PTL DEF StorageSpec

(***************************************************************************)
(* Refinement.  Each layout does what one ledger of balances by token does *)
(* (PoolLedger), step by step: LayoutsImplementLedger, at the end.         *)
(***************************************************************************)

\* The ledger's arithmetic is the storage's: both are BalanceAllocation's.
LEMMA SameArithmetic ==
  /\ Ledger!EmptyBalance = EmptyBalance
  /\ \A b : (Ledger!Fits(b) <=> Fits(b)) /\ (Ledger!isZero(b) <=> isZero(b))
  /\ \A b, amount, n :
       /\ Ledger!increaseCash(b, amount, n) = increaseCash(b, amount, n)
       /\ Ledger!decreaseCash(b, amount, n) = decreaseCash(b, amount, n)
       /\ Ledger!setManaged(b, amount, n) = setManaged(b, amount, n)
  /\ \A b, amount :
       /\ Ledger!cashToManaged(b, amount) = cashToManaged(b, amount)
       /\ Ledger!managedToCash(b, amount) = managedToCash(b, amount)
  /\ Ledger!Signed = Signed
BY DEF Ledger!EmptyBalance, EmptyBalance, Ledger!Fits, Fits, Ledger!total, total,
       Ledger!isZero, isZero, Ledger!toBalance, toBalance,
       Ledger!increaseCash, increaseCash, Ledger!decreaseCash, decreaseCash,
       Ledger!setManaged, setManaged, Ledger!cashToManaged, cashToManaged,
       Ledger!managedToCash, managedToCash, Ledger!Signed, Signed

LEMMA TwoOfThem ==
  ASSUME NEW x, NEW y, x # y
  PROVE  Ledger!Cardinality({x, y}) = 2
<1>1. Cardinality({x, y}) = 2
  <2>1. Cardinality({x}) = 1 /\ IsFiniteSet({x})
    BY FS_Singleton
  <2>2. {x, y} = {x} \union {y}
    OBVIOUS
  <2> QED BY <2>1, <2>2, FS_AddElement
<1>2. Ledger!Cardinality({x, y}) = Cardinality({x, y})
  BY DEF Ledger!Cardinality, Cardinality
<1> QED BY <1>1, <1>2

\* What setting a key's value does to a map, as a partial function.
LEMMA SetContents ==
  ASSUME NEW m \in GoodMaps, NEW key \in Tokens, NEW value \in Balance, NEW t \in Tokens
  PROVE  LET new == Map!set(m, key, value)
         IN /\ Map!contains(new, t) <=> t = key \/ Map!contains(m, t)
            /\ Map!contains(new, t) =>
                 Map!get(new, t) = IF t = key THEN value ELSE Map!get(m, t)
<1> DEFINE new == Map!set(m, key, value)
<1>1. m.entries \in Seq([key: Tokens, value: Balance]) /\ m.indexes \in [Tokens -> Nat]
  BY DEF GoodMaps, Maps
<1>2. \A k \in Tokens : m.indexes[k] # 0 =>
        m.indexes[k] \in 1..Len(m.entries) /\ m.entries[m.indexes[k]].key = k
  BY <1>1 DEF GoodMaps, Map!Consistent, Map!Keys, Map!contains
<1>e. \A i \in 1..Len(m.entries) : m.entries[i] \in [key: Tokens, value: Balance]
  <2> DEFINE Entries == [key: Tokens, value: Balance]
             list == m.entries
  <2>1. list \in Seq(Entries)
    BY <1>1
  <2>2. \A i \in 1..Len(list) : list[i] \in Entries
    <3> HIDE DEF Entries, list
    <3> QED BY <2>1
  <2> QED BY <2>2
<1>3. CASE m.indexes[key] # 0
  <2>1. new = [m EXCEPT !.entries[m.indexes[key]].value = value]
    BY <1>3 DEF Map!set, Map!contains
  <2>2. new.indexes = m.indexes
    BY <2>1 DEF GoodMaps, Maps
  <2>3. new.entries = [m.entries EXCEPT ![m.indexes[key]].value = value]
    BY <2>1 DEF GoodMaps, Maps
  <2>4. m.indexes[key] \in DOMAIN m.entries
    BY <1>1, <1>2, <1>3
  <2>5. new.entries[m.indexes[key]].value = value
    <3>1. m.entries[m.indexes[key]] \in [key: Tokens, value: Balance]
      BY <1>2, <1>3, <1>e
    <3> QED BY <2>3, <2>4, <3>1
  <2>6. ASSUME t # key, m.indexes[t] # 0 PROVE new.entries[m.indexes[t]] = m.entries[m.indexes[t]]
    <3>1. m.indexes[t] # m.indexes[key]
      BY <1>2, <1>3, <2>6
    <3>2. m.indexes[t] \in DOMAIN m.entries
      BY <1>1, <1>2, <2>6
    <3> QED BY <2>3, <3>1, <3>2
  <2> QED BY <1>3, <2>2, <2>5, <2>6 DEF Map!contains, Map!get
<1>4. CASE m.indexes[key] = 0
  <2>1. new = [entries |-> Append(m.entries, [key |-> key, value |-> value]),
               indexes |-> [m.indexes EXCEPT ![key] = Len(m.entries) + 1]]
    BY <1>4 DEF Map!set, Map!contains
  <2>2. /\ new.entries = Append(m.entries, [key |-> key, value |-> value])
        /\ new.indexes = [m.indexes EXCEPT ![key] = Len(m.entries) + 1]
    BY <2>1
  <2>3. Len(m.entries) \in Nat
    BY <1>1
  <2>4. new.indexes[key] = Len(m.entries) + 1 /\ new.entries[Len(m.entries) + 1].value = value
    BY <1>1, <2>2
  <2>5. ASSUME t # key, m.indexes[t] # 0
        PROVE  new.indexes[t] = m.indexes[t] /\ new.entries[m.indexes[t]] = m.entries[m.indexes[t]]
    BY <1>1, <1>2, <2>2, <2>5
  <2>6. t # key => new.indexes[t] = m.indexes[t]
    BY <1>1, <2>2
  <2> QED BY <1>4, <2>3, <2>4, <2>5, <2>6 DEF Map!contains, Map!get
<1> QED BY <1>1, <1>3, <1>4

\* What removing a key does to a map.
LEMMA RemoveContents ==
  ASSUME NEW m \in GoodMaps, NEW key \in Tokens, Map!contains(m, key), NEW t \in Tokens
  PROVE  LET new == Map!remove(m, key)
         IN /\ Map!contains(new, t) <=> t # key /\ Map!contains(m, t)
            /\ Map!contains(new, t) => Map!get(new, t) = Map!get(m, t)
<1> DEFINE new == Map!remove(m, key)
           n == Len(m.entries)
           last == m.entries[n]
<1>1. m.entries \in Seq([key: Tokens, value: Balance]) /\ m.indexes \in [Tokens -> Nat]
  BY DEF GoodMaps, Maps
<1>2. \A k \in Tokens : m.indexes[k] # 0 =>
        m.indexes[k] \in 1..n /\ m.entries[m.indexes[k]].key = k
  BY <1>1 DEF GoodMaps, Map!Consistent, Map!Keys, Map!contains
<1>3. \A i \in 1..n : m.entries[i].key \in Tokens /\ m.indexes[m.entries[i].key] = i
  BY <1>1 DEF GoodMaps, Map!Consistent
<1>4. m.indexes[key] \in 1..n /\ n \in Nat
  BY <1>1, <1>2 DEF Map!contains
<1>5. last.key \in Tokens /\ m.indexes[last.key] = n
  BY <1>3, <1>4
<1>6. /\ new.entries = [i \in 1..(n - 1) |-> IF i = m.indexes[key] THEN last ELSE m.entries[i]]
      /\ new.indexes = [m.indexes EXCEPT ![last.key] = m.indexes[key], ![key] = 0]
  BY DEF Map!remove
<1> HIDE DEF new, last, n
<1>7. CASE t = key
  <2>1. new.indexes[t] = 0
    BY <1>1, <1>6, <1>7
  <2> QED BY <1>7, <2>1 DEF Map!contains, new
<1>8. CASE t # key /\ t = last.key
  <2>1. new.indexes[t] = m.indexes[key]
    BY <1>1, <1>6, <1>8
  <2>2. m.indexes[key] # n
    <3>1. m.entries[m.indexes[key]].key = key
      BY <1>2, <1>4
    <3> QED BY <1>8, <3>1 DEF last
  <2>3. new.entries[m.indexes[key]] = last
    BY <1>4, <1>6, <2>2
  <2>4. m.indexes[t] = n /\ n # 0
    BY <1>4, <1>5, <1>8
  <2>5. Map!contains(m, t) /\ Map!contains(new, t)
    BY <1>4, <2>1, <2>4 DEF Map!contains
  <2>6. Map!get(m, t) = last.value /\ Map!get(new, t) = last.value
    BY <2>1, <2>3, <2>4 DEF Map!get, last
  <2> QED BY <1>8, <2>5, <2>6 DEF new
<1>9. CASE t # key /\ t # last.key
  <2>1. new.indexes[t] = m.indexes[t]
    BY <1>1, <1>6, <1>9
  <2>2. ASSUME m.indexes[t] # 0 PROVE new.entries[m.indexes[t]] = m.entries[m.indexes[t]]
    <3>1. m.indexes[t] \in 1..n /\ m.entries[m.indexes[t]].key = t
      BY <1>2, <2>2
    <3>2. m.indexes[t] # n /\ m.indexes[t] # m.indexes[key]
      BY <1>2, <1>4, <1>9, <3>1 DEF last
    <3> QED BY <1>4, <1>6, <3>1, <3>2
  <2> QED BY <1>9, <2>1, <2>2 DEF Map!contains, Map!get, new
<1> QED BY <1>7, <1>8, <1>9

\* The tokens of a list.
Listed(tokens) == {tokens[n] : n \in 1..Len(tokens)}

\* What the loops of registerTokens and deregisterTokens do to a General Pool's map.
LEMMA RegisteredMapContents ==
  ASSUME NEW start \in GoodMaps, NEW tokens \in Seq(Tokens),
         \A n \in 1..Len(tokens) : ~Map!contains(MapsAdding(start, tokens)[n - 1], tokens[n])
  PROVE  LET end == MapsAdding(start, tokens)[Len(tokens)]
         IN \A t \in Tokens :
              /\ t \in Listed(tokens) => ~Map!contains(start, t)
              /\ Map!contains(end, t) <=> t \in Listed(tokens) \/ Map!contains(start, t)
              /\ Map!contains(end, t) =>
                   Map!get(end, t) = IF t \in Listed(tokens) THEN EmptyBalance
                                     ELSE Map!get(start, t)
<1> DEFINE after == MapsAdding(start, tokens)
           N == Len(tokens)
           UpTo(n) == {tokens[i] : i \in 1..n}
           Contents(n) ==
             \A t \in Tokens :
               /\ Map!contains(after[n], t) <=> t \in UpTo(n) \/ Map!contains(start, t)
               /\ Map!contains(after[n], t) =>
                    Map!get(after[n], t) = IF t \in UpTo(n) THEN EmptyBalance
                                           ELSE Map!get(start, t)
           Done == {n \in Nat : n <= N => after[n] \in GoodMaps /\ Contents(n)}
<1>1. N \in Nat /\ \A n \in 1..N : tokens[n] \in Tokens
  OBVIOUS
<1>2. after[0] = start /\ \A n \in 1..N : after[n] = Map!set(after[n - 1], tokens[n], EmptyBalance)
  BY MapsAddingLoop
<1>3. EmptyBalance \in Balance
  BY TotalCapAssumption DEF EmptyBalance, Balance
<1>4. \A n \in 1..N : ~Map!contains(after[n - 1], tokens[n])
  OBVIOUS
<1> HIDE DEF after, N
<1>5. 0 \in Done
  BY <1>2
<1>6. ASSUME NEW n \in Nat, n \in Done PROVE n + 1 \in Done
  <2> SUFFICES ASSUME n + 1 <= N PROVE after[n + 1] \in GoodMaps /\ Contents(n + 1)
    OBVIOUS
  <2> DEFINE key == tokens[n + 1]
  <2>1. n <= N /\ n + 1 \in 1..N /\ (n + 1) - 1 = n
    BY <1>1
  <2>2. after[n] \in GoodMaps /\ Contents(n)
    BY <1>6, <2>1
  <2>3. key \in Tokens /\ after[n + 1] = Map!set(after[n], key, EmptyBalance)
    BY <1>1, <1>2, <2>1
  <2>4. UpTo(n + 1) = UpTo(n) \union {key}
    <3>1. 1..(n + 1) = 1..n \union {n + 1}
      OBVIOUS
    <3> QED BY <3>1
  <2> HIDE DEF key, UpTo
  <2>5. after[n + 1] \in GoodMaps
    BY <1>3, <2>2, <2>3, SetGood
  <2>6. ASSUME NEW t \in Tokens
        PROVE  /\ Map!contains(after[n + 1], t) <=> t = key \/ Map!contains(after[n], t)
               /\ Map!contains(after[n + 1], t) =>
                    Map!get(after[n + 1], t) = IF t = key THEN EmptyBalance
                                               ELSE Map!get(after[n], t)
    BY <1>3, <2>2, <2>3, SetContents
  <2> QED BY <2>2, <2>4, <2>5, <2>6
<1>7. \A n \in 0..N : Contents(n)
  <2>1. Nat \subseteq Done
    <3> HIDE DEF Done
    <3> QED BY <1>5, <1>6, SetInduction
  <2>2. \A n \in 0..N : n \in Nat /\ n <= N
    BY <1>1
  <2> HIDE DEF Contents
  <2> QED BY <2>1, <2>2
<1>8. UpTo(N) = Listed(tokens)
  BY DEF Listed, N
<1>9. ASSUME NEW t \in Listed(tokens) PROVE ~Map!contains(start, t)
  <2>1. PICK n \in 1..N : tokens[n] = t
    BY DEF Listed, N
  <2>2. n - 1 \in 0..N /\ ~Map!contains(after[n - 1], t) /\ t \in Tokens
    BY <1>1, <1>4, <2>1
  <2> QED BY <1>7, <2>2
<1> QED BY <1>1, <1>7, <1>8, <1>9 DEF after, N

LEMMA DeregisteredMapContents ==
  ASSUME NEW start \in GoodMaps, NEW tokens \in Seq(Tokens),
         \A n \in 1..Len(tokens) :
           LET map == MapsRemoving(start, tokens)[n - 1]
           IN Map!contains(map, tokens[n]) /\ isZero(Map!get(map, tokens[n]))
  PROVE  LET end == MapsRemoving(start, tokens)[Len(tokens)]
         IN \A t \in Tokens :
              /\ t \in Listed(tokens) => Map!contains(start, t) /\ isZero(Map!get(start, t))
              /\ Map!contains(end, t) <=> t \notin Listed(tokens) /\ Map!contains(start, t)
              /\ Map!contains(end, t) => Map!get(end, t) = Map!get(start, t)
<1> DEFINE after == MapsRemoving(start, tokens)
           N == Len(tokens)
           UpTo(n) == {tokens[i] : i \in 1..n}
           Contents(n) ==
             \A t \in Tokens :
               /\ Map!contains(after[n], t) <=> t \notin UpTo(n) /\ Map!contains(start, t)
               /\ Map!contains(after[n], t) => Map!get(after[n], t) = Map!get(start, t)
           Done == {n \in Nat : n <= N => after[n] \in GoodMaps /\ Contents(n)}
<1>1. N \in Nat /\ \A n \in 1..N : tokens[n] \in Tokens
  OBVIOUS
<1>2. after[0] = start /\ \A n \in 1..N : after[n] = Map!remove(after[n - 1], tokens[n])
  BY MapsRemovingLoop DEF GoodMaps
<1>3. \A n \in 1..N : Map!contains(after[n - 1], tokens[n]) /\ isZero(Map!get(after[n - 1], tokens[n]))
  OBVIOUS
<1> HIDE DEF after, N
<1>4. 0 \in Done
  BY <1>2
<1>5. ASSUME NEW n \in Nat, n \in Done PROVE n + 1 \in Done
  <2> SUFFICES ASSUME n + 1 <= N PROVE after[n + 1] \in GoodMaps /\ Contents(n + 1)
    OBVIOUS
  <2> DEFINE key == tokens[n + 1]
  <2>1. n <= N /\ n + 1 \in 1..N /\ (n + 1) - 1 = n
    BY <1>1
  <2>2. after[n] \in GoodMaps /\ Contents(n)
    BY <1>5, <2>1
  <2>3. key \in Tokens /\ after[n + 1] = Map!remove(after[n], key) /\ Map!contains(after[n], key)
    BY <1>1, <1>2, <1>3, <2>1
  <2>4. UpTo(n + 1) = UpTo(n) \union {key}
    <3>1. 1..(n + 1) = 1..n \union {n + 1}
      OBVIOUS
    <3> QED BY <3>1
  <2> HIDE DEF key, UpTo
  <2>5. after[n + 1] \in GoodMaps
    BY <2>2, <2>3, RemoveGood
  <2>6. ASSUME NEW t \in Tokens
        PROVE  /\ Map!contains(after[n + 1], t) <=> t # key /\ Map!contains(after[n], t)
               /\ Map!contains(after[n + 1], t) => Map!get(after[n + 1], t) = Map!get(after[n], t)
    BY <2>2, <2>3, RemoveContents
  <2> QED BY <2>2, <2>4, <2>5, <2>6
<1>6. \A n \in 0..N : Contents(n)
  <2>1. Nat \subseteq Done
    <3> HIDE DEF Done
    <3> QED BY <1>4, <1>5, SetInduction
  <2> QED BY <1>1, <2>1
<1>7. UpTo(N) = Listed(tokens)
  BY DEF Listed, N
<1>8. ASSUME NEW t \in Listed(tokens) PROVE Map!contains(start, t) /\ isZero(Map!get(start, t))
  <2>1. PICK n \in 1..N : tokens[n] = t
    BY DEF Listed, N
  <2>2. /\ n - 1 \in 0..N /\ t \in Tokens
        /\ Map!contains(after[n - 1], t) /\ isZero(Map!get(after[n - 1], t))
    BY <1>1, <1>3, <2>1
  <2> QED BY <1>6, <2>2
<1> QED BY <1>1, <1>6, <1>7, <1>8 DEF after, N

\* The same of a Minimal Swap Info Pool's set.
LEMMA RegisteredSetContents ==
  ASSUME NEW start \in GoodSets, NEW tokens \in Seq(Tokens),
         \A n \in 1..Len(tokens) : ~TokenSet!contains(SetsAdding(start, tokens)[n - 1], tokens[n])
  PROVE  LET end == SetsAdding(start, tokens)[Len(tokens)]
         IN \A t \in Tokens :
              /\ t \in Listed(tokens) => ~TokenSet!contains(start, t)
              /\ TokenSet!contains(end, t) <=> t \in Listed(tokens) \/ TokenSet!contains(start, t)
<1> DEFINE after == SetsAdding(start, tokens)
           N == Len(tokens)
           UpTo(n) == {tokens[i] : i \in 1..n}
           Contents(n) ==
             \A t \in Tokens :
               TokenSet!contains(after[n], t) <=> t \in UpTo(n) \/ TokenSet!contains(start, t)
           Done == {n \in Nat : n <= N => after[n] \in GoodSets /\ Contents(n)}
<1>1. N \in Nat /\ \A n \in 1..N : tokens[n] \in Tokens
  OBVIOUS
<1>2. after[0] = start /\ \A n \in 1..N : after[n] = TokenSet!add(after[n - 1], tokens[n])
  BY SetsAddingLoop DEF GoodSets
<1>3. \A n \in 1..N : ~TokenSet!contains(after[n - 1], tokens[n])
  OBVIOUS
<1> HIDE DEF after, N
<1>4. 0 \in Done
  BY <1>2
<1>5. ASSUME NEW n \in Nat, n \in Done PROVE n + 1 \in Done
  <2> SUFFICES ASSUME n + 1 <= N PROVE after[n + 1] \in GoodSets /\ Contents(n + 1)
    OBVIOUS
  <2> DEFINE v == tokens[n + 1]
  <2>1. n <= N /\ n + 1 \in 1..N /\ (n + 1) - 1 = n
    BY <1>1
  <2>2. after[n] \in GoodSets /\ Contents(n)
    BY <1>5, <2>1
  <2>3. v \in Tokens /\ after[n + 1] = TokenSet!add(after[n], v) /\ ~TokenSet!contains(after[n], v)
    BY <1>1, <1>2, <1>3, <2>1
  <2>4. UpTo(n + 1) = UpTo(n) \union {v}
    <3>1. 1..(n + 1) = 1..n \union {n + 1}
      OBVIOUS
    <3> QED BY <3>1
  <2> HIDE DEF v, UpTo
  <2>5. after[n + 1] \in GoodSets
    BY <2>2, <2>3, AddGood
  <2>6. \A t \in Tokens : TokenSet!contains(after[n + 1], t) <=> t = v \/ TokenSet!contains(after[n], t)
    BY <2>2, <2>3, AddMembers
  <2> QED BY <2>2, <2>4, <2>5, <2>6
<1>6. \A n \in 0..N : Contents(n)
  <2>1. Nat \subseteq Done
    <3> HIDE DEF Done
    <3> QED BY <1>4, <1>5, SetInduction
  <2> QED BY <1>1, <2>1
<1>7. UpTo(N) = Listed(tokens)
  BY DEF Listed, N
<1>8. ASSUME NEW t \in Listed(tokens) PROVE ~TokenSet!contains(start, t)
  <2>1. PICK n \in 1..N : tokens[n] = t
    BY DEF Listed, N
  <2>2. n - 1 \in 0..N /\ t \in Tokens /\ ~TokenSet!contains(after[n - 1], t)
    BY <1>1, <1>3, <2>1
  <2> QED BY <1>6, <2>2
<1> QED BY <1>1, <1>6, <1>7, <1>8 DEF after, N

LEMMA DeregisteredSetContents ==
  ASSUME NEW start \in GoodSets, NEW tokens \in Seq(Tokens),
         \A n \in 1..Len(tokens) : TokenSet!contains(SetsRemoving(start, tokens)[n - 1], tokens[n])
  PROVE  LET end == SetsRemoving(start, tokens)[Len(tokens)]
         IN \A t \in Tokens :
              /\ t \in Listed(tokens) => TokenSet!contains(start, t)
              /\ TokenSet!contains(end, t) <=> t \notin Listed(tokens) /\ TokenSet!contains(start, t)
<1> DEFINE after == SetsRemoving(start, tokens)
           N == Len(tokens)
           UpTo(n) == {tokens[i] : i \in 1..n}
           Contents(n) ==
             \A t \in Tokens :
               TokenSet!contains(after[n], t) <=> t \notin UpTo(n) /\ TokenSet!contains(start, t)
           Done == {n \in Nat : n <= N => after[n] \in GoodSets /\ Contents(n)}
<1>1. N \in Nat /\ \A n \in 1..N : tokens[n] \in Tokens
  OBVIOUS
<1>2. after[0] = start /\ \A n \in 1..N : after[n] = TokenSet!remove(after[n - 1], tokens[n])
  BY SetsRemovingLoop DEF GoodSets
<1>3. \A n \in 1..N : TokenSet!contains(after[n - 1], tokens[n])
  OBVIOUS
<1> HIDE DEF after, N
<1>4. 0 \in Done
  BY <1>2
<1>5. ASSUME NEW n \in Nat, n \in Done PROVE n + 1 \in Done
  <2> SUFFICES ASSUME n + 1 <= N PROVE after[n + 1] \in GoodSets /\ Contents(n + 1)
    OBVIOUS
  <2> DEFINE v == tokens[n + 1]
  <2>1. n <= N /\ n + 1 \in 1..N /\ (n + 1) - 1 = n
    BY <1>1
  <2>2. after[n] \in GoodSets /\ Contents(n)
    BY <1>5, <2>1
  <2>3. v \in Tokens /\ after[n + 1] = TokenSet!remove(after[n], v) /\ TokenSet!contains(after[n], v)
    BY <1>1, <1>2, <1>3, <2>1
  <2>4. UpTo(n + 1) = UpTo(n) \union {v}
    <3>1. 1..(n + 1) = 1..n \union {n + 1}
      OBVIOUS
    <3> QED BY <3>1
  <2> HIDE DEF v, UpTo
  <2>5. after[n + 1] \in GoodSets
    BY <2>2, <2>3, SetRemoveGood
  <2>6. \A t \in Tokens : TokenSet!contains(after[n + 1], t) <=> t # v /\ TokenSet!contains(after[n], t)
    BY <2>2, <2>3, SetRemoveMembers
  <2> QED BY <2>2, <2>4, <2>5, <2>6
<1>6. \A n \in 0..N : Contents(n)
  <2>1. Nat \subseteq Done
    <3> HIDE DEF Done
    <3> QED BY <1>4, <1>5, SetInduction
  <2> QED BY <1>1, <2>1
<1>7. UpTo(N) = Listed(tokens)
  BY DEF Listed, N
<1>8. ASSUME NEW t \in Listed(tokens) PROVE TokenSet!contains(start, t)
  <2>1. PICK n \in 1..N : tokens[n] = t
    BY DEF Listed, N
  <2>2. n - 1 \in 0..N /\ t \in Tokens /\ TokenSet!contains(after[n - 1], t)
    BY <1>1, <1>3, <2>1
  <2> QED BY <1>6, <2>2
<1> QED BY <1>1, <1>6, <1>7, <1>8 DEF after, N
-----------------------------------------------------------------------------
\* The ledger without its lists: which tokens are registered, and where each
\* one's balance is.
Registered == {t \in Tokens : isTokenRegistered(t)}
BalanceOf(t) ==
  CASE specialization = "TWO_TOKEN"         -> IF t = tokenPair[1] THEN BalanceA(tokenPair)
                                                                   ELSE BalanceB(tokenPair)
    [] specialization = "MINIMAL_SWAP_INFO" -> minimalPoolBalances[t]
    [] specialization = "GENERAL"           -> Map!get(generalPoolBalances, t)

\* A token's position in the list that getPoolTokens gives.
IndexOf(t) == CHOOSE i \in DOMAIN getPoolTokens : getPoolTokens[i].token = t

\* getPoolTokens lists the registered tokens, each once, with their balances.
ListsRegistered ==
  /\ \A i \in DOMAIN getPoolTokens :
       /\ getPoolTokens[i].token \in Registered
       /\ IndexOf(getPoolTokens[i].token) = i
       /\ getPoolTokens[i].balance = BalanceOf(getPoolTokens[i].token)
  /\ \A t \in Registered :
       IndexOf(t) \in DOMAIN getPoolTokens /\ getPoolTokens[IndexOf(t)].token = t

LEMMA ListedOnce ==
  ASSUME NEW t, NEW n \in DOMAIN getPoolTokens, getPoolTokens[n].token = t,
         \A i \in DOMAIN getPoolTokens : getPoolTokens[i].token = t => i = n
  PROVE  IndexOf(t) = n
BY DEF IndexOf

LEMMA GeneralListing ==
  ASSUME StorageInv, specialization = "GENERAL"
  PROVE  /\ ListsRegistered
         /\ \A t \in Registered : IndexOf(t) = generalPoolBalances.indexes[t]
<1> DEFINE m == generalPoolBalances
<1>1. getPoolTokens = [i \in 1..Len(m.entries) |->
                         [token |-> m.entries[i].key, balance |-> m.entries[i].value]]
  BY DEF getPoolTokens, getGeneralPoolTokens
<1>2. \A i \in 1..Len(m.entries) : m.entries[i].key \in Tokens /\ m.indexes[m.entries[i].key] = i
  BY DEF StorageInv, StorageTypeOK, CollectionsConsistent, Map!Consistent
<1>3. \A t \in Tokens : m.indexes[t] # 0 =>
        m.indexes[t] \in 1..Len(m.entries) /\ m.entries[m.indexes[t]].key = t
  BY DEF StorageInv, StorageTypeOK, CollectionsConsistent, Map!Consistent, Map!Keys, Map!contains
<1>4. \A t \in Tokens : t \in Registered <=> m.indexes[t] # 0
  BY DEF Registered, isTokenRegistered, Map!contains
<1>5. \A t : BalanceOf(t) = m.entries[m.indexes[t]].value
  BY DEF BalanceOf, Map!get
<1>6. DOMAIN getPoolTokens = 1..Len(m.entries)
  BY <1>1
<1>7. \A i \in 1..Len(m.entries) :
        getPoolTokens[i].token = m.entries[i].key /\ getPoolTokens[i].balance = m.entries[i].value
  BY <1>1
<1> HIDE DEF m
<1>8. ASSUME NEW i \in DOMAIN getPoolTokens
      PROVE  /\ getPoolTokens[i].token \in Registered
             /\ IndexOf(getPoolTokens[i].token) = i
             /\ getPoolTokens[i].balance = BalanceOf(getPoolTokens[i].token)
  <2> DEFINE t == getPoolTokens[i].token
  <2>1. t \in Tokens /\ m.indexes[t] = i /\ t = m.entries[i].key
    BY <1>2, <1>6, <1>7
  <2>2. \A j \in DOMAIN getPoolTokens : getPoolTokens[j].token = t => j = i
    BY <1>2, <1>6, <1>7, <2>1
  <2>3. IndexOf(t) = i
    BY <2>2, ListedOnce
  <2>4. i # 0
    BY <1>6
  <2> QED BY <1>4, <1>5, <1>6, <1>7, <2>1, <2>3, <2>4
<1>9. ASSUME NEW t \in Registered
      PROVE  /\ IndexOf(t) \in DOMAIN getPoolTokens /\ getPoolTokens[IndexOf(t)].token = t
             /\ IndexOf(t) = m.indexes[t]
  <2>1. t \in Tokens
    BY DEF Registered
  <2>2. m.indexes[t] \in DOMAIN getPoolTokens /\ getPoolTokens[m.indexes[t]].token = t
    BY <1>3, <1>4, <1>6, <1>7, <2>1
  <2> QED BY <1>8, <2>2
<1> QED BY <1>8, <1>9 DEF ListsRegistered, m

LEMMA MinimalListing ==
  ASSUME StorageInv, specialization = "MINIMAL_SWAP_INFO"
  PROVE  ListsRegistered
<1> DEFINE s == minimalPoolTokens
<1>1. getPoolTokens = [i \in 1..Len(s.values) |->
                         [token |-> s.values[i], balance |-> minimalPoolBalances[s.values[i]]]]
  BY DEF getPoolTokens, getMinimalSwapInfoPoolTokens
<1>2. \A i \in 1..Len(s.values) : s.values[i] \in Tokens /\ s.indexes[s.values[i]] = i
  BY DEF StorageInv, StorageTypeOK, CollectionsConsistent, TokenSet!Consistent
<1>3. \A t \in Tokens : s.indexes[t] # 0 =>
        s.indexes[t] \in 1..Len(s.values) /\ s.values[s.indexes[t]] = t
  BY DEF StorageInv, StorageTypeOK, CollectionsConsistent, TokenSet!Consistent,
         TokenSet!Members, TokenSet!contains
<1>4. \A t \in Tokens : t \in Registered <=> s.indexes[t] # 0
  BY DEF Registered, isTokenRegistered, TokenSet!contains
<1>5. \A t : BalanceOf(t) = minimalPoolBalances[t]
  BY DEF BalanceOf
<1>6. DOMAIN getPoolTokens = 1..Len(s.values)
  BY <1>1
<1>7. \A i \in 1..Len(s.values) :
        /\ getPoolTokens[i].token = s.values[i]
        /\ getPoolTokens[i].balance = minimalPoolBalances[s.values[i]]
  BY <1>1
<1> HIDE DEF s
<1>8. ASSUME NEW i \in DOMAIN getPoolTokens
      PROVE  /\ getPoolTokens[i].token \in Registered
             /\ IndexOf(getPoolTokens[i].token) = i
             /\ getPoolTokens[i].balance = BalanceOf(getPoolTokens[i].token)
  <2> DEFINE t == getPoolTokens[i].token
  <2>1. t \in Tokens /\ s.indexes[t] = i /\ t = s.values[i]
    BY <1>2, <1>6, <1>7
  <2>2. \A j \in DOMAIN getPoolTokens : getPoolTokens[j].token = t => j = i
    BY <1>2, <1>6, <1>7, <2>1
  <2>3. IndexOf(t) = i
    BY <2>2, ListedOnce
  <2>4. i # 0
    BY <1>6
  <2> QED BY <1>4, <1>5, <1>6, <1>7, <2>1, <2>3, <2>4
<1>9. ASSUME NEW t \in Registered
      PROVE  IndexOf(t) \in DOMAIN getPoolTokens /\ getPoolTokens[IndexOf(t)].token = t
  <2>1. t \in Tokens
    BY DEF Registered
  <2>2. s.indexes[t] \in DOMAIN getPoolTokens /\ getPoolTokens[s.indexes[t]].token = t
    BY <1>3, <1>4, <1>6, <1>7, <2>1
  <2> QED BY <1>8, <2>2
<1> QED BY <1>8, <1>9 DEF ListsRegistered

\* The two tokens of a pair are registered, and differ.
LEMMA PairRegistered ==
  ASSUME StorageInv, UnregisteredEmpty, specialization = "TWO_TOKEN"
  PROVE  /\ tokenPair = NoPair => Registered = {}
         /\ tokenPair # NoPair =>
              /\ tokenPair \in Tokens \X Tokens /\ tokenPair = <<tokenPair[1], tokenPair[2]>>
              /\ tokenPair[1] < tokenPair[2] /\ tokenPair[1] # tokenPair[2]
              /\ Registered = {tokenPair[1], tokenPair[2]}
              /\ BalanceOf(tokenPair[1]) = BalanceA(tokenPair)
              /\ BalanceOf(tokenPair[2]) = BalanceB(tokenPair)
<1>1. CASE tokenPair = NoPair
  BY <1>1 DEF Registered, isTokenRegistered, isTwoTokenPoolTokenRegistered, NoPair
<1>2. CASE tokenPair # NoPair
  <2>1. tokenPair[1] < tokenPair[2] /\ tokenPair \in Tokens \X Tokens
    BY <1>2 DEF UnregisteredEmpty, StorageInv, StorageTypeOK
  <2>2. PICK a \in Tokens, b \in Tokens : tokenPair = <<a, b>>
    BY <2>1
  <2>3. a \in Nat /\ b \in Nat /\ a # NoToken /\ b # NoToken
    BY TokensAssumption
  <2>4. tokenPair[1] = a /\ tokenPair[2] = b /\ a # b
    BY <2>1, <2>2, <2>3
  <2>5. Registered = {a, b}
    BY <2>3, <2>4 DEF Registered, isTokenRegistered, isTwoTokenPoolTokenRegistered
  <2>6. BalanceOf(a) = BalanceA(tokenPair) /\ BalanceOf(b) = BalanceB(tokenPair)
    BY <2>4 DEF BalanceOf
  <2> QED BY <1>2, <2>1, <2>2, <2>4, <2>5, <2>6
<1> QED BY <1>1, <1>2

LEMMA TwoTokenListing ==
  ASSUME StorageInv, UnregisteredEmpty, specialization = "TWO_TOKEN"
  PROVE  /\ ListsRegistered
         /\ tokenPair # NoPair => IndexOf(tokenPair[1]) = 1 /\ IndexOf(tokenPair[2]) = 2
<1>1. CASE tokenPair = NoPair
  <2>1. getPoolTokens = <<>> /\ Registered = {}
    BY <1>1, PairRegistered DEF getPoolTokens, getTwoTokenPoolTokens
  <2> QED BY <1>1, <2>1 DEF ListsRegistered
<1>2. CASE tokenPair # NoPair
  <2> DEFINE a == tokenPair[1]
             b == tokenPair[2]
  <2>1. getPoolTokens = <<[token |-> a, balance |-> BalanceA(tokenPair)],
                          [token |-> b, balance |-> BalanceB(tokenPair)]>>
    BY <1>2 DEF getPoolTokens, getTwoTokenPoolTokens
  <2>2. DOMAIN getPoolTokens = {1, 2}
    BY <2>1
  <2>3. /\ getPoolTokens[1].token = a /\ getPoolTokens[1].balance = BalanceA(tokenPair)
        /\ getPoolTokens[2].token = b /\ getPoolTokens[2].balance = BalanceB(tokenPair)
    BY <2>1
  <2>4. /\ a # b /\ Registered = {a, b}
        /\ BalanceOf(a) = BalanceA(tokenPair) /\ BalanceOf(b) = BalanceB(tokenPair)
    BY <1>2, PairRegistered
  <2> HIDE DEF a, b
  <2>5. IndexOf(a) = 1
    BY <2>2, <2>3, <2>4, ListedOnce
  <2>6. IndexOf(b) = 2
    BY <2>2, <2>3, <2>4, ListedOnce
  <2> QED BY <2>2, <2>3, <2>4, <2>5, <2>6 DEF ListsRegistered, a, b
<1> QED BY <1>1, <1>2

LEMMA Listing ==
  ASSUME StorageInv, UnregisteredEmpty
  PROVE  ListsRegistered
BY GeneralListing, MinimalListing, TwoTokenListing, InputsAssumption
   DEF StorageInv, StorageTypeOK

\* So that is the ledger.
LedgerView == LedgerOf = [t \in Registered |-> BalanceOf(t)]

LEMMA Viewed == StorageInv /\ UnregisteredEmpty => LedgerView
<1> SUFFICES ASSUME StorageInv, UnregisteredEmpty PROVE LedgerView
  OBVIOUS
<1>1. ListsRegistered
  BY Listing
<1>2. TokensListed = Registered
  BY <1>1 DEF ListsRegistered, TokensListed
<1>3. \A t \in Registered : getPoolTokens[IndexOf(t)].balance = BalanceOf(t)
  BY <1>1 DEF ListsRegistered
<1>4. LedgerOf = [t \in TokensListed |-> getPoolTokens[IndexOf(t)].balance]
  BY DEF LedgerOf, IndexOf
<1> QED BY <1>2, <1>3, <1>4 DEF LedgerView
-----------------------------------------------------------------------------
\* What a step of the storage is to the ledger.
LedgerStep == [Ledger!LedgerNext]_(Ledger!ledgerVars)

\* No total is too large, no word is of a block to come: what the ledger's operations
\* ask of the balances they leave alone.
LedgerFits == \A t \in Registered : Fits(BalanceOf(t))
BlocksPast == \A pair \in DOMAIN pairBalances : pairBalances[pair].sharedCash.block <= block

LEMMA NoLedgerStep ==
  ASSUME UNCHANGED <<layoutVars, specialization>>
  PROVE  LedgerOf' = LedgerOf /\ (LedgerFits => LedgerFits')
<1>1. LedgerOf' = LedgerOf
  BY SameReads DEF LedgerOf, TokensListed
<1>2. Registered' = Registered /\ \A t : BalanceOf(t)' = BalanceOf(t)
  BY DEF Registered, isTokenRegistered, isTwoTokenPoolTokenRegistered, BalanceOf, BalanceA,
         BalanceB, layoutVars
<1> QED BY <1>1, <1>2 DEF LedgerFits

\* Tokens that come, with nothing.
LEMMA LedgerRegisters ==
  ASSUME LedgerView, LedgerView', LedgerFits, UNCHANGED <<specialization, block>>,
         NEW ts \in SUBSET Tokens,
         ts \intersect Registered = {}, Registered' = Registered \union ts,
         \A t \in Registered \union ts :
           BalanceOf(t)' = IF t \in ts THEN EmptyBalance ELSE BalanceOf(t),
         specialization = "TWO_TOKEN" =>
           Registered = {} /\ \E x, y : x # y /\ ts = {x, y}
  PROVE  LedgerStep /\ LedgerFits'
<1>1. DOMAIN LedgerOf = Registered /\ \A t \in Registered : LedgerOf[t] = BalanceOf(t)
  BY DEF LedgerView
<1>2. LedgerOf' = [t \in Registered \union ts |-> BalanceOf(t)']
  BY DEF LedgerView
<1>3. LedgerOf' = [t \in DOMAIN LedgerOf \union ts |->
                     IF t \in ts THEN Ledger!EmptyBalance ELSE LedgerOf[t]]
  BY <1>1, <1>2, SameArithmetic
<1>4. ASSUME specialization = "TWO_TOKEN" PROVE Ledger!Cardinality(ts) = 2 /\ DOMAIN LedgerOf = {}
  <2>1. PICK x, y : x # y /\ ts = {x, y}
    BY <1>4
  <2> QED BY <1>1, <1>4, <2>1, TwoOfThem
<1>5. Ledger!Register(ts)
  BY <1>1, <1>3, <1>4 DEF Ledger!Register
<1>6. LedgerStep
  BY <1>5 DEF LedgerStep, Ledger!LedgerNext
<1>7. Fits(EmptyBalance)
  BY TotalCapAssumption DEF Fits, EmptyBalance, total
<1>8. LedgerFits'
  <2>1. \A t \in Registered \union ts : Fits(BalanceOf(t)')
    BY <1>7 DEF LedgerFits
  <2>2. LedgerFits' <=> \A t \in Registered' : Fits(BalanceOf(t)')
    BY DEF LedgerFits, Fits, total
  <2> QED BY <2>1, <2>2
<1> QED BY <1>6, <1>8

\* Tokens that go, with nothing left.
LEMMA LedgerDeregisters ==
  ASSUME LedgerView, LedgerView', LedgerFits, UNCHANGED <<specialization, block>>,
         NEW ts \in SUBSET Tokens,
         ts \subseteq Registered, Registered' = Registered \ ts,
         \A t \in ts : isZero(BalanceOf(t)),
         \A t \in Registered \ ts : BalanceOf(t)' = BalanceOf(t),
         specialization = "TWO_TOKEN" => \E x, y : x # y /\ ts = {x, y}
  PROVE  LedgerStep /\ LedgerFits'
<1>1. DOMAIN LedgerOf = Registered /\ \A t \in Registered : LedgerOf[t] = BalanceOf(t)
  BY DEF LedgerView
<1>2. LedgerOf' = [t \in Registered \ ts |-> BalanceOf(t)']
  BY DEF LedgerView
<1>3. LedgerOf' = [t \in DOMAIN LedgerOf \ ts |-> LedgerOf[t]]
  BY <1>1, <1>2
<1>4. ASSUME specialization = "TWO_TOKEN" PROVE Ledger!Cardinality(ts) = 2
  <2>1. PICK x, y : x # y /\ ts = {x, y}
    BY <1>4
  <2> QED BY <2>1, TwoOfThem
<1>5. \A t \in ts : Ledger!isZero(LedgerOf[t])
  BY <1>1, SameArithmetic
<1>6. Ledger!Deregister(ts)
  BY <1>1, <1>3, <1>4, <1>5 DEF Ledger!Deregister
<1>7. LedgerStep
  BY <1>6 DEF LedgerStep, Ledger!LedgerNext
<1>8. LedgerFits'
  <2>1. \A t \in Registered \ ts : Fits(BalanceOf(t)')
    BY DEF LedgerFits
  <2>2. LedgerFits' <=> \A t \in Registered' : Fits(BalanceOf(t)')
    BY DEF LedgerFits, Fits, total
  <2> QED BY <2>1, <2>2
<1> QED BY <1>7, <1>8

\* Balances that are written, and those that are not.
LEMMA LedgerWrites ==
  ASSUME LedgerView, LedgerView', LedgerFits,
         NEW new, DOMAIN new \subseteq Registered, Registered' = Registered,
         \A t \in DOMAIN new : Fits(new[t]) /\ BalanceOf(t)' = new[t],
         \A t \in Registered \ DOMAIN new : BalanceOf(t)' = BalanceOf(t)
  PROVE  Ledger!Write(new) /\ LedgerFits'
<1>1. DOMAIN LedgerOf = Registered /\ \A t \in Registered : LedgerOf[t] = BalanceOf(t)
  BY DEF LedgerView
<1>2. LedgerOf' = [t \in Registered |-> BalanceOf(t)']
  BY DEF LedgerView
<1>3. LedgerOf' = [t \in DOMAIN LedgerOf |->
                     IF t \in DOMAIN new THEN new[t] ELSE LedgerOf[t]]
  BY <1>1, <1>2
<1>4. Ledger!Write(new)
  BY <1>3, SameArithmetic DEF Ledger!Write
<1>5. LedgerFits'
  <2>1. \A t \in Registered : Fits(BalanceOf(t)')
    BY DEF LedgerFits
  <2>2. LedgerFits' <=> \A t \in Registered' : Fits(BalanceOf(t)')
    BY DEF LedgerFits, Fits, total
  <2> QED BY <2>1, <2>2
<1> QED BY <1>4, <1>5

\* registerTokens
LEMMA RegisterRefines ==
  ASSUME StorageInv, UnregisteredEmpty, LedgerFits, LedgerView, LedgerView',
         NEW tokens \in Seq(Tokens), registerTokens(tokens)
  PROVE  LedgerStep /\ LedgerFits'
<1> DEFINE ts == Listed(tokens)
<1>1. UNCHANGED <<specialization, block>> /\ ts \in SUBSET Tokens
  BY DEF registerTokens, Listed
<1>2. CASE specialization = "GENERAL"
  <2>1. registerGeneralPoolTokens(tokens) /\ OnlyGeneral
    BY <1>2 DEF registerTokens
  <2>2. generalPoolBalances \in GoodMaps
    BY CollectionsGood DEF StorageInv
  <2>3. \A t \in Tokens :
          /\ t \in ts => ~Map!contains(generalPoolBalances, t)
          /\ Map!contains(generalPoolBalances', t) <=>
               t \in ts \/ Map!contains(generalPoolBalances, t)
          /\ Map!contains(generalPoolBalances', t) =>
               Map!get(generalPoolBalances', t) =
                 IF t \in ts THEN EmptyBalance ELSE Map!get(generalPoolBalances, t)
    BY <2>1, <2>2, RegisteredMapContents DEF registerGeneralPoolTokens
  <2>4. /\ Registered = {t \in Tokens : Map!contains(generalPoolBalances, t)}
        /\ Registered' = {t \in Tokens : Map!contains(generalPoolBalances', t)}
    BY <1>1, <1>2 DEF Registered, isTokenRegistered, Map!contains
  <2>5. /\ \A t : BalanceOf(t) = Map!get(generalPoolBalances, t)
        /\ \A t : BalanceOf(t)' = Map!get(generalPoolBalances', t)
    BY <1>1, <1>2 DEF BalanceOf, Map!get
  <2> HIDE DEF ts
  <2>6. ts \intersect Registered = {} /\ Registered' = Registered \union ts
    BY <1>1, <2>3, <2>4
  <2>7. \A t \in Registered \union ts :
          BalanceOf(t)' = IF t \in ts THEN EmptyBalance ELSE BalanceOf(t)
    BY <1>1, <2>3, <2>4, <2>5
  <2> QED BY <1>1, <1>2, <2>6, <2>7, LedgerRegisters
<1>3. CASE specialization = "MINIMAL_SWAP_INFO"
  <2>1. registerMinimalSwapInfoPoolTokens(tokens) /\ OnlyMinimal
    BY <1>3 DEF registerTokens
  <2>2. minimalPoolTokens \in GoodSets
    BY CollectionsGood DEF StorageInv
  <2>3. \A t \in Tokens :
          /\ t \in ts => ~TokenSet!contains(minimalPoolTokens, t)
          /\ TokenSet!contains(minimalPoolTokens', t) <=>
               t \in ts \/ TokenSet!contains(minimalPoolTokens, t)
    BY <2>1, <2>2, RegisteredSetContents DEF registerMinimalSwapInfoPoolTokens
  <2>4. /\ Registered = {t \in Tokens : TokenSet!contains(minimalPoolTokens, t)}
        /\ Registered' = {t \in Tokens : TokenSet!contains(minimalPoolTokens', t)}
    BY <1>1, <1>3 DEF Registered, isTokenRegistered, TokenSet!contains
  <2>5. \A t : BalanceOf(t) = minimalPoolBalances[t] /\ BalanceOf(t)' = minimalPoolBalances[t]
    BY <1>1, <1>3, <2>1 DEF BalanceOf, registerMinimalSwapInfoPoolTokens
  <2> HIDE DEF ts
  <2>6. ts \intersect Registered = {} /\ Registered' = Registered \union ts
    BY <1>1, <2>3, <2>4
  <2>7. \A t \in Registered \union ts :
          BalanceOf(t)' = IF t \in ts THEN EmptyBalance ELSE BalanceOf(t)
    BY <1>1, <2>3, <2>4, <2>5 DEF UnregisteredEmpty
  <2> QED BY <1>1, <1>3, <2>6, <2>7, LedgerRegisters
<1>4. CASE specialization = "TWO_TOKEN"
  <2> DEFINE x == tokens[1]
             y == tokens[2]
  <2>1. Len(tokens) = 2 /\ registerTwoTokenPoolTokens(x, y) /\ OnlyTwoToken
    BY <1>4 DEF registerTokens
  <2>2. x \in Tokens /\ y \in Tokens /\ ts = {x, y}
    <3>1. 1..2 = {1, 2}
      OBVIOUS
    <3> QED BY <2>1, <3>1 DEF Listed
  <2> HIDE DEF x, y, ts
  <2>3. /\ x < y /\ tokenPair = NoPair /\ tokenPair' = <<x, y>> /\ pairBalances' = pairBalances
        /\ x # NoToken /\ y # NoToken /\ x # y
    <3>1. x < y /\ tokenPair = NoPair /\ tokenPair' = <<x, y>> /\ pairBalances' = pairBalances
      BY <2>1 DEF registerTwoTokenPoolTokens
    <3>2. x \in Nat \ {0} /\ y \in Nat \ {0} /\ NoToken = 0
      BY <2>2, TokensAssumption
    <3> QED BY <3>1, <3>2
  <2>4. Registered = {}
    BY <1>4, <2>3, PairRegistered
  <2>5. Registered' = {x, y}
    BY <1>1, <1>4, <2>2, <2>3 DEF Registered, isTokenRegistered, isTwoTokenPoolTokenRegistered
  <2>6. pairBalances'[<<x, y>>] = NoWords
    <3>1. <<x, y>> \in DOMAIN pairBalances
      BY <2>2 DEF StorageInv, StorageTypeOK
    <3> QED BY <2>3, <3>1 DEF UnregisteredEmpty
  <2>7. \A t : BalanceOf(t)' = EmptyBalance
    <3>1. BalanceA(tokenPair)' = EmptyBalance /\ BalanceB(tokenPair)' = EmptyBalance
      BY <2>3, <2>6 DEF BalanceA, BalanceB, fromSharedToBalanceA, fromSharedToBalanceB,
                        toBalance, EmptyBalance, NoWords, NoCash, NoManaged
    <3> QED BY <1>1, <1>4, <3>1 DEF BalanceOf
  <2>8. Registered' = Registered \union ts /\ ts \intersect Registered = {}
    BY <2>2, <2>4, <2>5
  <2>9. \E a, b : a # b /\ ts = {a, b}
    BY <2>2, <2>3
  <2>10. \A t \in Registered \union ts :
           BalanceOf(t)' = IF t \in ts THEN EmptyBalance ELSE BalanceOf(t)
    BY <2>4, <2>7
  <2> QED BY <1>1, <2>4, <2>8, <2>9, <2>10, LedgerRegisters
<1> QED BY <1>2, <1>3, <1>4, InputsAssumption DEF StorageInv, StorageTypeOK

\* deregisterTokens
LEMMA DeregisterRefines ==
  ASSUME StorageInv, UnregisteredEmpty, LedgerFits, LedgerView, LedgerView',
         NEW tokens \in Seq(Tokens), deregisterTokens(tokens),
         specialization = "TWO_TOKEN" /\ Len(tokens) = 2 => tokens[1] # tokens[2]
  PROVE  LedgerStep /\ LedgerFits'
<1> DEFINE ts == Listed(tokens)
<1>1. UNCHANGED <<specialization, block>> /\ ts \in SUBSET Tokens
  BY DEF deregisterTokens, Listed
<1>2. CASE specialization = "GENERAL"
  <2>1. deregisterGeneralPoolTokens(tokens) /\ OnlyGeneral
    BY <1>2 DEF deregisterTokens
  <2>2. generalPoolBalances \in GoodMaps
    BY CollectionsGood DEF StorageInv
  <2>3. \A t \in Tokens :
          /\ t \in ts => /\ Map!contains(generalPoolBalances, t)
                         /\ isZero(Map!get(generalPoolBalances, t))
          /\ Map!contains(generalPoolBalances', t) <=>
               t \notin ts /\ Map!contains(generalPoolBalances, t)
          /\ Map!contains(generalPoolBalances', t) =>
               Map!get(generalPoolBalances', t) = Map!get(generalPoolBalances, t)
    BY <2>1, <2>2, DeregisteredMapContents DEF deregisterGeneralPoolTokens
  <2>4. /\ Registered = {t \in Tokens : Map!contains(generalPoolBalances, t)}
        /\ Registered' = {t \in Tokens : Map!contains(generalPoolBalances', t)}
    BY <1>1, <1>2 DEF Registered, isTokenRegistered, Map!contains
  <2>5. /\ \A t : BalanceOf(t) = Map!get(generalPoolBalances, t)
        /\ \A t : BalanceOf(t)' = Map!get(generalPoolBalances', t)
    BY <1>1, <1>2 DEF BalanceOf, Map!get
  <2> HIDE DEF ts
  <2>6. ts \subseteq Registered /\ Registered' = Registered \ ts
    BY <1>1, <2>3, <2>4
  <2>7. /\ \A t \in ts : isZero(BalanceOf(t))
        /\ \A t \in Registered \ ts : BalanceOf(t)' = BalanceOf(t)
    BY <1>1, <2>3, <2>4, <2>5
  <2> QED BY <1>1, <1>2, <2>6, <2>7, LedgerDeregisters
<1>3. CASE specialization = "MINIMAL_SWAP_INFO"
  <2>1. deregisterMinimalSwapInfoPoolTokens(tokens) /\ OnlyMinimal
    BY <1>3 DEF deregisterTokens
  <2>2. minimalPoolTokens \in GoodSets
    BY CollectionsGood DEF StorageInv
  <2>3. \A t \in Tokens :
          /\ t \in ts => TokenSet!contains(minimalPoolTokens, t)
          /\ TokenSet!contains(minimalPoolTokens', t) <=>
               t \notin ts /\ TokenSet!contains(minimalPoolTokens, t)
    BY <2>1, <2>2, DeregisteredSetContents DEF deregisterMinimalSwapInfoPoolTokens
  <2>4. /\ Registered = {t \in Tokens : TokenSet!contains(minimalPoolTokens, t)}
        /\ Registered' = {t \in Tokens : TokenSet!contains(minimalPoolTokens', t)}
    BY <1>1, <1>3 DEF Registered, isTokenRegistered, TokenSet!contains
  <2>5. \A t : BalanceOf(t) = minimalPoolBalances[t] /\ BalanceOf(t)' = minimalPoolBalances'[t]
    BY <1>1, <1>3 DEF BalanceOf
  <2>6. \A t \in ts : isZero(minimalPoolBalances[t])
    BY <2>1 DEF deregisterMinimalSwapInfoPoolTokens, Listed
  <2>7. \A t \in Tokens \ ts : minimalPoolBalances'[t] = minimalPoolBalances[t]
    <3>1. DOMAIN minimalPoolBalances = Tokens
      BY DEF StorageInv, StorageTypeOK
    <3>2. \A t \in Tokens \ ts : ~\E n \in 1..Len(tokens) : tokens[n] = t
      BY DEF Listed
    <3> QED BY <2>1, <3>1, <3>2 DEF deregisterMinimalSwapInfoPoolTokens
  <2> HIDE DEF ts
  <2>8. ts \subseteq Registered /\ Registered' = Registered \ ts
    BY <1>1, <2>3, <2>4
  <2>9. /\ \A t \in ts : isZero(BalanceOf(t))
        /\ \A t \in Registered \ ts : BalanceOf(t)' = BalanceOf(t)
    BY <1>1, <2>4, <2>5, <2>6, <2>7
  <2> QED BY <1>1, <1>3, <2>8, <2>9, LedgerDeregisters
<1>4. CASE specialization = "TWO_TOKEN"
  <2> DEFINE x == tokens[1]
             y == tokens[2]
             pair == sortTwoTokens(x, y)
  <2>1. Len(tokens) = 2 /\ deregisterTwoTokenPoolTokens(x, y) /\ OnlyTwoToken
    BY <1>4 DEF deregisterTokens
  <2>2. x \in Tokens /\ y \in Tokens /\ ts = {x, y} /\ x # y
    <3>1. 1..2 = {1, 2}
      OBVIOUS
    <3> QED BY <1>4, <2>1, <3>1 DEF Listed
  <2>3. /\ hasTwoTokenPoolSharedBalances(pair) /\ tokenPair' = NoPair
        /\ isZero(BalanceA(pair)) /\ isZero(BalanceB(pair))
    BY <2>1 DEF deregisterTwoTokenPoolTokens
  <2> HIDE DEF x, y, ts
  <2>4. tokenPair # NoPair /\ pair = tokenPair
    BY <2>2, <2>3, SwappingPair DEF StorageInv
  <2>5. /\ Registered = {tokenPair[1], tokenPair[2]}
        /\ BalanceOf(tokenPair[1]) = BalanceA(tokenPair)
        /\ BalanceOf(tokenPair[2]) = BalanceB(tokenPair)
    BY <1>4, <2>4, PairRegistered
  <2>6. ts = {tokenPair[1], tokenPair[2]}
    BY <2>2, <2>4 DEF sortTwoTokens
  <2>7. Registered' = {}
    BY <1>1, <1>4, <2>3
    DEF Registered, isTokenRegistered, isTwoTokenPoolTokenRegistered, NoPair
  <2>8. ts \subseteq Registered /\ Registered' = Registered \ ts
    BY <2>5, <2>6, <2>7
  <2>9. /\ \A t \in ts : isZero(BalanceOf(t))
        /\ \A t \in Registered \ ts : BalanceOf(t)' = BalanceOf(t)
    BY <2>3, <2>4, <2>5, <2>6
  <2>10. \E a, b : a # b /\ ts = {a, b}
    BY <2>2
  <2> QED BY <1>1, <2>8, <2>9, <2>10, LedgerDeregisters
<1> QED BY <1>2, <1>3, <1>4, InputsAssumption DEF StorageInv, StorageTypeOK
-----------------------------------------------------------------------------
\* Writing a layout: which balances become what.
LEMMA GeneralRewritten ==
  ASSUME specialization = "GENERAL", UNCHANGED specialization,
         generalPoolBalances'.indexes = generalPoolBalances.indexes
  PROVE  /\ Registered' = Registered
         /\ \A t : BalanceOf(t)' = generalPoolBalances'.entries[generalPoolBalances.indexes[t]].value
<1>1. Registered' = Registered
  BY DEF Registered, isTokenRegistered, Map!contains
<1>2. \A t : BalanceOf(t)' = generalPoolBalances'.entries[generalPoolBalances.indexes[t]].value
  BY DEF BalanceOf, Map!get
<1> QED BY <1>1, <1>2

LEMMA MinimalRewritten ==
  ASSUME specialization = "MINIMAL_SWAP_INFO", UNCHANGED <<specialization, minimalPoolTokens>>
  PROVE  /\ Registered' = Registered
         /\ \A t : BalanceOf(t)' = minimalPoolBalances'[t]
<1>1. Registered' = Registered
  BY DEF Registered, isTokenRegistered, TokenSet!contains
<1>2. \A t : BalanceOf(t)' = minimalPoolBalances'[t]
  BY DEF BalanceOf
<1> QED BY <1>1, <1>2

LEMMA PairRewritten ==
  ASSUME StorageInv, specialization = "TWO_TOKEN", UNCHANGED <<specialization, tokenPair>>,
         NEW a, NEW b, tokenPair = <<a, b>>, a # b, tokenPair # NoPair,
         NEW word, pairBalances' = [pairBalances EXCEPT ![tokenPair] = word]
  PROVE  /\ Registered' = Registered
         /\ BalanceOf(a)' = toBalance(word.sharedCash.a, word.sharedManaged.a, word.sharedCash.block)
         /\ BalanceOf(b)' = toBalance(word.sharedCash.b, word.sharedManaged.b, word.sharedCash.block)
         /\ BlocksPast /\ word.sharedCash.block <= block /\ block' = block => BlocksPast'
<1>1. Registered' = Registered
  BY DEF Registered, isTokenRegistered, isTwoTokenPoolTokenRegistered
<1>2. <<a, b>> \in DOMAIN pairBalances
  BY DEF StorageInv, StorageTypeOK
<1>3. pairBalances'[<<a, b>>] = word
  BY <1>2
<1>4. BalanceOf(a)' = toBalance(word.sharedCash.a, word.sharedManaged.a, word.sharedCash.block)
  BY <1>3 DEF BalanceOf, BalanceA, fromSharedToBalanceA, toBalance
<1>5. BalanceOf(b)' = toBalance(word.sharedCash.b, word.sharedManaged.b, word.sharedCash.block)
  BY <1>3 DEF BalanceOf, BalanceB, fromSharedToBalanceB, toBalance
<1>6. ASSUME BlocksPast, word.sharedCash.block <= block, block' = block PROVE BlocksPast'
  <2>1. DOMAIN pairBalances' = DOMAIN pairBalances
    OBVIOUS
  <2>2. ASSUME NEW pair \in DOMAIN pairBalances PROVE pairBalances'[pair].sharedCash.block <= block
    <3>1. CASE pair = tokenPair
      BY <1>3, <1>6, <3>1
    <3>2. CASE pair # tokenPair
      BY <1>6, <3>2 DEF BlocksPast
    <3> QED BY <3>1, <3>2
  <2> QED BY <1>6, <2>1, <2>2 DEF BlocksPast
<1> QED BY <1>1, <1>4, <1>5, <1>6

\* joinOrExit, from the hook on: every registered token's balance is the one at its place.
LEMMA JoinOrExitWrites ==
  ASSUME StorageInv, UnregisteredEmpty, pending.kind = "joinOrExit", NEW change,
         JoinOrExitReturn(change)
  PROVE  /\ Registered' = Registered
         /\ \A t \in Registered :
              /\ Fits(increaseCash(BalanceOf(t), change[IndexOf(t)], block))
              /\ BalanceOf(t)' = increaseCash(BalanceOf(t), change[IndexOf(t)], block)
         /\ BlocksPast => BlocksPast'
<1> DEFINE read == pending.read
           tokens == [i \in DOMAIN read |-> read[i].token]
           final == [i \in DOMAIN read |-> increaseCash(read[i].balance, change[i], block)]
<1>1. read = getPoolTokens /\ read # <<>> /\ UNCHANGED <<specialization, block>> /\ ListsRegistered
  BY Listing DEF StorageInv, ReadsCurrent, JoinOrExitReturn
<1>2. \A t \in Registered :
        /\ IndexOf(t) \in DOMAIN read /\ tokens[IndexOf(t)] = t
        /\ final[IndexOf(t)] = increaseCash(BalanceOf(t), change[IndexOf(t)], block)
  BY <1>1 DEF ListsRegistered
<1>3. \A i \in DOMAIN read : Fits(final[i])
  BY DEF JoinOrExitReturn
<1>4. DOMAIN final = DOMAIN read /\ DOMAIN tokens = DOMAIN read
  OBVIOUS
<1>5. SUFFICES /\ Registered' = Registered
               /\ \A t \in Registered : BalanceOf(t)' = final[IndexOf(t)]
               /\ BlocksPast => BlocksPast'
  <2> HIDE DEF final, tokens, read
  <2> QED BY <1>2, <1>3
<1>6. CASE specialization = "GENERAL"
  <2> DEFINE m == generalPoolBalances
  <2>1. setGeneralPoolBalances(final) /\ OnlyGeneral
    BY <1>6 DEF JoinOrExitReturn
  <2> HIDE DEF final, tokens, read
  <2>2. m' = [m EXCEPT !.entries =
               [i \in DOMAIN m.entries |-> IF i \in DOMAIN final
                          THEN [m.entries[i] EXCEPT !.value = final[i]] ELSE m.entries[i]]]
    BY <2>1 DEF setGeneralPoolBalances
  <2>3. m \in Maps
    BY DEF StorageInv, StorageTypeOK, Maps
  <2>4. /\ m'.indexes = m.indexes
        /\ m'.entries = [i \in DOMAIN m.entries |-> IF i \in DOMAIN final
                          THEN [m.entries[i] EXCEPT !.value = final[i]] ELSE m.entries[i]]
    BY <2>2, <2>3 DEF Maps
  <2>5. \A t \in Registered : IndexOf(t) = m.indexes[t]
    BY <1>6, GeneralListing
  <2>6. \A i \in DOMAIN read : i \in DOMAIN m.entries /\ m.entries[i] \in [key: Tokens, value: Balance]
    <3> DEFINE Entries == [key: Tokens, value: Balance]
               list == m.entries
    <3>1. DOMAIN read = 1..Len(list) /\ list \in Seq(Entries)
      BY <1>1, <1>6, <2>3 DEF getPoolTokens, getGeneralPoolTokens, Maps
    <3> HIDE DEF Entries, list
    <3>2. \A i \in DOMAIN read : i \in DOMAIN list /\ list[i] \in Entries
      BY <3>1
    <3> QED BY <3>2 DEF Entries, list
  <2>7. \A i \in DOMAIN read : m'.entries[i].value = final[i]
    BY <1>4, <2>4, <2>6
  <2>8. Registered' = Registered /\ \A t \in Registered : BalanceOf(t)' = final[IndexOf(t)]
    BY <1>1, <1>2, <1>6, <2>4, <2>5, <2>7, GeneralRewritten
  <2>9. BlocksPast => BlocksPast'
    BY <1>1, <2>1 DEF OnlyGeneral, BlocksPast
  <2> QED BY <2>8, <2>9
<1>7. CASE specialization = "MINIMAL_SWAP_INFO"
  <2>1. setMinimalSwapInfoPoolBalances(tokens, final) /\ OnlyMinimal
    BY <1>7 DEF JoinOrExitReturn
  <2>2. \A i, j \in DOMAIN read : tokens[i] = tokens[j] => i = j
    BY <1>1 DEF ListsRegistered
  <2> HIDE DEF final, tokens, read
  <2>3. ASSUME NEW t \in Registered PROVE minimalPoolBalances'[t] = final[IndexOf(t)]
    <3>1. IndexOf(t) \in DOMAIN tokens /\ tokens[IndexOf(t)] = t
      BY <1>2, <1>4
    <3>2. (CHOOSE i \in DOMAIN tokens : tokens[i] = t) = IndexOf(t)
      BY <1>4, <2>2, <3>1
    <3>3. t \in DOMAIN minimalPoolBalances
      BY DEF Registered, StorageInv, StorageTypeOK
    <3> QED BY <2>1, <3>1, <3>2, <3>3 DEF setMinimalSwapInfoPoolBalances
  <2>4. UNCHANGED minimalPoolTokens
    BY <2>1 DEF setMinimalSwapInfoPoolBalances
  <2>5. BlocksPast => BlocksPast'
    BY <1>1, <2>1 DEF OnlyMinimal, BlocksPast
  <2> QED BY <1>1, <1>7, <2>3, <2>4, <2>5, MinimalRewritten
<1>8. CASE specialization = "TWO_TOKEN"
  <2>1. /\ setTwoTokenPoolCashBalances(tokens[1], final[1], tokens[2], final[2])
        /\ OnlyTwoToken
    BY <1>8 DEF JoinOrExitReturn
  <2>2. tokenPair # NoPair
    BY <1>1, <1>8 DEF getPoolTokens, getTwoTokenPoolTokens
  <2>3. PICK a, b : /\ tokenPair = <<a, b>> /\ a # b /\ Registered = {a, b}
                    /\ BalanceOf(a) = BalanceA(tokenPair) /\ BalanceOf(b) = BalanceB(tokenPair)
                    /\ IndexOf(a) = 1 /\ IndexOf(b) = 2
    BY <1>8, <2>2, PairRegistered, TwoTokenListing
  <2>4. tokens[1] = a /\ tokens[2] = b
    BY <1>2, <2>3
  <2>5. /\ final[1] = increaseCash(BalanceA(tokenPair), change[1], block)
        /\ final[2] = increaseCash(BalanceB(tokenPair), change[2], block)
    BY <1>2, <2>3
  <2> HIDE DEF tokens, final, read
  <2> DEFINE word == [pairBalances[tokenPair] EXCEPT !.sharedCash = toSharedCash(final[1], final[2])]
  <2>6. pairBalances' = [pairBalances EXCEPT ![tokenPair] = word] /\ tokenPair' = tokenPair
    BY <2>1, <2>3, <2>4 DEF setTwoTokenPoolCashBalances
  <2>7. pairBalances[tokenPair] \in Words /\ block \in Nat
    BY <2>2 DEF StorageInv, StorageTypeOK
  <2>8. /\ word.sharedCash = toSharedCash(final[1], final[2])
        /\ word.sharedManaged = pairBalances[tokenPair].sharedManaged
    BY <2>7 DEF Words
  <2> HIDE DEF word
  <2>9. /\ final[1] = toBalance(final[1].cash, word.sharedManaged.a, block)
        /\ final[2] = toBalance(final[2].cash, word.sharedManaged.b, block)
    BY <2>5, <2>8 DEF increaseCash, toBalance, BalanceA, BalanceB, fromSharedToBalanceA,
                      fromSharedToBalanceB
  <2>10. word.sharedCash = [a |-> final[1].cash, b |-> final[2].cash, block |-> block]
    BY <2>8, <2>9 DEF toSharedCash, toBalance
  <2>11. /\ final[1] = toBalance(word.sharedCash.a, word.sharedManaged.a, word.sharedCash.block)
         /\ final[2] = toBalance(word.sharedCash.b, word.sharedManaged.b, word.sharedCash.block)
         /\ word.sharedCash.block <= block
    BY <2>7, <2>9, <2>10
  <2>12. /\ Registered' = Registered
         /\ BalanceOf(a)' = final[1] /\ BalanceOf(b)' = final[2]
         /\ BlocksPast => BlocksPast'
    BY <1>1, <1>8, <2>2, <2>3, <2>6, <2>11, PairRewritten
  <2> QED BY <2>3, <2>12
<1> QED BY <1>6, <1>7, <1>8, InputsAssumption DEF StorageInv, StorageTypeOK

LEMMA JoinOrExitRefines ==
  ASSUME StorageInv, UnregisteredEmpty, LedgerFits, LedgerView, LedgerView',
         pending.kind = "joinOrExit", NEW change \in [DOMAIN pending.read -> Signed],
         JoinOrExitReturn(change)
  PROVE  LedgerStep /\ LedgerFits'
<1> DEFINE c == [t \in Registered |-> change[IndexOf(t)]]
           new == [t \in Registered |-> increaseCash(BalanceOf(t), c[t], block)]
<1>1. UNCHANGED <<specialization, block>>
  BY DEF JoinOrExitReturn
<1>2. pending.read = getPoolTokens /\ getPoolTokens # <<>> /\ ListsRegistered
  BY Listing DEF StorageInv, ReadsCurrent
<1>3. c \in [Registered -> Signed]
  BY <1>2 DEF ListsRegistered
<1>4. Registered # {}
  <2>1. getPoolTokens \in Seq([token: Tokens, balance: Balance])
    BY PoolTokensTyped DEF StorageInv
  <2>2. 1 \in DOMAIN getPoolTokens
    BY <1>2, <2>1
  <2> QED BY <1>2, <2>2 DEF ListsRegistered
<1>5. /\ Registered' = Registered
      /\ \A t \in Registered : Fits(new[t]) /\ BalanceOf(t)' = new[t]
  BY JoinOrExitWrites
<1>6. DOMAIN new = Registered
  OBVIOUS
<1>7. DOMAIN LedgerOf = Registered /\ \A t \in Registered : LedgerOf[t] = BalanceOf(t)
  BY DEF LedgerView
<1>8. new = [t \in DOMAIN LedgerOf |-> Ledger!increaseCash(LedgerOf[t], c[t], block)]
  BY <1>7, SameArithmetic
<1> HIDE DEF new, c
<1>9. Ledger!Write(new) /\ LedgerFits'
  BY <1>5, <1>6, LedgerWrites
<1>10. Ledger!JoinOrExit
  BY <1>3, <1>4, <1>7, <1>8, <1>9, SameArithmetic DEF Ledger!JoinOrExit
<1> QED BY <1>1, <1>9, <1>10 DEF LedgerStep, Ledger!LedgerNext

LEMMA BalanceTyped ==
  ASSUME StorageInv, UnregisteredEmpty, NEW t \in Registered
  PROVE  BalanceOf(t) \in Balance
<1> DEFINE Entries == [token: Tokens, balance: Balance]
           i == IndexOf(t)
<1>1. i \in DOMAIN getPoolTokens /\ getPoolTokens[i].token = t /\ getPoolTokens[i].balance = BalanceOf(t)
  BY Listing DEF ListsRegistered
<1>2. getPoolTokens \in Seq(Entries)
  BY PoolTokensTyped DEF StorageInv
<1>3. getPoolTokens[i] \in Entries
  <2> HIDE DEF Entries, i
  <2> QED BY <1>1, <1>2
<1> QED BY <1>1, <1>3

\* Writing by index changes one value.
LEMMA SetAtContents ==
  ASSUME NEW m \in GoodMaps, NEW i \in DOMAIN m.entries, NEW value
  PROVE  LET new == Map!unchecked_setAt(m, i, value)
         IN /\ new.indexes = m.indexes
            /\ DOMAIN new.entries = DOMAIN m.entries
            /\ new.entries[i].value = value
            /\ \A j \in DOMAIN m.entries \ {i} : new.entries[j] = m.entries[j]
<1> DEFINE new == Map!unchecked_setAt(m, i, value)
           Entries == [key: Tokens, value: Balance]
           list == m.entries
<1>1. list \in Seq(Entries) /\ i \in DOMAIN list
  BY DEF GoodMaps, Maps
<1>2. list[i] \in Entries
  <2> HIDE DEF Entries, list
  <2> QED BY <1>1
<1>3. new = [m EXCEPT !.entries[i].value = value]
  BY DEF Map!unchecked_setAt
<1>4. new.indexes = m.indexes /\ new.entries = [list EXCEPT ![i].value = value]
  BY <1>3 DEF GoodMaps, Maps
<1> HIDE DEF new, list
<1>5. new.entries[i].value = value
  BY <1>1, <1>2, <1>4
<1>6. /\ DOMAIN new.entries = DOMAIN list
      /\ \A j \in DOMAIN list \ {i} : new.entries[j] = list[j]
  BY <1>4
<1> QED BY <1>4, <1>5, <1>6 DEF new, list

\* swap, from the hook on: the two tokens' balances are written, and no others.
LEMMA SwapWrites ==
  ASSUME StorageInv, UnregisteredEmpty, LedgerView, pending.kind = "swap",
         NEW amountIn \in Amounts, NEW amountOut \in Amounts, SwapReturn(amountIn, amountOut)
  PROVE  LET x == pending.tokenIn
             y == pending.tokenOut
             newIn == increaseCash(BalanceOf(x), amountIn, block)
             newOut == decreaseCash(BalanceOf(y), amountOut, block)
         IN /\ x \in Registered /\ y \in Registered /\ x # y
            /\ Fits(newIn) /\ Fits(newOut) /\ Registered' = Registered
            /\ \A t \in Registered :
                 BalanceOf(t)' = IF t = x THEN newIn ELSE IF t = y THEN newOut ELSE BalanceOf(t)
            /\ BlocksPast => BlocksPast'
<1> DEFINE x == pending.tokenIn
           y == pending.tokenOut
           newIn == increaseCash(BalanceOf(x), amountIn, block)
           newOut == decreaseCash(BalanceOf(y), amountOut, block)
           Written == /\ Registered' = Registered
                      /\ \A t \in Registered :
                           BalanceOf(t)' = IF t = x THEN newIn
                                           ELSE IF t = y THEN newOut ELSE BalanceOf(t)
                      /\ BlocksPast => BlocksPast'
<1>1. /\ x \in Tokens /\ y \in Tokens /\ x # y /\ maySwap(x, y)
      /\ pending.read = swapReads(x, y) /\ UNCHANGED <<specialization, block>>
  BY DEF StorageInv, StorageTypeOK, ReadsCurrent, Calls, NoCall, SwapReturn
<1>2. /\ x \in Registered /\ y \in Registered
      /\ pending.read.in = BalanceOf(x) /\ pending.read.out = BalanceOf(y)
  <2>1. DOMAIN LedgerOf = Registered /\ \A t \in Registered : LedgerOf[t] = BalanceOf(t)
    BY DEF LedgerView
  <2>2. /\ {x, y} \subseteq DOMAIN LedgerOf
        /\ swapReads(x, y).in = LedgerOf[x] /\ swapReads(x, y).out = LedgerOf[y]
    BY <1>1, SwapsRead DEF SwapsReadTheLedger
  <2> HIDE DEF x, y
  <2> QED BY <1>1, <2>1, <2>2
<1>3. Fits(newIn) /\ Fits(newOut)
  BY <1>2 DEF SwapReturn
<1>4. newIn \in Balance
  <2>1. amountIn \in Int /\ block \in Nat
    BY InputsAssumption DEF StorageInv, StorageTypeOK
  <2> QED BY <1>2, <1>3, <2>1, BalanceTyped, ChangedTyped
<1> SUFFICES Written
  BY <1>1, <1>2, <1>3
<1>5. CASE specialization = "GENERAL"
  <2> DEFINE m == generalPoolBalances
             i == m.indexes[x]
             j == m.indexes[y]
             half == Map!unchecked_setAt(m, i, newIn)
  <2>1. /\ m' = Map!unchecked_setAt(half, j, newOut)
        /\ OnlyGeneral
    BY <1>1, <1>2, <1>5 DEF SwapReturn, writeGeneralPoolSwap, swapReads, generalPoolSwapReads
  <2>2. m \in GoodMaps
    BY CollectionsGood DEF StorageInv
  <2>3. /\ \A t \in Registered : t \in Tokens /\ m.indexes[t] \in 1..Len(m.entries)
                                 /\ m.entries[m.indexes[t]].key = t
        /\ DOMAIN m.entries = 1..Len(m.entries)
    BY <1>5, <2>2 DEF Registered, isTokenRegistered, Map!contains, GoodMaps, Maps,
                      Map!Consistent, Map!Keys
  <2> HIDE DEF x, y, newIn, newOut
  <2>4. i \in DOMAIN m.entries /\ j \in DOMAIN m.entries /\ i # j
    BY <1>1, <1>2, <2>3
  <2> HIDE DEF m, i, j
  <2>5. half \in GoodMaps /\ half.indexes = m.indexes /\ DOMAIN half.entries = DOMAIN m.entries
        /\ half.entries[i].value = newIn
        /\ \A k \in DOMAIN m.entries \ {i} : half.entries[k] = m.entries[k]
    BY <1>4, <2>2, <2>4, SetAtContents, SetAtGood
  <2> HIDE DEF half
  <2>6. /\ m'.indexes = m.indexes /\ m'.entries[j].value = newOut
        /\ \A k \in DOMAIN m.entries \ {j} : m'.entries[k] = half.entries[k]
    BY <2>1, <2>4, <2>5, SetAtContents
  <2>7. \A t \in Registered :
          m'.entries[m.indexes[t]].value =
            IF t = x THEN newIn ELSE IF t = y THEN newOut ELSE m.entries[m.indexes[t]].value
    <3> TAKE t \in Registered
    <3> DEFINE k == m.indexes[t]
    <3>1. k \in DOMAIN m.entries /\ m.entries[k].key = t
      BY <2>3
    <3>2. t = x => k = i
      BY DEF i
    <3>3. t = y => k = j
      BY DEF j
    <3>4. k = i => t = x
      BY <1>2, <2>3, <3>1 DEF i
    <3>5. k = j => t = y
      BY <1>2, <2>3, <3>1 DEF j
    <3> SUFFICES m'.entries[k].value =
                   IF t = x THEN newIn ELSE IF t = y THEN newOut ELSE m.entries[k].value
      OBVIOUS
    <3> HIDE DEF k
    <3>6. CASE t = x
      BY <1>1, <2>4, <2>5, <2>6, <3>1, <3>2, <3>6
    <3>7. CASE t = y
      BY <1>1, <2>6, <3>3, <3>7
    <3>8. CASE t # x /\ t # y
      BY <2>5, <2>6, <3>1, <3>4, <3>5, <3>8
    <3> QED BY <3>6, <3>7, <3>8
  <2>8. \A t : BalanceOf(t) = m.entries[m.indexes[t]].value
    BY <1>5 DEF BalanceOf, Map!get, m
  <2>9. /\ Registered' = Registered
        /\ \A t : BalanceOf(t)' = m'.entries[m.indexes[t]].value
    BY <1>1, <1>5, <2>6, GeneralRewritten DEF m
  <2>10. BlocksPast => BlocksPast'
    BY <1>1, <2>1 DEF OnlyGeneral, BlocksPast
  <2> QED BY <2>7, <2>8, <2>9, <2>10
<1>6. CASE specialization = "MINIMAL_SWAP_INFO"
  <2>1. writeMinimalPoolSwap(x, y, newIn, newOut) /\ OnlyMinimal
    BY <1>2, <1>6 DEF SwapReturn
  <2>2. DOMAIN minimalPoolBalances = Tokens
    BY DEF StorageInv, StorageTypeOK
  <2>3. \A t : BalanceOf(t) = minimalPoolBalances[t]
    BY <1>6 DEF BalanceOf
  <2>4. \A t \in Registered : t \in Tokens
    BY DEF Registered
  <2> HIDE DEF x, y, newIn, newOut
  <2>5. \A t \in Registered :
          minimalPoolBalances'[t] = IF t = x THEN newIn ELSE IF t = y THEN newOut ELSE BalanceOf(t)
    BY <1>1, <2>1, <2>2, <2>3, <2>4 DEF writeMinimalPoolSwap
  <2>6. /\ Registered' = Registered
        /\ \A t : BalanceOf(t)' = minimalPoolBalances'[t]
    BY <1>1, <1>6, <2>1, MinimalRewritten DEF writeMinimalPoolSwap
  <2>7. BlocksPast => BlocksPast'
    BY <1>1, <2>1 DEF OnlyMinimal, BlocksPast
  <2> QED BY <2>5, <2>6, <2>7
<1>7. CASE specialization = "TWO_TOKEN"
  <2>1. writeTwoTokenPoolSwap(x, y, newIn, newOut) /\ OnlyTwoToken
    BY <1>2, <1>7 DEF SwapReturn
  <2>2. tokenPair # NoPair /\ sortTwoTokens(x, y) = tokenPair
    BY <1>1, <1>7, SwappingPair DEF StorageInv, maySwap, mayTwoTokenPoolSwap
  <2>3. PICK a, b : /\ tokenPair = <<a, b>> /\ a # b /\ Registered = {a, b}
                    /\ BalanceOf(a) = BalanceA(tokenPair) /\ BalanceOf(b) = BalanceB(tokenPair)
    BY <1>7, <2>2, PairRegistered
  <2>4. IF x < y THEN x = a /\ y = b ELSE x = b /\ y = a
    BY <2>2, <2>3 DEF sortTwoTokens
  <2> DEFINE newA == IF x < y THEN newIn ELSE newOut
             newB == IF x < y THEN newOut ELSE newIn
             old == pairBalances[tokenPair]
             word == [old EXCEPT !.sharedCash = toSharedCash(newA, newB)]
  <2>5. pairBalances' = [pairBalances EXCEPT ![tokenPair] = word] /\ tokenPair' = tokenPair
    BY <2>1, <2>2 DEF writeTwoTokenPoolSwap
  <2>6. old \in Words /\ block \in Nat
    BY <2>2 DEF StorageInv, StorageTypeOK
  <2>7. word.sharedCash = toSharedCash(newA, newB) /\ word.sharedManaged = old.sharedManaged
    BY <2>6 DEF Words
  <2>8. /\ newA = toBalance(newA.cash, old.sharedManaged.a, block)
        /\ newB = toBalance(newB.cash, old.sharedManaged.b, block)
    BY <2>3, <2>4 DEF increaseCash, decreaseCash, toBalance, BalanceA, BalanceB,
                      fromSharedToBalanceA, fromSharedToBalanceB
  <2> HIDE DEF x, y, newIn, newOut
  <2>9. \A t \in Registered :
          (IF t = a THEN newA ELSE newB) = IF t = x THEN newIn ELSE IF t = y THEN newOut ELSE BalanceOf(t)
    BY <2>3, <2>4
  <2> HIDE DEF word, newA, newB, old
  <2>10. word.sharedCash = [a |-> newA.cash, b |-> newB.cash, block |-> block]
    BY <2>7, <2>8 DEF toSharedCash, toBalance
  <2>11. /\ newA = toBalance(word.sharedCash.a, word.sharedManaged.a, word.sharedCash.block)
         /\ newB = toBalance(word.sharedCash.b, word.sharedManaged.b, word.sharedCash.block)
         /\ word.sharedCash.block <= block
    BY <2>6, <2>7, <2>8, <2>10
  <2>12. /\ Registered' = Registered
         /\ BalanceOf(a)' = newA /\ BalanceOf(b)' = newB
         /\ BlocksPast => BlocksPast'
    BY <1>1, <1>7, <2>2, <2>3, <2>5, <2>11, PairRewritten
  <2> QED BY <2>3, <2>9, <2>12
<1> QED BY <1>5, <1>6, <1>7, InputsAssumption DEF StorageInv, StorageTypeOK

LEMMA SwapRefines ==
  ASSUME StorageInv, UnregisteredEmpty, LedgerFits, LedgerView, LedgerView',
         pending.kind = "swap",
         NEW amountIn \in Amounts, NEW amountOut \in Amounts, SwapReturn(amountIn, amountOut)
  PROVE  LedgerStep /\ LedgerFits'
<1> DEFINE x == pending.tokenIn
           y == pending.tokenOut
           newIn == increaseCash(BalanceOf(x), amountIn, block)
           newOut == decreaseCash(BalanceOf(y), amountOut, block)
           new == [t \in {x, y} |-> IF t = x THEN increaseCash(BalanceOf(t), amountIn, block)
                                             ELSE decreaseCash(BalanceOf(t), amountOut, block)]
<1>1. UNCHANGED <<specialization, block>>
  BY DEF SwapReturn
<1>2. /\ x \in Registered /\ y \in Registered /\ x # y
      /\ Fits(newIn) /\ Fits(newOut) /\ Registered' = Registered
      /\ \A t \in Registered :
           BalanceOf(t)' = IF t = x THEN newIn ELSE IF t = y THEN newOut ELSE BalanceOf(t)
  BY SwapWrites
<1>3. DOMAIN new = {x, y} /\ new[x] = newIn /\ new[y] = newOut
  BY <1>2
<1>4. DOMAIN LedgerOf = Registered /\ \A t \in Registered : LedgerOf[t] = BalanceOf(t)
  BY DEF LedgerView
<1>5. new = [t \in {x, y} |-> IF t = x THEN Ledger!increaseCash(LedgerOf[t], amountIn, block)
                                       ELSE Ledger!decreaseCash(LedgerOf[t], amountOut, block)]
  BY <1>2, <1>4, SameArithmetic
<1>6. x \in Tokens /\ y \in Tokens
  BY <1>2 DEF Registered
<1> HIDE DEF new, x, y, newIn, newOut
<1>7. Ledger!Write(new) /\ LedgerFits'
  BY <1>2, <1>3, LedgerWrites
<1>8. Ledger!Swap(x, y, amountIn, amountOut)
  BY <1>2, <1>4, <1>5, <1>7 DEF Ledger!Swap
<1>9. LedgerStep
  BY <1>1, <1>6, <1>8 DEF LedgerStep, Ledger!LedgerNext
<1> QED BY <1>7, <1>9

\* managePoolBalance: the token's balance is written, and the block its pair shares.
LEMMA ManageWrites ==
  ASSUME StorageInv, UnregisteredEmpty, BlocksPast,
         NEW token \in Tokens, NEW amount \in Amounts,
         NEW mutation \in {"cashToManaged", "managedToCash", "setManaged"},
         managePoolBalance(token, mutation, amount)
  PROVE  LET new == mutate(mutation, BalanceOf(token), amount, block)
         IN /\ token \in Registered /\ Fits(new) /\ Registered' = Registered
            /\ BalanceOf(token)' = new
            /\ \A t \in Registered \ {token} :
                 BalanceOf(t)' =
                   IF specialization = "TWO_TOKEN" /\ mutation = "setManaged"
                     THEN [BalanceOf(t) EXCEPT !.lastChangeBlock = block] ELSE BalanceOf(t)
            /\ BlocksPast'
<1> DEFINE new == mutate(mutation, BalanceOf(token), amount, block)
<1>1. UNCHANGED <<specialization, block>> /\ token \in Registered
  BY DEF managePoolBalance, Registered
<1>2. amount \in Int /\ block \in Nat
  BY InputsAssumption DEF StorageInv, StorageTypeOK
<1>3. BalanceOf(token) \in Balance
  BY <1>1, BalanceTyped
<1>4. CASE specialization = "GENERAL"
  <2> DEFINE m == generalPoolBalances
  <2>1. updateGeneralPoolBalance(token, mutation, amount, block) /\ OnlyGeneral
    BY <1>4 DEF managePoolBalance
  <2>2. \A t : BalanceOf(t) = Map!get(m, t)
    BY <1>4 DEF BalanceOf
  <2>3. /\ m \in GoodMaps /\ Map!contains(m, token)
        /\ Fits(new) /\ m' = Map!set(m, token, new)
    BY <2>1, <2>2, CollectionsGood DEF updateGeneralPoolBalance, StorageInv
  <2>4. new \in Balance
    BY <1>2, <1>3, <2>3, ChangedTyped
  <2>5. Registered = {t \in Tokens : Map!contains(m, t)} /\ Registered' = {t \in Tokens : Map!contains(m', t)}
    BY <1>1, <1>4 DEF Registered, isTokenRegistered, Map!contains
  <2>6. \A t : BalanceOf(t)' = Map!get(m', t)
    BY <1>1, <1>4 DEF BalanceOf, Map!get
  <2> HIDE DEF new, m
  <2>7. \A t \in Tokens :
          /\ Map!contains(m', t) <=> t = token \/ Map!contains(m, t)
          /\ Map!contains(m', t) => Map!get(m', t) = IF t = token THEN new ELSE Map!get(m, t)
    BY <2>3, <2>4, SetContents
  <2>8. Registered' = Registered
    BY <2>3, <2>5, <2>7
  <2>9. /\ BalanceOf(token)' = new
        /\ \A t \in Registered \ {token} : BalanceOf(t)' = BalanceOf(t)
    BY <2>2, <2>3, <2>5, <2>6, <2>7
  <2>10. BlocksPast'
    BY <1>1, <2>1 DEF OnlyGeneral, BlocksPast
  <2> QED BY <1>1, <1>4, <2>3, <2>8, <2>9, <2>10 DEF new
<1>5. CASE specialization = "MINIMAL_SWAP_INFO"
  <2>1. updateMinimalSwapInfoPoolBalance(token, mutation, amount, block) /\ OnlyMinimal
    BY <1>5 DEF managePoolBalance
  <2>2. \A t : BalanceOf(t) = minimalPoolBalances[t]
    BY <1>5 DEF BalanceOf
  <2>3. /\ Fits(new) /\ UNCHANGED minimalPoolTokens
        /\ minimalPoolBalances' = [minimalPoolBalances EXCEPT ![token] = new]
    BY <2>1, <2>2 DEF updateMinimalSwapInfoPoolBalance
  <2> HIDE DEF new
  <2>4. /\ minimalPoolBalances'[token] = new
        /\ \A t \in Tokens \ {token} : minimalPoolBalances'[t] = minimalPoolBalances[t]
    BY <2>3 DEF StorageInv, StorageTypeOK
  <2>5. /\ Registered' = Registered
        /\ \A t : BalanceOf(t)' = minimalPoolBalances'[t]
    BY <1>1, <1>5, <2>3, MinimalRewritten
  <2>6. \A t \in Registered \ {token} : BalanceOf(t)' = BalanceOf(t)
    BY <2>2, <2>4, <2>5 DEF Registered
  <2>7. BlocksPast'
    BY <1>1, <2>1 DEF OnlyMinimal, BlocksPast
  <2> QED BY <1>1, <1>5, <2>3, <2>4, <2>5, <2>6, <2>7 DEF new
<1>6. CASE specialization = "TWO_TOKEN"
  <2> DEFINE isA == token = tokenPair[1]
             newA == IF isA THEN mutate(mutation, BalanceA(tokenPair), amount, block)
                            ELSE BalanceA(tokenPair)
             newB == IF isA THEN BalanceB(tokenPair)
                            ELSE mutate(mutation, BalanceB(tokenPair), amount, block)
             word == [sharedCash    |-> toSharedCash(newA, newB),
                      sharedManaged |-> toSharedManaged(newA, newB)]
             old == pairBalances[tokenPair]
  <2>1. /\ Fits(newA) /\ Fits(newB)
        /\ pairBalances' = [pairBalances EXCEPT ![tokenPair] = word] /\ tokenPair' = tokenPair
    BY <1>6 DEF managePoolBalance, updateTwoTokenPoolSharedBalance
  <2>2. tokenPair # NoPair
    BY <1>1, <1>6, PairRegistered
  <2>3. PICK a, b : /\ tokenPair = <<a, b>> /\ a # b /\ Registered = {a, b}
                    /\ BalanceOf(a) = BalanceA(tokenPair) /\ BalanceOf(b) = BalanceB(tokenPair)
    BY <1>6, <2>2, PairRegistered
  <2>4. old \in Words /\ old.sharedCash.block <= block /\ old.sharedCash.block \in Nat
    <3>1. tokenPair \in DOMAIN pairBalances /\ pairBalances[tokenPair] \in Words
      BY <2>2 DEF StorageInv, StorageTypeOK
    <3> QED BY <3>1 DEF Words, BlocksPast
  <2>5. BalanceA(tokenPair).lastChangeBlock = old.sharedCash.block
        /\ BalanceB(tokenPair).lastChangeBlock = old.sharedCash.block
    BY DEF BalanceA, BalanceB, fromSharedToBalanceA, fromSharedToBalanceB, toBalance
  <2> DEFINE n == IF mutation = "setManaged" THEN block ELSE old.sharedCash.block
  <2>6. /\ n <= block /\ n \in Nat
        /\ \A balance : mutate(mutation, balance, amount, block).lastChangeBlock =
                          IF mutation = "setManaged" THEN block ELSE balance.lastChangeBlock
    BY <1>2, <2>4 DEF mutate, cashToManaged, managedToCash, setManaged, toBalance
  <2>7. toSharedCash(newA, newB) = [a |-> newA.cash, b |-> newB.cash, block |-> n]
    <3> DEFINE blockA == newA.lastChangeBlock
               blockB == newB.lastChangeBlock
    <3>1. /\ blockA = IF isA THEN n ELSE old.sharedCash.block
          /\ blockB = IF isA THEN old.sharedCash.block ELSE n
      BY <2>5, <2>6
    <3>2. toSharedCash(newA, newB) =
            [a |-> newA.cash, b |-> newB.cash, block |-> IF blockA > blockB THEN blockA ELSE blockB]
      BY DEF toSharedCash
    <3>3. old.sharedCash.block <= n
      BY <2>4
    <3> HIDE DEF blockA, blockB, newA, newB, n, isA, old
    <3>4. (IF blockA > blockB THEN blockA ELSE blockB) = n
      BY <2>4, <2>6, <3>1, <3>3
    <3> QED BY <3>2, <3>4
  <2>8. /\ word.sharedCash.a = newA.cash /\ word.sharedCash.b = newB.cash
        /\ word.sharedCash.block = n
        /\ word.sharedManaged.a = newA.managed /\ word.sharedManaged.b = newB.managed
    BY <2>7 DEF toSharedManaged
  <2>9. BalanceOf(token) = IF isA THEN BalanceA(tokenPair) ELSE BalanceB(tokenPair)
    BY <1>6 DEF BalanceOf
  <2>10. token = (IF isA THEN a ELSE b)
    BY <1>1, <2>3
  <2>11. new = IF isA THEN newA ELSE newB
    BY <2>9
  <2>12. /\ newA = [cash |-> newA.cash, managed |-> newA.managed, lastChangeBlock |-> newA.lastChangeBlock]
         /\ newB = [cash |-> newB.cash, managed |-> newB.managed, lastChangeBlock |-> newB.lastChangeBlock]
    BY DEF mutate, cashToManaged, managedToCash, setManaged, toBalance, BalanceA, BalanceB,
           fromSharedToBalanceA, fromSharedToBalanceB
  <2>13. new.lastChangeBlock = n
    BY <2>5, <2>6, <2>9
  <2> HIDE DEF word
  <2>14. /\ Registered' = Registered
         /\ BalanceOf(a)' = [cash |-> newA.cash, managed |-> newA.managed, lastChangeBlock |-> n]
         /\ BalanceOf(b)' = [cash |-> newB.cash, managed |-> newB.managed, lastChangeBlock |-> n]
         /\ BlocksPast'
    <3> HIDE DEF new, newA, newB, n, old, isA
    <3>1. word.sharedCash.block <= block
      BY <2>6, <2>8
    <3>2. /\ Registered' = Registered
          /\ BalanceOf(a)' = toBalance(word.sharedCash.a, word.sharedManaged.a, word.sharedCash.block)
          /\ BalanceOf(b)' = toBalance(word.sharedCash.b, word.sharedManaged.b, word.sharedCash.block)
          /\ BlocksPast'
      BY <1>1, <1>6, <2>1, <2>2, <2>3, <3>1, PairRewritten
    <3> QED BY <2>8, <3>2 DEF toBalance
  <2>15. BalanceOf(token)' = new
    BY <2>10, <2>11, <2>12, <2>13, <2>14
  <2>16. ASSUME NEW t \in Registered \ {token}
         PROVE  BalanceOf(t)' = IF mutation = "setManaged"
                                  THEN [BalanceOf(t) EXCEPT !.lastChangeBlock = block] ELSE BalanceOf(t)
    <3>1. t = (IF isA THEN b ELSE a) /\ BalanceOf(t) = (IF isA THEN newB ELSE newA)
      BY <2>3, <2>10
    <3>2. BalanceOf(t)' = [cash |-> BalanceOf(t).cash, managed |-> BalanceOf(t).managed,
                           lastChangeBlock |-> n]
      BY <2>14, <3>1
    <3>3. /\ BalanceOf(t).lastChangeBlock = old.sharedCash.block
          /\ BalanceOf(t) = [cash |-> BalanceOf(t).cash, managed |-> BalanceOf(t).managed,
                             lastChangeBlock |-> BalanceOf(t).lastChangeBlock]
      BY <2>5, <2>12, <3>1
    <3> HIDE DEF new, newA, newB, old, isA
    <3>4. CASE mutation = "setManaged"
      <4>1. BalanceOf(t)' = [cash |-> BalanceOf(t).cash, managed |-> BalanceOf(t).managed,
                             lastChangeBlock |-> block]
        BY <3>2, <3>4
      <4> QED BY <3>3, <3>4, <4>1
    <3>5. CASE mutation # "setManaged"
      <4>1. BalanceOf(t)' = [cash |-> BalanceOf(t).cash, managed |-> BalanceOf(t).managed,
                             lastChangeBlock |-> old.sharedCash.block]
        BY <3>2, <3>5
      <4> QED BY <3>3, <3>5, <4>1
    <3> QED BY <3>4, <3>5
  <2>17. Fits(new)
    BY <2>1, <2>11
  <2> QED BY <1>1, <1>6, <2>14, <2>15, <2>16, <2>17
<1> QED BY <1>4, <1>5, <1>6, InputsAssumption DEF StorageInv, StorageTypeOK

LEMMA ManageRefines ==
  ASSUME StorageInv, UnregisteredEmpty, BlocksPast, LedgerFits, LedgerView, LedgerView',
         NEW token \in Tokens, NEW amount \in Amounts,
         NEW mutation \in {"cashToManaged", "managedToCash", "setManaged"},
         managePoolBalance(token, mutation, amount)
  PROVE  LedgerStep /\ LedgerFits' /\ BlocksPast'
<1> DEFINE written == mutate(mutation, BalanceOf(token), amount, block)
           twoTokens == specialization = "TWO_TOKEN"
<1>1. UNCHANGED <<specialization, block>>
  BY DEF managePoolBalance
<1>2. /\ token \in Registered /\ Fits(written) /\ Registered' = Registered
      /\ BalanceOf(token)' = written /\ BlocksPast'
      /\ \A t \in Registered \ {token} :
           BalanceOf(t)' = IF twoTokens /\ mutation = "setManaged"
                             THEN [BalanceOf(t) EXCEPT !.lastChangeBlock = block] ELSE BalanceOf(t)
  BY ManageWrites
<1>3. DOMAIN LedgerOf = Registered /\ \A t \in Registered : LedgerOf[t] = BalanceOf(t)
  BY DEF LedgerView
<1>4. SUFFICES LedgerFits' /\ Ledger!Manage(token, amount)
  BY <1>1, <1>2 DEF LedgerStep, Ledger!LedgerNext
<1>5. CASE mutation # "setManaged"
  <2> DEFINE new == [u \in {token} |-> written]
  <2>1. DOMAIN new = {token} /\ new[token] = written
    OBVIOUS
  <2>2. \/ written = Ledger!cashToManaged(LedgerOf[token], amount)
        \/ written = Ledger!managedToCash(LedgerOf[token], amount)
    BY <1>2, <1>3, <1>5, SameArithmetic DEF mutate
  <2>3. \/ new = [u \in {token} |-> Ledger!cashToManaged(LedgerOf[token], amount)]
        \/ new = [u \in {token} |-> Ledger!managedToCash(LedgerOf[token], amount)]
    BY <2>2
  <2> HIDE DEF new, written
  <2>4. Ledger!Write(new) /\ LedgerFits'
    BY <1>2, <1>5, <2>1, LedgerWrites
  <2> QED BY <1>2, <1>3, <2>3, <2>4 DEF Ledger!Manage
<1>6. CASE mutation = "setManaged"
  <2> DEFINE new == [u \in Registered |->
                       IF u = token THEN setManaged(LedgerOf[token], amount, block)
                       ELSE IF twoTokens THEN [LedgerOf[u] EXCEPT !.lastChangeBlock = block]
                       ELSE LedgerOf[u]]
  <2>1. DOMAIN new = Registered
    OBVIOUS
  <2>2. new = [u \in DOMAIN LedgerOf |->
                 IF u = token THEN Ledger!setManaged(LedgerOf[token], amount, block)
                 ELSE IF twoTokens THEN [LedgerOf[u] EXCEPT !.lastChangeBlock = block]
                 ELSE LedgerOf[u]]
    BY <1>3, SameArithmetic
  <2>3. new[token] = written
    BY <1>2, <1>3, <1>6 DEF mutate
  <2>4. ASSUME NEW t \in Registered PROVE Fits(new[t]) /\ BalanceOf(t)' = new[t]
    <3>1. CASE t = token
      BY <1>2, <2>3, <3>1
    <3>2. CASE t # token
      <4>1. new[t] = IF twoTokens THEN [BalanceOf(t) EXCEPT !.lastChangeBlock = block] ELSE BalanceOf(t)
        BY <1>3, <3>2
      <4>2. BalanceOf(t) \in Balance /\ Fits(BalanceOf(t))
        BY BalanceTyped DEF LedgerFits
      <4>3. Fits([BalanceOf(t) EXCEPT !.lastChangeBlock = block])
        BY <4>2 DEF Fits, total, Balance
      <4> HIDE DEF new
      <4> QED BY <1>2, <1>6, <3>2, <4>1, <4>2, <4>3
    <3> QED BY <3>1, <3>2
  <2> HIDE DEF new, written
  <2>5. Ledger!Write(new) /\ LedgerFits'
    BY <1>2, <2>1, <2>4, LedgerWrites
  <2> QED BY <1>2, <1>3, <2>2, <2>5 DEF Ledger!Manage
<1> QED BY <1>5, <1>6
-----------------------------------------------------------------------------
\* What the ledger asks of the storage, besides that it agrees with itself.
LedgerInv == StorageInv /\ UnregisteredEmpty /\ LedgerFits /\ BlocksPast

LEMMA LedgerInitial == StorageInit => LedgerInv /\ Ledger!LedgerInit
<1> SUFFICES ASSUME StorageInit PROVE LedgerInv /\ Ledger!LedgerInit
  OBVIOUS
<1>1. StorageInv /\ UnregisteredEmpty
  BY StorageInitInv, UnregisteredInit
<1>2. Registered = {}
  BY InputsAssumption
  DEF StorageInit, Registered, isTokenRegistered, isTwoTokenPoolTokenRegistered, NoPair,
      Map!contains, Map!EmptyMap, TokenSet!contains, TokenSet!EmptySet
<1>3. LedgerOf = [t \in {} |-> EmptyBalance]
  BY <1>1, <1>2, Viewed DEF LedgerView
<1>4. BlocksPast
  BY DEF StorageInit, BlocksPast, NoCash
<1> QED BY <1>1, <1>2, <1>3, <1>4, SameArithmetic
        DEF LedgerInv, LedgerFits, Ledger!LedgerInit, StorageInit

\* Registering and removing tokens puts no block into a word.
LEMMA TokensKeepBlocks ==
  ASSUME StorageInv, BlocksPast, NEW tokens, registerTokens(tokens) \/ deregisterTokens(tokens)
  PROVE  BlocksPast'
<1>1. block' = block /\ block \in Nat /\ pairBalances \in PairTable
  BY DEF registerTokens, deregisterTokens, StorageInv, StorageTypeOK, PairTable
<1>2. CASE UNCHANGED pairBalances
  BY <1>1, <1>2 DEF BlocksPast
<1>3. CASE \E pair : pairBalances' = [pairBalances EXCEPT ![pair].sharedCash = NoCash]
  <2>1. PICK pair : pairBalances' = [pairBalances EXCEPT ![pair].sharedCash = NoCash]
    BY <1>3
  <2>2. ASSUME NEW p \in DOMAIN pairBalances PROVE pairBalances'[p].sharedCash.block <= block
    <3>1. pairBalances[p] \in Words /\ pairBalances[p].sharedCash.block <= block
      BY <1>1 DEF PairTable, BlocksPast
    <3>2. pairBalances'[p].sharedCash = NoCash \/ pairBalances'[p] = pairBalances[p]
      BY <2>1, <3>1 DEF Words
    <3> QED BY <1>1, <3>1, <3>2 DEF NoCash
  <2> QED BY <1>1, <2>1, <2>2 DEF BlocksPast
<1>4. UNCHANGED pairBalances \/ \E pair : pairBalances' = [pairBalances EXCEPT ![pair].sharedCash = NoCash]
  BY InputsAssumption
  DEF registerTokens, deregisterTokens, OnlyGeneral, OnlyMinimal, registerTwoTokenPoolTokens,
      deregisterTwoTokenPoolTokens, StorageInv, StorageTypeOK
<1> QED BY <1>2, <1>3, <1>4

\* Each step of the storage is one of the ledger's, or leaves the ledger alone.
LEMMA StepsRefine ==
  ASSUME NoRepeatedTokens
  PROVE  LedgerInv /\ LedgerView /\ LedgerView' /\ [StorageNext]_storageVars
           => LedgerStep /\ LedgerFits' /\ BlocksPast'
<1> SUFFICES ASSUME LedgerInv, LedgerView, LedgerView', [StorageNext]_storageVars
             PROVE  LedgerStep /\ LedgerFits' /\ BlocksPast'
  OBVIOUS
<1> USE DEF LedgerInv
<1>1. \A tokens \in Lists[specialization] :
        /\ tokens \in Seq(Tokens)
        /\ specialization = "TWO_TOKEN" /\ Len(tokens) = 2 => tokens[1] # tokens[2]
  BY InputsAssumption DEF StorageInv, StorageTypeOK, NoRepeatedTokens
<1>2. ASSUME NEW tokens \in Lists[specialization], registerTokens(tokens)
      PROVE  LedgerStep /\ LedgerFits' /\ BlocksPast'
  BY <1>1, <1>2, RegisterRefines, TokensKeepBlocks
<1>3. ASSUME NEW tokens \in Lists[specialization], deregisterTokens(tokens)
      PROVE  LedgerStep /\ LedgerFits' /\ BlocksPast'
  BY <1>1, <1>3, DeregisterRefines, TokensKeepBlocks
<1>4. ASSUME joinOrExit \/ Revert \/ UNCHANGED storageVars
             \/ \E tokenIn, tokenOut \in Tokens : swap(tokenIn, tokenOut)
      PROVE  LedgerStep /\ LedgerFits' /\ BlocksPast'
  <2>1. UNCHANGED <<layoutVars, specialization, block>>
    BY <1>4 DEF joinOrExit, swap, Revert, storageVars
  <2>2. LedgerOf' = LedgerOf /\ LedgerFits'
    BY <2>1, NoLedgerStep
  <2>3. LedgerStep
    BY <2>1, <2>2 DEF LedgerStep, Ledger!ledgerVars
  <2>4. BlocksPast'
    BY <2>1 DEF BlocksPast, layoutVars
  <2> QED BY <2>2, <2>3, <2>4
<1>5. ASSUME NextBlock PROVE LedgerStep /\ LedgerFits' /\ BlocksPast'
  <2>1. UNCHANGED <<layoutVars, specialization>> /\ block < MaxBlock /\ block' = block + 1 /\ block \in Nat
    BY <1>5 DEF NextBlock, StorageInv, StorageTypeOK
  <2>2. LedgerOf' = LedgerOf /\ LedgerFits'
    BY <2>1, NoLedgerStep
  <2>3. LedgerStep
    BY <2>1, <2>2 DEF LedgerStep, Ledger!LedgerNext, Ledger!NextBlock
  <2>4. BlocksPast'
    <3>1. pairBalances' = pairBalances /\ pairBalances \in PairTable
      BY <2>1 DEF layoutVars, StorageInv, StorageTypeOK, PairTable
    <3>2. \A pair \in DOMAIN pairBalances :
            pairBalances[pair].sharedCash.block \in Nat /\ pairBalances[pair].sharedCash.block <= block
      BY <3>1 DEF BlocksPast, PairTable, Words
    <3> QED BY <2>1, <3>1, <3>2 DEF BlocksPast
  <2> QED BY <2>2, <2>3, <2>4
<1>6. ASSUME pending.kind = "joinOrExit", NEW change \in [DOMAIN pending.read -> Signed],
             JoinOrExitReturn(change)
      PROVE  LedgerStep /\ LedgerFits' /\ BlocksPast'
  BY <1>6, JoinOrExitRefines, JoinOrExitWrites
<1>7. ASSUME pending.kind = "swap", NEW amountIn \in Amounts, NEW amountOut \in Amounts,
             SwapReturn(amountIn, amountOut)
      PROVE  LedgerStep /\ LedgerFits' /\ BlocksPast'
  BY <1>7, SwapRefines, SwapWrites
<1>8. ASSUME NEW token \in Tokens, NEW amount \in Amounts,
             \/ withdrawPoolBalance(token, amount)
             \/ depositPoolBalance(token, amount)
             \/ updateManagedBalance(token, amount)
      PROVE  LedgerStep /\ LedgerFits' /\ BlocksPast'
  <2>1. PICK mutation \in {"cashToManaged", "managedToCash", "setManaged"} :
          managePoolBalance(token, mutation, amount)
    BY <1>8 DEF withdrawPoolBalance, depositPoolBalance, updateManagedBalance
  <2> QED BY <2>1, ManageRefines
<1> QED BY <1>2, <1>3, <1>4, <1>5, <1>6, <1>7, <1>8 DEF StorageNext

\* The three layouts implement the ledger, if no list to deregister names a token twice.
THEOREM LayoutsImplementLedger ==
  ASSUME NoRepeatedTokens
  PROVE  StorageSpec => ImplementsLedger
<1>1. StorageInit => LedgerInv /\ Ledger!LedgerInit
  BY LedgerInitial
<1>2. LedgerInv => LedgerView
  BY Viewed DEF LedgerInv
<1>3. LedgerInv /\ [StorageNext]_storageVars => (StorageInv /\ UnregisteredEmpty)'
  BY StorageNextInv, UnregisteredNext DEF LedgerInv
<1>4. StorageInv /\ UnregisteredEmpty => LedgerView
  BY Viewed
<1>5. LedgerInv /\ LedgerView /\ LedgerView' /\ [StorageNext]_storageVars
        => LedgerStep /\ LedgerFits' /\ BlocksPast'
  BY StepsRefine
<1>6. (StorageInv /\ UnregisteredEmpty)' /\ LedgerFits' /\ BlocksPast' => LedgerInv'
  BY DEF LedgerInv
<1>7. LedgerStep => [Ledger!LedgerNext]_(Ledger!ledgerVars)
  BY DEF LedgerStep
<1>8. StorageSpec => Ledger!LedgerInit /\ [][Ledger!LedgerNext]_(Ledger!ledgerVars)
  BY <1>1, <1>2, <1>3, <1>4, <1>5, <1>6, <1>7, PTL DEF StorageSpec
<1> QED BY <1>8 DEF ImplementsLedger, Ledger!LedgerSpec
=============================================================================
