------------------------------- MODULE Induction -------------------------------
(***************************************************************************)
(* Induction over the naturals and over the subsets of a finite set, in the*)
(* form of a set that has every member; and what it shows of the sum of a  *)
(* function with a finite domain.  The Functions module defines that sum by*)
(* folding the domain in an order of its own (CHOOSE): that the order does *)
(* not matter, and what changing one value changes, is shown here.         *)
(***************************************************************************)
EXTENDS Integers, FiniteSets, Functions, FiniteSetTheorems, WellFoundedInduction, TLAPS

\* < on the naturals is well-founded, and so a set that has 0 and each
\* successor of its members has every natural.
LessOnNat == {ss \in Nat \X Nat : ss[1] < ss[2]}

LEMMA NatWF == IsWellFoundedOn(LessOnNat, Nat)
<1>1. IsWellFoundedOn(OpToRel(<, Nat), Nat)
  BY NatLessThanWellFounded
<1>2. OpToRel(<, Nat) = LessOnNat
  BY Zenon DEF OpToRel, LessOnNat
<1> QED BY <1>1, <1>2

LEMMA SetInduction ==
  ASSUME NEW T, 0 \in T, \A n \in Nat : n \in T => n + 1 \in T
  PROVE  Nat \subseteq T
<1> DEFINE bad == Nat \ T
<1> SUFFICES ASSUME bad # {} PROVE FALSE
  OBVIOUS
<1>1. PICK m \in bad : \A y \in bad : ~(<<y, m>> \in LessOnNat)
  <2>1. bad \subseteq Nat
    OBVIOUS
  <2> QED BY NatWF, <2>1, WFMin
<1>2. m \in Nat /\ m # 0 /\ m - 1 \in Nat
  BY <1>1
<1>3. <<m - 1, m>> \in LessOnNat
  BY <1>2 DEF LessOnNat
<1>4. m - 1 \in T
  BY <1>1, <1>2, <1>3
<1> QED BY <1>2, <1>4, <1>1

\* A set that has {}, and every subset of S from which each way to take one
\* element away leads into it, has every subset of S.
LEMMA SubsetInduction ==
  ASSUME NEW S, IsFiniteSet(S), NEW T, {} \in T,
         \A s \in SUBSET S : s # {} /\ (\A x \in s : s \ {x} \in T) => s \in T
  PROVE  SUBSET S \subseteq T
<1> DEFINE bad == (SUBSET S) \ T
<1> SUFFICES ASSUME bad # {} PROVE FALSE
  OBVIOUS
<1>1. \A s \in SUBSET S : IsFiniteSet(s)
  BY FS_Subset
<1>2. PICK m \in bad : \A y \in bad : ~(<<y, m>> \in StrictSubsetOrdering(S))
  <2>1. bad \subseteq FiniteSubsetsOf(S)
    BY <1>1 DEF FiniteSubsetsOf
  <2> QED BY FS_StrictSubsetOrderingWellFounded, <2>1, WFMin
<1>3. \A x \in m : m \ {x} \in T
  <2> SUFFICES ASSUME NEW x \in m PROVE m \ {x} \in T
    OBVIOUS
  <2>1. m \ {x} \in SUBSET S /\ m \ {x} # m
    OBVIOUS
  <2>2. <<m \ {x}, m>> \in StrictSubsetOrdering(S)
    BY <2>1 DEF StrictSubsetOrdering
  <2> QED BY <1>2, <2>1, <2>2
<1> QED BY <1>2, <1>3
-----------------------------------------------------------------------------
\* The element the fold takes next, and the partial sums it computes.
pick(s) == CHOOSE x \in s : TRUE
ArePartialSums(h, f, S) ==
  h = [s \in SUBSET S |-> IF s = {} THEN 0 ELSE f[pick(s)] + h[s \ {pick(s)}]]
PartialSums(f, S) == CHOOSE h : ArePartialSums(h, f, S)

LEMMA SumUnfolds ==
  ASSUME NEW f, NEW S
  PROVE  SumFunctionOnSet(f, S) = PartialSums(f, S)[S]
BY Zenon DEF SumFunctionOnSet, FoldFunctionOnSet, MapThenFoldSet, PartialSums, ArePartialSums, pick

LEMMA PickMember == ASSUME NEW s, s # {} PROVE pick(s) \in s
BY DEF pick

\* Such a function exists: it is built for the subsets of at most n elements.
LEMMA PartialSumsExist ==
  ASSUME NEW S, IsFiniteSet(S), NEW f \in [S -> Int]
  PROVE  \E h \in [SUBSET S -> Int] : ArePartialSums(h, f, S)
<1> DEFINE UpTo(n) == {s \in SUBSET S : Cardinality(s) <= n}
           IsSums(h, n) == \A s \in UpTo(n) :
             h[s] = IF s = {} THEN 0 ELSE f[pick(s)] + h[s \ {pick(s)}]
           T == {n \in Nat : \E h \in [UpTo(n) -> Int] : IsSums(h, n)}
<1>1. \A s \in SUBSET S : /\ IsFiniteSet(s) /\ Cardinality(s) \in Nat
                          /\ Cardinality(s) <= Cardinality(S)
  BY FS_Subset, FS_CardinalityType
<1>2. \A s \in SUBSET S : Cardinality(s) = 0 => s = {}
  BY <1>1, FS_EmptySet
<1>3. \A s \in SUBSET S : s # {} =>
        /\ pick(s) \in s /\ f[pick(s)] \in Int
        /\ s \ {pick(s)} \in SUBSET S
        /\ Cardinality(s \ {pick(s)}) = Cardinality(s) - 1
  BY <1>1, PickMember, FS_RemoveElement
<1>4. 0 \in T
  <2> DEFINE h == [s \in UpTo(0) |-> 0]
  <2>1. \A s \in UpTo(0) : s = {}
    BY <1>1, <1>2
  <2>2. IsSums(h, 0)
    BY <2>1
  <2>3. h \in [UpTo(0) -> Int]
    OBVIOUS
  <2> QED BY <2>2, <2>3
<1>5. ASSUME NEW n \in Nat, n \in T PROVE n + 1 \in T
  <2>1. PICK h \in [UpTo(n) -> Int] : IsSums(h, n)
    BY <1>5
  <2> DEFINE next == [s \in UpTo(n + 1) |->
               IF s \in UpTo(n) THEN h[s] ELSE f[pick(s)] + h[s \ {pick(s)}]]
  <2>2. \A s \in UpTo(n + 1) : s \in UpTo(n) \/ (s # {} /\ s \ {pick(s)} \in UpTo(n))
    BY <1>1, <1>3, FS_EmptySet
  <2>3. \A s \in UpTo(n) : s # {} => s \ {pick(s)} \in UpTo(n)
    BY <1>1, <1>3
  <2>4. UpTo(n) \subseteq UpTo(n + 1)
    BY <1>1
  <2>5. next \in [UpTo(n + 1) -> Int]
    BY <1>3, <2>2
  <2>6. IsSums(next, n + 1)
    <3> SUFFICES ASSUME NEW s \in UpTo(n + 1)
                 PROVE  next[s] = IF s = {} THEN 0
                                  ELSE f[pick(s)] + next[s \ {pick(s)}]
      OBVIOUS
    <3>1. CASE s \in UpTo(n)
      <4>1. next[s] = h[s]
        BY <3>1
      <4>2. s # {} => next[s \ {pick(s)}] = h[s \ {pick(s)}]
        BY <3>1, <2>3, <2>4
      <4>3. h[s] = IF s = {} THEN 0 ELSE f[pick(s)] + h[s \ {pick(s)}]
        BY <2>1, <3>1
      <4> QED BY <4>1, <4>2, <4>3
    <3>2. CASE s \notin UpTo(n)
      <4>1. s # {} /\ s \ {pick(s)} \in UpTo(n)
        BY <2>2, <3>2
      <4>2. next[s] = f[pick(s)] + h[s \ {pick(s)}]
        BY <3>2
      <4>3. next[s \ {pick(s)}] = h[s \ {pick(s)}]
        BY <4>1, <2>4
      <4> QED BY <4>1, <4>2, <4>3
    <3> QED BY <3>1, <3>2
  <2> HIDE DEF next, UpTo, IsSums
  <2> QED BY <2>5, <2>6
<1>6. Cardinality(S) \in T
  <2> HIDE DEF T
  <2>1. Nat \subseteq T
    BY <1>4, <1>5, SetInduction
  <2> QED BY <2>1, <1>1
<1>7. UpTo(Cardinality(S)) = SUBSET S
  BY <1>1
<1>8. PICK h \in [UpTo(Cardinality(S)) -> Int] : IsSums(h, Cardinality(S))
  BY <1>6
<1> HIDE DEF UpTo
<1>9. h \in [SUBSET S -> Int]
  BY <1>7
<1>10. \A s \in SUBSET S :
         h[s] = IF s = {} THEN 0 ELSE f[pick(s)] + h[s \ {pick(s)}]
  BY <1>7, <1>8
<1> QED BY <1>9, <1>10 DEF ArePartialSums

\* The order of the fold does not matter.
AnyOrder(g, f, S) ==
  /\ g \in [SUBSET S -> Int]
  /\ g[{}] = 0
  /\ \A s \in SUBSET S : \A x \in s : g[s] = f[x] + g[s \ {x}]

LEMMA PartialSumsAre ==
  ASSUME NEW S, IsFiniteSet(S), NEW f \in [S -> Int]
  PROVE  AnyOrder(PartialSums(f, S), f, S)
<1> DEFINE g == PartialSums(f, S)
<1>1. ArePartialSums(g, f, S)
  BY PartialSumsExist DEF PartialSums
<1> HIDE DEF g
<1>2. g[{}] = 0
  <2>1. {} \in SUBSET S
    OBVIOUS
  <2> QED BY <1>1, <2>1 DEF ArePartialSums
<1>3. \A s \in SUBSET S : s # {} => g[s] = f[pick(s)] + g[s \ {pick(s)}]
  BY <1>1 DEF ArePartialSums
<1>4. g \in [SUBSET S -> Int]
  <2> DEFINE T == {s \in SUBSET S : g[s] \in Int}
  <2>1. {} \in T
    BY <1>2
  <2>2. ASSUME NEW s \in SUBSET S, s # {}, \A x \in s : s \ {x} \in T
        PROVE  s \in T
    <3>1. pick(s) \in s /\ g[s] = f[pick(s)] + g[s \ {pick(s)}]
      BY <1>3, <2>2, PickMember
    <3>2. g[s \ {pick(s)}] \in Int /\ f[pick(s)] \in Int
      BY <2>2, <3>1
    <3> QED BY <3>1, <3>2
  <2>3. SUBSET S \subseteq T
    <3> HIDE DEF T
    <3> QED BY <2>1, <2>2, SubsetInduction
  <2>4. g = [s \in SUBSET S |-> g[s]]
    BY <1>1 DEF ArePartialSums
  <2> QED BY <2>3, <2>4
<1>5. \A s \in SUBSET S : \A x \in s : g[s] = f[x] + g[s \ {x}]
  <2> DEFINE Any(s) == \A x \in s : g[s] = f[x] + g[s \ {x}]
             T == {s \in SUBSET S : Any(s)}
  <2>1. {} \in T
    OBVIOUS
  <2>2. ASSUME NEW s \in SUBSET S, s # {}, \A x \in s : s \ {x} \in T
        PROVE  s \in T
    <3> SUFFICES ASSUME NEW x \in s PROVE g[s] = f[x] + g[s \ {x}]
      OBVIOUS
    <3> DEFINE y == pick(s)
    <3>1. y \in s /\ g[s] = f[y] + g[s \ {y}]
      BY <1>3, <2>2, PickMember
    <3>2. ASSUME x # y PROVE g[s] = f[x] + g[s \ {x}]
      <4> HIDE DEF y
      <4>1. g[s \ {y}] = f[x] + g[(s \ {y}) \ {x}]
        BY <2>2, <3>1, <3>2
      <4>2. g[s \ {x}] = f[y] + g[(s \ {x}) \ {y}]
        BY <2>2, <3>1, <3>2
      <4>3. (s \ {y}) \ {x} = (s \ {x}) \ {y} /\ (s \ {y}) \ {x} \in SUBSET S
        OBVIOUS
      <4> DEFINE rest == g[(s \ {y}) \ {x}]
      <4>4. f[x] \in Int /\ f[y] \in Int /\ rest \in Int
        BY <1>4, <3>1, <4>3
      <4>5. g[s] = f[y] + (f[x] + rest) /\ g[s \ {x}] = f[y] + rest
        BY <3>1, <4>1, <4>2, <4>3
      <4> HIDE DEF rest
      <4> QED BY <4>4, <4>5
    <3> QED BY <3>1, <3>2
  <2>3. SUBSET S \subseteq T
    <3> HIDE DEF T
    <3> QED BY <2>1, <2>2, SubsetInduction
  <2> QED BY <2>3
<1> QED BY <1>2, <1>4, <1>5 DEF g, AnyOrder

\* A sum is an integer,
LEMMA SumTyped ==
  ASSUME NEW S, IsFiniteSet(S), NEW f \in [S -> Int]
  PROVE  SumFunction(f) \in Int
<1>1. AnyOrder(PartialSums(f, S), f, S)
  BY PartialSumsAre
<1>2. SumFunction(f) = PartialSums(f, S)[S]
  BY SumUnfolds DEF SumFunction
<1>3. S \in SUBSET S
  OBVIOUS
<1> QED BY <1>1, <1>2, <1>3 DEF AnyOrder

\* one element of the domain at a time,
LEMMA SumStep ==
  ASSUME NEW S, NEW f \in [S -> Int], NEW g, AnyOrder(g, f, S),
         NEW s \in SUBSET S, NEW y \in s
  PROVE  g[s] = f[y] + g[s \ {y}] /\ f[y] \in Int /\ g[s \ {y}] \in Int
<1>1. s \ {y} \in SUBSET S /\ f[y] \in Int
  OBVIOUS
<1> QED BY <1>1 DEF AnyOrder

LEMMA SumOfAll ==
  ASSUME NEW S, IsFiniteSet(S), NEW f \in [S -> Int]
  PROVE  /\ SumFunction(f) = PartialSums(f, S)[S]
         /\ PartialSums(f, S)[{}] = 0
         /\ AnyOrder(PartialSums(f, S), f, S)
<1>1. AnyOrder(PartialSums(f, S), f, S)
  BY PartialSumsAre
<1>2. SumFunction(f) = PartialSums(f, S)[S]
  BY SumUnfolds DEF SumFunction
<1> QED BY <1>1, <1>2 DEF AnyOrder

\* and that of zeros is zero.
LEMMA SumOfZeros ==
  ASSUME NEW S, IsFiniteSet(S), NEW f \in [S -> Int], \A x \in S : f[x] = 0
  PROVE  SumFunction(f) = 0
<1> DEFINE g == PartialSums(f, S)
           T == {s \in SUBSET S : g[s] = 0}
<1>g. AnyOrder(g, f, S) /\ SumFunction(f) = g[S] /\ g[{}] = 0
  BY SumOfAll
<1> HIDE DEF g
<1>1. {} \in T
  BY <1>g
<1>2. ASSUME NEW s \in SUBSET S, s # {}, \A x \in s : s \ {x} \in T
      PROVE  s \in T
  <2>1. PICK y \in s : TRUE
    BY <1>2
  <2>2. g[s] = f[y] + g[s \ {y}]
    BY <2>1, <1>g, SumStep
  <2>3. g[s \ {y}] = 0 /\ f[y] = 0
    BY <1>2, <2>1
  <2> QED BY <2>2, <2>3
<1>3. SUBSET S \subseteq T
  <2> HIDE DEF T
  <2> QED BY <1>1, <1>2, SubsetInduction
<1> QED BY <1>3, <1>g

\* It follows one value that changes,
LEMMA SumExcept ==
  ASSUME NEW S, IsFiniteSet(S), NEW f \in [S -> Int], NEW h \in [S -> Int],
         NEW x \in S, \A y \in S \ {x} : h[y] = f[y]
  PROVE  SumFunction(h) = SumFunction(f) - f[x] + h[x]
<1> DEFINE a == PartialSums(f, S)
           b == PartialSums(h, S)
           T == {s \in SUBSET S : x \notin s => a[s] = b[s]}
<1>a. AnyOrder(a, f, S) /\ SumFunction(f) = a[S] /\ a[{}] = 0
  BY SumOfAll
<1>b. AnyOrder(b, h, S) /\ SumFunction(h) = b[S] /\ b[{}] = 0
  BY SumOfAll
<1> HIDE DEF a, b
<1>1. {} \in T
  BY <1>a, <1>b
<1>2. ASSUME NEW s \in SUBSET S, s # {}, \A y \in s : s \ {y} \in T
      PROVE  s \in T
  <2> SUFFICES ASSUME x \notin s PROVE a[s] = b[s]
    OBVIOUS
  <2>1. PICK y \in s : TRUE
    BY <1>2
  <2>2. a[s] = f[y] + a[s \ {y}]
    BY <2>1, <1>a, SumStep
  <2>3. b[s] = h[y] + b[s \ {y}]
    BY <2>1, <1>b, SumStep
  <2>4. a[s \ {y}] = b[s \ {y}] /\ f[y] = h[y]
    BY <1>2, <2>1
  <2> QED BY <2>2, <2>3, <2>4
<1>3. SUBSET S \subseteq T
  <2> HIDE DEF T
  <2> QED BY <1>1, <1>2, SubsetInduction
<1>4. a[S \ {x}] = b[S \ {x}]
  BY <1>3
<1>5. S \in SUBSET S
  OBVIOUS
<1>6. S \ {x} \in SUBSET S /\ f[x] \in Int /\ h[x] \in Int
  OBVIOUS
<1>7. a[S] = f[x] + a[S \ {x}] /\ a[S \ {x}] \in Int
  BY <1>5, <1>6, <1>a DEF AnyOrder
<1>8. b[S] = h[x] + b[S \ {x}]
  BY <1>5, <1>b DEF AnyOrder
<1> QED BY <1>4, <1>6, <1>7, <1>8, <1>a, <1>b

\* it grows with the values,
LEMMA SumMonotone ==
  ASSUME NEW S, IsFiniteSet(S), NEW f \in [S -> Int], NEW h \in [S -> Int],
         \A x \in S : f[x] <= h[x]
  PROVE  SumFunction(f) <= SumFunction(h)
<1> DEFINE a == PartialSums(f, S)
           b == PartialSums(h, S)
           T == {s \in SUBSET S : a[s] <= b[s]}
<1>a. AnyOrder(a, f, S) /\ SumFunction(f) = a[S] /\ a[{}] = 0
  BY SumOfAll
<1>b. AnyOrder(b, h, S) /\ SumFunction(h) = b[S] /\ b[{}] = 0
  BY SumOfAll
<1> HIDE DEF a, b
<1>1. {} \in T
  BY <1>a, <1>b
<1>2. ASSUME NEW s \in SUBSET S, s # {}, \A y \in s : s \ {y} \in T
      PROVE  s \in T
  <2>1. PICK y \in s : TRUE
    BY <1>2
  <2>2. a[s] = f[y] + a[s \ {y}] /\ f[y] \in Int /\ a[s \ {y}] \in Int
    BY <2>1, <1>a, SumStep
  <2>3. b[s] = h[y] + b[s \ {y}] /\ h[y] \in Int /\ b[s \ {y}] \in Int
    BY <2>1, <1>b, SumStep
  <2>4. a[s \ {y}] <= b[s \ {y}] /\ f[y] <= h[y]
    BY <1>2, <2>1
  <2> QED BY <2>2, <2>3, <2>4
<1>3. SUBSET S \subseteq T
  <2> HIDE DEF T
  <2> QED BY <1>1, <1>2, SubsetInduction
<1> QED BY <1>3, <1>a, <1>b

\* and a difference of sums is the sum of the differences.
LEMMA SumDifference ==
  ASSUME NEW S, IsFiniteSet(S), NEW f \in [S -> Int], NEW h \in [S -> Int],
         NEW d \in [S -> Int], \A x \in S : d[x] = h[x] - f[x]
  PROVE  SumFunction(d) = SumFunction(h) - SumFunction(f)
<1> DEFINE a == PartialSums(f, S)
           b == PartialSums(h, S)
           c == PartialSums(d, S)
           T == {s \in SUBSET S : c[s] = b[s] - a[s]}
<1>a. AnyOrder(a, f, S) /\ SumFunction(f) = a[S] /\ a[{}] = 0
  BY SumOfAll
<1>b. AnyOrder(b, h, S) /\ SumFunction(h) = b[S] /\ b[{}] = 0
  BY SumOfAll
<1>c. AnyOrder(c, d, S) /\ SumFunction(d) = c[S] /\ c[{}] = 0
  BY SumOfAll
<1> HIDE DEF a, b, c
<1>1. {} \in T
  BY <1>a, <1>b, <1>c
<1>2. ASSUME NEW s \in SUBSET S, s # {}, \A y \in s : s \ {y} \in T
      PROVE  s \in T
  <2>1. PICK y \in s : TRUE
    BY <1>2
  <2>2. a[s] = f[y] + a[s \ {y}] /\ f[y] \in Int /\ a[s \ {y}] \in Int
    BY <2>1, <1>a, SumStep
  <2>3. b[s] = h[y] + b[s \ {y}] /\ h[y] \in Int /\ b[s \ {y}] \in Int
    BY <2>1, <1>b, SumStep
  <2>4. c[s] = d[y] + c[s \ {y}]
    BY <2>1, <1>c, SumStep
  <2>5. c[s \ {y}] = b[s \ {y}] - a[s \ {y}] /\ d[y] = h[y] - f[y]
    BY <1>2, <2>1
  <2> QED BY <2>2, <2>3, <2>4, <2>5
<1>3. SUBSET S \subseteq T
  <2> HIDE DEF T
  <2> QED BY <1>1, <1>2, SubsetInduction
<1> QED BY <1>3, <1>a, <1>b, <1>c
-----------------------------------------------------------------------------
\* What holds before a loop and is kept by its iterations holds after each.
LEMMA LoopPreserves ==
  ASSUME NEW G, NEW N \in Nat, NEW after,
         after[0] \in G,
         \A n \in 1..N : after[n - 1] \in G => after[n] \in G
  PROVE  \A n \in 0..N : after[n] \in G
<1> DEFINE T == {n \in Nat : n \in 0..N => after[n] \in G}
<1>1. 0 \in T
  OBVIOUS
<1>2. \A n \in Nat : n \in T => n + 1 \in T
  <2> SUFFICES ASSUME NEW n \in Nat, n \in T, n + 1 \in 0..N
               PROVE  after[n + 1] \in G
    OBVIOUS
  <2>1. n \in 0..N /\ n + 1 \in 1..N /\ (n + 1) - 1 = n
    OBVIOUS
  <2>2. after[n] \in G
    BY <2>1
  <2> QED BY <2>1, <2>2
<1>3. Nat \subseteq T
  <2> HIDE DEF T
  <2> QED BY <1>1, <1>2, SetInduction
<1> QED BY <1>3

\* g has what is reached from `start' by each number of iterations of F, which
\* takes a value and the number of the iteration.
Iterates(D, N, start, F, g) ==
  /\ g \in [0..N -> D]
  /\ g[0] = start
  /\ \A n \in 1..N : g[n] = F[<<g[n - 1], n>>]

\* Any function can be iterated.
LEMMA LoopExists ==
  ASSUME NEW D, NEW N \in Nat, NEW start \in D, NEW F \in [D \X (1..N) -> D]
  PROVE  \E g : Iterates(D, N, start, F, g)
<1> DEFINE Upto(n, g) == Iterates(D, n, start, F, g)
           T == {n \in Nat : n \in 0..N => \E g : Upto(n, g)}
<1>1. 0 \in T
  <2> DEFINE g == [k \in 0..0 |-> start]
  <2>1. Upto(0, g)
    BY DEF Iterates
  <2> HIDE DEF g
  <2>2. \E h : Upto(0, h)
    BY <2>1
  <2> QED BY <2>2
<1>2. \A n \in Nat : n \in T => n + 1 \in T
  <2> SUFFICES ASSUME NEW n \in Nat, n \in T, n + 1 \in 0..N
               PROVE  \E g : Upto(n + 1, g)
    OBVIOUS
  <2>1. PICK h : Upto(n, h)
    OBVIOUS
  <2> DEFINE g == [k \in 0..(n + 1) |-> IF k = n + 1 THEN F[<<h[n], n + 1>>] ELSE h[k]]
  <2>2. h[n] \in D /\ <<h[n], n + 1>> \in D \X (1..N)
    BY <2>1 DEF Iterates
  <2>3. g \in [0..(n + 1) -> D]
    BY <2>1, <2>2 DEF Iterates
  <2>4. g[0] = start
    BY <2>1 DEF Iterates
  <2>5. \A k \in 1..(n + 1) : g[k] = F[<<g[k - 1], k>>]
    <3> SUFFICES ASSUME NEW k \in 1..(n + 1)
                 PROVE  g[k] = F[<<g[k - 1], k>>]
      OBVIOUS
    <3>1. k - 1 \in 0..n /\ g[k - 1] = h[k - 1]
      OBVIOUS
    <3>2. CASE k = n + 1
      <4>1. k - 1 = n /\ g[k] = F[<<h[n], n + 1>>]
        BY <3>2
      <4> HIDE DEF g
      <4> QED BY <3>1, <3>2, <4>1
    <3>3. CASE k # n + 1
      <4>1. k \in 1..n /\ g[k] = h[k]
        BY <3>3
      <4>2. h[k] = F[<<h[k - 1], k>>]
        BY <2>1, <4>1 DEF Iterates
      <4> HIDE DEF g
      <4> QED BY <3>1, <4>1, <4>2
    <3> QED BY <3>2, <3>3
  <2> HIDE DEF g
  <2>6. Upto(n + 1, g)
    BY <2>3, <2>4, <2>5 DEF Iterates
  <2> QED BY <2>6
<1>3. N \in T
  <2> HIDE DEF T
  <2> QED BY <1>1, <1>2, SetInduction
<1> QED BY <1>3

\* A sum of sums is the sum of all,
LEMMA SumAdds ==
  ASSUME NEW S, IsFiniteSet(S), NEW f \in [S -> Int], NEW h \in [S -> Int],
         NEW d \in [S -> Int], \A x \in S : d[x] = f[x] + h[x]
  PROVE  SumFunction(d) = SumFunction(f) + SumFunction(h)
<1>1. \A x \in S : f[x] = d[x] - h[x]
  <2> SUFFICES ASSUME NEW x \in S PROVE f[x] = d[x] - h[x]
    OBVIOUS
  <2>1. f[x] \in Int /\ h[x] \in Int /\ d[x] = f[x] + h[x]
    OBVIOUS
  <2> QED BY <2>1
<1>2. SumFunction(f) = SumFunction(d) - SumFunction(h)
  BY <1>1, SumDifference
<1>3. SumFunction(f) \in Int /\ SumFunction(h) \in Int /\ SumFunction(d) \in Int
  BY SumTyped
<1> QED BY <1>2, <1>3

LEMMA SumNatural ==
  ASSUME NEW S, IsFiniteSet(S), NEW f \in [S -> Nat]
  PROVE  SumFunction(f) \in Nat
<1> DEFINE zeros == [x \in S |-> 0]
<1>1. f \in [S -> Int] /\ zeros \in [S -> Int] /\ \A x \in S : zeros[x] = 0 /\ zeros[x] <= f[x]
  OBVIOUS
<1> HIDE DEF zeros
<1>2. SumFunction(zeros) = 0
  BY <1>1, SumOfZeros
<1>3. SumFunction(zeros) <= SumFunction(f) /\ SumFunction(f) \in Int
  BY <1>1, SumMonotone, SumTyped
<1> QED BY <1>2, <1>3

\* it takes a factor along,
LEMMA SumScales ==
  ASSUME NEW S, IsFiniteSet(S), NEW f \in [S -> Int], NEW h \in [S -> Int], NEW c \in Int,
         \A x \in S : h[x] = c * f[x]
  PROVE  SumFunction(h) = c * SumFunction(f)
<1> DEFINE a == PartialSums(f, S)
           b == PartialSums(h, S)
           T == {s \in SUBSET S : b[s] = c * a[s]}
<1>a. AnyOrder(a, f, S) /\ SumFunction(f) = a[S] /\ a[{}] = 0
  BY SumOfAll
<1>b. AnyOrder(b, h, S) /\ SumFunction(h) = b[S] /\ b[{}] = 0
  BY SumOfAll
<1> HIDE DEF a, b
<1>1. {} \in T
  BY <1>a, <1>b
<1>2. ASSUME NEW s \in SUBSET S, s # {}, \A y \in s : s \ {y} \in T
      PROVE  s \in T
  <2>1. PICK y \in s : TRUE
    BY <1>2
  <2>2. a[s] = f[y] + a[s \ {y}] /\ f[y] \in Int /\ a[s \ {y}] \in Int
    BY <2>1, <1>a, SumStep
  <2>3. b[s] = h[y] + b[s \ {y}]
    BY <2>1, <1>b, SumStep
  <2>4. b[s \ {y}] = c * a[s \ {y}] /\ h[y] = c * f[y]
    BY <1>2, <2>1
  <2> DEFINE p == f[y]
             q == a[s \ {y}]
  <2>5. p \in Int /\ q \in Int /\ a[s] = p + q /\ b[s] = c * p + c * q
    BY <2>2, <2>3, <2>4
  <2> HIDE DEF p, q
  <2>6. c * (p + q) = c * p + c * q
    BY <2>5
  <2> QED BY <2>5, <2>6
<1>3. SUBSET S \subseteq T
  <2> HIDE DEF T
  <2> QED BY <1>1, <1>2, SubsetInduction
<1> QED BY <1>3, <1>a, <1>b

\* zeros may be left out,
LEMMA SumOfPart ==
  ASSUME NEW S, IsFiniteSet(S), NEW A \in SUBSET S, NEW f \in [S -> Int], NEW h \in [A -> Int],
         \A x \in A : h[x] = f[x], \A x \in S \ A : f[x] = 0
  PROVE  SumFunction(h) = SumFunction(f)
<1> DEFINE a == PartialSums(f, S)
           b == PartialSums(h, A)
           T == {s \in SUBSET S : a[s] = b[s \cap A]}
<1>a. AnyOrder(a, f, S) /\ SumFunction(f) = a[S] /\ a[{}] = 0
  BY SumOfAll
<1>0. IsFiniteSet(A)
  BY FS_Subset
<1>b. AnyOrder(b, h, A) /\ SumFunction(h) = b[A] /\ b[{}] = 0
  BY <1>0, SumOfAll
<1> HIDE DEF a, b
<1>1. {} \in T
  <2>1. {} \cap A = {}
    OBVIOUS
  <2> QED BY <1>a, <1>b, <2>1
<1>2. ASSUME NEW s \in SUBSET S, s # {}, \A y \in s : s \ {y} \in T
      PROVE  s \in T
  <2>1. PICK y \in s : TRUE
    BY <1>2
  <2>2. a[s] = f[y] + a[s \ {y}] /\ f[y] \in Int /\ a[s \ {y}] \in Int
    BY <2>1, <1>a, SumStep
  <2>3. a[s \ {y}] = b[(s \ {y}) \cap A]
    BY <1>2, <2>1
  <2> DEFINE r == s \cap A
             q == (s \ {y}) \cap A
  <2>4. CASE y \in A
    <3>1. q = r \ {y} /\ r \in SUBSET A /\ y \in r
      BY <2>1, <2>4
    <3> HIDE DEF r, q
    <3>2. b[r] = h[y] + b[r \ {y}]
      BY <3>1, <1>0, <1>b, SumStep
    <3>3. h[y] = f[y] /\ a[s \ {y}] = b[q]
      BY <2>3, <2>4 DEF q
    <3>4. a[s] = b[r]
      BY <2>2, <3>1, <3>2, <3>3
    <3> QED BY <3>4 DEF r
  <2>5. CASE y \notin A
    <3>1. q = r
      BY <2>5
    <3>2. f[y] = 0 /\ a[s \ {y}] = b[q]
      BY <2>1, <2>3, <2>5
    <3> HIDE DEF r, q
    <3>3. a[s] = b[r]
      BY <2>2, <3>1, <3>2
    <3> QED BY <3>3 DEF r
  <2> QED BY <2>4, <2>5
<1>3. SUBSET S \subseteq T
  <2> HIDE DEF T
  <2> QED BY <1>1, <1>2, SubsetInduction
<1>4. S \cap A = A
  OBVIOUS
<1> QED BY <1>3, <1>4, <1>a, <1>b

LEMMA SumWithout ==
  ASSUME NEW S, IsFiniteSet(S), NEW f \in [S -> Int], NEW y \in S,
         NEW R, R = S \ {y}, NEW h \in [R -> Int], \A x \in R : h[x] = f[x]
  PROVE  SumFunction(f) = f[y] + SumFunction(h)
<1> DEFINE g == [x \in S |-> IF x = y THEN 0 ELSE f[x]]
<1>1. /\ g \in [S -> Int] /\ g[y] = 0 /\ f[y] \in Int
      /\ \A x \in S \ {y} : g[x] = f[x]
  OBVIOUS
<1> HIDE DEF g
<1>3. SumFunction(g) = SumFunction(f) - f[y] + g[y]
  BY <1>1, SumExcept
<1>4. SumFunction(h) = SumFunction(g)
  <2>1. \A x \in S \ R : g[x] = 0
    BY <1>1
  <2>2. \A x \in R : h[x] = g[x]
    BY <1>1
  <2>3. R \in SUBSET S
    OBVIOUS
  <2> QED BY <1>1, <2>1, <2>2, <2>3, SumOfPart
<1>5. SumFunction(f) \in Int
  BY SumTyped
<1> QED BY <1>1, <1>3, <1>4, <1>5

SumOver(F, s) == SumFunction([u \in s |-> F[u]])

LEMMA SumTakesOut ==
  ASSUME NEW U, IsFiniteSet(U), NEW s \in SUBSET U, NEW F \in [U -> Int], NEW y \in s
  PROVE  SumOver(F, s) = F[y] + SumOver(F, s \ {y})
<1> DEFINE g == [u \in s |-> F[u]]
           R == s \ {y}
           h == [u \in R |-> F[u]]
<1>1. g \in [s -> Int] /\ h \in [R -> Int] /\ g[y] = F[y]
  OBVIOUS
<1>2. R = s \ {y} /\ \A x \in R : h[x] = g[x]
  OBVIOUS
<1>0. IsFiniteSet(s)
  BY FS_Subset
<1> HIDE DEF g, R, h
<1>3. SumFunction(g) = g[y] + SumFunction(h)
  BY <1>0, <1>1, <1>2, SumWithout
<1>4. SumFunction(g) = F[y] + SumFunction(h)
  BY <1>1, <1>3
<1> QED BY <1>4 DEF g, R, h, SumOver

\* and rows may be added up before columns.
LEMMA SumSwaps ==
  ASSUME NEW U, IsFiniteSet(U), NEW W, IsFiniteSet(W), NEW f \in [U -> [W -> Int]]
  PROVE  SumFunction([u \in U |-> SumFunction(f[u])])
           = SumFunction([w \in W |-> SumFunction([u \in U |-> f[u][w]])])
<1> DEFINE rows == [u \in U |-> SumFunction(f[u])]
           column(s, w) == SumFunction([u \in s |-> f[u][w]])
           columns(s) == [w \in W |-> column(s, w)]
           a == PartialSums(rows, U)
           T == {s \in SUBSET U : a[s] = SumFunction(columns(s))}
<1>0. rows \in [U -> Int]
  BY SumTyped
<1>a. AnyOrder(a, rows, U) /\ SumFunction(rows) = a[U] /\ a[{}] = 0
  <2> HIDE DEF rows
  <2> QED BY <1>0, SumOfAll
<1>c. \A s \in SUBSET U : columns(s) \in [W -> Int]
  <2> SUFFICES ASSUME NEW s \in SUBSET U, NEW w \in W PROVE column(s, w) \in Int
    OBVIOUS
  <2> DEFINE g == [u \in s |-> f[u][w]]
  <2>1. IsFiniteSet(s) /\ g \in [s -> Int]
    BY FS_Subset
  <2> HIDE DEF g
  <2>2. SumFunction(g) \in Int
    BY <2>1, SumTyped
  <2> QED BY <2>2 DEF g
<1>1. {} \in T
  <2>1. \A w \in W : column({}, w) = 0
    <3> TAKE w \in W
    <3> DEFINE g == [u \in {} |-> f[u][w]]
    <3>1. IsFiniteSet({}) /\ g \in [{} -> Int] /\ \A u \in {} : g[u] = 0
      BY FS_EmptySet
    <3> HIDE DEF g
    <3>2. SumFunction(g) = 0
      BY <3>1, SumOfZeros
    <3> QED BY <3>2 DEF g
  <2> DEFINE none == columns({})
  <2>2. none \in [W -> Int] /\ \A w \in W : none[w] = 0
    BY <1>c, <2>1
  <2> HIDE DEF none, a
  <2>3. SumFunction(none) = 0
    BY <2>2, SumOfZeros
  <2> QED BY <1>a, <2>3 DEF none
<1>2. ASSUME NEW s \in SUBSET U, s # {}, \A y \in s : s \ {y} \in T
      PROVE  s \in T
  <2>1. PICK y \in s : TRUE
    BY <1>2
  <2>2. a[s] = rows[y] + a[s \ {y}]
    <3> HIDE DEF a, rows
    <3> QED BY <2>1, <1>0, <1>a, SumStep
  <2>3. a[s \ {y}] = SumFunction(columns(s \ {y})) /\ rows[y] = SumFunction(f[y])
    BY <1>2, <2>1
  <2> DEFINE whole == columns(s)
             less == columns(s \ {y})
  <2>4. \A w \in W : whole[w] = f[y][w] + less[w]
    <3> SUFFICES ASSUME NEW w \in W PROVE column(s, w) = f[y][w] + column(s \ {y}, w)
      OBVIOUS
    <3>2. PICK F \in [U -> Int] : \A u \in U : F[u] = f[u][w]
      <4> DEFINE F == [u \in U |-> f[u][w]]
      <4>1. F \in [U -> Int] /\ \A u \in U : F[u] = f[u][w]
        OBVIOUS
      <4> HIDE DEF F
      <4> QED BY <4>1
    <3>5. y \in U /\ F[y] = f[y][w]
      BY <2>1, <3>2
    <3>3. \A r \in SUBSET U : column(r, w) = SumOver(F, r)
      <4> TAKE r \in SUBSET U
      <4>1. [u \in r |-> f[u][w]] = [u \in r |-> F[u]]
        BY <3>2
      <4> QED BY <4>1 DEF SumOver
    <3> HIDE DEF column, rows, columns, a, T
    <3>4. SumOver(F, s) = F[y] + SumOver(F, s \ {y})
      BY <2>1, SumTakesOut
    <3> QED BY <3>5, <3>3, <3>4
  <2>5. whole \in [W -> Int] /\ less \in [W -> Int] /\ f[y] \in [W -> Int]
    <3>1. s \ {y} \in SUBSET U /\ y \in U
      BY <2>1
    <3> HIDE DEF columns
    <3> QED BY <3>1, <1>c
  <2> HIDE DEF whole, less, a, rows
  <2>6. SumFunction(whole) = SumFunction(f[y]) + SumFunction(less)
    BY <2>4, <2>5, SumAdds
  <2>7. a[s] = SumFunction(whole)
    BY <2>2, <2>3, <2>6 DEF less
  <2> QED BY <2>7 DEF whole
<1>3. SUBSET U \subseteq T
  <2> HIDE DEF T
  <2> QED BY <1>1, <1>2, SubsetInduction
<1>4. a[U] = SumFunction(columns(U))
  <2> HIDE DEF a, columns
  <2> QED BY <1>3
<1> QED BY <1>a, <1>4
=============================================================================
