------------------------- MODULE LiquidityMiningProofs -------------------------
(***************************************************************************)
(* Proofs about the FeeDistributor, then the DistributionScheduler.  What  *)
(* a user has claimed is a sum over weeks of shares, and what has been     *)
(* assigned one over weeks; the loops that bring supplies, users and       *)
(* tokens up to date may each stop short.  The scheduler's lists have      *)
(* their keys in order, which is what walks along them rely on.            *)
(***************************************************************************)
EXTENDS FeeDistributor, DistributionScheduler, Induction, SequenceTheorems

-----------------------------------------------------------------------------
\* Weeks.  What follows knows of rounding only what these lemmas say.
Multiple(t) == \E k \in Int : t = k * Week

LEMMA MultiplesNext ==
  ASSUME NEW a, NEW b, Multiple(a), Multiple(b), a < b
  PROVE  a + Week <= b
<1>1. PICK j \in Int : a = j * Week
  BY DEF Multiple
<1>2. PICK k \in Int : b = k * Week
  BY DEF Multiple
<1>3. Week \in Nat /\ Week > 0
  BY WeekAssumption
<1>4. j < k
  <2> SUFFICES ASSUME k <= j PROVE FALSE
    BY <1>1, <1>2
  <2>1. k * Week <= j * Week
    BY <1>3
  <2> QED BY <1>1, <1>2, <1>3, <2>1
<1>5. (j + 1) * Week <= k * Week
  BY <1>3, <1>4
<1>6. (j + 1) * Week = j * Week + Week
  BY <1>3
<1> QED BY <1>1, <1>2, <1>5, <1>6

LEMMA MultiplesAdd ==
  ASSUME NEW a \in Int, Multiple(a), NEW n \in Int
  PROVE  Multiple(a + Week) /\ Multiple(a + n * Week) /\ Multiple(0) /\ n * Week \in Int
<1>1. PICK j \in Int : a = j * Week
  BY DEF Multiple
<1>2. Week \in Int
  BY WeekAssumption
<1>3. a + Week = (j + 1) * Week /\ a + n * Week = (j + n) * Week /\ 0 = 0 * Week
  BY <1>1, <1>2
<1> QED BY <1>2, <1>3 DEF Multiple

LEMMA NextWeek ==
  ASSUME NEW a \in Nat, Multiple(a)
  PROVE  a + Week \in Nat /\ Multiple(a + Week) /\ a < a + Week
<1>1. Week \in Nat /\ Week > 0 /\ 0 \in Int
  BY WeekAssumption
<1>2. Multiple(a + Week)
  BY <1>1, MultiplesAdd
<1> QED BY <1>1, <1>2

LEMMA RoundDown ==
  ASSUME NEW t \in Nat
  PROVE  /\ roundDownTimestamp(t) \in Nat /\ Multiple(roundDownTimestamp(t))
         /\ roundDownTimestamp(t) <= t /\ t < roundDownTimestamp(t) + Week
<1>1. Week \in Nat /\ Week > 0
  BY WeekAssumption
<1>2. t \div Week \in Nat
  BY <1>1
<1>3. t = Week * (t \div Week) + (t % Week) /\ 0 <= t % Week /\ t % Week < Week
  BY <1>1
<1>4. t % Week \in Nat
  BY <1>1
<1>5. Week * (t \div Week) = (t \div Week) * Week /\ (t \div Week) * Week \in Nat
  BY <1>1, <1>2
<1> DEFINE q == t \div Week
           r == t % Week
           p == q * Week
<1>6. roundDownTimestamp(t) = p
  BY DEF roundDownTimestamp
<1>7. p \in Nat /\ r \in Nat /\ t = p + r /\ r < Week
  BY <1>3, <1>4, <1>5
<1>8. Multiple(p)
  BY <1>2 DEF Multiple
<1> HIDE DEF p, r
<1> QED BY <1>1, <1>6, <1>7, <1>8

LEMMA RoundUp ==
  ASSUME NEW t \in Nat
  PROVE  /\ roundUpTimestamp(t) \in Nat /\ Multiple(roundUpTimestamp(t))
         /\ t <= roundUpTimestamp(t) /\ roundUpTimestamp(t) < t + Week
<1> DEFINE s == t + Week - 1
<1>1. Week \in Nat /\ s \in Nat
  BY WeekAssumption
<1>2. roundUpTimestamp(t) = roundDownTimestamp(s)
  BY DEF roundUpTimestamp
<1>3. /\ roundDownTimestamp(s) \in Nat /\ Multiple(roundDownTimestamp(s))
      /\ roundDownTimestamp(s) <= s /\ s < roundDownTimestamp(s) + Week
  BY <1>1, RoundDown
<1> QED BY <1>1, <1>2, <1>3

LEMMA RoundMultiple ==
  ASSUME NEW t \in Nat, Multiple(t)
  PROVE  roundDownTimestamp(t) = t /\ roundUpTimestamp(t) = t
<1>1. Week \in Nat
  BY WeekAssumption
<1>2. roundDownTimestamp(t) \in Nat /\ roundUpTimestamp(t) \in Nat
  BY RoundDown, RoundUp
<1>3. ~(roundDownTimestamp(t) < t)
  <2> SUFFICES ASSUME roundDownTimestamp(t) < t PROVE FALSE
    OBVIOUS
  <2>1. roundDownTimestamp(t) + Week <= t
    BY RoundDown, MultiplesNext
  <2> QED BY <1>1, <1>2, <2>1, RoundDown
<1>4. ~(t < roundUpTimestamp(t))
  <2> SUFFICES ASSUME t < roundUpTimestamp(t) PROVE FALSE
    OBVIOUS
  <2>1. t + Week <= roundUpTimestamp(t)
    BY RoundUp, MultiplesNext
  <2> QED BY <1>1, <1>2, <2>1, RoundUp
<1> QED BY <1>2, <1>3, <1>4, RoundDown, RoundUp

LEMMA WeeksAre == IsFiniteSet(Weeks) /\ \A w \in Weeks : w \in Nat /\ Multiple(w)
<1>1. Week \in Nat /\ MaxClock \in Nat /\ Week > 0
  BY WeekAssumption
<1> DEFINE last == MaxClock \div Week + 1
           f == [k \in 0..last |-> k * Week]
<1>2. last \in Nat
  BY <1>1
<1>3. IsFiniteSet(0..last)
  BY <1>2, FS_Interval
<1>4. Weeks = {f[k] : k \in 0..last}
  BY DEF Weeks
<1>5. IsFiniteSet(Weeks)
  <2>1. f \in Surjection(0..last, Weeks)
    BY <1>4 DEF Surjection
  <2> HIDE DEF f, last
  <2> QED BY <1>3, <2>1, FS_Surjection
<1>6. ASSUME NEW w \in Weeks PROVE w \in Nat /\ Multiple(w)
  <2>1. PICK k \in 0..last : w = k * Week
    BY DEF Weeks
  <2>2. k \in Nat
    BY <1>2, <2>1
  <2> QED BY <1>1, <2>1, <2>2 DEF Multiple
<1> QED BY <1>5, <1>6
-----------------------------------------------------------------------------
\* The escrow.  Points are in the order of time, none later than now.
History == {h \in Seq(Point) : InOrder(h) /\ \A i \in DOMAIN h : h[i].ts <= clock}
HistoriesOK == points \in [Users -> Seq(Point)] /\ \A u \in Users : points[u] \in History

LEMMA PointsTyped ==
  ASSUME NEW h \in Seq(Point)
  PROVE  /\ Len(h) \in Nat /\ DOMAIN h = 1..Len(h)
         /\ \A j \in DOMAIN h : h[j] \in Point /\ h[j].ts \in Nat
<1>1. Len(h) \in Nat /\ DOMAIN h = 1..Len(h)
  OBVIOUS
<1>2. ASSUME NEW j \in DOMAIN h PROVE h[j] \in Point /\ h[j].ts \in Nat
  <2>1. h[j] \in Point
    BY <1>1, ElementOfSeq
  <2> QED BY <2>1 DEF Point
<1> QED BY <1>1, <1>2

LEMMA LesserGreater ==
  ASSUME NEW a \in Int, NEW b \in Int
  PROVE  /\ lesser(a, b) \in {a, b} /\ lesser(a, b) <= a /\ lesser(a, b) <= b
         /\ greater(a, b) \in {a, b} /\ greater(a, b) >= a /\ greater(a, b) >= b
BY DEF lesser, greater

LEMMA VotesTyped ==
  ASSUME NEW point \in Point, NEW t \in Nat
  PROVE  votesAt(point, t) \in Nat
<1> DEFINE lost == point.slope * (t - point.ts)
<1>1. point.slope \in Int /\ t - point.ts \in Int /\ point.bias \in Int
  BY DEF Point
<1>2. lost \in Int
  BY <1>1
<1> HIDE DEF lost
<1>3. greater(point.bias - lost, 0) \in Nat
  BY <1>1, <1>2 DEF greater
<1> QED BY <1>3 DEF votesAt, lost

\* Votes that are gone stay gone.
LEMMA VotesDecrease ==
  ASSUME NEW point \in Point, NEW t \in Nat, NEW later \in Nat, t <= later
  PROVE  votesAt(point, later) <= votesAt(point, t)
<1> DEFINE a == t - point.ts
           b == later - point.ts
           k == point.slope
           p == k * a
           q == k * b
<1>1. k \in Nat /\ a \in Int /\ b \in Int /\ a <= b /\ point.bias \in Nat
  BY DEF Point
<1> HIDE DEF a, b, k
<1>2. p \in Int /\ q \in Int /\ p <= q
  <2> DEFINE d == b - a
             r == k * d
  <2>1. d \in Nat /\ b = a + d
    BY <1>1
  <2> HIDE DEF d
  <2>2. k * (a + d) = p + r /\ r \in Nat /\ p \in Int
    BY <1>1, <2>1
  <2>3. q = p + r
    BY <2>1, <2>2
  <2> HIDE DEF p, q, r
  <2> QED BY <2>2, <2>3
<1> HIDE DEF p, q
<1>3. greater(point.bias - q, 0) <= greater(point.bias - p, 0)
  BY <1>1, <1>2 DEF greater
<1> QED BY <1>3 DEF votesAt, p, q, a, b, k

\* The last of some positions exists.
LEMMA LastExists ==
  ASSUME NEW n \in Nat
  PROVE  \A S \in SUBSET (1..n) : S # {} => \E m \in S : \A k \in S : k <= m
<1> DEFINE Has(k) == \A S \in SUBSET (1..k) : S # {} => \E m \in S : \A j \in S : j <= m
           T == {k \in Nat : Has(k)}
<1>1. 0 \in T
  <2>1. 1..0 = {}
    OBVIOUS
  <2> QED BY <2>1
<1>2. ASSUME NEW k \in Nat, k \in T PROVE k + 1 \in T
  <2> SUFFICES ASSUME NEW S \in SUBSET (1..(k + 1)), S # {}
               PROVE  \E m \in S : \A j \in S : j <= m
    OBVIOUS
  <2>1. CASE k + 1 \in S
    BY <2>1
  <2>2. CASE k + 1 \notin S
    <3>1. S \in SUBSET (1..k)
      BY <2>2
    <3> QED BY <1>2, <3>1
  <2> QED BY <2>1, <2>2
<1>3. Nat \subseteq T
  <2> HIDE DEF T
  <2> QED BY <1>1, <1>2, SetInduction
<1> QED BY <1>3

LEMMA MaxIs ==
  ASSUME NEW S, NEW m \in S, S \subseteq Int, \A k \in S : k <= m
  PROVE  Max(S) = m
<1>1. \A k \in S : (\A j \in S : k >= j) => k = m
  BY SMT
<1>2. \E k \in S : \A j \in S : k >= j
  BY SMT
<1>3. Max(S) \in S /\ \A j \in S : Max(S) >= j
  BY <1>2 DEF Max
<1> QED BY <1>1, <1>3

\* The point votes are counted from is the last one by then.
LEMMA VotesAre ==
  ASSUME HistoriesOK, NEW u \in Users, NEW t \in Nat, NEW i \in DOMAIN points[u],
         points[u][i].ts <= t,
         i + 1 \in DOMAIN points[u] => t < points[u][i + 1].ts
  PROVE  escrowBalanceOf(u, t) = votesAt(points[u][i], t)
<1> DEFINE h == points[u]
<1>1. h \in Seq(Point) /\ InOrder(h)
  BY DEF HistoriesOK, History
<1>2. /\ DOMAIN h = 1..Len(h) /\ Len(h) \in Nat
      /\ \A j \in DOMAIN h : h[j].ts \in Nat
  BY <1>1, PointsTyped
<1>3. i \in PointsBy(u, t) /\ PointsBy(u, t) \subseteq Int
  BY <1>2 DEF PointsBy
<1>4. ASSUME NEW j \in PointsBy(u, t) PROVE j <= i
  <2>1. j \in DOMAIN h /\ h[j].ts <= t
    BY DEF PointsBy
  <2> SUFFICES ASSUME i < j PROVE FALSE
    BY <1>2, <2>1
  <2>2. i + 1 \in DOMAIN h
    BY <1>2, <2>1
  <2>3. h[i + 1].ts <= h[j].ts
    BY <1>1, <1>2, <2>1, <2>2 DEF InOrder
  <2> QED BY <1>2, <2>1, <2>2, <2>3
<1>5. Max(PointsBy(u, t)) = i
  BY <1>3, <1>4, MaxIs
<1> QED BY <1>3, <1>5 DEF escrowBalanceOf

LEMMA NoVotesBefore ==
  ASSUME HistoriesOK, NEW u \in Users, NEW t \in Nat,
         points[u] # <<>> => t < points[u][1].ts
  PROVE  escrowBalanceOf(u, t) = 0
<1> DEFINE h == points[u]
<1>1. h \in Seq(Point) /\ InOrder(h)
  BY DEF HistoriesOK, History
<1>2. /\ DOMAIN h = 1..Len(h) /\ Len(h) \in Nat /\ (h # <<>> => 1 \in DOMAIN h)
      /\ \A j \in DOMAIN h : h[j].ts \in Nat
      /\ DOMAIN h # {} => h # <<>>
  BY <1>1, PointsTyped
<1>3. ASSUME NEW j \in DOMAIN h PROVE t < h[j].ts
  <2>1. h[1].ts <= h[j].ts
    BY <1>1, <1>2 DEF InOrder
  <2> QED BY <1>2, <2>1
<1>4. PointsBy(u, t) = {}
  BY <1>2, <1>3 DEF PointsBy
<1> QED BY <1>4 DEF escrowBalanceOf

\* There is such a point, if there is one by then at all.
LEMMA LastPointBy ==
  ASSUME HistoriesOK, NEW u \in Users, NEW t \in Nat, PointsBy(u, t) # {}
  PROVE  \E i \in DOMAIN points[u] : /\ points[u][i].ts <= t
                                     /\ i + 1 \in DOMAIN points[u] => t < points[u][i + 1].ts
<1>1. points[u] \in Seq(Point)
  BY DEF HistoriesOK
<1>2. /\ DOMAIN points[u] = 1..Len(points[u]) /\ Len(points[u]) \in Nat
      /\ \A j \in DOMAIN points[u] : points[u][j].ts \in Nat
  BY <1>1, PointsTyped
<1>3. PointsBy(u, t) \in SUBSET (1..Len(points[u]))
  BY <1>2 DEF PointsBy
<1>4. PICK i \in PointsBy(u, t) : \A k \in PointsBy(u, t) : k <= i
  BY <1>2, <1>3, LastExists
<1>5. i \in DOMAIN points[u] /\ points[u][i].ts <= t /\ i \in Nat
  BY <1>2, <1>3, <1>4 DEF PointsBy
<1>6. ASSUME i + 1 \in DOMAIN points[u] PROVE t < points[u][i + 1].ts
  <2>1. i + 1 \notin PointsBy(u, t)
    BY <1>4, <1>5
  <2> QED BY <1>2, <1>6, <2>1 DEF PointsBy
<1> QED BY <1>5, <1>6

LEMMA BalanceTyped ==
  ASSUME HistoriesOK, NEW u \in Users, NEW t \in Nat
  PROVE  escrowBalanceOf(u, t) \in Nat
<1>1. CASE PointsBy(u, t) = {}
  BY <1>1 DEF escrowBalanceOf
<1>2. CASE PointsBy(u, t) # {}
  <2>1. PICK i \in DOMAIN points[u] : /\ points[u][i].ts <= t
                                      /\ i + 1 \in DOMAIN points[u] => t < points[u][i + 1].ts
    BY <1>2, LastPointBy
  <2>2. escrowBalanceOf(u, t) = votesAt(points[u][i], t)
    BY <2>1, VotesAre
  <2>3. points[u][i] \in Point
    BY PointsTyped DEF HistoriesOK
  <2> QED BY <2>2, <2>3, VotesTyped
<1> QED BY <1>1, <1>2

LEMMA SupplyTyped ==
  ASSUME HistoriesOK, NEW t \in Nat
  PROVE  /\ [u \in Users |-> escrowBalanceOf(u, t)] \in [Users -> Nat]
         /\ totalSupply(t) \in Nat
<1> DEFINE f == [u \in Users |-> escrowBalanceOf(u, t)]
<1>1. f \in [Users -> Nat]
  BY BalanceTyped
<1> HIDE DEF f
<1>2. SumFunction(f) \in Nat
  BY <1>1, FeeAssumption, SumNatural
<1> QED BY <1>1, <1>2 DEF f, totalSupply

\* What is over is not changed by what comes.
LEMMA PastVotesStay ==
  ASSUME HistoriesOK, NEW u \in Users, NEW bias, NEW slope, pointAdded(u, bias, slope),
         NEW t \in Nat, t < clock, clock \in Nat, NEW v \in Users
  PROVE  escrowBalanceOf(v, t)' = escrowBalanceOf(v, t)
<1> DEFINE new == [bias |-> bias, slope |-> slope, ts |-> clock]
           h == points[v]
           n == Len(h)
<1>1. points' = [points EXCEPT ![u] = Append(points[u], new)]
  BY DEF pointAdded
<1>2. points \in [Users -> Seq(Point)] /\ h \in Seq(Point)
  BY DEF HistoriesOK
<1>3. n \in Nat /\ DOMAIN h = 1..n
  BY <1>2, PointsTyped
<1>4. CASE v # u
  <2>1. points'[v] = points[v]
    BY <1>1, <1>2, <1>4
  <2> QED BY <2>1 DEF escrowBalanceOf, PointsBy
<1>5. CASE v = u
  <2> HIDE DEF new
  <2>1. points'[v] = Append(h, new)
    BY <1>1, <1>2, <1>5
  <2>2. /\ DOMAIN points'[v] = 1..(n + 1)
        /\ \A i \in 1..n : points'[v][i] = h[i]
        /\ points'[v][n + 1] = new
    BY <1>2, <2>1
  <2>3. new.ts = clock
    BY DEF new
  <2>4. PointsBy(v, t)' = PointsBy(v, t)
    <3>1. PointsBy(v, t)' = {i \in 1..(n + 1) : points'[v][i].ts <= t}
      BY <2>2 DEF PointsBy
    <3>2. PointsBy(v, t) = {i \in 1..n : h[i].ts <= t}
      BY <1>3 DEF PointsBy
    <3>3. \A i \in 1..(n + 1) : points'[v][i].ts <= t <=> i \in 1..n /\ h[i].ts <= t
      <4> TAKE i \in 1..(n + 1)
      <4>1. CASE i \in 1..n
        BY <2>2, <4>1
      <4>2. CASE i = n + 1
        <5>1. points'[v][i].ts = clock
          BY <2>2, <2>3, <4>2
        <5> QED BY <1>3, <4>2, <5>1
      <4> HIDE DEF n
      <4> QED BY <1>3, <4>1, <4>2
    <3> HIDE DEF n, h
    <3> QED BY <1>3, <3>1, <3>2, <3>3
  <2>5. CASE PointsBy(v, t) = {}
    BY <2>4, <2>5 DEF escrowBalanceOf
  <2>6. CASE PointsBy(v, t) # {}
    <3> DEFINE S == PointsBy(v, t)
               m == Max(S)
    <3>1. S \in SUBSET (1..n)
      BY <1>3 DEF PointsBy
    <3>2. m \in 1..n
      <4>1. PICK k \in S : \A j \in S : j <= k
        <5> HIDE DEF S, n
        <5> QED BY <1>3, <2>6, <3>1, LastExists DEF S
      <4>2. S \subseteq Int
        BY <1>3, <3>1
      <4> HIDE DEF S
      <4>3. Max(S) = k
        BY <4>1, <4>2, MaxIs
      <4> QED BY <3>1, <4>1, <4>3
    <3>3. points'[v][m] = h[m]
      BY <2>2, <3>2
    <3>4. escrowBalanceOf(v, t) = votesAt(h[m], t)
      BY <2>6 DEF escrowBalanceOf
    <3>5. escrowBalanceOf(v, t)' = votesAt(points'[v][m], t)
      <4> HIDE DEF S
      <4>1. PointsBy(v, t)' = S /\ S # {}
        BY <2>4, <2>6 DEF S
      <4> QED BY <4>1 DEF escrowBalanceOf, votesAt
    <3> QED BY <3>3, <3>4, <3>5
  <2> QED BY <2>5, <2>6
<1> QED BY <1>4, <1>5
-----------------------------------------------------------------------------
\* The state as it is between steps, part by part: votes in total,
StartOK == clock \in Nat /\ startTime \in Nat /\ Multiple(startTime) /\ Week <= startTime

GoodSupply(votes) ==
  /\ votes \in [timeCursor: Nat, cache: [Weeks -> Nat]]
  /\ Multiple(votes.timeCursor) /\ startTime <= votes.timeCursor
  /\ \A w \in Weeks : startTime <= w /\ w < votes.timeCursor =>
       w < clock /\ votes.cache[w] = totalSupply(w)

\* those of a user,
GoodUser(u, s) ==
  /\ s \in [startTime: Nat, timeCursor: Nat, lastEpochCheckpointed: Nat, votes: [Weeks -> Nat]]
  /\ Multiple(s.timeCursor) /\ Multiple(s.startTime)
  /\ s.timeCursor # 0 => /\ s.lastEpochCheckpointed \in DOMAIN points[u]
                         /\ points[u][s.lastEpochCheckpointed].ts <= s.timeCursor
                         /\ startTime <= s.timeCursor
  /\ \A w \in Weeks :
       /\ startTime <= w /\ w < s.timeCursor => w < clock /\ s.votes[w] = escrowBalanceOf(u, w)
       /\ s.timeCursor <= w => s.votes[w] = 0
       /\ startTime <= w /\ w < s.startTime => w < clock /\ escrowBalanceOf(u, w) = 0

\* Each week cached is over: its votes are what they will always be.
LEMMA SupplyCheckpoint ==
  ASSUME HistoriesOK, StartOK, GoodSupply(supply)
  PROVE  GoodSupply(checkpointTotalSupply)
<1> DEFINE weekStart == roundDownTimestamp(clock)
           tc == supply.timeCursor
           n == lesser(MaxWeeks, (weekStart - tc) \div Week + 1)
           next == tc + n * Week
           cache == [w \in Weeks |-> IF tc <= w /\ w < next THEN totalSupply(w)
                                     ELSE supply.cache[w]]
<1>1. CASE tc > weekStart \/ weekStart = clock
  BY <1>1 DEF checkpointTotalSupply
<1>2. CASE ~(tc > weekStart \/ weekStart = clock)
  <2>1. checkpointTotalSupply = [timeCursor |-> next, cache |-> cache]
    BY <1>2 DEF checkpointTotalSupply
  <2>2. /\ tc \in Nat /\ supply.cache \in [Weeks -> Nat] /\ Multiple(tc) /\ startTime <= tc
        /\ startTime \in Nat /\ clock \in Nat
    BY DEF GoodSupply, StartOK
  <2>3. Week \in Nat /\ Week > 0 /\ MaxWeeks \in Nat
    BY WeekAssumption, FeeAssumption
  <2>4. weekStart \in Nat /\ Multiple(weekStart) /\ tc <= weekStart /\ weekStart < clock
    <3>1. weekStart \in Nat /\ Multiple(weekStart) /\ weekStart <= clock
      BY <2>2, RoundDown
    <3> HIDE DEF weekStart, tc
    <3> QED BY <1>2, <2>2, <3>1
  <2>5. n \in Nat /\ next \in Nat /\ Multiple(next) /\ tc <= next /\ next <= weekStart + Week
    <3> DEFINE d == weekStart - tc
               q == d \div Week
    <3>1. d \in Nat
      BY <2>2, <2>4
    <3> HIDE DEF d, tc, weekStart
    <3>2. q \in Nat /\ q * Week <= d
      <4>1. d \div Week \in Nat
        BY <2>3, <3>1
      <4>2. d = Week * (d \div Week) + (d % Week) /\ d % Week \in Nat
        BY <2>3, <3>1
      <4>3. Week * (d \div Week) = q * Week /\ q * Week \in Nat
        BY <2>3, <4>1
      <4> DEFINE p == q * Week
                 r == d % Week
      <4>4. d = p + r /\ p \in Nat /\ r \in Nat
        BY <4>2, <4>3
      <4> HIDE DEF p, r
      <4> QED BY <4>1, <4>4 DEF p
    <3>3. n = lesser(MaxWeeks, q + 1)
      BY DEF d
    <3> HIDE DEF q, n
    <3>4. n \in Nat /\ n <= q + 1
      BY <2>3, <3>2, <3>3, LesserGreater
    <3>5. n * Week <= (q + 1) * Week /\ (q + 1) * Week = q * Week + Week
      <4> DEFINE e == (q + 1) - n
                 a == n * Week
                 b == e * Week
      <4>1. e \in Nat /\ q + 1 = n + e
        BY <3>2, <3>4
      <4> HIDE DEF e
      <4>2. (n + e) * Week = a + b /\ a \in Nat /\ b \in Nat
        BY <2>3, <3>4, <4>1
      <4> HIDE DEF a, b
      <4>3. a <= a + b
        BY <4>2
      <4>4. (q + 1) * Week = q * Week + Week
        BY <2>3, <3>2
      <4> QED BY <4>1, <4>2, <4>3, <4>4 DEF a
    <3>6. n * Week \in Nat /\ q * Week \in Nat
      BY <2>3, <3>2, <3>4
    <3> DEFINE a == n * Week
               b == q * Week
    <3>7. a \in Nat /\ b \in Nat /\ a <= b + Week /\ b <= d /\ next = tc + a
      BY <3>2, <3>5, <3>6
    <3>8. Multiple(next)
      BY <2>2, <3>4, MultiplesAdd
    <3> HIDE DEF a, b, next
    <3>9. d = weekStart - tc
      BY DEF d
    <3> QED BY <2>2, <2>3, <2>4, <3>4, <3>7, <3>8, <3>9
  <2> HIDE DEF n, next, weekStart, tc
  <2>6. ASSUME NEW w \in Weeks, w < next PROVE w < clock
    <3>1. w \in Nat /\ Multiple(w)
      BY WeeksAre
    <3> SUFFICES ASSUME weekStart < w PROVE FALSE
      BY <2>2, <2>4, <3>1
    <3>2. weekStart + Week <= w
      BY <2>4, <3>1, MultiplesNext
    <3> QED BY <2>3, <2>4, <2>5, <2>6, <3>1, <3>2
  <2>7. cache \in [Weeks -> Nat]
    BY <2>2, SupplyTyped, WeeksAre
  <2>8. ASSUME NEW w \in Weeks, startTime <= w, w < next
        PROVE  w < clock /\ cache[w] = totalSupply(w)
    <3>1. w < tc => supply.cache[w] = totalSupply(w)
      BY <2>8 DEF GoodSupply, tc
    <3>2. w \in Nat
      BY WeeksAre
    <3> QED BY <2>2, <2>6, <2>8, <3>1, <3>2
  <2> HIDE DEF cache
  <2> QED BY <2>1, <2>2, <2>5, <2>7, <2>8 DEF GoodSupply
<1> QED BY <1>1, <1>2
-----------------------------------------------------------------------------
\* The binary search: wherever it stops, the point is by the timestamp, or the first given.
Halves == [min: Nat, max: Nat]

LEMMA HalvedTyped ==
  ASSUME NEW u, NEW timestamp, NEW s \in Halves
  PROVE  halved(u, timestamp, s) \in Halves
<1> DEFINE mid == (s.min + s.max + 2) \div 2
<1>1. s.min \in Nat /\ s.max \in Nat
  BY DEF Halves
<1>2. mid \in Nat /\ mid >= 1
  BY <1>1
<1> HIDE DEF mid
<1>3. [s EXCEPT !.min = mid] \in Halves /\ [s EXCEPT !.max = mid - 1] \in Halves
  BY <1>1, <1>2 DEF Halves
<1> QED BY <1>3 DEF halved, mid

LEMMA SearchLoop ==
  ASSUME NEW u, NEW timestamp, NEW start \in Halves, NEW N \in Nat, N = Len(points[u])
  PROVE  LET search == searching(u, timestamp, start)
         IN  /\ search[0] = start
             /\ \A n \in 1..N : search[n] = halved(u, timestamp, search[n - 1])
<1> DEFINE F == [x \in Halves \X (1..N) |-> halved(u, timestamp, x[1])]
           Runs(g) == g = [i \in 0..N |-> IF i = 0 THEN start ELSE halved(u, timestamp, g[i - 1])]
<1>1. F \in [Halves \X (1..N) -> Halves]
  BY HalvedTyped
<1>2. \A s \in Halves, n \in 1..N : F[<<s, n>>] = halved(u, timestamp, s)
  OBVIOUS
<1> HIDE DEF F
<1>3. PICK g : Iterates(Halves, N, start, F, g)
  BY <1>1, LoopExists
<1>4. \A n \in 1..N : g[n] = halved(u, timestamp, g[n - 1])
  <2> TAKE n \in 1..N
  <2>1. n - 1 \in 0..N /\ g[n - 1] \in Halves /\ g[n] = F[<<g[n - 1], n>>]
    BY <1>3 DEF Iterates
  <2> QED BY <1>2, <2>1
<1>5. \E h : Runs(h)
  <2>1. Runs(g)
    BY <1>3, <1>4 DEF Iterates
  <2> QED BY <2>1
<1>6. Runs(searching(u, timestamp, start))
  BY <1>5 DEF searching
<1> QED BY <1>6

LEMMA SearchFinds ==
  ASSUME HistoriesOK, NEW u \in Users, NEW timestamp \in Nat, NEW lo \in Nat, NEW hi \in Nat,
         lo <= hi, hi <= Len(points[u])
  PROVE  LET r == findTimestampUserEpoch(u, timestamp, lo, hi)
         IN  r \in lo..hi /\ (r = lo \/ points[u][r].ts <= timestamp)
<1> DEFINE start == [min |-> lo, max |-> hi]
           search == searching(u, timestamp, start)
           N == Len(points[u])
           G == {s \in Halves : /\ lo <= s.min /\ s.min <= s.max /\ s.max <= hi
                                /\ s.min = lo \/ points[u][s.min].ts <= timestamp}
<1>1. N \in Nat /\ start \in Halves /\ start \in G
  BY PointsTyped DEF HistoriesOK, Halves
<1>2. /\ search[0] = start
      /\ \A n \in 1..N : search[n] = halved(u, timestamp, search[n - 1])
  <2> HIDE DEF start
  <2> QED BY <1>1, SearchLoop
<1>3. ASSUME NEW s \in G PROVE halved(u, timestamp, s) \in G
  <2> DEFINE mid == (s.min + s.max + 2) \div 2
  <2>1. s.min \in Nat /\ s.max \in Nat /\ lo <= s.min /\ s.min <= s.max /\ s.max <= hi
    BY DEF Halves
  <2>2. CASE s.min >= s.max
    BY <2>2 DEF halved
  <2>3. CASE s.min < s.max
    <3>1. mid \in Nat /\ s.min < mid /\ mid <= s.max
      BY <2>1, <2>3
    <3>2. s \in Halves
      OBVIOUS
    <3> HIDE DEF mid
    <3>3. CASE points[u][mid].ts <= timestamp
      <4>1. halved(u, timestamp, s) = [s EXCEPT !.min = mid]
        BY <2>1, <2>3, <3>3 DEF halved, mid
      <4> QED BY <2>1, <3>1, <3>2, <3>3, <4>1 DEF Halves
    <3>4. CASE ~(points[u][mid].ts <= timestamp)
      <4>1. halved(u, timestamp, s) = [s EXCEPT !.max = mid - 1]
        BY <2>1, <2>3, <3>4 DEF halved, mid
      <4>2. mid - 1 \in Nat /\ s.min <= mid - 1 /\ mid - 1 <= hi
        BY <2>1, <3>1
      <4> QED BY <2>1, <3>2, <4>1, <4>2 DEF Halves
    <3> QED BY <3>3, <3>4
  <2> QED BY <2>1, <2>2, <2>3
<1>4. search[N] \in G
  <2> HIDE DEF G, search, start
  <2>1. \A n \in 1..N : search[n - 1] \in G => search[n] \in G
    BY <1>2, <1>3
  <2>2. \A n \in 0..N : search[n] \in G
    BY <1>1, <1>2, <2>1, LoopPreserves
  <2> QED BY <1>1, <2>2
<1>5. findTimestampUserEpoch(u, timestamp, lo, hi) = search[N].min
  BY DEF findTimestampUserEpoch
<1> HIDE DEF search
<1> QED BY <1>4, <1>5 DEF Halves
-----------------------------------------------------------------------------
\* The loop over a user's weeks and points.
UserLoopState == [week: Nat, epoch: Nat \ {0}, current: Point, votes: [Weeks -> Nat], done: BOOLEAN]
nextPoint(u, s) == IF s.epoch > Len(points[u]) THEN NoPoint ELSE points[u][s.epoch]

\* What an iteration does: it takes the next point, or passes the week: by stopping, by
\* going to the end as votes are gone for good, or by counting them.
TakesPoint(u, s) ==
  /\ ~s.done /\ s.epoch \in DOMAIN points[u] /\ points[u][s.epoch].ts <= s.week
  /\ userStep(u, s) = [s EXCEPT !.epoch = @ + 1, !.current = points[u][s.epoch]]
Passes(u, s) == ~s.done /\ (s.epoch \in DOMAIN points[u] => s.week < points[u][s.epoch].ts)
Stops(u, s) == userStep(u, s) = [s EXCEPT !.done = TRUE]
VotesGone(u, s) ==
  /\ s.week < clock /\ s.epoch > Len(points[u]) /\ votesAt(s.current, s.week) = 0
  /\ userStep(u, s) = [s EXCEPT !.week = roundUpTimestamp(clock), !.done = TRUE]
CountsVotes(u, s) ==
  /\ s.week < clock
  /\ userStep(u, s) = [s EXCEPT !.votes[s.week] = votesAt(s.current, s.week), !.week = @ + Week]

LEMMA UserStepIs ==
  ASSUME HistoriesOK, clock \in Nat, NEW u \in Users, NEW s \in UserLoopState
  PROVE  /\ userStep(u, s) \in UserLoopState
         /\ \/ s.done /\ userStep(u, s) = s
            \/ TakesPoint(u, s)
            \/ Passes(u, s) /\ (Stops(u, s) \/ VotesGone(u, s) \/ CountsVotes(u, s))
<1> DEFINE h == points[u]
           next == nextPoint(u, s)
           votes == votesAt(s.current, s.week)
<1>1. /\ s.week \in Nat /\ s.epoch \in Nat /\ s.epoch > 0 /\ s.current \in Point
      /\ s.votes \in [Weeks -> Nat] /\ s.done \in BOOLEAN
  BY DEF UserLoopState
<1>2. votes \in Nat
  BY <1>1, VotesTyped
<1>3. s.week + Week \in Nat /\ roundUpTimestamp(clock) \in Nat
  BY <1>1, RoundUp, WeekAssumption
<1>4. Len(h) \in Nat /\ DOMAIN h = 1..Len(h) /\ \A i \in DOMAIN h : h[i] \in Point /\ h[i].ts \in Nat
  BY PointsTyped DEF HistoriesOK
<1>5. /\ s.epoch <= Len(h) => s.epoch \in DOMAIN h /\ next = h[s.epoch]
      /\ s.epoch \in DOMAIN h => s.epoch <= Len(h)
  BY <1>1, <1>4 DEF nextPoint
<1>6. userStep(u, s) =
        IF s.done THEN s
        ELSE IF s.week >= next.ts /\ s.epoch <= Len(h)
        THEN [s EXCEPT !.epoch = @ + 1, !.current = next]
        ELSE IF s.week >= clock THEN [s EXCEPT !.done = TRUE]
        ELSE IF votes = 0 /\ s.epoch > Len(h)
        THEN [s EXCEPT !.week = roundUpTimestamp(clock), !.done = TRUE]
        ELSE [s EXCEPT !.votes[s.week] = votes, !.week = @ + Week]
  BY Zenon DEF userStep, nextPoint
<1> HIDE DEF next, votes, h
<1>7. CASE s.done
  BY <1>6, <1>7
<1>8. CASE ~s.done /\ s.week >= next.ts /\ s.epoch <= Len(h)
  <2>1. userStep(u, s) = [s EXCEPT !.epoch = @ + 1, !.current = h[s.epoch]]
    BY <1>5, <1>6, <1>8
  <2>2. s.epoch \in DOMAIN h /\ h[s.epoch] \in Point /\ h[s.epoch].ts <= s.week
    BY <1>1, <1>4, <1>5, <1>8
  <2>3. userStep(u, s) \in UserLoopState
    <3> DEFINE p == h[s.epoch]
               e == s.epoch + 1
    <3>1. p \in Point /\ e \in Nat \ {0} /\ userStep(u, s) = [s EXCEPT !.epoch = e, !.current = p]
      BY <1>1, <2>1, <2>2
    <3> HIDE DEF p, e
    <3> QED BY <3>1 DEF UserLoopState
  <2> QED BY <1>8, <2>1, <2>2, <2>3 DEF h, TakesPoint
<1>9. ASSUME ~s.done, ~(s.week >= next.ts /\ s.epoch <= Len(h))
      PROVE  s.epoch \in DOMAIN h => s.week < h[s.epoch].ts
  BY <1>1, <1>4, <1>5, <1>9
<1>10. CASE ~s.done /\ ~(s.week >= next.ts /\ s.epoch <= Len(h)) /\ s.week >= clock
  <2>1. userStep(u, s) = [s EXCEPT !.done = TRUE]
    BY <1>6, <1>10
  <2>2. userStep(u, s) \in UserLoopState
    BY <1>1, <2>1 DEF UserLoopState
  <2> QED BY <1>9, <1>10, <2>1, <2>2 DEF h, Passes, Stops
<1>11. CASE ~s.done /\ ~(s.week >= next.ts /\ s.epoch <= Len(h)) /\ ~(s.week >= clock)
            /\ votes = 0 /\ s.epoch > Len(h)
  <2>1. userStep(u, s) = [s EXCEPT !.week = roundUpTimestamp(clock), !.done = TRUE]
    BY <1>6, <1>11
  <2>2. userStep(u, s) \in UserLoopState
    BY <1>1, <1>3, <2>1 DEF UserLoopState
  <2>3. s.week < clock
    BY <1>1, <1>11
  <2> QED BY <1>9, <1>11, <2>1, <2>2, <2>3 DEF h, votes, Passes, VotesGone
<1>12. CASE ~s.done /\ ~(s.week >= next.ts /\ s.epoch <= Len(h)) /\ ~(s.week >= clock)
            /\ ~(votes = 0 /\ s.epoch > Len(h))
  <2>1. userStep(u, s) = [s EXCEPT !.votes[s.week] = votes, !.week = @ + Week]
    BY <1>6, <1>12
  <2>2. userStep(u, s) \in UserLoopState
    <3> DEFINE counted == [s.votes EXCEPT ![s.week] = votes]
               week == s.week + Week
    <3>1. counted \in [Weeks -> Nat] /\ week \in Nat
      BY <1>1, <1>2, <1>3
    <3>2. userStep(u, s) = [s EXCEPT !.votes = counted, !.week = week]
      BY <1>1, <2>1 DEF UserLoopState
    <3> HIDE DEF counted, week
    <3> QED BY <1>1, <3>1, <3>2 DEF UserLoopState
  <2>3. s.week < clock
    BY <1>1, <1>12
  <2> QED BY <1>9, <1>12, <2>1, <2>2, <2>3 DEF h, votes, Passes, CountsVotes
<1> QED BY <1>7, <1>8, <1>10, <1>11, <1>12

LEMMA UserLoop ==
  ASSUME HistoriesOK, clock \in Nat, NEW u \in Users, NEW start \in UserLoopState
  PROVE  LET loop == userSteps(u, start)
         IN  /\ loop[0] = start
             /\ \A n \in 1..MaxSteps : loop[n] = userStep(u, loop[n - 1])
<1> DEFINE F == [x \in UserLoopState \X (1..MaxSteps) |-> userStep(u, x[1])]
           Runs(g) == g = [i \in 0..MaxSteps |-> IF i = 0 THEN start ELSE userStep(u, g[i - 1])]
<1>0. MaxSteps \in Nat
  BY FeeAssumption
<1>1. F \in [UserLoopState \X (1..MaxSteps) -> UserLoopState]
  BY UserStepIs
<1>2. \A s \in UserLoopState, n \in 1..MaxSteps : F[<<s, n>>] = userStep(u, s)
  OBVIOUS
<1> HIDE DEF F
<1>3. PICK g : Iterates(UserLoopState, MaxSteps, start, F, g)
  BY <1>0, <1>1, LoopExists
<1>4. \A n \in 1..MaxSteps : g[n] = userStep(u, g[n - 1])
  <2> TAKE n \in 1..MaxSteps
  <2>1. n - 1 \in 0..MaxSteps /\ g[n - 1] \in UserLoopState /\ g[n] = F[<<g[n - 1], n>>]
    BY <1>0, <1>3 DEF Iterates
  <2> QED BY <1>2, <2>1
<1>5. \E h : Runs(h)
  <2>1. Runs(g)
    BY <1>0, <1>3, <1>4 DEF Iterates
  <2> QED BY <2>1
<1>6. Runs(userSteps(u, start))
  BY <1>5 DEF userSteps
<1> QED BY <1>0, <1>6

\* Under way, every week passed has the votes the escrow says; the last point taken is the
\* one that later weeks are counted from.
Walking(u, first, start) ==
  {s \in UserLoopState :
     /\ Multiple(s.week) /\ s.epoch >= first /\ s.epoch <= Len(points[u]) + 1
     /\ s.epoch = first => s.week = start
     /\ s.epoch # first => /\ points[u][s.epoch - 1].ts <= s.week
                           /\ s.current = points[u][s.epoch - 1]
     /\ startTime <= s.week
     /\ \A w \in Weeks :
          /\ startTime <= w /\ w < s.week => w < clock /\ s.votes[w] = escrowBalanceOf(u, w)
          /\ s.week <= w => s.votes[w] = 0}

LEMMA UserWalks ==
  ASSUME HistoriesOK, StartOK, NEW u \in Users,
         NEW first \in DOMAIN points[u], NEW start \in Nat, points[u][first].ts <= start,
         NEW s \in Walking(u, first, start)
  PROVE  /\ userStep(u, s) \in Walking(u, first, start)
         /\ userStep(u, s).epoch >= s.epoch
         /\ s.epoch = first /\ ~s.done => userStep(u, s).epoch # first
<1> DEFINE h == points[u]
           N == Len(h)
           v == votesAt(s.current, s.week)
           end == roundUpTimestamp(clock)
<1>1. /\ s \in UserLoopState /\ s.week \in Nat /\ s.epoch \in Nat /\ s.current \in Point
      /\ s.votes \in [Weeks -> Nat] /\ s.done \in BOOLEAN /\ clock \in Nat /\ startTime \in Nat
  BY DEF Walking, UserLoopState, StartOK
<1>2. /\ Multiple(s.week) /\ s.epoch >= first /\ s.epoch <= N + 1
      /\ s.epoch = first => s.week = start
      /\ s.epoch # first => h[s.epoch - 1].ts <= s.week /\ s.current = h[s.epoch - 1]
      /\ startTime <= s.week
  BY DEF Walking
<1>3. \A w \in Weeks :
        /\ startTime <= w /\ w < s.week => w < clock /\ s.votes[w] = escrowBalanceOf(u, w)
        /\ s.week <= w => s.votes[w] = 0
  BY DEF Walking
<1>4. /\ N \in Nat /\ DOMAIN h = 1..N
      /\ \A i \in DOMAIN h : h[i] \in Point /\ h[i].ts \in Nat
  BY PointsTyped DEF HistoriesOK
<1>5. first \in 1..N
  BY <1>4
<1>6. Week \in Nat /\ Week > 0 /\ \A w \in Weeks : w \in Nat /\ Multiple(w)
  BY WeekAssumption, WeeksAre
<1>7. userStep(u, s) \in UserLoopState
  BY <1>1, UserStepIs
<1>8. \/ s.done /\ userStep(u, s) = s
      \/ TakesPoint(u, s)
      \/ Passes(u, s) /\ (Stops(u, s) \/ VotesGone(u, s) \/ CountsVotes(u, s))
  BY <1>1, UserStepIs
\* Weeks are only passed with a point in hand.
<1>9. ASSUME Passes(u, s)
      PROVE  /\ s.epoch # first /\ s.epoch - 1 \in DOMAIN h /\ h[s.epoch - 1].ts <= s.week
             /\ s.current = h[s.epoch - 1]
  <2>1. s.epoch # first
    BY <1>2, <1>4, <1>5, <1>9 DEF Passes
  <2> QED BY <1>1, <1>2, <1>4, <1>5, <2>1
<1>10. ASSUME Passes(u, s), NEW w \in Weeks, w = s.week PROVE escrowBalanceOf(u, w) = v
  <2>1. s.epoch - 1 \in DOMAIN h /\ h[s.epoch - 1].ts <= w /\ (s.epoch - 1) + 1 = s.epoch
    BY <1>1, <1>9, <1>10
  <2>2. escrowBalanceOf(u, w) = votesAt(h[s.epoch - 1], w)
    <3> DEFINE i == s.epoch - 1
    <3>1. i \in DOMAIN h /\ h[i].ts <= w /\ i + 1 = s.epoch /\ w \in Nat
      BY <1>6, <2>1
    <3>2. i + 1 \in DOMAIN h => w < h[i + 1].ts
      BY <1>10, <3>1 DEF Passes
    <3> HIDE DEF i
    <3>3. escrowBalanceOf(u, w) = votesAt(h[i], w)
      BY <3>1, <3>2, VotesAre
    <3> QED BY <3>3 DEF i
  <2> QED BY <1>9, <1>10, <2>2
<1>11. CASE s.done /\ userStep(u, s) = s
  BY <1>1, <1>11
<1> HIDE DEF v, end, h, N
<1>12. CASE TakesPoint(u, s)
  <2> DEFINE e == s.epoch + 1
             p == h[s.epoch]
             r == userStep(u, s)
  <2>1. /\ e \in Nat /\ e > s.epoch /\ e - 1 = s.epoch /\ e <= N + 1 /\ e # first /\ e >= first
        /\ p.ts <= s.week
    <3>1. s.epoch \in 1..N /\ p.ts <= s.week
      BY <1>4, <1>12 DEF TakesPoint, h
    <3> HIDE DEF p
    <3> QED BY <1>1, <1>2, <1>4, <1>5, <3>1
  <2>5. r = [s EXCEPT !.epoch = e, !.current = p]
    BY <1>12 DEF TakesPoint, h
  <2>2. r.epoch = e /\ r.current = p /\ r.week = s.week /\ r.votes = s.votes
    <3> HIDE DEF e, p
    <3> QED BY <1>1, <2>5 DEF UserLoopState
  <2>3. h[e - 1] = p
    BY <2>1
  <2> HIDE DEF e, p, r
  <2>4. r \in Walking(u, first, start)
    BY <1>2, <1>3, <1>7, <2>1, <2>2, <2>3 DEF Walking, r, h, N
  <2> QED BY <1>1, <2>1, <2>2, <2>4 DEF r
<1>13. CASE Passes(u, s) /\ Stops(u, s)
  <2> DEFINE r == userStep(u, s)
  <2>1. r.epoch = s.epoch /\ r.current = s.current /\ r.week = s.week /\ r.votes = s.votes
    BY <1>1, <1>13 DEF UserLoopState, Stops
  <2> HIDE DEF r
  <2>2. r \in Walking(u, first, start)
    BY <1>2, <1>3, <1>7, <2>1 DEF Walking, r, h, N
  <2> QED BY <1>1, <1>9, <1>13, <2>1, <2>2 DEF r
<1>14. CASE Passes(u, s) /\ VotesGone(u, s)
  <2> DEFINE r == userStep(u, s)
  <2>1. r.epoch = s.epoch /\ r.current = s.current /\ r.week = end /\ r.votes = s.votes
    BY <1>1, <1>14 DEF UserLoopState, VotesGone, end
  <2>2. end \in Nat /\ Multiple(end) /\ clock <= end /\ end < clock + Week
    BY <1>1, RoundUp DEF end
  <2>3. s.week < end
    BY <1>1, <1>14, <2>2 DEF VotesGone
  <2>4. s.epoch - 1 = N /\ h[N].ts <= s.week /\ s.current = h[N] /\ N \in DOMAIN h
        /\ N + 1 \notin DOMAIN h
    <3>1. s.epoch > N
      BY <1>14 DEF VotesGone, h, N
    <3> QED BY <1>1, <1>2, <1>4, <1>9, <1>14, <3>1
  <2>5. ASSUME NEW w \in Weeks, s.week <= w, w < end
        PROVE  w < clock /\ escrowBalanceOf(u, w) = 0
    <3>1. w < clock
      <4> SUFFICES ASSUME clock <= w PROVE FALSE
        BY <1>1, <1>6
      <4>1. w + Week <= end
        BY <1>6, <2>2, <2>5, MultiplesNext
      <4> QED BY <1>1, <1>6, <2>2, <4>1
    <3>2. escrowBalanceOf(u, w) = votesAt(h[N], w)
      <4>1. h[N].ts <= w
        BY <1>1, <1>4, <1>6, <2>4, <2>5
      <4> QED BY <1>6, <2>4, <4>1, VotesAre DEF h, N
    <3>3. votesAt(h[N], w) <= votesAt(h[N], s.week) /\ votesAt(h[N], w) \in Nat
      BY <1>1, <1>4, <1>6, <2>4, <2>5, VotesDecrease, VotesTyped
    <3>4. votesAt(h[N], s.week) = 0
      BY <1>14, <2>4 DEF VotesGone
    <3> QED BY <3>1, <3>2, <3>3, <3>4
  <2> HIDE DEF r
  <2>6. \A w \in Weeks :
          /\ startTime <= w /\ w < r.week => w < clock /\ r.votes[w] = escrowBalanceOf(u, w)
          /\ r.week <= w => r.votes[w] = 0
    <3> TAKE w \in Weeks
    <3>1. w \in Nat
      BY <1>6
    <3>2. CASE w < s.week
      BY <1>1, <1>3, <2>1, <2>2, <2>3, <3>1, <3>2
    <3>3. CASE s.week <= w
      BY <1>1, <1>3, <2>1, <2>2, <2>3, <2>5, <3>1, <3>3
    <3> QED BY <1>1, <3>1, <3>2, <3>3
  <2>7. h[s.epoch - 1].ts <= end
    BY <1>1, <1>4, <2>2, <2>3, <2>4
  <2>8. r \in Walking(u, first, start)
    <3>1. Multiple(r.week) /\ r.epoch >= first /\ r.epoch <= N + 1 /\ startTime <= r.week
      BY <1>1, <1>2, <1>14, <2>1, <2>2, <2>3, <2>7
    <3>2. r.epoch # first /\ h[r.epoch - 1].ts <= r.week /\ r.current = h[r.epoch - 1]
      BY <1>1, <1>9, <1>14, <2>1, <2>2, <2>3, <2>7
    <3>3. r \in UserLoopState
      BY <1>7 DEF r
    <3> QED BY <3>1, <3>2, <3>3, <2>6 DEF Walking, h, N
  <2> QED BY <1>1, <1>9, <1>14, <2>1, <2>8 DEF r
<1>15. CASE Passes(u, s) /\ CountsVotes(u, s)
  <2> DEFINE r == userStep(u, s)
             next == s.week + Week
             votes == [s.votes EXCEPT ![s.week] = v]
  <2>1. r.epoch = s.epoch /\ r.current = s.current /\ r.week = next /\ r.votes = votes
    BY <1>1, <1>15 DEF UserLoopState, CountsVotes, v
  <2>2. next \in Nat /\ Multiple(next) /\ s.week < next
    <3>1. s.week \in Nat /\ Multiple(s.week)
      BY <1>1, <1>2
    <3> QED BY <3>1, NextWeek
  <2>3. \A w \in Weeks : votes[w] = IF w = s.week THEN v ELSE s.votes[w]
    BY <1>1
  <2> HIDE DEF r, votes
  <2>4. \A w \in Weeks :
          /\ startTime <= w /\ w < r.week => w < clock /\ r.votes[w] = escrowBalanceOf(u, w)
          /\ r.week <= w => r.votes[w] = 0
    <3> TAKE w \in Weeks
    <3>1. w \in Nat /\ Multiple(w)
      BY <1>6
    <3>2. CASE w < s.week
      BY <1>1, <1>3, <2>1, <2>2, <2>3, <3>1, <3>2
    <3>3. CASE w = s.week
      <4>1. escrowBalanceOf(u, w) = v /\ w < clock
        BY <1>10, <1>15, <3>3 DEF CountsVotes
      <4> QED BY <1>1, <2>1, <2>2, <2>3, <3>3, <4>1
    <3>4. CASE s.week < w
      <4>1. next <= w
        BY <1>2, <3>1, <3>4, MultiplesNext
      <4> HIDE DEF next
      <4> QED BY <1>1, <1>3, <2>1, <2>2, <2>3, <3>1, <3>4, <4>1
    <3> QED BY <1>1, <3>1, <3>2, <3>3, <3>4
  <2> HIDE DEF next
  <2>5. h[s.epoch - 1].ts <= next
    BY <1>1, <1>4, <1>9, <1>15, <2>2
  <2>6. r \in Walking(u, first, start)
    <3>1. Multiple(r.week) /\ r.epoch >= first /\ r.epoch <= N + 1 /\ startTime <= r.week
      BY <1>1, <1>2, <1>15, <2>1, <2>2, <2>5
    <3>2. r.epoch # first /\ h[r.epoch - 1].ts <= r.week /\ r.current = h[r.epoch - 1]
      BY <1>1, <1>9, <1>15, <2>1, <2>2, <2>5
    <3>3. r \in UserLoopState
      BY <1>7 DEF r
    <3> QED BY <3>1, <3>2, <3>3, <2>4 DEF Walking, h, N
  <2> QED BY <1>1, <1>9, <1>15, <2>1, <2>6 DEF r
<1> QED BY <1>8, <1>11, <1>12, <1>13, <1>14, <1>15

\* From where a checkpoint starts: a point by the week it starts with, which for the first
\* checkpoint is not after any votes.
userStart(u) == IF userState[u].timeCursor = 0
                THEN greater(startTime, roundUpTimestamp(points[u][firstEpoch(u)].ts))
                ELSE userState[u].timeCursor

LEMMA UserStart ==
  ASSUME HistoriesOK, StartOK, NEW u \in Users, GoodUser(u, userState[u]), points[u] # <<>>
  PROVE  /\ firstEpoch(u) \in DOMAIN points[u] /\ userStart(u) \in Nat
         /\ points[u][firstEpoch(u)].ts <= userStart(u)
         /\ Multiple(userStart(u)) /\ startTime <= userStart(u)
         /\ userState[u].timeCursor = 0 =>
              \A w \in Weeks : startTime <= w /\ w < userStart(u) =>
                w < clock /\ escrowBalanceOf(u, w) = 0
<1> DEFINE h == points[u]
           N == Len(h)
           st == userState[u]
           tc == st.timeCursor
           last == st.lastEpochCheckpointed
           e == firstEpoch(u)
<1>1. /\ N \in Nat /\ DOMAIN h = 1..N /\ N # 0
      /\ \A i \in DOMAIN h : h[i].ts \in Nat
  BY PointsTyped DEF HistoriesOK
<1>2. /\ tc \in Nat /\ last \in Nat /\ Multiple(tc)
      /\ tc # 0 => last \in 1..N /\ h[last].ts <= tc /\ startTime <= tc
  BY <1>1 DEF GoodUser
<1>3. startTime \in Nat /\ Multiple(startTime) /\ clock \in Nat /\ Week \in Nat
  BY WeekAssumption DEF StartOK
<1>4. CASE tc # 0
  <2> DEFINE r == IF N - last > MaxEpochs THEN findTimestampUserEpoch(u, tc, last, N) ELSE last
  <2>1. e = IF r = 0 THEN 1 ELSE r
    BY <1>4, Zenon DEF firstEpoch
  <2>2. r \in 1..N /\ h[r].ts <= tc
    <3>1. CASE N - last > MaxEpochs
      <4> DEFINE f == findTimestampUserEpoch(u, tc, last, N)
      <4>1. f \in last..N /\ (f = last \/ h[f].ts <= tc)
        <5>1. last <= N /\ N <= Len(points[u]) /\ tc \in Nat /\ last \in Nat /\ N \in Nat
          BY <1>1, <1>2, <1>4
        <5> HIDE DEF tc, last, N
        <5> QED BY <5>1, SearchFinds
      <4> HIDE DEF f
      <4>2. f \in 1..N /\ h[f].ts <= tc
        BY <1>1, <1>2, <1>4, <4>1
      <4> QED BY <3>1, <4>2 DEF f
    <3>2. CASE ~(N - last > MaxEpochs)
      BY <1>2, <1>4, <3>2
    <3> QED BY <3>1, <3>2
  <2> HIDE DEF r
  <2>3. e = r
    BY <1>1, <2>1, <2>2
  <2>4. userStart(u) = tc
    BY <1>4 DEF userStart
  <2> QED BY <1>1, <1>2, <1>4, <2>2, <2>3, <2>4
<1>5. CASE tc = 0
  <2> DEFINE r == findTimestampUserEpoch(u, startTime, 0, N)
             up == roundUpTimestamp(h[e].ts)
  <2>1. e = IF r = 0 THEN 1 ELSE r
    BY <1>5, Zenon DEF firstEpoch
  <2>2. r \in 0..N /\ (r = 0 \/ h[r].ts <= startTime)
    <3>1. 0 \in Nat /\ 0 <= N /\ N <= Len(points[u])
      BY <1>1
    <3> HIDE DEF N
    <3> QED BY <1>1, <1>3, <3>1, SearchFinds
  <2> HIDE DEF r, e
  <2>3. e \in 1..N /\ (e = 1 \/ h[e].ts <= startTime)
    BY <1>1, <2>1, <2>2
  <2>4. h[e].ts \in Nat
    BY <1>1, <2>3
  <2>5. up \in Nat /\ Multiple(up) /\ h[e].ts <= up /\ up < h[e].ts + Week
    BY <2>4, RoundUp
  <2>6. userStart(u) = greater(startTime, up)
    BY <1>5 DEF userStart, e
  <2> HIDE DEF up
  <2>7. /\ userStart(u) \in {startTime, up} /\ userStart(u) >= startTime /\ userStart(u) >= up
    BY <1>3, <2>5, <2>6, LesserGreater
  <2>8. ASSUME NEW w \in Weeks, startTime <= w, w < userStart(u)
        PROVE  w < clock /\ escrowBalanceOf(u, w) = 0
    <3>1. w \in Nat /\ Multiple(w)
      BY WeeksAre
    <3>2. w < up
      BY <1>3, <2>5, <2>7, <2>8, <3>1
    <3>3. w + Week <= up
      BY <2>5, <3>1, <3>2, MultiplesNext
    <3>4. w < h[e].ts
      BY <1>3, <2>4, <2>5, <3>1, <3>3
    <3>5. e = 1
      BY <1>3, <2>3, <2>4, <2>8, <3>1, <3>4
    <3>6. h[1].ts <= clock
      BY <1>1 DEF HistoriesOK, History
    <3>7. escrowBalanceOf(u, w) = 0
      BY <3>1, <3>4, <3>5, NoVotesBefore
    <3> QED BY <1>1, <1>3, <3>1, <3>4, <3>5, <3>6, <3>7
  <2>9. h[e].ts <= userStart(u)
    BY <1>3, <2>4, <2>5, <2>7
  <2> QED BY <1>1, <1>3, <2>3, <2>5, <2>7, <2>8, <2>9 DEF e
<1> QED BY <1>4, <1>5

LEMMA UserCheckpoint ==
  ASSUME HistoriesOK, StartOK, NEW u \in Users, GoodUser(u, userState[u])
  PROVE  GoodUser(u, checkpointUserBalance(u))
<1> DEFINE st == userState[u]
           h == points[u]
           first == firstEpoch(u)
           begin == [week |-> userStart(u), epoch |-> first, current |-> NoPoint,
                     votes |-> st.votes, done |-> FALSE]
           loop == userSteps(u, begin)
           end == loop[MaxSteps]
           r == checkpointUserBalance(u)
<1>1. CASE h = <<>> \/ (st.timeCursor # 0 /\ st.timeCursor >= clock)
  <2>1. r = st
    BY <1>1 DEF checkpointUserBalance
  <2> QED BY <2>1
<1>2. CASE h # <<>> /\ ~(st.timeCursor # 0 /\ st.timeCursor >= clock)
  <2>1. r = [startTime |-> IF st.timeCursor = 0 THEN userStart(u) ELSE st.startTime,
             timeCursor |-> end.week, lastEpochCheckpointed |-> end.epoch - 1,
             votes |-> end.votes]
    BY <1>2, Zenon DEF checkpointUserBalance, userStart
  <2>2. /\ first \in DOMAIN h /\ userStart(u) \in Nat /\ h[first].ts <= userStart(u)
        /\ Multiple(userStart(u)) /\ startTime <= userStart(u)
        /\ st.timeCursor = 0 => \A w \in Weeks : startTime <= w /\ w < userStart(u) =>
                                  w < clock /\ escrowBalanceOf(u, w) = 0
    BY <1>2, UserStart
  <2>3. Len(h) \in Nat /\ DOMAIN h = 1..Len(h)
    BY PointsTyped DEF HistoriesOK
  <2>4. /\ st.startTime \in Nat /\ st.timeCursor \in Nat /\ st.votes \in [Weeks -> Nat]
        /\ Multiple(st.startTime)
        /\ \A w \in Weeks :
             /\ startTime <= w /\ w < st.timeCursor => w < clock /\ st.votes[w] = escrowBalanceOf(u, w)
             /\ st.timeCursor <= w => st.votes[w] = 0
             /\ startTime <= w /\ w < st.startTime => w < clock /\ escrowBalanceOf(u, w) = 0
    BY DEF GoodUser
  <2>5. begin \in UserLoopState /\ begin \in Walking(u, first, userStart(u))
    <3>1. NoPoint \in Point
      BY DEF NoPoint, Point
    <3>2. begin \in UserLoopState
      BY <2>2, <2>3, <2>4, <3>1 DEF UserLoopState
    <3>3. \A w \in Weeks :
            /\ startTime <= w /\ w < userStart(u) => w < clock /\ st.votes[w] = escrowBalanceOf(u, w)
            /\ userStart(u) <= w => st.votes[w] = 0
      <4> TAKE w \in Weeks
      <4>1. w \in Nat
        BY WeeksAre
      <4>2. CASE st.timeCursor = 0
        BY <2>2, <2>4, <4>1, <4>2
      <4>3. CASE st.timeCursor # 0
        <5>1. userStart(u) = st.timeCursor
          BY <4>3 DEF userStart
        <5> QED BY <2>4, <5>1
      <4> QED BY <4>2, <4>3
    <3>4. first <= Len(h) + 1 /\ first >= first
      BY <2>2, <2>3
    <3> HIDE DEF first, st
    <3> QED BY <2>2, <3>2, <3>3, <3>4 DEF Walking, h
  <2>6. /\ loop[0] = begin
        /\ \A n \in 1..MaxSteps : loop[n] = userStep(u, loop[n - 1])
    <3> HIDE DEF begin
    <3> QED BY <2>5, UserLoop DEF StartOK
  <2> DEFINE T == {n \in Nat : n \in 0..MaxSteps =>
                    /\ loop[n] \in Walking(u, first, userStart(u))
                    /\ loop[n].epoch = first => n = 0 /\ ~loop[n].done}
  <2>7. MaxSteps \in Nat /\ MaxSteps # 0
    BY FeeAssumption
  <2>8. 0 \in T
    BY <2>5, <2>6
  <2>9. \A n \in Nat : n \in T => n + 1 \in T
    <3> SUFFICES ASSUME NEW n \in Nat, n \in T, n + 1 \in 0..MaxSteps
                 PROVE  /\ loop[n + 1] \in Walking(u, first, userStart(u))
                        /\ loop[n + 1].epoch # first
      <4> HIDE DEF loop, first
      <4> QED OBVIOUS
    <3> DEFINE s == loop[n]
    <3>1. n \in 0..MaxSteps /\ n + 1 \in 1..MaxSteps /\ (n + 1) - 1 = n
      BY <2>7
    <3>2. s \in Walking(u, first, userStart(u)) /\ (s.epoch = first => ~s.done)
      BY <3>1
    <3>3. loop[n + 1] = userStep(u, s)
      BY <2>6, <3>1
    <3> HIDE DEF s, loop
    <3>4. /\ userStep(u, s) \in Walking(u, first, userStart(u))
          /\ userStep(u, s).epoch >= s.epoch
          /\ s.epoch = first /\ ~s.done => userStep(u, s).epoch # first
      <4> HIDE DEF first
      <4> QED BY <2>2, <3>2, UserWalks
    <3>5. s.epoch \in Nat /\ s.epoch >= first /\ userStep(u, s).epoch \in Nat /\ first \in Nat
      BY <2>2, <2>3, <3>2, <3>4 DEF Walking, UserLoopState
    <3> QED BY <3>2, <3>3, <3>4, <3>5
  <2>10. Nat \subseteq T
    <3> HIDE DEF T
    <3> QED BY <2>8, <2>9, SetInduction
  <2>11. end \in Walking(u, first, userStart(u)) /\ end.epoch # first
    <3>1. MaxSteps \in T /\ MaxSteps \in 0..MaxSteps
      <4> HIDE DEF T
      <4> QED BY <2>7, <2>10
    <3> HIDE DEF loop, first
    <3> QED BY <2>7, <3>1
  <2> HIDE DEF end, loop, begin, T, r
  <2>12. /\ end.week \in Nat /\ end.epoch \in Nat /\ end.votes \in [Weeks -> Nat]
         /\ Multiple(end.week) /\ end.epoch >= first /\ end.epoch <= Len(h) + 1
         /\ startTime <= end.week /\ h[end.epoch - 1].ts <= end.week
         /\ \A w \in Weeks :
              /\ startTime <= w /\ w < end.week => w < clock /\ end.votes[w] = escrowBalanceOf(u, w)
              /\ end.week <= w => end.votes[w] = 0
    BY <2>11 DEF Walking, UserLoopState
  <2>13. end.epoch - 1 \in DOMAIN h /\ end.epoch - 1 \in Nat
    BY <2>2, <2>3, <2>11, <2>12
  <2>14. /\ r.startTime = IF st.timeCursor = 0 THEN userStart(u) ELSE st.startTime
         /\ r.timeCursor = end.week /\ r.lastEpochCheckpointed = end.epoch - 1
         /\ r.votes = end.votes
    BY <2>1
  <2>15. r.startTime \in Nat /\ Multiple(r.startTime)
    BY <2>2, <2>4, <2>14
  <2>16. r \in [startTime: Nat, timeCursor: Nat, lastEpochCheckpointed: Nat, votes: [Weeks -> Nat]]
    BY <2>1, <2>12, <2>13, <2>14, <2>15
  <2>17. \A w \in Weeks :
           startTime <= w /\ w < r.startTime => w < clock /\ escrowBalanceOf(u, w) = 0
    BY <2>2, <2>4, <2>14
  <2> HIDE DEF h, st
  <2> QED BY <2>12, <2>13, <2>14, <2>15, <2>16, <2>17 DEF GoodUser, h, r
<1> QED BY <1>1, <1>2
-----------------------------------------------------------------------------
\* The loop over the weeks of a token: what came in is spread by time, and rounded down.
LEMMA DivisionRoundsDown ==
  ASSUME NEW a \in Nat, NEW b \in Nat, b # 0
  PROVE  a \div b \in Nat /\ b * (a \div b) <= a
<1>1. a \div b \in Nat /\ a % b \in Nat
  OBVIOUS
<1>2. a = b * (a \div b) + (a % b)
  OBVIOUS
<1> DEFINE q == a \div b
           p == b * q
           r == a % b
<1>3. a = p + r /\ p \in Int /\ r \in Nat
  BY <1>1, <1>2
<1> HIDE DEF p, r
<1>4. p <= a
  BY <1>3
<1> QED BY <1>1, <1>4 DEF p

TokenLoopState == [week: Nat, last: Nat, perWeek: [Weeks -> Int], done: BOOLEAN]
Given(s, new, since) ==
  LET elapsed == lesser(clock, s.week + Week) - s.last
  IN  IF since = 0 THEN new ELSE (new * elapsed) \div since

StepTaken(s, new, since) ==
  [s EXCEPT !.perWeek[s.week] = @ + Given(s, new, since), !.week = s.week + Week,
            !.last = s.week + Week, !.done = clock < s.week + Week]

LEMMA AddedTo ==
  ASSUME NEW S, NEW f \in [S -> Int], NEW x, NEW a \in Int
  PROVE  LET g == [f EXCEPT ![x] = @ + a]
         IN  g \in [S -> Int] /\ \A y \in S : g[y] = IF y = x THEN f[y] + a ELSE f[y]
<1> DEFINE g == [f EXCEPT ![x] = @ + a]
<1>1. g = [y \in S |-> IF y = x THEN f[x] + a ELSE f[y]]
  OBVIOUS
<1> HIDE DEF g
<1>2. \A y \in S : f[y] \in Int
  OBVIOUS
<1>3. \A y \in S : (IF y = x THEN f[x] + a ELSE f[y]) \in Int
  BY <1>2
<1>4. g \in [S -> Int] /\ \A y \in S : g[y] = IF y = x THEN f[y] + a ELSE f[y]
  BY <1>1, <1>3
<1> QED BY <1>4 DEF g

LEMMA TokenStepIs ==
  ASSUME clock \in Nat, NEW new \in Nat, NEW since \in Nat, NEW s \in TokenLoopState
  PROVE  /\ tokenStep(s, new, since) \in TokenLoopState
         /\ s.done => tokenStep(s, new, since) = s
         /\ ~s.done => /\ Given(s, new, since) \in Int
                       /\ tokenStep(s, new, since) = StepTaken(s, new, since)
<1> DEFINE next == s.week + Week
           elapsed == lesser(clock, next) - s.last
           add == Given(s, new, since)
           b == clock < next
<1>1. s.week \in Nat /\ s.last \in Nat /\ s.perWeek \in [Weeks -> Int] /\ s.done \in BOOLEAN
  BY DEF TokenLoopState
<1>2. next \in Nat
  BY <1>1, WeekAssumption
<1>3. elapsed \in Int
  BY <1>1, <1>2, LesserGreater
<1>4. add = IF since = 0 THEN new ELSE (new * elapsed) \div since
  BY DEF Given
<1>5. tokenStep(s, new, since) =
        IF s.done THEN s
        ELSE [s EXCEPT !.perWeek[s.week] = @ + add, !.week = next, !.last = next, !.done = b]
  BY Zenon DEF tokenStep, Given
<1>6. b \in BOOLEAN
  OBVIOUS
<1> HIDE DEF elapsed, add, next, b
<1>7. add \in Int
  <2>1. new * elapsed \in Int
    BY <1>3
  <2> DEFINE p == new * elapsed
  <2>2. p \in Int
    BY <2>1
  <2> HIDE DEF p
  <2>3. since # 0 => p \div since \in Int
    BY <2>2
  <2> QED BY <1>4, <2>3 DEF p
<1>8. ~s.done => tokenStep(s, new, since) \in TokenLoopState
  <2> DEFINE given == [s.perWeek EXCEPT ![s.week] = @ + add]
  <2>1. given \in [Weeks -> Int]
    BY <1>1, <1>7, AddedTo
  <2>2. ~s.done => tokenStep(s, new, since) =
          [s EXCEPT !.perWeek = given, !.week = next, !.last = next, !.done = b]
    BY <1>1, <1>5 DEF TokenLoopState
  <2> HIDE DEF given
  <2> QED BY <1>1, <1>2, <1>6, <2>1, <2>2 DEF TokenLoopState
<1>9. StepTaken(s, new, since) =
        [s EXCEPT !.perWeek[s.week] = @ + add, !.week = next, !.last = next, !.done = b]
  BY Zenon DEF StepTaken, add, next, b
<1> QED BY <1>5, <1>7, <1>8, <1>9 DEF add

LEMMA TokenLoop ==
  ASSUME clock \in Nat, NEW new \in Nat, NEW since \in Nat, NEW start \in TokenLoopState
  PROVE  LET loop == tokenSteps(start, new, since)
         IN  /\ loop[0] = start
             /\ \A n \in 1..MaxWeeks : loop[n] = tokenStep(loop[n - 1], new, since)
<1> DEFINE F == [x \in TokenLoopState \X (1..MaxWeeks) |-> tokenStep(x[1], new, since)]
           Runs(g) == g = [i \in 0..MaxWeeks |->
                             IF i = 0 THEN start ELSE tokenStep(g[i - 1], new, since)]
<1>0. MaxWeeks \in Nat
  BY FeeAssumption
<1>1. F \in [TokenLoopState \X (1..MaxWeeks) -> TokenLoopState]
  BY TokenStepIs
<1>2. \A s \in TokenLoopState, n \in 1..MaxWeeks : F[<<s, n>>] = tokenStep(s, new, since)
  OBVIOUS
<1> HIDE DEF F
<1>3. PICK g : Iterates(TokenLoopState, MaxWeeks, start, F, g)
  BY <1>0, <1>1, LoopExists
<1>4. \A n \in 1..MaxWeeks : g[n] = tokenStep(g[n - 1], new, since)
  <2> TAKE n \in 1..MaxWeeks
  <2>1. n - 1 \in 0..MaxWeeks /\ g[n - 1] \in TokenLoopState /\ g[n] = F[<<g[n - 1], n>>]
    BY <1>0, <1>3 DEF Iterates
  <2> QED BY <1>2, <2>1
<1>5. \E h : Runs(h)
  <2>1. Runs(g)
    BY <1>0, <1>3, <1>4 DEF Iterates
  <2> QED BY <2>1
<1>6. Runs(tokenSteps(start, new, since))
  BY <1>5 DEF tokenSteps
<1> QED BY <1>0, <1>6

\* Under way, no more is given out than what came in, by the time that is gone through.
Spreading(start, new, since) ==
  {s \in TokenLoopState :
     /\ Multiple(s.week) /\ start.week <= s.week
     /\ ~s.done => s.week <= s.last /\ s.last <= clock /\ s.last < s.week + Week
     /\ \A w \in Weeks : /\ start.perWeek[w] <= s.perWeek[w]
                         /\ w < start.week => s.perWeek[w] = start.perWeek[w]
     /\ since = 0 => /\ SumFunction(s.perWeek) <= SumFunction(start.perWeek) + new
                     /\ ~s.done => /\ SumFunction(s.perWeek) = SumFunction(start.perWeek)
                                   /\ s.last = clock
     /\ since # 0 => since * (SumFunction(s.perWeek) - SumFunction(start.perWeek))
                       <= new * (lesser(s.last, clock) - start.last)}

LEMMA SumGrows ==
  ASSUME NEW S, IsFiniteSet(S), NEW f \in [S -> Int], NEW x, NEW a \in Int, a >= 0
  PROVE  LET g == [f EXCEPT ![x] = @ + a]
         IN  /\ g \in [S -> Int] /\ SumFunction(g) \in Int /\ SumFunction(f) \in Int
             /\ SumFunction(g) <= SumFunction(f) + a
             /\ \A y \in S : f[y] <= g[y] /\ (y # x => g[y] = f[y])
<1> DEFINE g == [f EXCEPT ![x] = @ + a]
<1>1. g \in [S -> Int] /\ \A y \in S : g[y] = IF y = x THEN f[y] + a ELSE f[y]
  BY AddedTo
<1> HIDE DEF g
<1>2. SumFunction(g) \in Int /\ SumFunction(f) \in Int
  BY <1>1, SumTyped
<1>3. SumFunction(g) <= SumFunction(f) + a
  <2>1. CASE x \in S
    <3>1. SumFunction(g) = SumFunction(f) - f[x] + g[x]
      BY <1>1, <2>1, SumExcept
    <3>2. g[x] = f[x] + a /\ f[x] \in Int
      BY <1>1, <2>1
    <3> QED BY <1>2, <3>1, <3>2
  <2>2. CASE x \notin S
    <3>1. g = f
      BY <1>1, <2>2
    <3> QED BY <1>2, <3>1
  <2> QED BY <2>1, <2>2
<1>4. \A y \in S : f[y] <= g[y] /\ (y # x => g[y] = f[y])
  <2> SUFFICES ASSUME NEW y \in S PROVE f[y] <= g[y] /\ (y # x => g[y] = f[y])
    OBVIOUS
  <2>1. f[y] \in Int
    OBVIOUS
  <2> QED BY <1>1, <2>1
<1> QED BY <1>1, <1>2, <1>3, <1>4 DEF g

LEMMA FactorKeepsOrder ==
  ASSUME NEW k \in Nat, NEW a \in Int, NEW b \in Int, a <= b
  PROVE  k * a <= k * b /\ k * a \in Int /\ k * b \in Int
<1> DEFINE d == b - a
           r == k * d
           p == k * a
           q == k * b
<1>1. d \in Nat /\ b = a + d
  OBVIOUS
<1> HIDE DEF d
<1>2. k * (a + d) = p + r /\ r \in Nat /\ p \in Int
  BY <1>1
<1>3. q = p + r
  BY <1>1, <1>2
<1> HIDE DEF p, q, r
<1>4. p <= q /\ p \in Int /\ q \in Int
  BY <1>2, <1>3
<1> QED BY <1>4 DEF p, q

LEMMA OneMoreWeek ==
  ASSUME NEW since \in Nat, NEW new \in Nat, NEW x \in Int, NEW y \in Int, NEW add \in Int,
         NEW d \in Int, NEW e \in Int,
         y <= x + add, since * x <= new * d, since * add <= new * e
  PROVE  since * y <= new * (d + e)
<1> DEFINE p == since * x
           q == since * add
           a == new * d
           b == new * e
           r == since * y
           t == since * (x + add)
           v == new * (d + e)
<1>1. p \in Int /\ q \in Int /\ a \in Int /\ b \in Int /\ r \in Int
  OBVIOUS
<1>2. t = p + q /\ v = a + b
  OBVIOUS
<1>3. r <= t
  BY FactorKeepsOrder
<1>4. p <= a /\ q <= b
  OBVIOUS
<1> HIDE DEF p, q, a, b, r, t, v
<1>5. r <= v
  BY <1>1, <1>2, <1>3, <1>4
<1> QED BY <1>5 DEF r, v

LEMMA TokenSpreads ==
  ASSUME clock \in Nat, NEW new \in Nat, NEW since \in Nat, NEW start \in TokenLoopState,
         start.last + since = clock, NEW s \in Spreading(start, new, since)
  PROVE  tokenStep(s, new, since) \in Spreading(start, new, since)
<1> DEFINE next == s.week + Week
           elapsed == lesser(clock, next) - s.last
           add == Given(s, new, since)
           r == tokenStep(s, new, since)
           given == [s.perWeek EXCEPT ![s.week] = @ + add]
           sum0 == SumFunction(start.perWeek)
           sum == SumFunction(s.perWeek)
           sumr == SumFunction(r.perWeek)
<1>1. /\ s.week \in Nat /\ s.last \in Nat /\ s.perWeek \in [Weeks -> Int] /\ s.done \in BOOLEAN
      /\ s \in TokenLoopState /\ start.perWeek \in [Weeks -> Int] /\ start.last \in Nat
      /\ start.week \in Nat
  BY DEF Spreading, TokenLoopState
<1>2. /\ Multiple(s.week) /\ start.week <= s.week
      /\ ~s.done => s.week <= s.last /\ s.last <= clock /\ s.last < s.week + Week
      /\ \A w \in Weeks : /\ start.perWeek[w] <= s.perWeek[w]
                          /\ w < start.week => s.perWeek[w] = start.perWeek[w]
      /\ since = 0 => /\ sum <= sum0 + new
                      /\ ~s.done => sum = sum0 /\ s.last = clock
      /\ since # 0 => since * (sum - sum0) <= new * (lesser(s.last, clock) - start.last)
  BY DEF Spreading
<1>3. /\ r \in TokenLoopState
      /\ s.done => r = s
      /\ ~s.done => add \in Int /\ r = [s EXCEPT !.perWeek[s.week] = @ + add, !.week = next,
                                                 !.last = next, !.done = clock < next]
  <2>1. /\ tokenStep(s, new, since) \in TokenLoopState
        /\ s.done => tokenStep(s, new, since) = s
        /\ ~s.done => /\ Given(s, new, since) \in Int
                      /\ tokenStep(s, new, since) = StepTaken(s, new, since)
    BY <1>1, TokenStepIs
  <2> QED BY <2>1, Zenon DEF StepTaken
<1>4. CASE s.done
  BY <1>3, <1>4
<1>5. CASE ~s.done
  <2>1. Week \in Nat /\ Week > 0 /\ IsFiniteSet(Weeks) /\ \A w \in Weeks : w \in Nat
    BY WeekAssumption, WeeksAre
  <2>2. next \in Nat /\ s.week < next /\ Multiple(next) /\ start.week <= next /\ s.last < next
    <3>1. Multiple(s.week + Week)
      BY <1>1, <1>2, MultiplesAdd
    <3> QED BY <1>1, <1>2, <1>5, <2>1, <3>1
  <2>3. /\ r.week = next /\ r.last = next /\ r.done = (clock < next)
        /\ r.perWeek = given
    BY <1>1, <1>3, <1>5 DEF TokenLoopState
  <2>4. s.week <= s.last /\ s.last <= clock
    BY <1>2, <1>5
  <2>5. elapsed \in Nat /\ lesser(next, clock) = s.last + elapsed /\ lesser(s.last, clock) = s.last
    <3>1. /\ lesser(clock, next) \in {clock, next} /\ lesser(next, clock) = lesser(clock, next)
          /\ lesser(s.last, clock) = s.last
      BY <1>1, <2>2, <2>4 DEF lesser
    <3> HIDE DEF next
    <3> QED BY <1>1, <2>2, <2>4, <3>1
  <2>6. add = IF since = 0 THEN new ELSE (new * elapsed) \div since
    BY DEF Given
  <2> HIDE DEF r, next, elapsed, add
  <2>7. add \in Nat /\ (since # 0 => since * add <= new * elapsed)
    <3> DEFINE p == new * elapsed
    <3>1. p \in Nat
      BY <2>5
    <3> HIDE DEF p
    <3>2. since # 0 => p \div since \in Nat /\ since * (p \div since) <= p
      BY <3>1, DivisionRoundsDown
    <3> QED BY <2>6, <3>2 DEF p
  <2>8. /\ given \in [Weeks -> Int] /\ SumFunction(given) \in Int /\ sum \in Int
        /\ SumFunction(given) <= sum + add
        /\ \A w \in Weeks : s.perWeek[w] <= given[w] /\ (w # s.week => given[w] = s.perWeek[w])
    <3>1. add \in Int /\ add >= 0
      BY <2>7
    <3> QED BY <1>1, <2>1, <3>1, SumGrows
  <2>9. sum0 \in Int
    BY <1>1, <2>1, SumTyped
  <2> HIDE DEF given
  <2>10. sumr \in Int /\ sumr <= sum + add
    BY <2>3, <2>8
  <2> HIDE DEF sum0, sum, sumr
  <2>11. \A w \in Weeks : /\ start.perWeek[w] <= r.perWeek[w]
                          /\ w < start.week => r.perWeek[w] = start.perWeek[w]
    <3> TAKE w \in Weeks
    <3>1. w \in Nat /\ start.perWeek[w] \in Int /\ s.perWeek[w] \in Int /\ given[w] \in Int
      BY <1>1, <2>1, <2>8
    <3>2. s.perWeek[w] <= given[w] /\ (w # s.week => given[w] = s.perWeek[w])
      BY <2>8
    <3>3. start.perWeek[w] <= s.perWeek[w] /\ (w < start.week => s.perWeek[w] = start.perWeek[w])
      BY <1>2
    <3> QED BY <1>1, <1>2, <2>3, <3>1, <3>2, <3>3
  <2>12. since = 0 => sumr <= sum0 + new /\ r.done
    BY <1>1, <1>2, <1>5, <2>2, <2>3, <2>6, <2>9, <2>10
  <2>13. since # 0 => since * (sumr - sum0) <= new * (lesser(r.last, clock) - start.last)
    <3> SUFFICES ASSUME since # 0
                 PROVE  since * (sumr - sum0) <= new * (lesser(r.last, clock) - start.last)
      OBVIOUS
    <3> DEFINE x == sum - sum0
               y == sumr - sum0
               d == s.last - start.last
    <3>1. x \in Int /\ y \in Int /\ d \in Int /\ y <= x + add
      BY <1>1, <2>7, <2>8, <2>9, <2>10
    <3>2. since * x <= new * d
      BY <1>2, <2>5
    <3>3. lesser(r.last, clock) - start.last = d + elapsed
      BY <1>1, <2>3, <2>5
    <3> HIDE DEF x, y, d
    <3>4. since * y <= new * (d + elapsed)
      BY <2>5, <2>7, <3>1, <3>2, OneMoreWeek
    <3> QED BY <3>3, <3>4, Zenon DEF y
  <2>14. ~r.done => r.week <= r.last /\ r.last <= clock /\ r.last < r.week + Week
    <3>1. ~r.done => next <= clock
      <4>1. clock < next \/ next <= clock
        BY <2>2
      <4> QED BY <2>3, <4>1
    <3> QED BY <2>1, <2>2, <2>3, <3>1
  <2> QED BY <1>3, <2>2, <2>3, <2>11, <2>12, <2>13, <2>14 DEF Spreading, r, sum0, sumr
<1> QED BY <1>4, <1>5

\* those of a token,
GoodToken(k) ==
  /\ k \in [startTime: Nat, timeCursor: Nat, cachedBalance: Int, perWeek: [Weeks -> Nat]]
  /\ k.timeCursor <= clock
  /\ k.timeCursor = 0 => \A w \in Weeks : k.perWeek[w] = 0
  /\ k.timeCursor # 0 => /\ Multiple(k.startTime) /\ startTime <= k.startTime
                         /\ k.startTime <= k.timeCursor
                         /\ \A w \in Weeks : w < k.startTime => k.perWeek[w] = 0

\* and what becomes of it: weeks that were over keep what they have, and what others are
\* given is in the balance.
TokenMoves(k, r) ==
  /\ r.timeCursor # 0 /\ k.timeCursor <= r.timeCursor
  /\ \A w \in Weeks : w + Week <= k.timeCursor => r.perWeek[w] = k.perWeek[w]
  /\ SumFunction(r.perWeek) - SumFunction(k.perWeek) <= r.cachedBalance - k.cachedBalance

LEMMA TokenCheckpoint ==
  ASSUME StartOK, NEW k, GoodToken(k), CanCheckpointToken(k),
         NEW balance \in Int, k.cachedBalance <= balance, NEW force
  PROVE  LET r == checkpointToken(k, balance, force)
         IN  GoodToken(r) /\ TokenMoves(k, r) /\ r.cachedBalance <= balance
<1> DEFINE tc == k.timeCursor
           last == IF tc = 0 THEN clock ELSE tc
           new == balance - k.cachedBalance
           since == clock - last
           week == roundDownTimestamp(last)
           begin == [week |-> week, last |-> last, perWeek |-> k.perWeek, done |-> new = 0]
           loop == tokenSteps(begin, new, since)
           end == loop[MaxWeeks]
           first == IF tc = 0 THEN roundDownTimestamp(clock) ELSE k.startTime
           moved == [startTime |-> first, timeCursor |-> clock, cachedBalance |-> balance,
                     perWeek |-> end.perWeek]
           r == checkpointToken(k, balance, force)
<1>1. /\ tc \in Nat /\ k.startTime \in Nat /\ k.cachedBalance \in Int
      /\ k.perWeek \in [Weeks -> Nat] /\ tc <= clock
      /\ tc = 0 => \A w \in Weeks : k.perWeek[w] = 0
      /\ tc # 0 => /\ Multiple(k.startTime) /\ startTime <= k.startTime /\ k.startTime <= tc
                   /\ \A w \in Weeks : w < k.startTime => k.perWeek[w] = 0
  BY DEF GoodToken
<1>2. /\ clock \in Nat /\ startTime \in Nat /\ Multiple(startTime) /\ Week <= startTime
      /\ Week \in Nat /\ Week > 0 /\ MaxWeeks \in Nat
      /\ IsFiniteSet(Weeks) /\ \A w \in Weeks : w \in Nat /\ Multiple(w)
  BY WeekAssumption, FeeAssumption, WeeksAre DEF StartOK
<1>3. (r = k /\ tc # 0) \/ r = moved
  BY Zenon DEF checkpointToken
<1>4. CASE r = k /\ tc # 0
  <2>1. SumFunction(k.perWeek) \in Int
    BY <1>1, <1>2, SumTyped
  <2>2. TokenMoves(k, k)
    BY <1>1, <1>4, <2>1 DEF TokenMoves
  <2> QED BY <1>4, <2>2
<1>5. CASE r = moved
  <2>1. last \in Nat /\ last <= clock /\ since \in Nat /\ last + since = clock /\ new \in Nat
        /\ tc <= last
    BY <1>1, <1>2
  <2>2. clock > startTime \/ tc # 0
    BY DEF CanCheckpointToken
  <2>3. week \in Nat /\ Multiple(week) /\ week <= last /\ last < week + Week
    <3> HIDE DEF last
    <3> QED BY <2>1, RoundDown
  <2> HIDE DEF last, since, new, week
  <2>4. begin \in TokenLoopState
    BY <1>1, <2>1, <2>3 DEF TokenLoopState
  <2>5. begin \in Spreading(begin, new, since)
    <3>1. begin.perWeek \in [Weeks -> Int] /\ SumFunction(k.perWeek) \in Int
      BY <1>1, <1>2, SumTyped
    <3> DEFINE sum == SumFunction(k.perWeek)
    <3> HIDE DEF sum
    <3>2. SumFunction(begin.perWeek) = sum /\ sum \in Int
      BY <3>1 DEF sum
    <3>3. lesser(begin.last, clock) = begin.last /\ begin.last = last
      BY <2>1 DEF lesser
    <3>4. since * (sum - sum) <= new * (last - last)
      BY <2>1, <3>2
    <3>5. since = 0 => begin.last = clock
      BY <2>1, <3>3
    <3>6. \A w \in Weeks : begin.perWeek[w] <= begin.perWeek[w]
      BY <1>1
    <3>7. begin.week = week /\ sum <= sum + new
      BY <2>1, <3>2
    <3> HIDE DEF begin
    <3> QED BY <1>2, <2>1, <2>3, <2>4, <3>2, <3>3, <3>4, <3>5, <3>6, <3>7 DEF Spreading
  <2>6. /\ loop[0] = begin
        /\ \A n \in 1..MaxWeeks : loop[n] = tokenStep(loop[n - 1], new, since)
    <3> HIDE DEF begin
    <3> QED BY <1>2, <2>1, <2>4, TokenLoop
  <2>7. begin.week = week /\ begin.last = last /\ begin.perWeek = k.perWeek
    OBVIOUS
  <2>8. end \in Spreading(begin, new, since)
    <3> HIDE DEF begin, loop
    <3>1. ASSUME NEW s \in Spreading(begin, new, since)
          PROVE  tokenStep(s, new, since) \in Spreading(begin, new, since)
      BY <1>2, <2>1, <2>4, <2>7, TokenSpreads
    <3>2. \A n \in 1..MaxWeeks : loop[n - 1] \in Spreading(begin, new, since)
                                   => loop[n] \in Spreading(begin, new, since)
      BY <2>6, <3>1
    <3>3. loop[0] \in Spreading(begin, new, since)
      BY <2>5, <2>6
    <3>4. \A n \in 0..MaxWeeks : loop[n] \in Spreading(begin, new, since)
      <4> DEFINE G == Spreading(begin, new, since)
      <4>1. loop[0] \in G /\ \A n \in 1..MaxWeeks : loop[n - 1] \in G => loop[n] \in G
        BY <3>2, <3>3
      <4> HIDE DEF G
      <4>2. \A n \in 0..MaxWeeks : loop[n] \in G
        BY <1>2, <4>1, LoopPreserves
      <4> QED BY <4>2 DEF G
    <3> QED BY <1>2, <3>4
  <2> DEFINE sum0 == SumFunction(k.perWeek)
             sum == SumFunction(end.perWeek)
  <2> HIDE DEF loop, end, begin
  <2>9. /\ end.last \in Nat /\ end.perWeek \in [Weeks -> Int]
        /\ \A w \in Weeks : /\ k.perWeek[w] <= end.perWeek[w]
                            /\ w < week => end.perWeek[w] = k.perWeek[w]
        /\ since = 0 => sum <= sum0 + new
        /\ since # 0 => since * (sum - sum0) <= new * (lesser(end.last, clock) - last)
    BY <2>7, <2>8 DEF Spreading, TokenLoopState
  <2>10. sum \in Int /\ sum0 \in Int
    <3>1. k.perWeek \in [Weeks -> Int]
      BY <1>1
    <3> QED BY <1>2, <2>9, <3>1, SumTyped
  <2>11. end.perWeek \in [Weeks -> Nat]
    BY <1>1, <2>9
  <2> HIDE DEF sum, sum0
  <2>12. sum - sum0 <= new
    <3>1. CASE since = 0
      BY <2>1, <2>9, <2>10, <3>1
    <3>2. CASE since # 0
      <4> DEFINE x == sum - sum0
                 d == lesser(end.last, clock) - last
      <4>1. x \in Int /\ d \in Int /\ d <= since /\ since * x <= new * d
        <5>1. /\ lesser(end.last, clock) \in {end.last, clock}
              /\ lesser(end.last, clock) <= clock
          BY <1>2, <2>9, LesserGreater
        <5> QED BY <1>2, <2>1, <2>9, <2>10, <3>2, <5>1
      <4> HIDE DEF x, d
      <4>2. new * d <= new * since /\ new * d \in Int /\ new * since \in Int /\ since * x \in Int
        BY <2>1, <4>1, FactorKeepsOrder
      <4>3. new * since = since * new
        BY <2>1
      <4>4. ASSUME x > new PROVE FALSE
        <5>1. new + 1 <= x
          BY <2>1, <4>1, <4>4
        <5>2. since * (new + 1) <= since * x
          BY <2>1, <4>1, <5>1, FactorKeepsOrder
        <5>3. since * (new + 1) = since * new + since
          BY <2>1
        <5> DEFINE p == since * new
                   q == since * x
                   e == new * d
        <5>4. p \in Int /\ q \in Int /\ e \in Int /\ p + since <= q /\ q <= e /\ e <= p
          BY <4>1, <4>2, <4>3, <5>2, <5>3
        <5> HIDE DEF p, q, e
        <5> QED BY <2>1, <3>2, <5>4
      <4>5. x <= new
        BY <2>1, <4>1, <4>4
      <4> QED BY <4>5 DEF x
    <3> QED BY <3>1, <3>2
  <2>13. clock # 0
    BY <1>1, <1>2, <2>2
  <2>14. /\ first \in Nat /\ Multiple(first) /\ startTime <= first /\ first <= clock
         /\ first <= week
    <3>1. CASE tc # 0
      <4>1. last = tc /\ first = k.startTime
        BY <3>1 DEF last
      <4>2. k.startTime <= week
        <5> SUFFICES ASSUME week < k.startTime PROVE FALSE
          BY <1>1, <2>3
        <5>1. week + Week <= k.startTime
          BY <1>1, <2>3, <3>1, MultiplesNext
        <5> QED BY <1>1, <1>2, <2>1, <2>3, <3>1, <4>1, <5>1
      <4> QED BY <1>1, <1>2, <3>1, <4>1, <4>2
    <3>2. CASE tc = 0
      <4>1. last = clock /\ first = week
        BY <3>2 DEF last, week
      <4>2. startTime <= week
        <5> SUFFICES ASSUME week < startTime PROVE FALSE
          BY <1>2, <2>3
        <5>1. week + Week <= startTime
          BY <1>2, <2>3, MultiplesNext
        <5> QED BY <1>2, <2>2, <2>3, <3>2, <4>1, <5>1
      <4> QED BY <2>1, <2>3, <4>1, <4>2
    <3> QED BY <3>1, <3>2
  <2> HIDE DEF first, r
  <2>15. ASSUME NEW w \in Weeks, w < first PROVE end.perWeek[w] = 0
    <3>1. w < week
      BY <1>2, <2>3, <2>14, <2>15
    <3>2. end.perWeek[w] = k.perWeek[w]
      BY <2>9, <3>1
    <3>3. k.perWeek[w] = 0
      BY <1>1, <2>15 DEF first
    <3> QED BY <3>2, <3>3
  <2>16. ASSUME NEW w \in Weeks, w + Week <= tc PROVE end.perWeek[w] = k.perWeek[w]
    <3>1. w < week
      BY <1>1, <1>2, <2>1, <2>3, <2>16
    <3> QED BY <2>9, <3>1
  <2>17. /\ r.startTime = first /\ r.timeCursor = clock /\ r.cachedBalance = balance
         /\ r.perWeek = end.perWeek
    BY <1>5
  <2>18. r \in [startTime: Nat, timeCursor: Nat, cachedBalance: Int, perWeek: [Weeks -> Nat]]
    BY <1>2, <1>5, <2>11, <2>14
  <2>19. GoodToken(r)
    BY <1>2, <2>13, <2>14, <2>15, <2>17, <2>18 DEF GoodToken
  <2>20. SumFunction(r.perWeek) - SumFunction(k.perWeek) <= r.cachedBalance - k.cachedBalance
    BY <2>12, <2>17 DEF sum, sum0, new
  <2>21. TokenMoves(k, r)
    BY <1>1, <1>2, <2>13, <2>16, <2>17, <2>20 DEF TokenMoves
  <2> QED BY <2>17, <2>19, <2>21 DEF r
<1> QED BY <1>3, <1>4, <1>5
-----------------------------------------------------------------------------
\* A step, as far as votes are concerned: what is over stays as it was.
VotesAreNumbers ==
  \A w \in Weeks : totalSupply(w) \in Nat /\ \A u \in Users : escrowBalanceOf(u, w) \in Nat

LEMMA VotesNumbers == HistoriesOK => VotesAreNumbers
BY SupplyTyped, BalanceTyped, WeeksAre DEF VotesAreNumbers

EscrowMoves ==
  /\ StartOK' /\ startTime' = startTime /\ clock <= clock'
  /\ HistoriesOK' /\ VotesAreNumbers'
  /\ \A u \in Users : \A i \in DOMAIN points[u] :
       i \in DOMAIN points'[u] /\ points'[u][i] = points[u][i]
  /\ \A w \in Weeks : w < clock =>
       /\ totalSupply(w)' = totalSupply(w)
       /\ \A u \in Users : escrowBalanceOf(u, w)' = escrowBalanceOf(u, w)

LEMMA TotalsKept ==
  ASSUME NEW w, \A u \in Users : escrowBalanceOf(u, w)' = escrowBalanceOf(u, w)
  PROVE  totalSupply(w)' = totalSupply(w)
<1> DEFINE f == [u \in Users |-> escrowBalanceOf(u, w)]
           g == [u \in Users |-> escrowBalanceOf(u, w)']
<1>1. f = g
  OBVIOUS
<1>2. totalSupply(w) = SumFunction(f)
  BY DEF totalSupply
<1>3. totalSupply(w)' = SumFunction(g)
  BY DEF totalSupply
<1> HIDE DEF f, g
<1> QED BY <1>1, <1>2, <1>3

LEMMA VotesUnchanged ==
  ASSUME UNCHANGED points, NEW u, NEW w
  PROVE  escrowBalanceOf(u, w)' = escrowBalanceOf(u, w)
BY DEF escrowBalanceOf, PointsBy, votesAt

LEMMA EscrowRests ==
  ASSUME StartOK, HistoriesOK, UNCHANGED <<clock, points, startTime>>
  PROVE  EscrowMoves
<1>1. StartOK' /\ startTime' = startTime /\ clock <= clock' /\ clock \in Nat
  BY DEF StartOK, Multiple
<1>2. points' = points /\ clock' = clock
  OBVIOUS
<1>3. HistoriesOK'
  BY <1>2 DEF HistoriesOK, History, InOrder
<1>4. HistoriesOK' => VotesAreNumbers'
  BY VotesNumbers, PTL
<1>5. \A w \in Weeks : w < clock =>
        /\ totalSupply(w)' = totalSupply(w)
        /\ \A u \in Users : escrowBalanceOf(u, w)' = escrowBalanceOf(u, w)
  BY VotesUnchanged, TotalsKept
<1> QED BY <1>1, <1>2, <1>3, <1>4, <1>5 DEF EscrowMoves

LEMMA TimeMoves ==
  ASSUME StartOK, HistoriesOK, TimePasses, UNCHANGED <<points, startTime>>
  PROVE  EscrowMoves
<1>1. StartOK' /\ startTime' = startTime /\ clock <= clock' /\ clock \in Nat /\ clock' \in Nat
  BY DEF StartOK, Multiple, TimePasses
<1>2. points' = points
  OBVIOUS
<1>3. HistoriesOK'
  <2>1. points \in [Users -> Seq(Point)] /\ \A u \in Users : points[u] \in History
    BY DEF HistoriesOK
  <2>2. ASSUME NEW u \in Users
        PROVE  /\ points[u] \in Seq(Point) /\ InOrder(points[u])
               /\ \A i \in DOMAIN points[u] : points[u][i].ts <= clock'
    <3>1. /\ points[u] \in Seq(Point) /\ InOrder(points[u])
          /\ \A i \in DOMAIN points[u] : points[u][i].ts <= clock
      BY <2>1 DEF History
    <3>2. \A i \in DOMAIN points[u] : points[u][i].ts \in Nat
      BY <3>1, PointsTyped
    <3> QED BY <1>1, <3>1, <3>2
  <2> QED BY <1>2, <2>1, <2>2 DEF HistoriesOK, History, InOrder
<1>4. HistoriesOK' => VotesAreNumbers'
  BY VotesNumbers, PTL
<1>5. \A w \in Weeks : w < clock =>
        /\ totalSupply(w)' = totalSupply(w)
        /\ \A u \in Users : escrowBalanceOf(u, w)' = escrowBalanceOf(u, w)
  BY VotesUnchanged, TotalsKept
<1> QED BY <1>1, <1>2, <1>3, <1>4, <1>5 DEF EscrowMoves

LEMMA PointsMove ==
  ASSUME StartOK, HistoriesOK, NEW u \in Users, NEW bias \in Nat, NEW slope \in Nat,
         pointAdded(u, bias, slope)
  PROVE  EscrowMoves
<1> DEFINE new == [bias |-> bias, slope |-> slope, ts |-> clock]
<1>1. StartOK' /\ startTime' = startTime /\ clock' = clock /\ clock \in Nat
  BY DEF StartOK, Multiple, pointAdded
<1>2. points' = [points EXCEPT ![u] = Append(points[u], new)]
  BY DEF pointAdded
<1>3. points \in [Users -> Seq(Point)] /\ new \in Point /\ new.ts = clock
  BY <1>1 DEF HistoriesOK, Point
<1> HIDE DEF new
<1>4. ASSUME NEW v \in Users
      PROVE  /\ points'[v] \in Seq(Point) /\ InOrder(points'[v])
             /\ \A i \in DOMAIN points'[v] : points'[v][i].ts <= clock
             /\ \A i \in DOMAIN points[v] : i \in DOMAIN points'[v] /\ points'[v][i] = points[v][i]
  <2>1. /\ points[v] \in Seq(Point) /\ InOrder(points[v])
        /\ \A i \in DOMAIN points[v] : points[v][i].ts <= clock
    BY DEF HistoriesOK, History
  <2>2. CASE v # u
    <3>1. points'[v] = points[v]
      BY <1>2, <1>3, <2>2
    <3> QED BY <2>1, <3>1
  <2>3. CASE v = u
    <3> DEFINE h == points[v]
               g == points'[v]
               n == Len(h)
    <3>1. g = Append(h, new)
      BY <1>2, <1>3, <2>3
    <3>2. n \in Nat /\ DOMAIN h = 1..n /\ \A i \in DOMAIN h : h[i].ts \in Nat
      BY <2>1, PointsTyped
    <3>3. /\ DOMAIN g = 1..(n + 1) /\ g \in Seq(Point)
          /\ \A i \in 1..n : g[i] = h[i]
          /\ g[n + 1] = new
      BY <1>3, <2>1, <3>1, <3>2
    <3> HIDE DEF g, n, h
    <3>4. \A i \in DOMAIN g : g[i].ts <= clock
      <4> TAKE i \in DOMAIN g
      <4>1. i \in 1..n \/ i = n + 1
        BY <3>2, <3>3
      <4> QED BY <1>1, <1>3, <2>1, <3>2, <3>3, <4>1 DEF h
    <3>5. InOrder(g)
      <4> SUFFICES ASSUME NEW i \in DOMAIN g, NEW j \in DOMAIN g, i < j
                   PROVE  g[i].ts <= g[j].ts
        BY DEF InOrder
      <4>1. i \in 1..n /\ (j \in 1..n \/ j = n + 1)
        BY <3>2, <3>3
      <4>2. CASE j \in 1..n
        BY <2>1, <3>2, <3>3, <4>1, <4>2 DEF InOrder, h
      <4>3. CASE j = n + 1
        BY <1>3, <3>3, <3>4, <4>1, <4>3
      <4> QED BY <4>1, <4>2, <4>3
    <3> QED BY <3>2, <3>3, <3>4, <3>5 DEF g, h
  <2> QED BY <2>2, <2>3
<1>5. HistoriesOK'
  <2>1. points' \in [Users -> Seq(Point)]
    <3>1. points' = [v \in Users |-> points'[v]]
      BY <1>2, <1>3
    <3> QED BY <1>4, <3>1
  <2> QED BY <1>1, <1>4, <2>1 DEF HistoriesOK, History, InOrder
<1>6. HistoriesOK' => VotesAreNumbers'
  BY VotesNumbers, PTL
<1>7. \A w \in Weeks : w < clock =>
        /\ totalSupply(w)' = totalSupply(w)
        /\ \A v \in Users : escrowBalanceOf(v, w)' = escrowBalanceOf(v, w)
  <2> TAKE w \in Weeks
  <2> HAVE w < clock
  <2>1. w \in Nat
    BY WeeksAre
  <2>2. \A v \in Users : escrowBalanceOf(v, w)' = escrowBalanceOf(v, w)
    BY <1>1, <2>1, PastVotesStay
  <2> QED BY <2>2, TotalsKept
<1>8. clock <= clock'
  BY <1>1
<1> QED BY <1>1, <1>4, <1>5, <1>6, <1>7, <1>8 DEF EscrowMoves
-----------------------------------------------------------------------------
\* What a user has claimed of a token up to a week, week by week.
due(u, k, w) == share(k, w, escrowBalanceOf(u, w), greater(totalSupply(w), 1))
dues(u, c, k) == [w \in Weeks |-> IF w < c THEN due(u, k, w) ELSE 0]

CursorOK(u, c, k) ==
  /\ c \in Nat /\ Multiple(c)
  /\ c # 0 => k.timeCursor # 0 /\ startTime <= c
  /\ \A w \in Weeks : startTime <= w /\ w < c =>
       w < clock /\ (w + Week <= k.timeCursor \/ escrowBalanceOf(u, w) = 0)

LEMMA ShareTyped ==
  ASSUME NEW p \in Nat, NEW v \in Nat, NEW all \in Nat
  PROVE  /\ greater(all, 1) \in Nat /\ greater(all, 1) # 0
         /\ (p * v) \div greater(all, 1) \in Nat
         /\ p = 0 \/ v = 0 => (p * v) \div greater(all, 1) = 0
<1>1. greater(all, 1) \in Nat /\ greater(all, 1) # 0
  BY DEF greater
<1> DEFINE d == greater(all, 1)
           q == p * v
<1>2. q \in Nat /\ (p = 0 \/ v = 0 => q = 0) /\ d \in Nat /\ d # 0
  BY <1>1
<1> HIDE DEF d, q
<1>3. q \div d \in Nat
  BY <1>2, DivisionRoundsDown
<1>4. q = 0 => q \div d = 0
  <2> SUFFICES ASSUME q = 0 PROVE q \div d = 0
    OBVIOUS
  <2>1. d * (q \div d) <= 0
    BY <1>2, DivisionRoundsDown
  <2> DEFINE e == q \div d
  <2>2. e \in Nat /\ d * e <= 0
    BY <1>3, <2>1
  <2> HIDE DEF e
  <2>3. d * e >= e
    BY <1>2, <2>2
  <2>4. e = 0
    <3> DEFINE f == d * e
    <3>1. f \in Int /\ f <= 0 /\ f >= e
      BY <1>2, <2>2, <2>3
    <3> HIDE DEF f
    <3> QED BY <2>2, <3>1
  <2> QED BY <2>4 DEF e
<1> QED BY <1>1, <1>2, <1>3, <1>4 DEF d, q

LEMMA NothingBeforeStart ==
  ASSUME StartOK, NEW k, GoodToken(k), NEW w \in Weeks, w < startTime
  PROVE  k.perWeek[w] = 0
<1>1. k.startTime \in Nat /\ startTime \in Nat /\ w \in Nat
  BY WeeksAre DEF GoodToken, StartOK
<1> QED BY <1>1 DEF GoodToken

LEMMA DuesTyped ==
  ASSUME VotesAreNumbers, NEW u \in Users, NEW c \in Nat,
         NEW k, k.perWeek \in [Weeks -> Nat]
  PROVE  /\ dues(u, c, k) \in [Weeks -> Nat]
         /\ \A w \in Weeks : due(u, k, w) \in Nat
         /\ SumFunction(dues(u, c, k)) \in Int
         /\ SumFunction(dues(u, c, k)) =
              SumFunction([w \in {v \in Weeks : v < c} |-> due(u, k, w)])
<1>1. \A w \in Weeks : due(u, k, w) \in Nat
  <2> TAKE w \in Weeks
  <2> DEFINE p == k.perWeek[w]
             v == escrowBalanceOf(u, w)
             all == totalSupply(w)
  <2>1. p \in Nat /\ v \in Nat /\ all \in Nat
    BY DEF VotesAreNumbers
  <2> HIDE DEF p, v, all
  <2>2. (p * v) \div greater(all, 1) \in Nat
    BY <2>1, ShareTyped
  <2> QED BY <2>2 DEF due, share, p, v, all
<1> DEFINE f == dues(u, c, k)
           A == {v \in Weeks : v < c}
           h == [w \in A |-> due(u, k, w)]
<1>2. f \in [Weeks -> Nat] /\ h \in [A -> Nat]
  BY <1>1 DEF dues
<1>3. IsFiniteSet(Weeks) /\ A \in SUBSET Weeks
  BY WeeksAre
<1>4. (\A w \in A : h[w] = f[w]) /\ (\A w \in Weeks \ A : f[w] = 0)
  BY DEF dues
<1> HIDE DEF f, A, h
<1>5. SumFunction(h) = SumFunction(f) /\ SumFunction(f) \in Int
  <2>1. f \in [Weeks -> Int] /\ h \in [A -> Int]
    BY <1>2
  <2> QED BY <1>3, <1>4, <2>1, SumOfPart, SumTyped
<1> QED BY <1>1, <1>2, <1>5 DEF f, A, h

\* A token brought up to date owes no one more for the weeks they have claimed.
LEMMA DuesStay ==
  ASSUME StartOK, VotesAreNumbers, NEW u \in Users, NEW k, NEW r, GoodToken(k), GoodToken(r),
         TokenMoves(k, r), NEW c, CursorOK(u, c, k)
  PROVE  dues(u, c, r) = dues(u, c, k) /\ CursorOK(u, c, r)
<1>1. /\ k.timeCursor \in Nat /\ r.timeCursor \in Nat /\ r.timeCursor # 0
      /\ k.timeCursor <= r.timeCursor
      /\ k.perWeek \in [Weeks -> Nat] /\ r.perWeek \in [Weeks -> Nat]
  BY DEF GoodToken, TokenMoves
<1>2. /\ c \in Nat /\ startTime \in Nat /\ Week \in Nat /\ clock \in Nat
      /\ \A w \in Weeks : w \in Nat
  BY WeekAssumption, WeeksAre DEF CursorOK, StartOK
<1>3. ASSUME NEW w \in Weeks, w < c PROVE due(u, r, w) = due(u, k, w)
  <2>1. CASE w < startTime
    <3>1. r.perWeek[w] = k.perWeek[w]
      BY <2>1, NothingBeforeStart
    <3> QED BY <3>1 DEF due, share
  <2>2. CASE startTime <= w
    <3>1. w + Week <= k.timeCursor \/ escrowBalanceOf(u, w) = 0
      BY <1>3, <2>2 DEF CursorOK
    <3>2. CASE w + Week <= k.timeCursor
      <4>1. r.perWeek[w] = k.perWeek[w]
        BY <3>2 DEF TokenMoves
      <4> QED BY <4>1 DEF due, share
    <3>3. CASE escrowBalanceOf(u, w) = 0
      <4> DEFINE p == k.perWeek[w]
                 q == r.perWeek[w]
                 v == escrowBalanceOf(u, w)
                 all == totalSupply(w)
      <4>1. p \in Nat /\ q \in Nat /\ v = 0 /\ v \in Nat /\ all \in Nat
        BY <1>1, <3>3 DEF VotesAreNumbers
      <4> HIDE DEF p, q, v, all
      <4>2. (p * v) \div greater(all, 1) = 0 /\ (q * v) \div greater(all, 1) = 0
        BY <4>1, ShareTyped
      <4> QED BY <4>2 DEF due, share, p, q, v, all
    <3> QED BY <3>1, <3>2, <3>3
  <2> QED BY <1>2, <2>1, <2>2
<1>4. dues(u, c, r) = dues(u, c, k)
  BY <1>3 DEF dues
<1>5. ASSUME NEW w \in Weeks, w + Week <= k.timeCursor PROVE w + Week <= r.timeCursor
  BY <1>1, <1>2, <1>5
<1> QED BY <1>1, <1>4, <1>5 DEF CursorOK

\* The votes of the weeks claimed stay.
LEMMA DuesKept ==
  ASSUME StartOK, VotesAreNumbers, EscrowMoves, NEW u \in Users, NEW k, GoodToken(k),
         NEW c, CursorOK(u, c, k), NEW w \in Weeks, w < c
  PROVE  share(k, w, escrowBalanceOf(u, w)', greater(totalSupply(w)', 1)) = due(u, k, w)
<1>1. c \in Nat /\ startTime \in Nat /\ w \in Nat /\ k.perWeek[w] \in Nat
  BY WeeksAre DEF CursorOK, StartOK, GoodToken
<1>2. CASE startTime <= w
  <2>1. w < clock
    BY <1>2 DEF CursorOK
  <2>2. escrowBalanceOf(u, w)' = escrowBalanceOf(u, w) /\ totalSupply(w)' = totalSupply(w)
    BY <2>1 DEF EscrowMoves
  <2> QED BY <2>2 DEF due, share
<1>3. CASE w < startTime
  <2> DEFINE p == k.perWeek[w]
             a == escrowBalanceOf(u, w)
             b == totalSupply(w)
             e == escrowBalanceOf(u, w)'
             f == totalSupply(w)'
  <2>1. p = 0 /\ p \in Nat
    BY <1>1, <1>3, NothingBeforeStart
  <2>2. a \in Nat /\ b \in Nat
    BY DEF VotesAreNumbers
  <2>3. e \in Nat /\ f \in Nat
    BY DEF EscrowMoves, VotesAreNumbers
  <2> HIDE DEF p, a, b, e, f
  <2>4. (p * a) \div greater(b, 1) = 0 /\ (p * e) \div greater(f, 1) = 0
    BY <2>1, <2>2, <2>3, ShareTyped
  <2> QED BY <2>4 DEF due, share, p, a, b, e, f
<1> QED BY <1>1, <1>2, <1>3
-----------------------------------------------------------------------------
\* The invariant: what is known of the data, for the votes as they are.
UserRecord == [startTime: Nat, timeCursor: Nat, lastEpochCheckpointed: Nat, votes: [Weeks -> Nat]]
TokenRecord == [startTime: Nat, timeCursor: Nat, cachedBalance: Int, perWeek: [Weeks -> Nat]]
Covered(k, balance, all) ==
  SumFunction(k.perWeek) <= k.cachedBalance + all /\ k.cachedBalance <= balance

DataOK(votes, users, tokens, cursors, balances, amounts) ==
  /\ GoodSupply(votes)
  /\ users \in [Users -> UserRecord] /\ \A u \in Users : GoodUser(u, users[u])
  /\ tokens \in [FeeTokens -> TokenRecord] /\ \A t \in FeeTokens : GoodToken(tokens[t])
  /\ cursors \in [Users -> [FeeTokens -> Nat]]
  /\ balances \in [FeeTokens -> Int]
  /\ amounts \in [Users -> [FeeTokens -> Int]]
  /\ \A u \in Users, t \in FeeTokens :
       /\ CursorOK(u, cursors[u][t], tokens[t])
       /\ amounts[u][t] = SumFunction(dues(u, cursors[u][t], tokens[t]))
  /\ \A t \in FeeTokens :
       Covered(tokens[t], balances[t], SumFunction([u \in Users |-> amounts[u][t]]))

FeeInv ==
  /\ StartOK /\ HistoriesOK
  /\ DataOK(supply, userState, tokenState, userTokenTimeCursor, balanceOf, claimed)

\* It holds after a step if it does of the new data with the votes of before.
LEMMA DataKept ==
  ASSUME StartOK, HistoriesOK, EscrowMoves,
         DataOK(supply', userState', tokenState', userTokenTimeCursor', balanceOf', claimed')
  PROVE  FeeInv'
<1>1. /\ StartOK' /\ HistoriesOK' /\ startTime' = startTime /\ clock <= clock'
      /\ VotesAreNumbers'
  BY DEF EscrowMoves
<1>2. /\ clock \in Nat /\ clock' \in Nat /\ startTime \in Nat
      /\ \A w \in Weeks : w \in Nat
  BY <1>1, WeeksAre DEF StartOK
<1>3. ASSUME NEW w \in Weeks, w < clock
      PROVE  /\ w < clock' /\ totalSupply(w)' = totalSupply(w)
             /\ \A u \in Users : escrowBalanceOf(u, w)' = escrowBalanceOf(u, w)
  BY <1>1, <1>2, <1>3 DEF EscrowMoves
<1>4. GoodSupply(supply)'
  <2>1. GoodSupply(supply')
    BY DEF DataOK
  <2> QED BY <1>1, <1>3, <2>1 DEF GoodSupply, Multiple
<1>5. ASSUME NEW u \in Users PROVE GoodUser(u, userState[u])'
  <2> DEFINE s == userState'[u]
  <2>1. GoodUser(u, s)
    BY DEF DataOK
  <2> HIDE DEF s
  <2>2. s.timeCursor # 0 => /\ s.lastEpochCheckpointed \in DOMAIN points'[u]
                            /\ points'[u][s.lastEpochCheckpointed].ts <= s.timeCursor
    BY <2>1 DEF EscrowMoves, GoodUser
  <2>3. \A w \in Weeks :
       /\ startTime' <= w /\ w < s.timeCursor => w < clock' /\ s.votes[w] = escrowBalanceOf(u, w)'
       /\ s.timeCursor <= w => s.votes[w] = 0
       /\ startTime' <= w /\ w < s.startTime => w < clock' /\ escrowBalanceOf(u, w)' = 0
    BY <1>1, <1>3, <2>1 DEF GoodUser
  <2> QED BY <1>1, <2>1, <2>2, <2>3 DEF GoodUser, Multiple, s
<1>6. ASSUME NEW t \in FeeTokens PROVE GoodToken(tokenState[t])'
  <2> DEFINE k == tokenState'[t]
  <2>1. GoodToken(k)
    BY DEF DataOK
  <2> HIDE DEF k
  <2>2. k.timeCursor <= clock'
    BY <1>1, <1>2, <2>1 DEF GoodToken
  <2> QED BY <1>1, <2>1, <2>2 DEF GoodToken, Multiple, k
<1>7. ASSUME NEW u \in Users, NEW t \in FeeTokens
      PROVE  /\ CursorOK(u, userTokenTimeCursor[u][t], tokenState[t])'
             /\ claimed'[u][t] = SumFunction(dues(u, userTokenTimeCursor[u][t], tokenState[t])')
  <2> DEFINE k == tokenState'[t]
             c == userTokenTimeCursor'[u][t]
  <2>1. GoodToken(k) /\ CursorOK(u, c, k) /\ claimed'[u][t] = SumFunction(dues(u, c, k))
    BY DEF DataOK
  <2> HIDE DEF k, c
  <2>2. ASSUME NEW w \in Weeks, startTime' <= w, w < c
        PROVE  w < clock' /\ (w + Week <= k.timeCursor \/ escrowBalanceOf(u, w)' = 0)
    BY <1>1, <1>3, <2>1, <2>2 DEF CursorOK
  <2>3. CursorOK(u, userTokenTimeCursor[u][t], tokenState[t])'
    BY <1>1, <2>1, <2>2 DEF CursorOK, Multiple, k, c
  <2>4. VotesAreNumbers
    BY VotesNumbers
  <2>5. \A w \in Weeks : w < c =>
          share(k, w, escrowBalanceOf(u, w)', greater(totalSupply(w)', 1)) = due(u, k, w)
    BY <2>1, <2>4, DuesKept
  <2>6. dues(u, userTokenTimeCursor[u][t], tokenState[t])' =
          [w \in Weeks |-> IF w < c THEN share(k, w, escrowBalanceOf(u, w)', greater(totalSupply(w)', 1))
                           ELSE 0]
    BY Zenon DEF dues, due, share, greater, k, c
  <2>7. dues(u, userTokenTimeCursor[u][t], tokenState[t])' = dues(u, c, k)
    BY <2>5, <2>6 DEF dues
  <2> QED BY <2>1, <2>3, <2>7
<1>8. /\ userState' \in [Users -> UserRecord] /\ tokenState' \in [FeeTokens -> TokenRecord]
      /\ userTokenTimeCursor' \in [Users -> [FeeTokens -> Nat]]
      /\ balanceOf' \in [FeeTokens -> Int] /\ claimed' \in [Users -> [FeeTokens -> Int]]
      /\ \A t \in FeeTokens :
           Covered(tokenState'[t], balanceOf'[t], SumFunction([u \in Users |-> claimed'[u][t]]))
  BY Zenon DEF DataOK
<1>9. DataOK(supply, userState, tokenState, userTokenTimeCursor, balanceOf, claimed)'
  BY <1>4, <1>5, <1>6, <1>7, <1>8 DEF DataOK, Covered, UserRecord, TokenRecord
<1> QED BY <1>1, <1>9 DEF FeeInv

\* Its parts, as the proofs of steps need them.
LEMMA InvParts ==
  ASSUME FeeInv
  PROVE  /\ StartOK /\ HistoriesOK /\ VotesAreNumbers
         /\ DataOK(supply, userState, tokenState, userTokenTimeCursor, balanceOf, claimed)
         /\ GoodSupply(supply)
         /\ userState \in [Users -> UserRecord] /\ \A u \in Users : GoodUser(u, userState[u])
         /\ tokenState \in [FeeTokens -> TokenRecord] /\ \A t \in FeeTokens : GoodToken(tokenState[t])
         /\ userTokenTimeCursor \in [Users -> [FeeTokens -> Nat]]
         /\ balanceOf \in [FeeTokens -> Int]
         /\ claimed \in [Users -> [FeeTokens -> Int]]
BY VotesNumbers DEF FeeInv, DataOK
-----------------------------------------------------------------------------
\* It holds initially,
LEMMA FeeInitially == FeeInit => FeeInv
<1> SUFFICES ASSUME FeeInit PROVE FeeInv
  OBVIOUS
<1>1. Week \in Nat /\ Week > 0 /\ IsFiniteSet(Weeks) /\ IsFiniteSet(Users)
      /\ \A w \in Weeks : w \in Nat
  BY WeekAssumption, FeeAssumption, WeeksAre
<1>2. Multiple(Week) /\ Multiple(2 * Week) /\ Multiple(0)
  <2>1. Week = 1 * Week /\ 1 \in Int
    BY <1>1
  <2>2. Multiple(Week)
    BY <2>1, Zenon DEF Multiple
  <2>3. Multiple(Week + Week) /\ Multiple(0)
    BY <1>1, <2>2, MultiplesAdd
  <2>4. 2 * Week = Week + Week
    BY <1>1
  <2> QED BY <2>2, <2>3, <2>4
<1>3. StartOK
  <2>1. clock = 2 * Week - 1 /\ startTime \in {Week, 2 * Week}
    BY DEF FeeInit, ClockInit
  <2>2. startTime \in Nat /\ Multiple(startTime) /\ Week <= startTime
    BY <1>1, <1>2, <2>1
  <2>3. clock \in Nat
    BY <1>1, <2>1
  <2> QED BY <2>2, <2>3 DEF StartOK
<1>4. HistoriesOK
  <2>1. points = FirstPoints /\ clock = 2 * Week - 1
    BY DEF FeeInit, ClockInit
  <2>2. FirstPoints \in [Users -> Seq(Point)]
    BY FeeAssumption
  <2>3. ASSUME NEW u \in Users PROVE FirstPoints[u] \in History
    <3>1. FirstPoints[u] \in Seq(Point) /\ InOrder(FirstPoints[u])
          /\ \A i \in DOMAIN FirstPoints[u] : FirstPoints[u][i].ts < 2 * Week
      BY FeeAssumption
    <3>2. \A i \in DOMAIN FirstPoints[u] : FirstPoints[u][i].ts \in Nat
      BY <3>1, PointsTyped
    <3> DEFINE d == 2 * Week
    <3>3. d \in Int /\ clock = d - 1
      BY <1>1, <2>1
    <3>4. \A i \in DOMAIN FirstPoints[u] : FirstPoints[u][i].ts < d
      BY <3>1
    <3> HIDE DEF d
    <3>5. \A i \in DOMAIN FirstPoints[u] : FirstPoints[u][i].ts <= clock
      BY <3>2, <3>3, <3>4
    <3> QED BY <3>1, <3>5 DEF History
  <2> QED BY <2>1, <2>2, <2>3 DEF HistoriesOK
<1>5. NoneByWeek \in [Weeks -> Nat] /\ NoneByWeek \in [Weeks -> Int]
      /\ \A w \in Weeks : NoneByWeek[w] = 0
  BY DEF NoneByWeek
<1>6. SumFunction(NoneByWeek) = 0
  BY <1>1, <1>5, SumOfZeros
<1>7. /\ supply = [timeCursor |-> startTime, cache |-> NoneByWeek]
      /\ userState = [u \in Users |-> [startTime |-> 0, timeCursor |-> 0,
                                       lastEpochCheckpointed |-> 0, votes |-> NoneByWeek]]
      /\ tokenState = [t \in FeeTokens |-> [startTime |-> 0, timeCursor |-> 0,
                                            cachedBalance |-> 0, perWeek |-> NoneByWeek]]
      /\ userTokenTimeCursor = [u \in Users |-> [t \in FeeTokens |-> 0]]
      /\ balanceOf = [t \in FeeTokens |-> 0]
      /\ claimed = [u \in Users |-> [t \in FeeTokens |-> 0]]
  BY DEF FeeInit
<1>8. GoodSupply(supply)
  <2>1. supply.timeCursor = startTime /\ supply.cache = NoneByWeek
    BY <1>7
  <2>2. startTime \in Nat /\ Multiple(startTime)
    BY <1>3 DEF StartOK
  <2>3. supply \in [timeCursor: Nat, cache: [Weeks -> Nat]]
    BY <1>5, <1>7, <2>2
  <2>4. \A w \in Weeks : ~(startTime <= w /\ w < startTime)
    BY <1>1, <2>2
  <2> QED BY <2>1, <2>2, <2>3, <2>4 DEF GoodSupply
<1>9. userState \in [Users -> UserRecord]
  BY <1>5, <1>7 DEF UserRecord
<1>10. ASSUME NEW u \in Users PROVE GoodUser(u, userState[u])
  <2> DEFINE s == userState[u]
  <2>1. /\ s.startTime = 0 /\ s.timeCursor = 0 /\ s.votes = NoneByWeek
    BY <1>7
  <2>2. s \in UserRecord
    BY <1>9
  <2> HIDE DEF s
  <2>3. \A w \in Weeks : ~(w < 0)
    BY <1>1
  <2> QED BY <1>2, <1>5, <2>1, <2>2, <2>3 DEF GoodUser, UserRecord, s
<1>11. tokenState \in [FeeTokens -> TokenRecord]
  BY <1>5, <1>7 DEF TokenRecord
<1>12. ASSUME NEW t \in FeeTokens
       PROVE  /\ GoodToken(tokenState[t]) /\ tokenState[t].perWeek = NoneByWeek
              /\ tokenState[t].cachedBalance = 0
  <2> DEFINE k == tokenState[t]
  <2>1. /\ k.startTime = 0 /\ k.timeCursor = 0 /\ k.perWeek = NoneByWeek /\ k.cachedBalance = 0
    BY <1>7
  <2>2. k \in TokenRecord /\ 0 <= clock
    BY <1>3, <1>11 DEF StartOK
  <2> HIDE DEF k
  <2> QED BY <1>5, <2>1, <2>2 DEF GoodToken, TokenRecord, k
<1>13. ASSUME NEW u \in Users, NEW t \in FeeTokens
       PROVE  /\ CursorOK(u, 0, tokenState[t])
              /\ SumFunction(dues(u, 0, tokenState[t])) = 0
  <2>1. \A w \in Weeks : ~(w < 0)
    BY <1>1
  <2>2. CursorOK(u, 0, tokenState[t])
    BY <1>2, <2>1 DEF CursorOK
  <2>3. dues(u, 0, tokenState[t]) = NoneByWeek
    BY <2>1 DEF dues, NoneByWeek
  <2> QED BY <1>6, <2>2, <2>3
<1>14. ASSUME NEW t \in FeeTokens
       PROVE  Covered(tokenState[t], balanceOf[t], SumFunction([u \in Users |-> claimed[u][t]]))
  <2> DEFINE f == [u \in Users |-> claimed[u][t]]
  <2>1. f \in [Users -> Int] /\ \A u \in Users : f[u] = 0
    BY <1>7
  <2> HIDE DEF f
  <2>2. SumFunction(f) = 0
    BY <1>1, <2>1, SumOfZeros
  <2>3. balanceOf[t] = 0
    BY <1>7
  <2> QED BY <1>6, <1>12, <2>2, <2>3 DEF Covered, f
<1>15. /\ userTokenTimeCursor \in [Users -> [FeeTokens -> Nat]]
       /\ balanceOf \in [FeeTokens -> Int]
       /\ claimed \in [Users -> [FeeTokens -> Int]]
       /\ \A u \in Users, t \in FeeTokens : userTokenTimeCursor[u][t] = 0 /\ claimed[u][t] = 0
  BY <1>7
<1>16. DataOK(supply, userState, tokenState, userTokenTimeCursor, balanceOf, claimed)
  BY <1>8, <1>9, <1>10, <1>11, <1>12, <1>13, <1>14, <1>15 DEF DataOK
<1> QED BY <1>3, <1>4, <1>16 DEF FeeInv

\* after a step of the escrow or of time,
LEMMA OutsideSteps ==
  ASSUME FeeInv, EscrowMoves,
         UNCHANGED <<supply, userState, tokenState, userTokenTimeCursor, balanceOf, claimed>>
  PROVE  FeeInv'
<1>1. /\ supply' = supply /\ userState' = userState /\ tokenState' = tokenState
      /\ userTokenTimeCursor' = userTokenTimeCursor /\ balanceOf' = balanceOf /\ claimed' = claimed
  OBVIOUS
<1>2. DataOK(supply', userState', tokenState', userTokenTimeCursor', balanceOf', claimed')
  BY <1>1 DEF FeeInv
<1> QED BY <1>2, DataKept DEF FeeInv

LEMMA EscrowSteps ==
  ASSUME FeeInv, NEW u \in Users
  PROVE  /\ \A slope \in Slopes, end \in LockEnds : Lock(u, slope, end) => FeeInv'
         /\ Withdraw(u) => FeeInv'
<1>1. StartOK /\ HistoriesOK /\ clock \in Nat
  BY DEF FeeInv, StartOK
<1>2. ASSUME NEW bias \in Nat, NEW slope \in Nat, pointAdded(u, bias, slope) PROVE FeeInv'
  <2>1. EscrowMoves
    BY <1>1, <1>2, PointsMove
  <2> QED BY <1>2, <2>1, OutsideSteps DEF pointAdded
<1>3. ASSUME NEW slope \in Slopes, NEW end \in LockEnds, Lock(u, slope, end) PROVE FeeInv'
  <2>1. slope \in Nat /\ end \in Nat /\ end > clock
    BY <1>3, FeeAssumption DEF Lock
  <2>2. slope * (end - clock) \in Nat
    <3>1. end - clock \in Nat
      BY <1>1, <2>1
    <3> QED BY <2>1, <3>1
  <2>3. pointAdded(u, slope * (end - clock), slope)
    BY <1>3, Zenon DEF Lock
  <2> HIDE DEF pointAdded
  <2> QED BY <1>2, <2>1, <2>2, <2>3
<1>4. ASSUME Withdraw(u) PROVE FeeInv'
  <2>1. pointAdded(u, 0, 0)
    BY <1>4 DEF Withdraw
  <2> QED BY <1>2, <2>1
<1> QED BY <1>3, <1>4

\* or of the contract, which is seen for the votes as they are.
LEMMA ContractSteps ==
  ASSUME FeeInv, UNCHANGED <<clock, points, startTime>>,
         DataOK(supply', userState', tokenState', userTokenTimeCursor', balanceOf', claimed')
  PROVE  FeeInv'
<1>1. StartOK /\ HistoriesOK
  BY DEF FeeInv
<1>2. EscrowMoves
  BY <1>1, EscrowRests
<1> QED BY <1>1, <1>2, DataKept

LEMMA CheckpointSteps ==
  ASSUME FeeInv
  PROVE  /\ Checkpoint => FeeInv'
         /\ \A u \in Users : CheckpointUser(u) => FeeInv'
<1>1. ASSUME Checkpoint PROVE FeeInv'
  <2>1. GoodSupply(supply')
    BY <1>1, InvParts, SupplyCheckpoint DEF Checkpoint
  <2>2. /\ UNCHANGED <<clock, points, startTime>>
        /\ userState' = userState /\ tokenState' = tokenState /\ balanceOf' = balanceOf
        /\ userTokenTimeCursor' = userTokenTimeCursor /\ claimed' = claimed
    BY <1>1 DEF Checkpoint
  <2>3. DataOK(supply', userState', tokenState', userTokenTimeCursor', balanceOf', claimed')
    BY <2>1, <2>2 DEF FeeInv, DataOK
  <2> QED BY <2>2, <2>3, ContractSteps
<1>2. ASSUME NEW u \in Users, CheckpointUser(u) PROVE FeeInv'
  <2> DEFINE s == checkpointUserBalance(u)
  <2>1. GoodUser(u, s)
    BY InvParts, UserCheckpoint
  <2>2. s \in UserRecord
    BY <2>1 DEF GoodUser, UserRecord
  <2>3. userState' = [userState EXCEPT ![u] = s]
    BY <1>2 DEF CheckpointUser
  <2> HIDE DEF s
  <2>4. userState' \in [Users -> UserRecord] /\ \A v \in Users : GoodUser(v, userState'[v])
    BY <2>1, <2>2, <2>3, InvParts
  <2>5. /\ UNCHANGED <<clock, points, startTime>>
        /\ supply' = supply /\ tokenState' = tokenState /\ balanceOf' = balanceOf
        /\ userTokenTimeCursor' = userTokenTimeCursor /\ claimed' = claimed
    BY <1>2 DEF CheckpointUser
  <2>6. DataOK(supply', userState', tokenState', userTokenTimeCursor', balanceOf', claimed')
    BY <2>4, <2>5 DEF FeeInv, DataOK
  <2> QED BY <2>5, <2>6, ContractSteps
<1> QED BY <1>1, <1>2

LEMMA TokenMovesOn ==
  ASSUME NEW k, NEW r, NEW s, GoodToken(k), GoodToken(r), GoodToken(s),
         TokenMoves(k, r), TokenMoves(r, s)
  PROVE  TokenMoves(k, s)
<1>1. /\ k.timeCursor \in Nat /\ r.timeCursor \in Nat /\ s.timeCursor \in Nat
      /\ k.cachedBalance \in Int /\ r.cachedBalance \in Int /\ s.cachedBalance \in Int
      /\ k.perWeek \in [Weeks -> Int] /\ r.perWeek \in [Weeks -> Int]
      /\ s.perWeek \in [Weeks -> Int]
  BY DEF GoodToken
<1>2. Week \in Nat /\ IsFiniteSet(Weeks) /\ \A w \in Weeks : w \in Nat
  BY WeekAssumption, WeeksAre
<1> DEFINE a == SumFunction(k.perWeek)
           b == SumFunction(r.perWeek)
           c == SumFunction(s.perWeek)
<1>3. a \in Int /\ b \in Int /\ c \in Int
  BY <1>1, <1>2, SumTyped
<1>4. /\ k.timeCursor <= r.timeCursor /\ r.timeCursor <= s.timeCursor /\ s.timeCursor # 0
      /\ b - a <= r.cachedBalance - k.cachedBalance
      /\ c - b <= s.cachedBalance - r.cachedBalance
      /\ \A w \in Weeks : w + Week <= k.timeCursor => r.perWeek[w] = k.perWeek[w]
      /\ \A w \in Weeks : w + Week <= r.timeCursor => s.perWeek[w] = r.perWeek[w]
  BY DEF TokenMoves
<1> HIDE DEF a, b, c
<1>5. c - a <= s.cachedBalance - k.cachedBalance
  BY <1>1, <1>3, <1>4
<1>6. \A w \in Weeks : w + Week <= k.timeCursor => s.perWeek[w] = k.perWeek[w]
  BY <1>1, <1>2, <1>4
<1>7. k.timeCursor <= s.timeCursor
  BY <1>1, <1>4
<1> QED BY <1>4, <1>5, <1>6, <1>7 DEF TokenMoves, a, c

LEMMA TokenBroughtUpToDate ==
  ASSUME FeeInv, NEW t \in FeeTokens, NEW r, GoodToken(r), TokenMoves(tokenState[t], r),
         NEW b \in Int, r.cachedBalance <= b
  PROVE  DataOK(supply, userState, [tokenState EXCEPT ![t] = r], userTokenTimeCursor,
                [balanceOf EXCEPT ![t] = b], claimed)
<1> DEFINE k == tokenState[t]
           tokens == [tokenState EXCEPT ![t] = r]
           balances == [balanceOf EXCEPT ![t] = b]
<1>1. /\ tokenState \in [FeeTokens -> TokenRecord] /\ balanceOf \in [FeeTokens -> Int]
      /\ StartOK /\ VotesAreNumbers /\ \A x \in FeeTokens : GoodToken(tokenState[x])
      /\ claimed \in [Users -> [FeeTokens -> Int]]
  BY InvParts
<1>2. r \in TokenRecord
  BY DEF GoodToken, TokenRecord
<1>3. /\ tokens \in [FeeTokens -> TokenRecord] /\ tokens[t] = r
      /\ \A x \in FeeTokens : x # t => tokens[x] = tokenState[x]
      /\ balances \in [FeeTokens -> Int] /\ balances[t] = b
      /\ \A x \in FeeTokens : x # t => balances[x] = balanceOf[x]
  BY <1>1, <1>2
<1>4. \A u \in Users, x \in FeeTokens :
        /\ CursorOK(u, userTokenTimeCursor[u][x], tokenState[x])
        /\ claimed[u][x] = SumFunction(dues(u, userTokenTimeCursor[u][x], tokenState[x]))
  BY DEF FeeInv, DataOK
<1>5. \A x \in FeeTokens :
        Covered(tokenState[x], balanceOf[x], SumFunction([u \in Users |-> claimed[u][x]]))
  BY DEF FeeInv, DataOK
<1> HIDE DEF tokens, balances
<1>6. ASSUME NEW u \in Users, NEW x \in FeeTokens
      PROVE  /\ CursorOK(u, userTokenTimeCursor[u][x], tokens[x])
             /\ claimed[u][x] = SumFunction(dues(u, userTokenTimeCursor[u][x], tokens[x]))
  <2>1. CASE x = t
    <3> DEFINE c == userTokenTimeCursor[u][t]
    <3>1. CursorOK(u, c, k)
      BY <1>4
    <3> HIDE DEF c
    <3>2. GoodToken(k)
      BY <1>1
    <3>3. dues(u, c, r) = dues(u, c, k) /\ CursorOK(u, c, r)
      BY <1>1, <3>1, <3>2, DuesStay
    <3> QED BY <1>3, <1>4, <2>1, <3>3 DEF c
  <2>2. CASE x # t
    BY <1>3, <1>4, <2>2
  <2> QED BY <2>1, <2>2
<1>7. ASSUME NEW x \in FeeTokens
      PROVE  Covered(tokens[x], balances[x], SumFunction([u \in Users |-> claimed[u][x]]))
  <2>1. CASE x = t
    <3> DEFINE f == [u \in Users |-> claimed[u][t]]
               all == SumFunction(f)
               p == SumFunction(k.perWeek)
               q == SumFunction(r.perWeek)
    <3>1. f \in [Users -> Int]
      BY <1>1
    <3>2. k.perWeek \in [Weeks -> Int] /\ r.perWeek \in [Weeks -> Int]
          /\ k.cachedBalance \in Int /\ r.cachedBalance \in Int
      BY <1>1 DEF GoodToken
    <3>3. p <= k.cachedBalance + all /\ q - p <= r.cachedBalance - k.cachedBalance
      BY <1>5 DEF Covered, TokenMoves
    <3> HIDE DEF f, k
    <3>4. all \in Int /\ p \in Int /\ q \in Int
      BY <3>1, <3>2, SumTyped, FeeAssumption, WeeksAre
    <3> HIDE DEF all, p, q
    <3>5. q <= r.cachedBalance + all
      BY <3>2, <3>3, <3>4
    <3> QED BY <1>3, <2>1, <3>5 DEF Covered, q, all, f
  <2>2. CASE x # t
    BY <1>3, <1>5, <2>2
  <2> QED BY <2>1, <2>2
<1>8. \A x \in FeeTokens : GoodToken(tokens[x])
  BY <1>1, <1>3
<1>9. DataOK(supply, userState, tokens, userTokenTimeCursor, balances, claimed)
  BY <1>3, <1>6, <1>7, <1>8, InvParts DEF DataOK
<1> QED BY <1>9 DEF tokens, balances

LEMMA TokenActions ==
  ASSUME FeeInv, NEW t \in FeeTokens
  PROVE  /\ CheckpointToken(t) => FeeInv'
         /\ \A amount \in Gifts : DepositToken(t, amount) => FeeInv'
         /\ \A amount \in Gifts : Transfer(t, amount) => FeeInv'
<1> DEFINE k == tokenState[t]
<1>1. /\ StartOK /\ GoodToken(k) /\ balanceOf[t] \in Int /\ k.cachedBalance <= balanceOf[t]
      /\ balanceOf \in [FeeTokens -> Int]
  BY InvParts DEF FeeInv, DataOK, Covered
<1>2. Gifts \subseteq Nat
  BY FeeAssumption
<1> HIDE DEF k
<1>3. ASSUME CheckpointToken(t) PROVE FeeInv'
  <2> DEFINE r == checkpointToken(k, balanceOf[t], TRUE)
  <2>1. CanCheckpointToken(k)
    BY <1>3 DEF CheckpointToken, k
  <2>2. GoodToken(r) /\ TokenMoves(k, r) /\ r.cachedBalance <= balanceOf[t]
    BY <1>1, <2>1, TokenCheckpoint
  <2>3. tokenState' = [tokenState EXCEPT ![t] = r]
    BY <1>3, Zenon DEF CheckpointToken, k
  <2> HIDE DEF r
  <2>4. balanceOf = [balanceOf EXCEPT ![t] = balanceOf[t]]
    BY <1>1
  <2>5. DataOK(supply, userState, [tokenState EXCEPT ![t] = r], userTokenTimeCursor,
               [balanceOf EXCEPT ![t] = balanceOf[t]], claimed)
    BY <1>1, <2>2, TokenBroughtUpToDate DEF k
  <2>6. /\ UNCHANGED <<clock, points, startTime>>
        /\ supply' = supply /\ userState' = userState /\ balanceOf' = balanceOf
        /\ userTokenTimeCursor' = userTokenTimeCursor /\ claimed' = claimed
    BY <1>3 DEF CheckpointToken
  <2>7. DataOK(supply', userState', tokenState', userTokenTimeCursor', balanceOf', claimed')
    BY <2>3, <2>4, <2>5, <2>6, Zenon
  <2> QED BY <2>6, <2>7, ContractSteps
<1>4. ASSUME NEW amount \in Gifts, DepositToken(t, amount) PROVE FeeInv'
  <2> DEFINE b == balanceOf[t] + amount
             s == checkpointToken(k, balanceOf[t], FALSE)
             r == checkpointToken(s, b, TRUE)
  <2>1. CanCheckpointToken(k) /\ b \in Int /\ balanceOf[t] <= b
    BY <1>1, <1>2, <1>4 DEF DepositToken, k
  <2>2. GoodToken(s) /\ TokenMoves(k, s) /\ s.cachedBalance <= balanceOf[t]
    BY <1>1, <2>1, TokenCheckpoint
  <2> HIDE DEF s, b
  <2>3. CanCheckpointToken(s) /\ s.cachedBalance <= b
    <3>1. s.cachedBalance \in Int /\ s.timeCursor # 0
      BY <2>2 DEF GoodToken, TokenMoves
    <3> QED BY <1>1, <2>1, <2>2, <3>1 DEF CanCheckpointToken
  <2>4. GoodToken(r) /\ TokenMoves(s, r) /\ r.cachedBalance <= b
    BY <1>1, <2>1, <2>2, <2>3, TokenCheckpoint
  <2>5. balanceOf' = [balanceOf EXCEPT ![t] = b] /\ balanceOf'[t] = b
    BY <1>1, <1>4 DEF DepositToken, b
  <2>6. tokenState' = [tokenState EXCEPT ![t] = r]
    BY <1>4, <2>5, Zenon DEF DepositToken, k, s
  <2> HIDE DEF r
  <2>7. TokenMoves(k, r)
    BY <1>1, <2>2, <2>4, TokenMovesOn
  <2>8. DataOK(supply, userState, [tokenState EXCEPT ![t] = r], userTokenTimeCursor,
               [balanceOf EXCEPT ![t] = b], claimed)
    BY <2>1, <2>4, <2>7, TokenBroughtUpToDate DEF k
  <2>9. /\ UNCHANGED <<clock, points, startTime>>
        /\ supply' = supply /\ userState' = userState
        /\ userTokenTimeCursor' = userTokenTimeCursor /\ claimed' = claimed
    BY <1>4 DEF DepositToken
  <2>10. DataOK(supply', userState', tokenState', userTokenTimeCursor', balanceOf', claimed')
    BY <2>5, <2>6, <2>8, <2>9, Zenon
  <2> QED BY <2>9, <2>10, ContractSteps
<1>5. ASSUME NEW amount \in Gifts, Transfer(t, amount) PROVE FeeInv'
  <2>1. balanceOf' = [balanceOf EXCEPT ![t] = @ + amount] /\ amount \in Nat
    BY <1>2, <1>5 DEF Transfer
  <2>2. balanceOf' \in [FeeTokens -> Int] /\ \A x \in FeeTokens : balanceOf[x] <= balanceOf'[x]
    BY <1>1, <2>1
  <2>3. \A x \in FeeTokens :
          Covered(tokenState[x], balanceOf'[x], SumFunction([u \in Users |-> claimed[u][x]]))
    <3> TAKE x \in FeeTokens
    <3>1. Covered(tokenState[x], balanceOf[x], SumFunction([u \in Users |-> claimed[u][x]]))
      BY DEF FeeInv, DataOK
    <3>2. tokenState[x].cachedBalance \in Int /\ balanceOf[x] \in Int /\ balanceOf'[x] \in Int
      BY <1>1, <2>2, InvParts DEF GoodToken
    <3> QED BY <2>2, <3>1, <3>2 DEF Covered
  <2>4. /\ UNCHANGED <<clock, points, startTime>>
        /\ supply' = supply /\ userState' = userState /\ tokenState' = tokenState
        /\ userTokenTimeCursor' = userTokenTimeCursor /\ claimed' = claimed
    BY <1>5 DEF Transfer
  <2>5. DataOK(supply', userState', tokenState', userTokenTimeCursor', balanceOf', claimed')
    BY <2>2, <2>3, <2>4 DEF FeeInv, DataOK
  <2> QED BY <2>4, <2>5, ContractSteps
<1> QED BY <1>3, <1>4, <1>5
-----------------------------------------------------------------------------
\* What a claim goes through: weeks that are over for supply, user and token alike, from
\* the first that anything can be due for.
claimFrom(c, s, r) == IF c > 0 THEN c ELSE greater(s.startTime, r.startTime)
weeksFrom(from, to) == {w \in Weeks : from <= w /\ w < to}
weekShares(weeks, votes, s, r) == [w \in weeks |-> share(r, w, s.votes[w], votes.cache[w])]
claimTo(from, votes, s, r) ==
  greater(from, lesser(firstUnclaimableWeek(votes, s, r), from + MaxWeeks * Week))

LEMMA LastWeekClaimed ==
  ASSUME StartOK, NEW u \in Users, NEW votes, NEW s, NEW r,
         GoodSupply(votes), GoodUser(u, s), GoodToken(r), NEW from \in Nat, Multiple(from)
  PROVE  LET to == claimTo(from, votes, s, r)
         IN  /\ to \in Nat /\ Multiple(to) /\ from <= to
             /\ \A w \in Weeks : from <= w /\ w < to =>
                  w < votes.timeCursor /\ w < s.timeCursor /\ w + Week <= r.timeCursor
<1> DEFINE m == lesser(votes.timeCursor, s.timeCursor)
           last == firstUnclaimableWeek(votes, s, r)
           end == from + MaxWeeks * Week
           to == claimTo(from, votes, s, r)
           down == roundDownTimestamp(r.timeCursor)
<1>1. /\ votes.timeCursor \in Nat /\ s.timeCursor \in Nat /\ r.timeCursor \in Nat
      /\ Multiple(votes.timeCursor) /\ Multiple(s.timeCursor)
  BY DEF GoodSupply, GoodUser, GoodToken
<1>2. Week \in Nat /\ MaxWeeks \in Nat
  BY WeekAssumption, FeeAssumption
<1>3. /\ m \in {votes.timeCursor, s.timeCursor}
      /\ m <= votes.timeCursor /\ m <= s.timeCursor
  BY <1>1, LesserGreater
<1>4. m \in Nat /\ Multiple(m)
  BY <1>1, <1>3
<1>5. down \in Nat /\ Multiple(down) /\ down <= r.timeCursor
  BY <1>1, RoundDown
<1>6. last = lesser(m, down)
  <2> HIDE DEF m
  <2>1. roundUpTimestamp(m) = m
    BY <1>4, RoundMultiple
  <2> QED BY <2>1 DEF firstUnclaimableWeek, m
<1> HIDE DEF m, down, last
<1>7. last \in Nat /\ Multiple(last) /\ last <= m /\ last <= down
  BY <1>4, <1>5, <1>6, LesserGreater
<1>8. Multiple(end) /\ end \in Int
  BY <1>2, MultiplesAdd
<1>9. to = greater(from, lesser(last, end))
  BY DEF claimTo, last
<1> HIDE DEF end, to
<1>10. /\ to \in {from, lesser(last, end)} /\ to >= from /\ lesser(last, end) \in {last, end}
       /\ lesser(last, end) <= last
  BY <1>7, <1>8, <1>9, LesserGreater
<1>11. to \in Nat /\ Multiple(to) /\ from <= to
  BY <1>7, <1>8, <1>10
<1>12. ASSUME NEW w \in Weeks, from <= w, w < to
       PROVE  w < votes.timeCursor /\ w < s.timeCursor /\ w + Week <= r.timeCursor
  <2>1. w \in Nat /\ Multiple(w)
    BY WeeksAre
  <2>2. w < last
    BY <1>7, <1>8, <1>10, <1>11, <1>12, <2>1
  <2>3. w < down
    BY <1>5, <1>7, <2>1, <2>2
  <2>4. w + Week <= down
    BY <1>5, <2>1, <2>3, MultiplesNext
  <2> QED BY <1>1, <1>2, <1>3, <1>4, <1>5, <1>7, <2>1, <2>2, <2>4
<1> QED BY <1>11, <1>12 DEF to

LEMMA WeeksClaimed ==
  ASSUME StartOK, HistoriesOK, NEW u \in Users, NEW votes, NEW s, NEW r,
         GoodSupply(votes), GoodUser(u, s), GoodToken(r), r.timeCursor # 0,
         NEW c, CursorOK(u, c, r)
  PROVE  LET from == claimFrom(c, s, r)
             to == claimTo(from, votes, s, r)
         IN  /\ from \in Nat /\ to \in Nat /\ c <= from /\ from <= to
             /\ CursorOK(u, to, r)
             /\ \A w \in Weeks : c <= w /\ w < from => due(u, r, w) = 0
             /\ \A w \in Weeks : from <= w /\ w < to /\ votes.cache[w] # 0 =>
                  due(u, r, w) = share(r, w, s.votes[w], votes.cache[w])
<1> DEFINE from == claimFrom(c, s, r)
           to == claimTo(from, votes, s, r)
<1>1. /\ startTime \in Nat /\ clock \in Nat /\ Week \in Nat
      /\ \A w \in Weeks : w \in Nat /\ Multiple(w)
  BY WeekAssumption, WeeksAre DEF StartOK
<1>2. /\ s.startTime \in Nat /\ Multiple(s.startTime)
      /\ r.startTime \in Nat /\ Multiple(r.startTime) /\ startTime <= r.startTime
      /\ r.startTime <= r.timeCursor /\ r.timeCursor <= clock /\ r.timeCursor \in Nat
      /\ \A w \in Weeks : w < r.startTime => r.perWeek[w] = 0
      /\ \A w \in Weeks : startTime <= w /\ w < s.startTime => w < clock /\ escrowBalanceOf(u, w) = 0
  BY DEF GoodUser, GoodToken
<1>3. /\ c \in Nat /\ Multiple(c) /\ (c # 0 => startTime <= c)
      /\ \A w \in Weeks : startTime <= w /\ w < c =>
           w < clock /\ (w + Week <= r.timeCursor \/ escrowBalanceOf(u, w) = 0)
  BY DEF CursorOK
<1>4. /\ greater(s.startTime, r.startTime) \in {s.startTime, r.startTime}
      /\ greater(s.startTime, r.startTime) >= r.startTime
  BY <1>2, LesserGreater
<1>5. from = IF c > 0 THEN c ELSE greater(s.startTime, r.startTime)
  BY DEF claimFrom
<1> HIDE DEF from
<1>6. from \in Nat /\ Multiple(from) /\ c <= from /\ startTime <= from
  BY <1>1, <1>2, <1>3, <1>4, <1>5
<1>7. /\ to \in Nat /\ Multiple(to) /\ from <= to
      /\ \A w \in Weeks : from <= w /\ w < to =>
           w < votes.timeCursor /\ w < s.timeCursor /\ w + Week <= r.timeCursor
  BY <1>6, LastWeekClaimed
<1> HIDE DEF to
\* Before the first week, of a user without votes or of a token not there yet.
<1>8. ASSUME NEW w \in Weeks, c <= w, w < from
      PROVE  /\ due(u, r, w) = 0
             /\ startTime <= w =>
                  w < clock /\ (w + Week <= r.timeCursor \/ escrowBalanceOf(u, w) = 0)
  <2>1. w < s.startTime \/ w < r.startTime
    BY <1>1, <1>2, <1>3, <1>4, <1>5, <1>8
  <2> DEFINE p == r.perWeek[w]
             v == escrowBalanceOf(u, w)
             all == totalSupply(w)
  <2>2. p \in Nat /\ v \in Nat /\ all \in Nat
    BY VotesNumbers DEF GoodToken, VotesAreNumbers
  <2>3. w < startTime => p = 0
    BY NothingBeforeStart
  <2>4. p = 0 \/ v = 0
    BY <1>1, <1>2, <2>1, <2>3
  <2> HIDE DEF p, v, all
  <2>5. (p * v) \div greater(all, 1) = 0
    BY <2>2, <2>4, ShareTyped
  <2>6. due(u, r, w) = 0
    BY <2>5 DEF due, share, p, v, all
  <2>7. CASE w < r.startTime
    <3>1. w + Week <= r.startTime
      BY <1>1, <1>2, <2>7, MultiplesNext
    <3> QED BY <1>1, <1>2, <2>6, <2>7, <3>1
  <2>8. CASE w < s.startTime
    BY <1>2, <2>6, <2>8
  <2> QED BY <2>1, <2>7, <2>8
<1>9. ASSUME NEW w \in Weeks, from <= w, w < to
      PROVE  /\ votes.cache[w] = totalSupply(w) /\ s.votes[w] = escrowBalanceOf(u, w)
             /\ w < clock /\ w + Week <= r.timeCursor
  <2>1. startTime <= w /\ w < votes.timeCursor /\ w < s.timeCursor /\ w + Week <= r.timeCursor
    BY <1>1, <1>6, <1>7, <1>9
  <2> QED BY <2>1 DEF GoodSupply, GoodUser
<1>10. ASSUME NEW w \in Weeks, from <= w, w < to, votes.cache[w] # 0
       PROVE  due(u, r, w) = share(r, w, s.votes[w], votes.cache[w])
  <2>1. votes.cache[w] = totalSupply(w) /\ s.votes[w] = escrowBalanceOf(u, w)
    BY <1>9, <1>10
  <2>2. totalSupply(w) \in Nat
    BY VotesNumbers DEF VotesAreNumbers
  <2>3. greater(totalSupply(w), 1) = totalSupply(w)
    BY <1>10, <2>1, <2>2 DEF greater
  <2> QED BY <2>1, <2>3 DEF due
<1>11. CursorOK(u, to, r)
  <2>1. \A w \in Weeks : startTime <= w /\ w < to =>
          w < clock /\ (w + Week <= r.timeCursor \/ escrowBalanceOf(u, w) = 0)
    <3> TAKE w \in Weeks
    <3> HAVE startTime <= w /\ w < to
    <3>1. CASE w < c
      BY <1>3, <3>1
    <3>2. CASE c <= w /\ w < from
      BY <1>8, <3>2
    <3>3. CASE from <= w
      BY <1>9, <3>3
    <3> QED BY <1>1, <1>3, <1>6, <3>1, <3>2, <3>3
  <2>2. startTime <= to
    BY <1>1, <1>6, <1>7
  <2> QED BY <1>7, <2>1, <2>2 DEF CursorOK
<1> QED BY <1>6, <1>7, <1>8, <1>10, <1>11 DEF from, to

\* The sum of what is due grows by what is claimed.
LEMMA DuesGrow ==
  ASSUME StartOK, HistoriesOK, NEW u \in Users, NEW votes, NEW s, NEW r,
         GoodSupply(votes), GoodUser(u, s), GoodToken(r), r.timeCursor # 0,
         NEW c, CursorOK(u, c, r),
         NEW from, from = claimFrom(c, s, r), NEW to, to = claimTo(from, votes, s, r),
         NEW weeks, weeks = weeksFrom(from, to),
         \A w \in weeks : votes.cache[w] # 0,
         NEW amount, amount = SumFunction(weekShares(weeks, votes, s, r))
  PROVE  amount \in Int /\ SumFunction(dues(u, to, r)) = SumFunction(dues(u, c, r)) + amount
<1> DEFINE d == dues(u, to, r)
           f == dues(u, c, r)
           h == weekShares(weeks, votes, s, r)
           g == [w \in Weeks |-> IF w \in weeks THEN due(u, r, w) ELSE 0]
<1>1. /\ from \in Nat /\ to \in Nat /\ c <= from /\ from <= to
      /\ \A w \in Weeks : c <= w /\ w < from => due(u, r, w) = 0
      /\ \A w \in Weeks : from <= w /\ w < to /\ votes.cache[w] # 0 =>
           due(u, r, w) = share(r, w, s.votes[w], votes.cache[w])
  BY WeeksClaimed
<1>2. c \in Nat /\ r.perWeek \in [Weeks -> Nat] /\ VotesAreNumbers
  BY VotesNumbers DEF CursorOK, GoodToken
<1>3. /\ d \in [Weeks -> Nat] /\ f \in [Weeks -> Nat] /\ \A w \in Weeks : due(u, r, w) \in Nat
  BY <1>1, <1>2, DuesTyped
<1>4. weeks \in SUBSET Weeks /\ IsFiniteSet(Weeks) /\ \A w \in Weeks : w \in Nat
  BY WeeksAre DEF weeksFrom
<1>5. g \in [Weeks -> Nat]
  BY <1>3
<1>6. \A w \in weeks : due(u, r, w) = share(r, w, s.votes[w], votes.cache[w])
  BY <1>1 DEF weeksFrom
<1>7. h \in [weeks -> Nat] /\ \A w \in weeks : h[w] = g[w]
  BY <1>3, <1>4, <1>6 DEF weekShares
<1>8. \A w \in Weeks : d[w] = f[w] + g[w]
  <2> TAKE w \in Weeks
  <2> DEFINE x == due(u, r, w)
  <2>1. x \in Nat /\ w \in Nat
    BY <1>3, <1>4
  <2>2. /\ d[w] = IF w < to THEN x ELSE 0
        /\ f[w] = IF w < c THEN x ELSE 0
        /\ g[w] = IF from <= w /\ w < to THEN x ELSE 0
    BY DEF dues, weeksFrom
  <2>3. c <= w /\ w < from => x = 0
    BY <1>1
  <2> HIDE DEF x, d, f, g
  <2> QED BY <1>1, <1>2, <2>1, <2>2, <2>3
<1>9. \A w \in Weeks \ weeks : g[w] = 0
  OBVIOUS
<1> HIDE DEF d, f, g, h
<1>10. /\ d \in [Weeks -> Int] /\ f \in [Weeks -> Int] /\ g \in [Weeks -> Int]
       /\ h \in [weeks -> Int]
  BY <1>3, <1>5, <1>7
<1>11. SumFunction(h) = SumFunction(g) /\ SumFunction(g) \in Int
  BY <1>4, <1>7, <1>9, <1>10, SumOfPart, SumTyped
<1>12. SumFunction(d) = SumFunction(f) + SumFunction(g)
  BY <1>4, <1>8, <1>10, SumAdds
<1> QED BY <1>11, <1>12 DEF d, f, h

\* The balance known of a token has no part in what is due.
LEMMA CachedOnly ==
  ASSUME NEW r, GoodToken(r), NEW x \in Int, NEW q, q = [r EXCEPT !.cachedBalance = x]
  PROVE  /\ GoodToken(q) /\ q \in TokenRecord
         /\ q.cachedBalance = x /\ q.perWeek = r.perWeek
         /\ \A v \in Users : \A c \in Nat : dues(v, c, q) = dues(v, c, r)
         /\ \A v \in Users : \A c \in Nat : CursorOK(v, c, r) => CursorOK(v, c, q)
<1>1. r \in TokenRecord
  BY DEF GoodToken, TokenRecord
<1>2. /\ q \in TokenRecord /\ q.cachedBalance = x /\ q.perWeek = r.perWeek
      /\ q.startTime = r.startTime /\ q.timeCursor = r.timeCursor
  BY <1>1 DEF TokenRecord
<1>3. GoodToken(q)
  BY <1>2 DEF GoodToken, TokenRecord
<1>4. \A v \in Users : \A c \in Nat : dues(v, c, q) = dues(v, c, r)
  BY <1>2 DEF dues, due, share
<1>5. \A v \in Users : \A c \in Nat : CursorOK(v, c, r) => CursorOK(v, c, q)
  BY <1>2 DEF CursorOK
<1> QED BY <1>2, <1>3, <1>4, <1>5

ClaimedOK(votes, users, tokens, cursors, balances, amounts, u, t, r, to, amount) ==
  DataOK(votes, users, [tokens EXCEPT ![t] = [r EXCEPT !.cachedBalance = @ - amount]],
         [cursors EXCEPT ![u][t] = to], [balances EXCEPT ![t] = @ - amount],
         [amounts EXCEPT ![u][t] = @ + amount])

LEMMA ClaimData ==
  ASSUME StartOK, HistoriesOK,
         NEW votes, NEW users, NEW tokens, NEW cursors, NEW balances, NEW amounts,
         DataOK(votes, users, tokens, cursors, balances, amounts),
         NEW u \in Users, NEW t \in FeeTokens, NEW s, s = users[u], NEW r, r = tokens[t],
         r.timeCursor # 0, NEW c, c = cursors[u][t],
         NEW from, from = claimFrom(c, s, r), NEW to, to = claimTo(from, votes, s, r),
         NEW weeks, weeks = weeksFrom(from, to),
         \A w \in weeks : votes.cache[w] # 0,
         NEW amount, amount = SumFunction(weekShares(weeks, votes, s, r))
  PROVE  ClaimedOK(votes, users, tokens, cursors, balances, amounts, u, t, r, to, amount)
<1> DEFINE left == r.cachedBalance - amount
           q == [r EXCEPT !.cachedBalance = left]
           tokens2 == [tokens EXCEPT ![t] = q]
           cursors2 == [cursors EXCEPT ![u][t] = to]
           balances2 == [balances EXCEPT ![t] = @ - amount]
           amounts2 == [amounts EXCEPT ![u][t] = @ + amount]
<1>1. /\ GoodSupply(votes)
      /\ users \in [Users -> UserRecord] /\ (\A v \in Users : GoodUser(v, users[v]))
      /\ tokens \in [FeeTokens -> TokenRecord] /\ (\A x \in FeeTokens : GoodToken(tokens[x]))
      /\ cursors \in [Users -> [FeeTokens -> Nat]]
      /\ balances \in [FeeTokens -> Int]
      /\ amounts \in [Users -> [FeeTokens -> Int]]
  BY DEF DataOK
<1>2. \A v \in Users, x \in FeeTokens :
        /\ CursorOK(v, cursors[v][x], tokens[x])
        /\ amounts[v][x] = SumFunction(dues(v, cursors[v][x], tokens[x]))
  BY DEF DataOK
<1>3. \A x \in FeeTokens :
        Covered(tokens[x], balances[x], SumFunction([v \in Users |-> amounts[v][x]]))
  BY DEF DataOK
<1>4. GoodUser(u, s) /\ GoodToken(r) /\ CursorOK(u, c, r) /\ r.cachedBalance \in Int
  BY <1>1, <1>2 DEF GoodToken
<1>5. to \in Nat /\ CursorOK(u, to, r)
  BY <1>1, <1>4, WeeksClaimed
<1>6. amount \in Int /\ SumFunction(dues(u, to, r)) = SumFunction(dues(u, c, r)) + amount
  <2>1. GoodSupply(votes) /\ GoodUser(u, s) /\ GoodToken(r) /\ CursorOK(u, c, r)
    BY <1>1, <1>4
  <2> HIDE DEF left, q, tokens2, cursors2, balances2, amounts2
  <2> QED BY <2>1, DuesGrow
<1>7. left \in Int
  BY <1>4, <1>6
<1> HIDE DEF left
<1>8. /\ GoodToken(q) /\ q \in TokenRecord /\ q.cachedBalance = left /\ q.perWeek = r.perWeek
      /\ \A v \in Users : \A x \in Nat : dues(v, x, q) = dues(v, x, r)
      /\ \A v \in Users : \A x \in Nat : CursorOK(v, x, r) => CursorOK(v, x, q)
  BY <1>4, <1>7, CachedOnly
<1> HIDE DEF q
<1>9. /\ tokens2 \in [FeeTokens -> TokenRecord] /\ tokens2[t] = q
      /\ \A x \in FeeTokens : x # t => tokens2[x] = tokens[x]
  BY <1>1, <1>8
<1>10. /\ cursors2 \in [Users -> [FeeTokens -> Nat]] /\ cursors2[u][t] = to
       /\ \A v \in Users, x \in FeeTokens : v # u \/ x # t => cursors2[v][x] = cursors[v][x]
  BY <1>1, <1>5
<1>11. /\ balances2 \in [FeeTokens -> Int] /\ balances2[t] = balances[t] - amount
       /\ \A x \in FeeTokens : x # t => balances2[x] = balances[x]
  BY <1>1, <1>6
<1>12. /\ amounts2 \in [Users -> [FeeTokens -> Int]] /\ amounts2[u][t] = amounts[u][t] + amount
       /\ \A v \in Users, x \in FeeTokens : v # u \/ x # t => amounts2[v][x] = amounts[v][x]
  BY <1>1, <1>6
<1> HIDE DEF tokens2, cursors2, balances2, amounts2
<1>13. ASSUME NEW v \in Users, NEW x \in FeeTokens
       PROVE  /\ CursorOK(v, cursors2[v][x], tokens2[x])
              /\ amounts2[v][x] = SumFunction(dues(v, cursors2[v][x], tokens2[x]))
  <2>1. CASE x # t
    BY <1>2, <1>9, <1>10, <1>12, <2>1
  <2>2. CASE x = t /\ v # u
    <3>1. CursorOK(v, cursors[v][t], r) /\ amounts[v][t] = SumFunction(dues(v, cursors[v][t], r))
          /\ cursors[v][t] \in Nat
      BY <1>1, <1>2
    <3>2. CursorOK(v, cursors[v][t], q) /\ dues(v, cursors[v][t], q) = dues(v, cursors[v][t], r)
      BY <1>8, <3>1
    <3> QED BY <1>9, <1>10, <1>12, <2>2, <3>1, <3>2
  <2>3. CASE x = t /\ v = u
    <3>1. CursorOK(u, to, q) /\ dues(u, to, q) = dues(u, to, r)
      BY <1>5, <1>8
    <3>2. amounts[u][t] = SumFunction(dues(u, c, r))
      BY <1>2
    <3> QED BY <1>6, <1>9, <1>10, <1>12, <2>3, <3>1, <3>2
  <2> QED BY <2>1, <2>2, <2>3
<1>14. ASSUME NEW x \in FeeTokens
       PROVE  Covered(tokens2[x], balances2[x], SumFunction([v \in Users |-> amounts2[v][x]]))
  <2> DEFINE f == [v \in Users |-> amounts[v][x]]
             g == [v \in Users |-> amounts2[v][x]]
  <2>1. f \in [Users -> Int] /\ g \in [Users -> Int]
    BY <1>1, <1>12
  <2>2. CASE x # t
    <3>1. f = g
      BY <1>12, <2>2
    <3>2. Covered(tokens[x], balances[x], SumFunction(f))
      BY <1>3
    <3> HIDE DEF f, g
    <3> QED BY <1>9, <1>11, <2>2, <3>1, <3>2 DEF g
  <2>3. CASE x = t
    <3>1. g[u] = f[u] + amount /\ f[u] \in Int /\ \A v \in Users \ {u} : g[v] = f[v]
      BY <1>1, <1>12, <2>3
    <3>2. Covered(r, balances[t], SumFunction(f))
      BY <1>3, <2>3
    <3> HIDE DEF f, g
    <3>3. SumFunction(g) = SumFunction(f) - f[u] + g[u]
      <4>1. IsFiniteSet(Users)
        BY FeeAssumption
      <4> QED BY <2>1, <3>1, <4>1, SumExcept
    <3> DEFINE a == SumFunction(f)
               b == SumFunction(g)
               p == SumFunction(r.perWeek)
    <3>4. a \in Int /\ b \in Int /\ p \in Int
      <4>1. r.perWeek \in [Weeks -> Int]
        BY <1>4 DEF GoodToken
      <4> QED BY <2>1, <4>1, SumTyped, FeeAssumption, WeeksAre
    <3>5. p <= r.cachedBalance + a /\ r.cachedBalance <= balances[t]
      BY <3>2 DEF Covered
    <3> HIDE DEF a, b, p
    <3>6. b = a - f[u] + g[u]
      BY <3>3 DEF a, b
    <3>7. b = a + amount
      BY <1>6, <3>1, <3>4, <3>6
    <3>8. balances[t] \in Int
      BY <1>1
    <3>9. p <= left + b /\ left <= balances[t] - amount
      BY <1>4, <1>6, <3>4, <3>5, <3>7, <3>8 DEF left
    <3>10. SumFunction(q.perWeek) = p
      BY <1>8 DEF p
    <3> QED BY <1>8, <1>9, <1>11, <2>3, <3>9, <3>10 DEF Covered, b, g
  <2> QED BY <2>2, <2>3
<1>15. \A x \in FeeTokens : GoodToken(tokens2[x])
  BY <1>1, <1>8, <1>9
<1>16. DataOK(votes, users, tokens2, cursors2, balances2, amounts2)
  BY <1>1, <1>9, <1>10, <1>11, <1>12, <1>13, <1>14, <1>15 DEF DataOK
<1> QED BY <1>16 DEF ClaimedOK, tokens2, cursors2, balances2, amounts2, q, left

LEMMA ClaimSteps ==
  ASSUME FeeInv, NEW u \in Users, NEW t \in FeeTokens, ClaimToken(u, t)
  PROVE  FeeInv'
<1> DEFINE k == tokenState[t]
           b == balanceOf[t]
           votes == checkpointTotalSupply
           s == checkpointUserBalance(u)
           r == checkpointToken(k, b, FALSE)
           users == [userState EXCEPT ![u] = s]
           tokens == [tokenState EXCEPT ![t] = r]
           c == userTokenTimeCursor[u][t]
           from == claimFrom(c, s, r)
           to == claimTo(from, votes, s, r)
           weeks == weeksFrom(from, to)
           amount == SumFunction(weekShares(weeks, votes, s, r))
           q == [r EXCEPT !.cachedBalance = @ - amount]
<1>1. /\ StartOK /\ HistoriesOK /\ GoodSupply(supply) /\ GoodUser(u, userState[u])
      /\ GoodToken(k) /\ b \in Int /\ k.cachedBalance <= b
      /\ userState \in [Users -> UserRecord] /\ tokenState \in [FeeTokens -> TokenRecord]
      /\ balanceOf \in [FeeTokens -> Int] /\ \A v \in Users : GoodUser(v, userState[v])
  BY InvParts DEF FeeInv, DataOK, Covered
<1>2. CanCheckpointToken(k)
  BY DEF ClaimToken
<1>3. supply' = votes /\ userState' = users /\ UNCHANGED <<clock, points, startTime>>
  BY Zenon DEF ClaimToken
<1>4. users[u] = s /\ userState'[u] = s
  BY <1>1, <1>3
<1>5. claimWeeks(u, t, votes, s, r)
  <2>1. claimWeeks(u, t, supply', userState'[u], r)
    BY Zenon DEF ClaimToken
  <2> HIDE DEF votes, s, r
  <2> QED BY <1>3, <1>4, <2>1
<1>6. GoodSupply(votes)
  BY <1>1, SupplyCheckpoint
<1>7. GoodUser(u, s) /\ s \in UserRecord
  BY <1>1, UserCheckpoint DEF GoodUser, UserRecord
<1>8. GoodToken(r) /\ TokenMoves(k, r) /\ r.cachedBalance <= b
  BY <1>1, <1>2, TokenCheckpoint
<1> HIDE DEF votes, s, r
<1>9. users \in [Users -> UserRecord] /\ \A v \in Users : GoodUser(v, users[v])
  BY <1>1, <1>7
<1>10. DataOK(votes, users, tokens, userTokenTimeCursor, balanceOf, claimed)
  <2>1. DataOK(supply, userState, tokens, userTokenTimeCursor, [balanceOf EXCEPT ![t] = b], claimed)
    BY <1>1, <1>8, TokenBroughtUpToDate
  <2>2. balanceOf = [balanceOf EXCEPT ![t] = b]
    BY <1>1
  <2> HIDE DEF tokens, users
  <2> QED BY <1>6, <1>9, <2>1, <2>2 DEF DataOK
<1>11. tokens[t] = r
  BY <1>1
<1>12. /\ \A w \in weeks : votes.cache[w] # 0
       /\ userTokenTimeCursor' = [userTokenTimeCursor EXCEPT ![u][t] = to]
       /\ tokenState' = [tokenState EXCEPT ![t] = q]
       /\ balanceOf' = [balanceOf EXCEPT ![t] = @ - amount]
       /\ claimed' = [claimed EXCEPT ![u][t] = @ + amount]
  BY <1>5, Zenon DEF claimWeeks, getUserTokenTimeCursor, claimFrom, claimTo, weeksFrom, weekShares
<1> HIDE DEF amount, from, to, weeks
<1>13. tokenState' = [tokens EXCEPT ![t] = q]
  <2> HIDE DEF q
  <2> QED BY <1>1, <1>12
<1> HIDE DEF tokens, users
<1>14. r.timeCursor # 0
  BY <1>8 DEF TokenMoves
<1>15. DataOK(votes, users, [tokens EXCEPT ![t] = q], [userTokenTimeCursor EXCEPT ![u][t] = to],
              [balanceOf EXCEPT ![t] = @ - amount], [claimed EXCEPT ![u][t] = @ + amount])
  <2>1. \A w \in weeks : votes.cache[w] # 0
    BY <1>12
  <2>2. amount = SumFunction(weekShares(weeks, votes, s, r)) /\ weeks = weeksFrom(from, to)
        /\ to = claimTo(from, votes, s, r) /\ from = claimFrom(c, s, r)
    BY DEF amount, weeks, to, from
  <2>3. s = users[u] /\ r = tokens[t]
    BY <1>4, <1>11
  <2>4. ClaimedOK(votes, users, tokens, userTokenTimeCursor, balanceOf, claimed, u, t, r, to, amount)
    <3> HIDE DEF q
    <3> QED BY <1>1, <1>10, <1>14, <2>1, <2>2, <2>3, ClaimData
  <2> QED BY <2>4, Zenon DEF ClaimedOK
<1>16. DataOK(supply', userState', tokenState', userTokenTimeCursor', balanceOf', claimed')
  <2> HIDE DEF q
  <2> QED BY <1>3, <1>12, <1>13, <1>15, Zenon
<1> QED BY <1>3, <1>16, ContractSteps

LEMMA FeeStep == FeeInv /\ [FeeNext]_feeVars => FeeInv'
<1> SUFFICES ASSUME FeeInv, [FeeNext]_feeVars PROVE FeeInv'
  OBVIOUS
<1>1. CASE FeeNext
  <2>1. ASSUME NEW u \in Users, NEW slope \in Slopes, NEW end \in LockEnds, Lock(u, slope, end)
        PROVE  FeeInv'
    BY <2>1, EscrowSteps
  <2>2. ASSUME NEW u \in Users, Withdraw(u) PROVE FeeInv'
    BY <2>2, EscrowSteps
  <2>3. ASSUME NEW u \in Users, CheckpointUser(u) PROVE FeeInv'
    BY <2>3, CheckpointSteps
  <2>4. ASSUME NEW u \in Users, NEW t \in FeeTokens, ClaimToken(u, t) PROVE FeeInv'
    BY <2>4, ClaimSteps
  <2>5. ASSUME NEW t \in FeeTokens, CheckpointToken(t) PROVE FeeInv'
    BY <2>5, TokenActions
  <2>6. ASSUME NEW t \in FeeTokens, NEW amount \in Gifts, DepositToken(t, amount) PROVE FeeInv'
    BY <2>6, TokenActions
  <2>7. ASSUME NEW t \in FeeTokens, NEW amount \in Gifts, Transfer(t, amount) PROVE FeeInv'
    BY <2>7, TokenActions
  <2>8. ASSUME Checkpoint PROVE FeeInv'
    BY <2>8, CheckpointSteps
  <2>9. ASSUME Tick PROVE FeeInv'
    <3>1. EscrowMoves
      BY <2>9, TimeMoves DEF Tick, FeeInv
    <3> QED BY <2>9, <3>1, OutsideSteps DEF Tick
  <2> QED BY <1>1, <2>1, <2>2, <2>3, <2>4, <2>5, <2>6, <2>7, <2>8, <2>9, Zenon DEF FeeNext
<1>2. CASE UNCHANGED feeVars
  <2>1. UNCHANGED <<clock, points, startTime>>
        /\ UNCHANGED <<supply, userState, tokenState, userTokenTimeCursor, balanceOf, claimed>>
    BY <1>2 DEF feeVars
  <2>2. EscrowMoves
    BY <2>1, EscrowRests DEF FeeInv
  <2> QED BY <2>1, <2>2, OutsideSteps
<1> QED BY <1>1, <1>2

\* The invariant holds throughout.
THEOREM FeesAreAccounted == FeeSpec => []FeeInv
BY FeeInitially, FeeStep, PTL DEF FeeSpec

\* What users have claimed is exactly their share of every week they have claimed, for any
\* users, tokens, histories of votes and order of checkpoints and claims.
LEMMA InvExact == FeeInv => ClaimsExact
<1> SUFFICES ASSUME FeeInv, NEW u \in Users, NEW t \in FeeTokens
             PROVE  claimed[u][t] =
                      SumFunction([w \in {v \in Weeks : v < userTokenTimeCursor[u][t]} |->
                        share(tokenState[t], w, escrowBalanceOf(u, w), greater(totalSupply(w), 1))])
  BY DEF ClaimsExact
<1> DEFINE c == userTokenTimeCursor[u][t]
           k == tokenState[t]
<1>1. c \in Nat /\ k.perWeek \in [Weeks -> Nat] /\ VotesAreNumbers
  BY InvParts DEF GoodToken
<1>2. claimed[u][t] = SumFunction(dues(u, c, k))
  BY DEF FeeInv, DataOK
<1> HIDE DEF c, k
<1>3. claimed[u][t] = SumFunction([w \in {v \in Weeks : v < c} |-> due(u, k, w)])
  BY <1>1, <1>2, DuesTyped
<1> QED BY <1>3 DEF c, k, due

THEOREM ClaimsAreExact == FeeSpec => []ClaimsExact
BY FeesAreAccounted, InvExact, PTL

\* The shares of a week come to no more than the week: each is rounded down.
LEMMA SharesFit ==
  ASSUME HistoriesOK, NEW w \in Weeks, NEW k, NEW P \in Nat, P = k.perWeek[w],
         NEW g \in [Users -> Int], \A u \in Users : g[u] <= due(u, k, w)
  PROVE  SumFunction(g) <= P
<1> DEFINE S == greater(totalSupply(w), 1)
           v == [u \in Users |-> escrowBalanceOf(u, w)]
           e == [u \in Users |-> (P * v[u]) \div S]
           a == [u \in Users |-> S * e[u]]
           b == [u \in Users |-> P * v[u]]
<1>1. IsFiniteSet(Users) /\ w \in Nat
  BY FeeAssumption, WeeksAre
<1>2. v \in [Users -> Nat] /\ totalSupply(w) \in Nat /\ totalSupply(w) = SumFunction(v)
  BY <1>1, SupplyTyped DEF totalSupply
<1>3. S \in Nat /\ S # 0 /\ totalSupply(w) <= S
  BY <1>2 DEF greater
<1>4. \A u \in Users : due(u, k, w) = (P * v[u]) \div S
  BY DEF due, share
<1> HIDE DEF S, v
<1>5. ASSUME NEW u \in Users PROVE e[u] \in Nat /\ S * e[u] <= P * v[u] /\ P * v[u] \in Nat
                                   /\ g[u] <= e[u]
  <2> DEFINE x == P * v[u]
  <2>1. x \in Nat
    BY <1>2
  <2>2. g[u] <= x \div S
    BY <1>4
  <2>3. e[u] = x \div S
    OBVIOUS
  <2> HIDE DEF x, e
  <2>4. x \div S \in Nat /\ S * (x \div S) <= x
    BY <1>3, <2>1, DivisionRoundsDown
  <2> QED BY <2>1, <2>2, <2>3, <2>4 DEF x
<1>6. e \in [Users -> Int] /\ b \in [Users -> Int] /\ v \in [Users -> Int]
  BY <1>2, <1>5
<1> HIDE DEF e
<1>7. a \in [Users -> Int] /\ \A u \in Users : a[u] <= b[u] /\ a[u] = S * e[u] /\ b[u] = P * v[u]
  <2>1. \A u \in Users : S * e[u] \in Int
    BY <1>3, <1>6
  <2> QED BY <1>5, <2>1
<1> HIDE DEF a, b
<1>8. SumFunction(a) <= SumFunction(b)
  BY <1>1, <1>6, <1>7, SumMonotone
<1>9. SumFunction(a) = S * SumFunction(e)
  BY <1>1, <1>3, <1>6, <1>7, SumScales
<1>10. SumFunction(b) = P * totalSupply(w)
  <2>1. SumFunction(b) = P * SumFunction(v)
    BY <1>1, <1>6, <1>7, SumScales
  <2> QED BY <1>2, <2>1
<1>11. SumFunction(g) <= SumFunction(e) /\ SumFunction(e) \in Int /\ SumFunction(g) \in Int
  <2>1. \A u \in Users : g[u] <= e[u]
    BY <1>5
  <2> QED BY <1>1, <1>6, <2>1, SumMonotone, SumTyped
<1> DEFINE E == SumFunction(e)
<1> HIDE DEF E
<1>12. E \in Int /\ S * E <= P * totalSupply(w)
  BY <1>8, <1>9, <1>10, <1>11 DEF E
<1>13. P * totalSupply(w) <= P * S /\ P * totalSupply(w) \in Int /\ P * S \in Int
  BY <1>2, <1>3, FactorKeepsOrder
<1>14. E <= P
  <2> SUFFICES ASSUME P < E PROVE FALSE
    BY <1>12
  <2>1. P + 1 <= E
    BY <1>12
  <2>2. S * (P + 1) <= S * E /\ S * E \in Int
    BY <1>3, <1>12, <2>1, FactorKeepsOrder
  <2>3. S * (P + 1) = P * S + S
    BY <1>3
  <2> DEFINE x == P * S
             y == P * totalSupply(w)
             z == S * E
  <2>4. x \in Int /\ y \in Int /\ z \in Int /\ x + S <= z /\ z <= y /\ y <= x
    BY <1>12, <1>13, <2>2, <2>3
  <2> HIDE DEF x, y, z
  <2> QED BY <1>3, <2>4
<1> QED BY <1>11, <1>12, <1>14 DEF E

LEMMA ClaimsFit ==
  ASSUME FeeInv, NEW t \in FeeTokens
  PROVE  /\ SumFunction([u \in Users |-> claimed[u][t]]) <= SumFunction(tokenState[t].perWeek)
         /\ SumFunction([u \in Users |-> claimed[u][t]]) \in Int
         /\ SumFunction(tokenState[t].perWeek) \in Int
<1> DEFINE k == tokenState[t]
           f == [u \in Users |-> dues(u, userTokenTimeCursor[u][t], k)]
           column(w) == [u \in Users |-> f[u][w]]
           columns == [w \in Weeks |-> SumFunction(column(w))]
           rows == [u \in Users |-> SumFunction(f[u])]
           amounts == [u \in Users |-> claimed[u][t]]
<1>1. IsFiniteSet(Users) /\ IsFiniteSet(Weeks)
  BY FeeAssumption, WeeksAre
<1>2. /\ k.perWeek \in [Weeks -> Nat] /\ VotesAreNumbers /\ HistoriesOK
      /\ \A u \in Users : userTokenTimeCursor[u][t] \in Nat
  BY InvParts DEF GoodToken
<1>3. \A u \in Users : claimed[u][t] = SumFunction(dues(u, userTokenTimeCursor[u][t], k))
  BY DEF FeeInv, DataOK
<1> HIDE DEF k
<1>4. ASSUME NEW u \in Users
      PROVE  /\ dues(u, userTokenTimeCursor[u][t], k) \in [Weeks -> Nat]
             /\ \A w \in Weeks : dues(u, userTokenTimeCursor[u][t], k)[w] <= due(u, k, w)
  <2>1. /\ dues(u, userTokenTimeCursor[u][t], k) \in [Weeks -> Nat]
        /\ \A w \in Weeks : due(u, k, w) \in Nat
    BY <1>2, DuesTyped
  <2> QED BY <2>1 DEF dues
<1>5. f \in [Users -> [Weeks -> Int]]
  BY <1>4
<1>6. amounts = rows
  BY <1>3
<1>7. \A u \in Users, w \in Weeks : f[u][w] <= due(u, k, w)
  BY <1>4
<1> HIDE DEF f, amounts
<1>8. SumFunction(rows) = SumFunction(columns)
  BY <1>1, <1>5, SumSwaps
<1>9. ASSUME NEW w \in Weeks PROVE columns[w] \in Int /\ columns[w] <= k.perWeek[w]
  <2> DEFINE g == column(w)
             P == k.perWeek[w]
  <2>1. g \in [Users -> Int]
    BY <1>5
  <2>2. \A u \in Users : g[u] <= due(u, k, w)
    BY <1>7
  <2>3. P \in Nat
    BY <1>2
  <2>4. columns[w] = SumFunction(g)
    OBVIOUS
  <2> HIDE DEF g, P, columns
  <2>5. SumFunction(g) <= P
    BY <1>2, <2>1, <2>2, <2>3, SharesFit DEF P
  <2>6. SumFunction(g) \in Int
    BY <1>1, <2>1, SumTyped
  <2> QED BY <2>4, <2>5, <2>6 DEF P
<1>10. columns \in [Weeks -> Int] /\ k.perWeek \in [Weeks -> Int]
  BY <1>2, <1>9
<1> HIDE DEF columns, rows
<1>11. SumFunction(columns) <= SumFunction(k.perWeek)
  BY <1>1, <1>9, <1>10, SumMonotone
<1>12. SumFunction(columns) \in Int /\ SumFunction(k.perWeek) \in Int
  BY <1>1, <1>10, SumTyped
<1> QED BY <1>6, <1>8, <1>11, <1>12 DEF amounts, k

LEMMA InvCovered == FeeInv => AssignedIsCovered
<1> SUFFICES ASSUME FeeInv, NEW t \in FeeTokens
             PROVE  /\ SumFunction(tokenState[t].perWeek)
                         <= tokenState[t].cachedBalance + SumFunction([u \in Users |-> claimed[u][t]])
                    /\ 0 <= tokenState[t].cachedBalance
                    /\ tokenState[t].cachedBalance <= balanceOf[t]
  BY DEF AssignedIsCovered
<1> DEFINE a == SumFunction([u \in Users |-> claimed[u][t]])
           p == SumFunction(tokenState[t].perWeek)
<1>1. Covered(tokenState[t], balanceOf[t], a)
  BY DEF FeeInv, DataOK
<1>2. p <= tokenState[t].cachedBalance + a /\ tokenState[t].cachedBalance <= balanceOf[t]
  BY <1>1 DEF Covered
<1>3. a <= p /\ a \in Int /\ p \in Int
  BY ClaimsFit
<1>4. tokenState[t].cachedBalance \in Int
  BY InvParts DEF GoodToken
<1> HIDE DEF a, p
<1>5. 0 <= tokenState[t].cachedBalance
  BY <1>2, <1>3, <1>4
<1> QED BY <1>2, <1>5 DEF a, p

\* What the weeks were given and is not claimed yet the contract has, for any amounts,
\* users, tokens and order of deposits, checkpoints and claims.
THEOREM AssignmentsAreCovered == FeeSpec => []AssignedIsCovered
BY FeesAreAccounted, InvCovered, PTL

-----------------------------------------------------------------------------
\* The scheduler's lists.  A list has its keys in their order, from the head on.
Node == [amount: Nat, nextTimestamp: Weeks]
NodesOf == [Weeks -> Node]
Listed(nodes, K) ==
  /\ nodes \in NodesOf /\ K \subseteq Weeks \ {0}
  /\ \A k \in K \cup {0} :
       \/ nodes[k].nextTimestamp = 0 /\ \A j \in K : j <= k
       \/ /\ nodes[k].nextTimestamp \in K /\ k < nodes[k].nextTimestamp
          /\ \A j \in K : j <= k \/ nodes[k].nextTimestamp <= j

LEMMA WeeksCounted == 0 \in Weeks /\ Cardinality(Weeks) \in Nat /\
                      \A w \in Weeks : w < Cardinality(Weeks) * Week
<1>1. Week \in Nat /\ MaxClock \in Nat /\ Week > 0
  BY WeekAssumption
<1> DEFINE last == MaxClock \div Week + 1
           f == [k \in 0..last |-> k * Week]
<1>2. last \in Nat
  BY <1>1
<1>3. IsFiniteSet(0..last) /\ Cardinality(0..last) = last + 1
  BY <1>2, FS_Interval
<1>4. Weeks = {f[k] : k \in 0..last} /\ Weeks = {k * Week : k \in 0..last}
  BY DEF Weeks
<1> HIDE DEF last
<1>5. ASSUME NEW j \in 0..last, NEW k \in 0..last, j < k
      PROVE  j * Week < k * Week
  <2>1. j * Week + Week <= k * Week
    <3>1. (j + 1) * Week <= k * Week
      BY <1>1, <1>2, <1>5
    <3>2. (j + 1) * Week = j * Week + Week
      BY <1>1, <1>2
    <3> QED BY <3>1, <3>2
  <2>2. j * Week \in Int /\ k * Week \in Int
    BY <1>1, <1>2
  <2> QED BY <1>1, <2>1, <2>2
<1>6. f \in Bijection(0..last, Weeks)
  <2>1. f \in [0..last -> Weeks] /\ \A k \in 0..last : f[k] = k * Week
    BY <1>4
  <2>2. ASSUME NEW j \in 0..last, NEW k \in 0..last, f[j] = f[k] PROVE j = k
    <3>1. j * Week = k * Week /\ j * Week \in Int
      BY <1>1, <1>2, <2>1, <2>2
    <3>2. ~(j < k) /\ ~(k < j)
      BY <1>1, <1>2, <1>5, <3>1
    <3> QED BY <1>2, <3>2
  <2>3. \A w \in Weeks : \E k \in 0..last : f[k] = w
    BY <1>4
  <2> HIDE DEF f
  <2>4. f \in Injection(0..last, Weeks)
    BY <2>1, <2>2 DEF Injection, IsInjective
  <2>5. f \in Surjection(0..last, Weeks)
    BY <2>1, <2>3 DEF Surjection
  <2> QED BY <2>4, <2>5 DEF Bijection
<1>7. Cardinality(Weeks) = last + 1
  BY <1>3, <1>6, FS_Bijection DEF ExistsBijection
<1>8. ASSUME NEW w \in Weeks PROVE w < (last + 1) * Week
  <2>1. PICK k \in 0..last : w = k * Week
    BY <1>4
  <2>2. (k + 1) * Week <= (last + 1) * Week
    BY <1>1, <1>2
  <2>3. (k + 1) * Week = k * Week + Week /\ k * Week \in Int /\ (last + 1) * Week \in Int
    BY <1>1, <1>2
  <2> QED BY <1>1, <2>1, <2>2, <2>3
<1>9. 0 \in Weeks
  <2>1. 0 \in 0..last /\ 0 * Week = 0
    BY <1>1, <1>2
  <2> QED BY <1>4, <2>1
<1> QED BY <1>2, <1>7, <1>8, <1>9

\* What passes weeks in their order and has none twice has come to an end before there
\* are no more.
LEMMA WalksEnd ==
  ASSUME NEW pos \in [0..Cardinality(Weeks) -> Weeks],
         \A n \in 1..Cardinality(Weeks) :
           pos[n] # 0 => pos[n - 1] # 0 /\ pos[n - 1] < pos[n]
  PROVE  pos[Cardinality(Weeks)] = 0
<1> DEFINE N == Cardinality(Weeks)
           T == {n \in Nat : n \in 0..N /\ pos[n] # 0 => (n + 1) * Week <= pos[n]}
<1>1. Week \in Nat /\ Week > 0
  BY WeekAssumption
<1>2. N \in Nat
  BY WeeksCounted
<1> HIDE DEF N
<1>3. 0 \in T
  <2> SUFFICES ASSUME 0 \in 0..N, pos[0] # 0 PROVE (0 + 1) * Week <= pos[0]
    OBVIOUS
  <2>1. pos[0] \in Weeks
    BY <1>2 DEF N
  <2>2. pos[0] \in Nat /\ Multiple(pos[0]) /\ Multiple(0)
    BY <2>1, WeeksAre, MultiplesAdd
  <2>3. 0 + Week <= pos[0]
    BY <2>2, MultiplesNext
  <2> QED BY <1>1, <2>3
<1>4. \A n \in Nat : n \in T => n + 1 \in T
  <2> SUFFICES ASSUME NEW n \in Nat, n \in T, n + 1 \in 0..N, pos[n + 1] # 0
               PROVE  (n + 1 + 1) * Week <= pos[n + 1]
    OBVIOUS
  <2>1. n \in 0..N /\ n + 1 \in 1..N /\ n + 1 - 1 = n
    BY <1>2
  <2>2. pos[n] # 0 /\ pos[n] < pos[n + 1]
    BY <2>1 DEF N
  <2>3. (n + 1) * Week <= pos[n]
    BY <2>1, <2>2
  <2>4. pos[n] \in Nat /\ pos[n + 1] \in Nat /\ Multiple(pos[n]) /\ Multiple(pos[n + 1])
    BY <2>1, WeeksAre DEF N
  <2>5. pos[n] + Week <= pos[n + 1]
    BY <2>2, <2>4, MultiplesNext
  <2>6. (n + 1 + 1) * Week = (n + 1) * Week + Week /\ (n + 1) * Week \in Int
    BY <1>1
  <2> QED BY <1>1, <2>3, <2>4, <2>5, <2>6
<1>5. Nat \subseteq T
  <2> HIDE DEF T
  <2> QED BY <1>3, <1>4, SetInduction
<1> SUFFICES ASSUME pos[N] # 0 PROVE FALSE
  BY DEF N
<1>6. N \in 0..N /\ pos[N] \in Weeks
  BY <1>2 DEF N
<1>7. (N + 1) * Week <= pos[N]
  BY <1>2, <1>5, <1>6
<1>8. pos[N] < N * Week /\ pos[N] \in Nat
  BY <1>6, WeeksCounted, WeeksAre DEF N
<1>9. (N + 1) * Week = N * Week + Week /\ N * Week \in Int
  BY <1>1, <1>2
<1> QED BY <1>1, <1>7, <1>8, <1>9

LEMMA NodesTyped ==
  ASSUME NEW nodes \in NodesOf, NEW w \in Weeks
  PROVE  /\ nodes[w] \in Node /\ nodes[w].amount \in Nat /\ nodes[w].nextTimestamp \in Weeks
         /\ w \in Nat /\ nodes[w].nextTimestamp \in Nat
<1>1. nodes[w] \in Node
  BY DEF NodesOf
<1>2. nodes[w].amount \in Nat /\ nodes[w].nextTimestamp \in Weeks
  BY <1>1 DEF Node
<1> QED BY <1>1, <1>2, WeeksAre

\* The loops do, at each iteration, what one iteration does.
PendingState == [key: Weeks, amount: Nat]
LEMMA PendingStepTyped ==
  ASSUME NEW nodes \in NodesOf, NEW target, NEW s \in PendingState
  PROVE  pendingStep(nodes, target, s) \in PendingState
<1>1. s.key \in Weeks /\ s.amount \in Nat
  BY DEF PendingState
<1>2. nodes[s.key].amount \in Nat /\ nodes[s.key].nextTimestamp \in Weeks
  BY <1>1, NodesTyped
<1>3. s.amount + nodes[s.key].amount \in Nat
  BY <1>1, <1>2
<1>4. [key |-> nodes[s.key].nextTimestamp, amount |-> s.amount + nodes[s.key].amount] \in PendingState
  BY <1>2, <1>3 DEF PendingState
<1> QED BY <1>4 DEF pendingStep

SearchState == [current: Weeks, next: Weeks]
LEMMA SearchStepTyped ==
  ASSUME NEW nodes \in NodesOf, NEW key, NEW s \in SearchState
  PROVE  searchStep(nodes, key, s) \in SearchState
<1>1. s.current \in Weeks /\ s.next \in Weeks
  BY DEF SearchState
<1>2. nodes[s.next].nextTimestamp \in Weeks
  BY <1>1, NodesTyped
<1>3. [current |-> s.next, next |-> nodes[s.next].nextTimestamp] \in SearchState
  BY <1>1, <1>2 DEF SearchState
<1> QED BY <1>3 DEF searchStep

LEMMA NextKeyTyped ==
  ASSUME NEW nodes \in NodesOf, NEW k \in Weeks
  PROVE  nextKey(nodes, k) \in Weeks
BY NodesTyped, WeeksCounted DEF nextKey, NULL

LEMMA PendingLoop ==
  ASSUME NEW nodes \in NodesOf, NEW target
  PROVE  LET loop == pendingSteps(nodes, target)
         IN  /\ loop[0] = [key |-> nodes[0].nextTimestamp, amount |-> 0]
             /\ \A n \in 1..Cardinality(Weeks) : loop[n] = pendingStep(nodes, target, loop[n - 1])
<1> DEFINE N == Cardinality(Weeks)
           start == [key |-> nodes[0].nextTimestamp, amount |-> 0]
           F == [x \in PendingState \X (1..N) |-> pendingStep(nodes, target, x[1])]
           Runs(g) == g = [i \in 0..N |->
                             IF i = 0 THEN start ELSE pendingStep(nodes, target, g[i - 1])]
<1>0. N \in Nat /\ 0 \in Weeks
  BY WeeksCounted
<1>1. F \in [PendingState \X (1..N) -> PendingState]
  BY PendingStepTyped
<1>2. \A s \in PendingState, n \in 1..N : F[<<s, n>>] = pendingStep(nodes, target, s)
  OBVIOUS
<1>3. start \in PendingState
  <2>1. nodes[0].nextTimestamp \in Weeks
    BY <1>0, NodesTyped
  <2> QED BY <1>0, <2>1 DEF PendingState
<1>a. start = [key |-> nodes[0].nextTimestamp, amount |-> 0]
  OBVIOUS
<1> HIDE DEF F, N, start
<1>4. PICK g : Iterates(PendingState, N, start, F, g)
  BY <1>0, <1>1, <1>3, LoopExists
<1>5. \A n \in 1..N : g[n] = pendingStep(nodes, target, g[n - 1])
  <2> TAKE n \in 1..N
  <2>1. n - 1 \in 0..N /\ g[n - 1] \in PendingState /\ g[n] = F[<<g[n - 1], n>>]
    BY <1>0, <1>4 DEF Iterates
  <2> QED BY <1>2, <2>1
<1>6. \E h : Runs(h)
  <2>1. Runs(g)
    BY <1>0, <1>4, <1>5 DEF Iterates
  <2> QED BY <2>1
<1>7. Runs(pendingSteps(nodes, target))
  BY <1>6 DEF pendingSteps, N, start, HEAD
<1> QED BY <1>0, <1>7, <1>a DEF N

LEMMA NeighboursLoop ==
  ASSUME NEW nodes \in NodesOf, NEW key
  PROVE  LET loop == searchSteps(nodes, key)
         IN  /\ loop[0] = [current |-> 0, next |-> nodes[0].nextTimestamp]
             /\ \A n \in 1..Cardinality(Weeks) : loop[n] = searchStep(nodes, key, loop[n - 1])
<1> DEFINE N == Cardinality(Weeks)
           start == [current |-> 0, next |-> nodes[0].nextTimestamp]
           F == [x \in SearchState \X (1..N) |-> searchStep(nodes, key, x[1])]
           Runs(g) == g = [i \in 0..N |->
                             IF i = 0 THEN start ELSE searchStep(nodes, key, g[i - 1])]
<1>0. N \in Nat /\ 0 \in Weeks
  BY WeeksCounted
<1>1. F \in [SearchState \X (1..N) -> SearchState]
  BY SearchStepTyped
<1>2. \A s \in SearchState, n \in 1..N : F[<<s, n>>] = searchStep(nodes, key, s)
  OBVIOUS
<1>3. start \in SearchState
  <2>1. nodes[0].nextTimestamp \in Weeks
    BY <1>0, NodesTyped
  <2> QED BY <1>0, <2>1 DEF SearchState
<1>a. start = [current |-> 0, next |-> nodes[0].nextTimestamp]
  OBVIOUS
<1> HIDE DEF F, N, start
<1>4. PICK g : Iterates(SearchState, N, start, F, g)
  BY <1>0, <1>1, <1>3, LoopExists
<1>5. \A n \in 1..N : g[n] = searchStep(nodes, key, g[n - 1])
  <2> TAKE n \in 1..N
  <2>1. n - 1 \in 0..N /\ g[n - 1] \in SearchState /\ g[n] = F[<<g[n - 1], n>>]
    BY <1>0, <1>4 DEF Iterates
  <2> QED BY <1>2, <2>1
<1>6. \E h : Runs(h)
  <2>1. Runs(g)
    BY <1>0, <1>4, <1>5 DEF Iterates
  <2> QED BY <2>1
<1>7. Runs(searchSteps(nodes, key))
  BY <1>6 DEF searchSteps, N, start, HEAD
<1> QED BY <1>0, <1>7, <1>a DEF N

LEMMA KeysLoop ==
  ASSUME NEW nodes \in NodesOf
  PROVE  LET loop == keysInOrder(nodes)
         IN  /\ loop[0] = nodes[0].nextTimestamp
             /\ \A n \in 1..Cardinality(Weeks) : loop[n] = nextKey(nodes, loop[n - 1])
<1> DEFINE N == Cardinality(Weeks)
           start == nodes[0].nextTimestamp
           F == [x \in Weeks \X (1..N) |-> nextKey(nodes, x[1])]
           Runs(g) == g = [i \in 0..N |->
                             IF i = 0 THEN start ELSE nextKey(nodes, g[i - 1])]
<1>0. N \in Nat /\ 0 \in Weeks
  BY WeeksCounted
<1>1. F \in [Weeks \X (1..N) -> Weeks]
  BY NextKeyTyped
<1>2. \A s \in Weeks, n \in 1..N : F[<<s, n>>] = nextKey(nodes, s)
  OBVIOUS
<1>3. start \in Weeks
  <2>1. nodes[0].nextTimestamp \in Weeks
    BY <1>0, NodesTyped
  <2> QED BY <1>0, <2>1
<1>a. start = nodes[0].nextTimestamp
  OBVIOUS
<1> HIDE DEF F, N, start
<1>4. PICK g : Iterates(Weeks, N, start, F, g)
  BY <1>0, <1>1, <1>3, LoopExists
<1>5. \A n \in 1..N : g[n] = nextKey(nodes, g[n - 1])
  <2> TAKE n \in 1..N
  <2>1. n - 1 \in 0..N /\ g[n - 1] \in Weeks /\ g[n] = F[<<g[n - 1], n>>]
    BY <1>0, <1>4 DEF Iterates
  <2> QED BY <1>2, <2>1
<1>6. \E h : Runs(h)
  <2>1. Runs(g)
    BY <1>0, <1>4, <1>5 DEF Iterates
  <2> QED BY <2>1
<1>7. Runs(keysInOrder(nodes))
  BY <1>6 DEF keysInOrder, N, start, HEAD
<1> QED BY <1>0, <1>7, <1>a DEF N
\* What a list has is what can be reached from its head.
LEMMA ListedParts ==
  ASSUME NEW nodes, NEW K, Listed(nodes, K)
  PROVE  /\ nodes \in NodesOf /\ K \subseteq Weeks /\ 0 \notin K /\ 0 \in Weeks
         /\ \A j \in K : j \in Nat /\ j > 0
         /\ \A k \in K \cup {0} :
              /\ nodes[k].nextTimestamp \in K \cup {0} /\ k \in Nat
              /\ nodes[k].nextTimestamp = 0 => \A j \in K : j <= k
              /\ nodes[k].nextTimestamp # 0 =>
                   /\ k < nodes[k].nextTimestamp
                   /\ \A j \in K : j <= k \/ nodes[k].nextTimestamp <= j
<1>1. nodes \in NodesOf /\ K \subseteq Weeks \ {0} /\ 0 \in Weeks
  BY WeeksCounted DEF Listed
<1>2. \A j \in K : j \in Nat /\ j > 0
  <2> TAKE j \in K
  <2>1. j \in Weeks /\ j # 0
    BY <1>1
  <2> QED BY <2>1, WeeksAre
<1>3. ASSUME NEW k \in K \cup {0}
      PROVE  /\ nodes[k].nextTimestamp \in K \cup {0} /\ k \in Nat
             /\ nodes[k].nextTimestamp = 0 => \A j \in K : j <= k
             /\ nodes[k].nextTimestamp # 0 =>
                   /\ k < nodes[k].nextTimestamp
                   /\ \A j \in K : j <= k \/ nodes[k].nextTimestamp <= j
  <2>1. k \in Nat
    BY <1>2
  <2>2. \/ nodes[k].nextTimestamp = 0 /\ \A j \in K : j <= k
        \/ /\ nodes[k].nextTimestamp \in K /\ k < nodes[k].nextTimestamp
           /\ \A j \in K : j <= k \/ nodes[k].nextTimestamp <= j
    BY DEF Listed
  <2>3. 0 \notin K
    BY <1>1
  <2> QED BY <2>1, <2>2, <2>3
<1> QED BY <1>1, <1>2, <1>3

LEMMA ListsReach ==
  ASSUME NEW nodes, NEW K, Listed(nodes, K)
  PROVE  reachable(nodes) = K
<1> DEFINE N == Cardinality(Weeks)
           g == keysInOrder(nodes)
           T == {n \in Nat : n \in 0..N =>
                   \A j \in K : g[n] = 0 \/ j < g[n] => \E m \in 0..N : g[m] = j}
<1>0. N \in Nat
  BY WeeksCounted
<1>1. /\ nodes \in NodesOf /\ K \subseteq Weeks /\ 0 \notin K /\ 0 \in Weeks
      /\ \A j \in K : j \in Nat /\ j > 0
  BY ListedParts
<1>2. /\ g[0] = nodes[0].nextTimestamp
      /\ \A n \in 1..N : g[n] = IF g[n - 1] = 0 THEN 0 ELSE nodes[g[n - 1]].nextTimestamp
  BY <1>1, KeysLoop DEF nextKey, NULL
<1>3. g[0] \in K \cup {0} /\ \A j \in K : ~(g[0] = 0 \/ j < g[0])
  <2>1. /\ nodes[0].nextTimestamp \in K \cup {0}
        /\ nodes[0].nextTimestamp = 0 => \A j \in K : j <= 0
        /\ nodes[0].nextTimestamp # 0 => \A j \in K : j <= 0 \/ nodes[0].nextTimestamp <= j
    BY ListedParts
  <2> HIDE DEF g
  <2> QED BY <1>1, <1>2, <2>1
<1> HIDE DEF g, N
<1>4. \A n \in 0..N : g[n] \in K \cup {0}
  <2>1. ASSUME NEW n \in 1..N, g[n - 1] \in K \cup {0} PROVE g[n] \in K \cup {0}
    BY <1>2, <2>1, ListedParts
  <2> QED BY <1>0, <1>3, <2>1, LoopPreserves
<1>5. ASSUME NEW n \in 1..N, g[n - 1] # 0
      PROVE  /\ g[n - 1] \in K /\ g[n] \in K \cup {0}
             /\ g[n] = 0 => \A j \in K : j <= g[n - 1]
             /\ g[n] # 0 => g[n - 1] < g[n] /\ \A j \in K : j <= g[n - 1] \/ g[n] <= j
  <2>1. n - 1 \in 0..N
    BY <1>0
  <2>2. g[n - 1] \in K /\ g[n] = nodes[g[n - 1]].nextTimestamp
    BY <1>2, <1>4, <1>5, <2>1
  <2> QED BY <2>2, ListedParts
<1>6. \A n \in 1..N : g[n] # 0 => g[n - 1] # 0 /\ g[n - 1] < g[n]
  BY <1>2, <1>5
<1>7. g[N] = 0
  <2> DEFINE pos == [n \in 0..N |-> g[n]]
  <2>1. pos \in [0..N -> Weeks] /\ \A n \in 0..N : pos[n] = g[n]
    BY <1>1, <1>4
  <2> HIDE DEF pos
  <2>2. \A n \in 1..N : n - 1 \in 0..N /\ n \in 0..N
    BY <1>0
  <2>3. \A n \in 1..N : pos[n] # 0 => pos[n - 1] # 0 /\ pos[n - 1] < pos[n]
    BY <1>6, <2>1, <2>2
  <2>4. pos[N] = 0
    BY <2>1, <2>3, WalksEnd DEF N
  <2> QED BY <1>0, <2>1, <2>4
<1>8. 0 \in T
  BY <1>3
<1>9. \A n \in Nat : n \in T => n + 1 \in T
  <2> SUFFICES ASSUME NEW n \in Nat, n \in T, n + 1 \in 0..N,
                      NEW j \in K, g[n + 1] = 0 \/ j < g[n + 1]
               PROVE  \E m \in 0..N : g[m] = j
    OBVIOUS
  <2>1. n \in 0..N /\ n + 1 \in 1..N /\ n + 1 - 1 = n
    BY <1>0
  <2>2. g[n] = 0 \/ j < g[n] => \E m \in 0..N : g[m] = j
    BY <2>1
  <2>3. CASE g[n] # 0
    <3>1. g[n] \in K /\ g[n + 1] \in K \cup {0} /\ j <= g[n]
      BY <1>1, <1>5, <2>1, <2>3
    <3>2. j = g[n] \/ j < g[n]
      BY <1>1, <3>1
    <3> QED BY <2>1, <2>2, <3>2
  <2> QED BY <2>2, <2>3
<1>10. Nat \subseteq T
  <2> HIDE DEF T
  <2> QED BY <1>8, <1>9, SetInduction
<1>11. \A j \in K : \E m \in 0..N : g[m] = j
  BY <1>0, <1>7, <1>10
<1>12. reachable(nodes) = {g[i] : i \in 0..N} \ {0}
  BY Zenon DEF reachable, g, N, NULL
<1> QED BY <1>1, <1>4, <1>11, <1>12

AmountsOf(nodes, S) == [w \in Weeks |-> IF w \in S THEN nodes[w].amount ELSE 0]
LEMMA DueIs ==
  ASSUME NEW nodes, NEW K, Listed(nodes, K)
  PROVE  DueOf(nodes) = AmountsOf(nodes, K)
BY ListsReach DEF DueOf, AmountsOf

LEMMA AmountsTyped ==
  ASSUME NEW nodes \in NodesOf, NEW S
  PROVE  /\ AmountsOf(nodes, S) \in [Weeks -> Int]
         /\ \A w \in Weeks : AmountsOf(nodes, S)[w] = IF w \in S THEN nodes[w].amount ELSE 0
<1>1. \A w \in Weeks : nodes[w].amount \in Int
  BY NodesTyped
<1> QED BY <1>1 DEF AmountsOf

\* The keys before s.key; all of them if there is none.
Passed(K, s) == {k \in K : s.key = 0 \/ k < s.key}
LEMMA PendingWalks ==
  ASSUME NEW nodes, NEW K, Listed(nodes, K), NEW target \in Nat
  PROVE  LET s == getPendingRewards(nodes, target)
         IN  /\ s.key \in K \cup {0}
             /\ s.key # 0 => target < s.key
             /\ Passed(K, s) = {k \in K : k <= target}
             /\ s.amount = SumFunction(AmountsOf(nodes, {k \in K : k <= target}))
<1> DEFINE N == Cardinality(Weeks)
           g == pendingSteps(nodes, target)
           G == {s \in PendingState :
                   /\ s.key \in K \cup {0}
                   /\ \A k \in Passed(K, s) : k <= target
                   /\ s.amount = SumFunction(AmountsOf(nodes, Passed(K, s)))}
           Goes(s) == target >= s.key /\ s.key # 0
<1>0. N \in Nat /\ IsFiniteSet(Weeks)
  BY WeeksCounted, WeeksAre
<1>1. /\ nodes \in NodesOf /\ K \subseteq Weeks /\ 0 \notin K /\ 0 \in Weeks
      /\ \A j \in K : j \in Nat /\ j > 0
  BY ListedParts
<1>2. /\ g[0] = [key |-> nodes[0].nextTimestamp, amount |-> 0]
      /\ \A n \in 1..N : g[n] = pendingStep(nodes, target, g[n - 1])
  BY <1>1, PendingLoop
<1> HIDE DEF g, N
<1>3. g[0] \in G
  <2> DEFINE s == [key |-> nodes[0].nextTimestamp, amount |-> 0]
  <2>1. /\ nodes[0].nextTimestamp \in K \cup {0}
        /\ nodes[0].nextTimestamp = 0 => \A j \in K : j <= 0
        /\ nodes[0].nextTimestamp # 0 => \A j \in K : j <= 0 \/ nodes[0].nextTimestamp <= j
    BY ListedParts
  <2>2. s \in PendingState /\ s.key = nodes[0].nextTimestamp /\ s.amount = 0
    BY <1>1, <2>1 DEF PendingState
  <2> HIDE DEF s
  <2>3. Passed(K, s) = {}
    BY <1>1, <2>1, <2>2 DEF Passed
  <2>4. SumFunction(AmountsOf(nodes, {})) = 0
    <3>1. \A w \in Weeks : AmountsOf(nodes, {})[w] = 0
      BY <1>1, AmountsTyped
    <3>2. AmountsOf(nodes, {}) \in [Weeks -> Int]
      BY <1>1, AmountsTyped
    <3> QED BY <1>0, <3>1, <3>2, SumOfZeros
  <2>5. s \in G
    BY <2>1, <2>2, <2>3, <2>4
  <2> HIDE DEF G
  <2> QED BY <1>2, <2>5 DEF s
<1>4. ASSUME NEW s \in G, Goes(s)
      PROVE  /\ pendingStep(nodes, target, s) \in G
             /\ LET r == pendingStep(nodes, target, s) IN r.key # 0 => s.key < r.key
  <2> DEFINE k == s.key
             n == nodes[k].nextTimestamp
             r == [key |-> n, amount |-> s.amount + nodes[k].amount]
             before == Passed(K, s)
             a == AmountsOf(nodes, before)
             b == AmountsOf(nodes, before \cup {k})
  <2>1. k \in K /\ k <= target /\ k \in Weeks
    BY <1>1, <1>4
  <2>2. /\ n \in K \cup {0} /\ n \in Nat
        /\ n = 0 => \A j \in K : j <= k
        /\ n # 0 => k < n /\ \A j \in K : j <= k \/ n <= j
    BY <1>1, <2>1, ListedParts
  <2>3. r \in PendingState /\ pendingStep(nodes, target, s) = r /\ r.key = n
        /\ r.amount = s.amount + nodes[k].amount
    <3>1. r \in PendingState
      BY <1>1, <2>1, NodesTyped DEF PendingState
    <3> QED BY <1>4, <3>1 DEF pendingStep, NULL
  <2>4. before \subseteq K /\ k \notin before /\ \A j \in K : j \in before <=> j < k
    BY <1>1, <2>1 DEF Passed
  <2> HIDE DEF k, n, r, before
  <2>5. Passed(K, r) = before \cup {k}
    <3>1. ASSUME NEW j \in K PROVE (n = 0 \/ j < n) <=> (j < k \/ j = k)
      <4>1. j \in Nat /\ k \in Nat
        BY <1>1, <2>1
      <4> QED BY <2>2, <4>1
    <3> QED BY <2>1, <2>3, <2>4, <3>1 DEF Passed
  <2>6. \A j \in Passed(K, r) : j <= target
    <3>1. \A j \in before : j <= target
      BY <1>4 DEF before
    <3> QED BY <2>1, <2>5, <3>1
  <2>7. SumFunction(b) = SumFunction(a) - a[k] + b[k] /\ a[k] = 0 /\ b[k] = nodes[k].amount
    <3>1. a \in [Weeks -> Int] /\ b \in [Weeks -> Int]
      BY <1>1, AmountsTyped
    <3>2. \A w \in Weeks \ {k} : b[w] = a[w]
      BY <1>1, AmountsTyped
    <3>3. a[k] = 0 /\ b[k] = nodes[k].amount
      BY <1>1, <2>1, <2>4, AmountsTyped
    <3> HIDE DEF a, b
    <3>4. SumFunction(b) = SumFunction(a) - a[k] + b[k]
      BY <1>0, <2>1, <3>1, <3>2, SumExcept
    <3> QED BY <3>3, <3>4
  <2>8. SumFunction(a) = s.amount /\ s.amount \in Nat /\ nodes[k].amount \in Nat
    <3>1. s.amount = SumFunction(AmountsOf(nodes, Passed(K, s))) /\ s \in PendingState
      BY <1>4
    <3> QED BY <1>1, <2>1, <3>1, NodesTyped DEF PendingState, before
  <2>9. r.amount = SumFunction(b)
    BY <2>3, <2>7, <2>8
  <2>10. r \in G
    BY <2>2, <2>3, <2>5, <2>6, <2>9
  <2>11. r.key # 0 => s.key < r.key
    BY <2>2, <2>3 DEF k
  <2> HIDE DEF G
  <2> QED BY <2>3, <2>10, <2>11
<1>5. ASSUME NEW s, ~Goes(s)
      PROVE  pendingStep(nodes, target, s) = s
  BY <1>5 DEF pendingStep, NULL
<1> HIDE DEF Goes
<1>6. \A n \in 0..N : g[n] \in G
  <2> HIDE DEF G
  <2>1. ASSUME NEW n \in 1..N, g[n - 1] \in G PROVE g[n] \in G
    BY <1>2, <1>4, <1>5, <2>1
  <2> QED BY <1>0, <1>3, <2>1, LoopPreserves
<1>7. ~Goes(g[N])
  <2> DEFINE pos == [n \in 0..N |-> IF Goes(g[n]) THEN g[n].key ELSE 0]
  <2>1. ASSUME NEW n \in 0..N PROVE g[n].key \in Weeks /\ (Goes(g[n]) => g[n].key # 0)
    BY <1>1, <1>6 DEF Goes
  <2>2. pos \in [0..N -> Weeks] /\ \A n \in 0..N : pos[n] = IF Goes(g[n]) THEN g[n].key ELSE 0
    BY <1>1, <2>1
  <2> HIDE DEF pos
  <2>3. ASSUME NEW n \in 1..N, pos[n] # 0
        PROVE  pos[n - 1] # 0 /\ pos[n - 1] < pos[n]
    <3>1. n - 1 \in 0..N /\ n \in 0..N
      BY <1>0
    <3>2. Goes(g[n]) /\ pos[n] = g[n].key /\ g[n].key # 0
      BY <2>2, <2>3, <3>1
    <3>3. Goes(g[n - 1])
      BY <1>2, <1>5, <3>2
    <3>4. g[n - 1] \in G
      BY <1>6, <3>1
    <3> HIDE DEF G
    <3>5. g[n - 1].key < g[n].key
      BY <1>2, <1>4, <3>2, <3>3, <3>4
    <3>6. pos[n - 1] = g[n - 1].key /\ g[n - 1].key # 0
      BY <2>1, <2>2, <3>1, <3>3
    <3> QED BY <3>2, <3>5, <3>6
  <2>4. pos[N] = 0
    BY <2>2, <2>3, WalksEnd DEF N
  <2>5. N \in 0..N
    BY <1>0
  <2> QED BY <2>1, <2>2, <2>4, <2>5
<1> DEFINE s == g[N]
<1>8. s \in G /\ getPendingRewards(nodes, target) = s
  <2>1. getPendingRewards(nodes, target) = s
    BY DEF getPendingRewards, g, N
  <2>2. N \in 0..N
    BY <1>0
  <2> QED BY <1>6, <2>1, <2>2
<1>9. ~Goes(s)
  BY <1>7
<1> HIDE DEF s
<1>10. s.key \in K \cup {0} /\ (s.key # 0 => target < s.key)
  BY <1>1, <1>8, <1>9 DEF Goes
<1>11. Passed(K, s) = {k \in K : k <= target}
  <2>1. \A k \in Passed(K, s) : k \in K /\ k <= target
    BY <1>8 DEF Passed
  <2>2. ASSUME NEW k \in K, k <= target PROVE k \in Passed(K, s)
    <3>1. s.key = 0 \/ k < s.key
      BY <1>1, <1>10, <2>2
    <3> QED BY <2>2, <3>1 DEF Passed
  <2> QED BY <2>1, <2>2
<1>12. s.amount = SumFunction(AmountsOf(nodes, Passed(K, s)))
  BY <1>8
<1> QED BY <1>8, <1>10, <1>11, <1>12

LEMMA NeighboursFound ==
  ASSUME NEW nodes, NEW K, Listed(nodes, K), NEW key \in Nat, key > 0
  PROVE  LET at == neighbours(nodes, key)
         IN  /\ at.current \in K \cup {0} /\ at.current < key
             /\ at.next = nodes[at.current].nextTimestamp
             /\ at.next # 0 => key <= at.next
<1> DEFINE N == Cardinality(Weeks)
           g == searchSteps(nodes, key)
           G == {s \in SearchState :
                   /\ s.current \in K \cup {0} /\ s.current < key
                   /\ s.next = nodes[s.current].nextTimestamp}
           Goes(s) == key > s.next /\ s.next # 0
<1>0. N \in Nat
  BY WeeksCounted
<1>1. /\ nodes \in NodesOf /\ K \subseteq Weeks /\ 0 \notin K /\ 0 \in Weeks
      /\ \A j \in K : j \in Nat /\ j > 0
  BY ListedParts
<1>2. /\ g[0] = [current |-> 0, next |-> nodes[0].nextTimestamp]
      /\ \A n \in 1..N : g[n] = searchStep(nodes, key, g[n - 1])
  BY <1>1, NeighboursLoop
<1> HIDE DEF g, N
<1>3. g[0] \in G
  <2> DEFINE s == [current |-> 0, next |-> nodes[0].nextTimestamp]
  <2>1. nodes[0].nextTimestamp \in Weeks
    BY <1>1, NodesTyped
  <2>2. s \in G
    BY <1>1, <2>1 DEF SearchState
  <2> QED BY <1>2, <2>2
<1>4. ASSUME NEW s \in G, Goes(s)
      PROVE  /\ searchStep(nodes, key, s) \in G
             /\ LET r == searchStep(nodes, key, s) IN r.next # 0 => s.next < r.next
  <2> DEFINE k == s.next
             n == nodes[k].nextTimestamp
             r == [current |-> k, next |-> n]
  <2>1. k \in K /\ k < key
    <3>1. s.current \in K \cup {0} /\ k = nodes[s.current].nextTimestamp
      BY <1>4
    <3>2. k \in K \cup {0}
      BY <3>1, ListedParts
    <3> QED BY <1>1, <1>4, <3>2
  <2>2. n \in K \cup {0} /\ (n # 0 => k < n)
    BY <2>1, ListedParts
  <2>3. r \in SearchState /\ searchStep(nodes, key, s) = r /\ r.current = k /\ r.next = n
    BY <1>1, <1>4, <2>1, <2>2 DEF SearchState, searchStep, NULL
  <2>4. r \in G
    BY <2>1, <2>3
  <2> QED BY <2>2, <2>3, <2>4
<1>5. ASSUME NEW s, ~Goes(s)
      PROVE  searchStep(nodes, key, s) = s
  BY <1>5 DEF searchStep, NULL
<1>6. \A n \in 0..N : g[n] \in G
  <2> HIDE DEF G, Goes
  <2>1. ASSUME NEW n \in 1..N, g[n - 1] \in G PROVE g[n] \in G
    BY <1>2, <1>4, <1>5, <2>1
  <2> QED BY <1>0, <1>3, <2>1, LoopPreserves
<1> HIDE DEF Goes
<1>7. ~Goes(g[N])
  <2> DEFINE pos == [n \in 0..N |-> IF Goes(g[n]) THEN g[n].next ELSE 0]
  <2>1. ASSUME NEW n \in 0..N PROVE g[n].next \in Weeks /\ (Goes(g[n]) => g[n].next # 0)
    <3>1. g[n] \in SearchState
      BY <1>6
    <3> QED BY <3>1 DEF Goes, SearchState
  <2>2. pos \in [0..N -> Weeks] /\ \A n \in 0..N : pos[n] = IF Goes(g[n]) THEN g[n].next ELSE 0
    BY <1>1, <2>1
  <2> HIDE DEF pos, G
  <2>3. ASSUME NEW n \in 1..N, pos[n] # 0
        PROVE  pos[n - 1] # 0 /\ pos[n - 1] < pos[n]
    <3>1. n - 1 \in 0..N /\ n \in 0..N
      BY <1>0
    <3>2. Goes(g[n]) /\ pos[n] = g[n].next /\ g[n].next # 0
      BY <2>2, <2>3, <3>1
    <3>3. Goes(g[n - 1])
      BY <1>2, <1>5, <3>2
    <3>4. g[n - 1] \in G
      BY <1>6, <3>1
    <3>5. g[n - 1].next < g[n].next
      BY <1>2, <1>4, <3>2, <3>3, <3>4
    <3>6. pos[n - 1] = g[n - 1].next /\ g[n - 1].next # 0
      BY <2>1, <2>2, <3>1, <3>3
    <3> QED BY <3>2, <3>5, <3>6
  <2>4. pos[N] = 0
    BY <2>2, <2>3, WalksEnd DEF N
  <2>5. N \in 0..N
    BY <1>0
  <2> QED BY <2>1, <2>2, <2>4, <2>5
<1>8. neighbours(nodes, key) = g[N] /\ g[N] \in G
  <2>1. neighbours(nodes, key) = g[N]
    BY DEF neighbours, g, N
  <2>2. N \in 0..N
    BY <1>0
  <2> QED BY <1>6, <2>1, <2>2
<1>9. g[N].next # 0 => key <= g[N].next
  <2>1. g[N].next \in Nat
    BY <1>8, WeeksAre DEF SearchState
  <2> QED BY <1>7, <2>1 DEF Goes
<1> QED BY <1>8, <1>9

LEMMA AddedToOne ==
  ASSUME NEW f \in [Weeks -> Int], NEW g \in [Weeks -> Int], NEW key \in Weeks, NEW amount,
         \A w \in Weeks : g[w] = IF w = key THEN f[w] + amount ELSE f[w]
  PROVE  g = [f EXCEPT ![key] = @ + amount]
OBVIOUS

\* A node is added where it belongs, and one there is gets more.
LEMMA InsertAdds ==
  ASSUME NEW nodes, NEW K, Listed(nodes, K), NEW key \in Weeks, key > 0, NEW amount \in Nat
  PROVE  LET after == insertReward(nodes, key, amount)
         IN  /\ Listed(after, K \cup {key})
             /\ DueOf(after) = [DueOf(nodes) EXCEPT ![key] = @ + amount]
<1> DEFINE at == neighbours(nodes, key)
           c == at.current
           n == at.next
           new == [amount |-> amount, nextTimestamp |-> n]
           after == insertReward(nodes, key, amount)
           L == K \cup {key}
<1>1. /\ nodes \in NodesOf /\ K \subseteq Weeks /\ 0 \notin K /\ 0 \in Weeks
      /\ \A j \in K : j \in Nat /\ j > 0
      /\ key \in Nat
  BY ListedParts, WeeksAre
<1>2. c \in K \cup {0} /\ c < key /\ n = nodes[c].nextTimestamp /\ (n # 0 => key <= n)
  BY <1>1, NeighboursFound
<1>3. after = IF n = key THEN [nodes EXCEPT ![key].amount = @ + amount]
              ELSE [nodes EXCEPT ![c].nextTimestamp = key, ![key] = new]
  BY Zenon DEF insertReward
<1>4. /\ n \in K \cup {0} /\ c \in Nat /\ n \in Nat
      /\ n = 0 => \A j \in K : j <= c
      /\ n # 0 => c < n /\ \A j \in K : j <= c \/ n <= j
  BY <1>1, <1>2, ListedParts
<1>5. \A w \in Weeks : nodes[w] \in Node /\ nodes[w].amount \in Nat /\ nodes[w].nextTimestamp \in Weeks
  BY <1>1, NodesTyped
<1>6. L \subseteq Weeks \ {0}
  BY <1>1
<1> HIDE DEF at, c, n
<1>7. CASE n = key
  <2> DEFINE h == [nodes EXCEPT ![key].amount = @ + amount]
  <2>1. after = h /\ key \in K /\ L = K
    BY <1>1, <1>3, <1>4, <1>7
  <2>2. /\ h \in NodesOf
        /\ \A w \in Weeks : /\ h[w].nextTimestamp = nodes[w].nextTimestamp
                            /\ h[w].amount = IF w = key THEN nodes[w].amount + amount
                                             ELSE nodes[w].amount
    BY <1>1, <1>5 DEF NodesOf, Node
  <2> HIDE DEF h, after
  <2>3. Listed(h, K)
    <3>1. \A k \in K \cup {0} : h[k].nextTimestamp = nodes[k].nextTimestamp
      BY <1>1, <2>2
    <3>2. K \subseteq Weeks \ {0}
      BY <1>1
    <3>3. \A k \in K \cup {0} :
            \/ nodes[k].nextTimestamp = 0 /\ \A j \in K : j <= k
            \/ /\ nodes[k].nextTimestamp \in K /\ k < nodes[k].nextTimestamp
               /\ \A j \in K : j <= k \/ nodes[k].nextTimestamp <= j
      BY Zenon DEF Listed
    <3> QED BY <2>2, <3>1, <3>2, <3>3 DEF Listed
  <2>4. AmountsOf(h, K) = [AmountsOf(nodes, K) EXCEPT ![key] = @ + amount]
    <3>1. AmountsOf(h, K) \in [Weeks -> Int] /\ AmountsOf(nodes, K) \in [Weeks -> Int]
      BY <1>1, <2>2, AmountsTyped
    <3>2. \A w \in Weeks : AmountsOf(h, K)[w] =
            IF w = key THEN AmountsOf(nodes, K)[w] + amount ELSE AmountsOf(nodes, K)[w]
      BY <1>1, <2>1, <2>2, AmountsTyped
    <3> QED BY <3>1, <3>2, AddedToOne
  <2>5. DueOf(h) = AmountsOf(h, K) /\ DueOf(nodes) = AmountsOf(nodes, K)
    BY <2>3, DueIs
  <2> QED BY <2>1, <2>3, <2>4, <2>5 DEF after
<1>8. CASE n # key
  <2> DEFINE h == [nodes EXCEPT ![c].nextTimestamp = key, ![key] = new]
  <2>1. after = h /\ c # key /\ c \in Weeks
    BY <1>1, <1>2, <1>3, <1>4, <1>8
  <2>2. key \notin K
    <3>1. n # 0 => key < n
      BY <1>1, <1>2, <1>4, <1>8
    <3> QED BY <1>1, <1>2, <1>4, <3>1
  <2>3. new \in Node /\ new.nextTimestamp = n /\ new.amount = amount
    BY <1>1, <1>4 DEF Node
  <2> HIDE DEF new
  <2>4. /\ h \in NodesOf
        /\ h[key] = new
        /\ h[c].nextTimestamp = key /\ h[c].amount = nodes[c].amount
        /\ \A w \in Weeks \ {c, key} : h[w] = nodes[w]
    BY <1>1, <1>5, <2>1, <2>3 DEF NodesOf, Node
  <2> HIDE DEF h, after
  <2>5. Listed(h, L)
    <3>1. ASSUME NEW k \in L \cup {0}
          PROVE  \/ h[k].nextTimestamp = 0 /\ \A j \in L : j <= k
                 \/ /\ h[k].nextTimestamp \in L /\ k < h[k].nextTimestamp
                    /\ \A j \in L : j <= k \/ h[k].nextTimestamp <= j
      <4>1. CASE k = c
        <5>1. \A j \in K : j <= c \/ key <= j
          <6> TAKE j \in K
          <6>1. j <= c \/ (n # 0 /\ n <= j)
            BY <1>4
          <6> QED BY <1>1, <1>2, <1>4, <6>1
        <5> QED BY <1>1, <1>2, <1>4, <2>4, <4>1, <5>1
      <4>2. CASE k = key
        <5>1. h[k].nextTimestamp = n
          BY <2>3, <2>4, <4>2
        <5>2. CASE n = 0
          <6>1. \A j \in L : j <= k
            <7> TAKE j \in L
            <7>1. j = key \/ j <= c
              BY <1>4, <5>2
            <7> QED BY <1>1, <1>2, <1>4, <4>2, <7>1
          <6> QED BY <5>1, <5>2, <6>1
        <5>3. CASE n # 0
          <6>1. n \in K /\ key < n
            BY <1>1, <1>2, <1>4, <1>8, <5>3
          <6>2. \A j \in L : j <= k \/ n <= j
            <7> TAKE j \in L
            <7>1. j = key \/ j <= c \/ n <= j
              BY <1>4, <5>3
            <7> QED BY <1>1, <1>2, <1>4, <4>2, <7>1
          <6> QED BY <4>2, <5>1, <6>1, <6>2
        <5> QED BY <5>2, <5>3
      <4>3. CASE k # c /\ k # key
        <5> DEFINE m == nodes[k].nextTimestamp
        <5>1. k \in K \cup {0} /\ k \in Nat /\ k \in Weeks
          BY <1>1, <4>3
        <5>2. h[k].nextTimestamp = m
          BY <2>4, <4>3, <5>1
        <5>3. /\ m \in K \cup {0} /\ m \in Nat
              /\ m = 0 => \A j \in K : j <= k
              /\ m # 0 => k < m /\ \A j \in K : j <= k \/ m <= j
          BY <1>1, <5>1, ListedParts
        <5> HIDE DEF m
        <5>4. CASE k < c
          <6>1. c \in K
            BY <1>2, <4>3, <5>1, <5>4
          <6>2. m # 0 /\ m <= c
            BY <1>4, <5>1, <5>3, <5>4, <6>1
          <6>3. m <= key
            BY <1>1, <1>2, <1>4, <5>3, <6>2
          <6> QED BY <5>2, <5>3, <6>2, <6>3
        <5>5. CASE c < k
          <6>1. k \in K
            BY <1>1, <1>2, <1>4, <5>1, <5>5
          <6>2. n # 0 /\ n <= k
            BY <1>4, <5>1, <5>5, <6>1
          <6>3. key <= k
            BY <1>1, <1>2, <1>4, <5>1, <6>2
          <6> QED BY <1>1, <5>2, <5>3, <6>3
        <5> QED BY <1>4, <4>3, <5>1, <5>4, <5>5
      <4> QED BY <4>1, <4>2, <4>3
    <3> HIDE DEF L
    <3> QED BY <1>6, <2>4, <3>1 DEF Listed
  <2>6. AmountsOf(h, L) = [AmountsOf(nodes, K) EXCEPT ![key] = @ + amount]
    <3>1. ASSUME NEW w \in Weeks
          PROVE  AmountsOf(h, L)[w] = IF w = key THEN AmountsOf(nodes, K)[w] + amount
                                      ELSE AmountsOf(nodes, K)[w]
      <4>1. h[w].amount = IF w = key THEN amount ELSE nodes[w].amount
        BY <2>1, <2>3, <2>4
      <4> QED BY <2>2, <2>4, <1>1, <4>1, AmountsTyped
    <3>2. AmountsOf(h, L) \in [Weeks -> Int] /\ AmountsOf(nodes, K) \in [Weeks -> Int]
      BY <1>1, <2>4, AmountsTyped
    <3> QED BY <3>1, <3>2, AddedToOne
  <2>7. DueOf(h) = AmountsOf(h, L) /\ DueOf(nodes) = AmountsOf(nodes, K)
    BY <2>5, DueIs
  <2> QED BY <2>1, <2>5, <2>6, <2>7 DEF after
<1> QED BY <1>7, <1>8

\* What is due by now is paid and taken off the list.
LEMMA StartTakesOff ==
  ASSUME NEW nodes, NEW K, Listed(nodes, K), NEW target \in Nat
  PROVE  LET s == getPendingRewards(nodes, target)
             after == [nodes EXCEPT ![HEAD].nextTimestamp = s.key]
         IN  /\ Listed(after, {k \in K : target < k})
             /\ DueOf(after) = [w \in Weeks |-> IF w <= target THEN 0 ELSE DueOf(nodes)[w]]
             /\ s.amount = SumFunction([w \in {v \in Weeks : v <= target} |-> DueOf(nodes)[w]])
<1> DEFINE s == getPendingRewards(nodes, target)
           n == s.key
           after == [nodes EXCEPT ![HEAD].nextTimestamp = n]
           L == {k \in K : target < k}
           P == {k \in K : k <= target}
           early == {v \in Weeks : v <= target}
<1>1. /\ nodes \in NodesOf /\ K \subseteq Weeks /\ 0 \notin K /\ 0 \in Weeks
      /\ \A j \in K : j \in Nat /\ j > 0
  BY ListedParts
<1>2. /\ n \in K \cup {0} /\ (n # 0 => target < n)
      /\ Passed(K, s) = P
      /\ s.amount = SumFunction(AmountsOf(nodes, P))
  BY PendingWalks
<1>3. \A w \in Weeks : nodes[w] \in Node /\ nodes[w].amount \in Nat /\ nodes[w].nextTimestamp \in Weeks
  BY <1>1, NodesTyped
<1>4. \A j \in K : j <= target <=> (n = 0 \/ j < n)
  BY <1>2 DEF Passed
<1> HIDE DEF s
<1>5. /\ after \in NodesOf /\ after[0].nextTimestamp = n
      /\ \A w \in Weeks : after[w].amount = nodes[w].amount
      /\ \A w \in Weeks \ {0} : after[w] = nodes[w]
  <2> HIDE DEF n
  <2> QED BY <1>1, <1>2, <1>3 DEF NodesOf, Node, HEAD
<1> HIDE DEF after, n
<1>6. Listed(after, L)
  <2>1. ASSUME NEW k \in L \cup {0}
        PROVE  \/ after[k].nextTimestamp = 0 /\ \A j \in L : j <= k
               \/ /\ after[k].nextTimestamp \in L /\ k < after[k].nextTimestamp
                  /\ \A j \in L : j <= k \/ after[k].nextTimestamp <= j
    <3>1. CASE k = 0
      <4>1. after[k].nextTimestamp = n
        BY <1>5, <3>1
      <4>2. CASE n = 0
        <5>1. L = {}
          BY <1>1, <1>4, <4>2
        <5> QED BY <4>1, <4>2, <5>1
      <4>3. CASE n # 0
        <5>1. n \in L /\ n > 0
          BY <1>1, <1>2, <4>3
        <5>2. \A j \in L : n <= j
          BY <1>1, <1>4, <5>1
        <5> QED BY <3>1, <4>1, <5>1, <5>2
      <4> QED BY <4>2, <4>3
    <3>2. CASE k # 0
      <4> DEFINE m == nodes[k].nextTimestamp
      <4>1. k \in K /\ k \in Weeks \ {0} /\ target < k /\ k \in Nat
        BY <1>1, <3>2
      <4>2. after[k].nextTimestamp = m
        BY <1>5, <4>1
      <4>3. /\ m \in K \cup {0}
            /\ m = 0 => \A j \in K : j <= k
            /\ m # 0 => k < m /\ \A j \in K : j <= k \/ m <= j
        BY <4>1, ListedParts
      <4> HIDE DEF m
      <4>4. m # 0 => m \in L
        BY <1>1, <4>1, <4>3
      <4> QED BY <4>2, <4>3, <4>4
    <3> QED BY <3>1, <3>2
  <2>2. L \subseteq Weeks \ {0}
    BY <1>1
  <2> HIDE DEF L
  <2> QED BY <1>5, <2>1, <2>2 DEF Listed
<1>7. DueOf(after) = [w \in Weeks |-> IF w <= target THEN 0 ELSE DueOf(nodes)[w]]
  <2>1. DueOf(after) = AmountsOf(after, L) /\ DueOf(nodes) = AmountsOf(nodes, K)
    BY <1>6, DueIs
  <2>2. ASSUME NEW w \in Weeks
        PROVE  AmountsOf(after, L)[w] = IF w <= target THEN 0 ELSE AmountsOf(nodes, K)[w]
    <3>1. w \in Nat
      BY WeeksAre
    <3> QED BY <1>1, <1>5, <3>1, AmountsTyped
  <2>3. AmountsOf(after, L) = [w \in Weeks |-> AmountsOf(after, L)[w]]
    BY DEF AmountsOf
  <2> QED BY <2>1, <2>2, <2>3
<1>8. s.amount = SumFunction([w \in early |-> DueOf(nodes)[w]])
  <2> DEFINE f == AmountsOf(nodes, P)
             h == [w \in early |-> DueOf(nodes)[w]]
  <2>1. DueOf(nodes) = AmountsOf(nodes, K)
    BY DueIs
  <2>2. f \in [Weeks -> Int] /\ AmountsOf(nodes, K) \in [Weeks -> Int]
    BY <1>1, AmountsTyped
  <2>3. h \in [early -> Int]
    BY <2>1, <2>2
  <2>4. \A w \in early : h[w] = f[w]
    BY <1>1, <2>1, AmountsTyped
  <2>5. \A w \in Weeks \ early : f[w] = 0
    BY <1>1, AmountsTyped
  <2>6. early \in SUBSET Weeks /\ IsFiniteSet(Weeks)
    BY WeeksAre
  <2> HIDE DEF f, h, early
  <2>7. SumFunction(h) = SumFunction(f)
    BY <2>2, <2>3, <2>4, <2>5, <2>6, SumOfPart
  <2> QED BY <1>2, <2>7 DEF f, h
<1> QED BY <1>6, <1>7, <1>8 DEF after, n, s

-----------------------------------------------------------------------------
\* What holds of the lists at any time.
ListsInOrder == \A list \in RewardLists : \E K \in SUBSET Weeks : Listed(rewardsLists[list], K)
RewardInv ==
  /\ clock \in Nat /\ clock > 0
  /\ rewardsLists \in [RewardLists -> NodesOf]
  /\ ListsInOrder

\* The mapping, at once for all lists.
DueNow == [list \in RewardLists |-> DueOf(rewardsLists[list])]

\* Sums are the same there.
LEMMA SameSums == \A f : Promise!SumFunction(f) = SumFunction(f)
BY Zenon DEF Promise!SumFunction, Promise!SumFunctionOnSet, Promise!FoldFunctionOnSet, Promise!MapThenFoldSet,
             SumFunction, SumFunctionOnSet, FoldFunctionOnSet, MapThenFoldSet

LEMMA RewardsInitially == RewardsInit => RewardInv /\ Promise!ScheduleInit
<1> SUFFICES ASSUME RewardsInit PROVE RewardInv /\ Promise!ScheduleInit
  OBVIOUS
<1> DEFINE none == [w \in Weeks |-> EmptyNode]
<1>1. clock \in Nat /\ clock > 0
  BY WeekAssumption DEF RewardsInit, ClockInit
<1>2. /\ none \in NodesOf
      /\ \A w \in Weeks : none[w].amount = 0 /\ none[w].nextTimestamp = 0
  BY WeeksCounted DEF EmptyNode, NodesOf, Node, NULL
<1>3. rewardsLists = [list \in RewardLists |-> none]
  BY DEF RewardsInit
<1> HIDE DEF none
<1>4. Listed(none, {})
  BY <1>2, WeeksCounted DEF Listed
<1>5. DueOf(none) = [w \in Weeks |-> 0]
  <2>1. DueOf(none) = AmountsOf(none, {})
    BY <1>4, DueIs
  <2> QED BY <2>1 DEF AmountsOf
<1>6. RewardInv
  <2>1. \A list \in RewardLists : rewardsLists[list] = none
    BY <1>3
  <2>2. {} \in SUBSET Weeks
    OBVIOUS
  <2>3. ListsInOrder
    BY <1>4, <2>1, <2>2 DEF ListsInOrder
  <2> QED BY <1>1, <1>2, <1>3, <2>3 DEF RewardInv
<1>7. DueNow = [list \in RewardLists |-> [w \in Weeks |-> 0]]
  BY <1>3, <1>5 DEF DueNow
<1>8. Promise!ScheduleInit
  <2>1. [list \in RewardLists |-> DueOf(rewardsLists[list])]
          = [list \in RewardLists |-> [w \in Promise!Weeks |-> 0]]
    BY <1>7, Zenon DEF DueNow, Promise!Weeks, Weeks
  <2>2. held = [token \in Promise!RewardTokens |-> 0] /\ received = [list \in RewardLists |-> 0]
    BY Zenon DEF RewardsInit, Promise!RewardTokens, RewardTokens, Promise!tokenOf, tokenOf
  <2> QED BY <2>1, <2>2, Zenon DEF Promise!ScheduleInit
<1> QED BY <1>6, <1>8

LEMMA ScheduleRefines ==
  ASSUME RewardInv, NEW list \in RewardLists, NEW amount \in RewardAmounts, NEW time \in Weeks,
         scheduleDistribution(list, amount, time)
  PROVE  RewardInv' /\ Promise!ScheduleNext
<1> DEFINE nodes == rewardsLists[list]
           after == insertReward(nodes, time, amount)
<1>1. PICK K \in SUBSET Weeks : Listed(nodes, K)
  BY DEF RewardInv, ListsInOrder
<1>2. /\ clock \in Nat /\ clock > 0 /\ time \in Nat /\ clock <= time
      /\ amount \in Nat /\ MaxAhead \in Nat /\ time - clock <= MaxAhead
  BY RewardsAssumption, WeeksAre DEF RewardInv, scheduleDistribution
<1>0. time > 0
  BY <1>2
<1>3. /\ Listed(after, K \cup {time})
      /\ DueOf(after) = [DueOf(nodes) EXCEPT ![time] = @ + amount]
  BY <1>0, <1>1, <1>2, InsertAdds
<1>4. /\ rewardsLists' = [rewardsLists EXCEPT ![list] = after]
      /\ held' = [held EXCEPT ![tokenOf(list)] = @ + amount]
      /\ UNCHANGED <<clock, received>>
  BY DEF scheduleDistribution
<1>5. rewardsLists \in [RewardLists -> NodesOf]
  BY DEF RewardInv
<1> HIDE DEF after
<1>6. rewardsLists'[list] = after /\ \A l \in RewardLists \ {list} : rewardsLists'[l] = rewardsLists[l]
  BY <1>4, <1>5
<1>7. RewardInv'
  <2>1. after \in NodesOf
    BY <1>3 DEF Listed
  <2>2. rewardsLists' \in [RewardLists -> NodesOf]
    BY <1>4, <1>5, <2>1
  <2>3. ASSUME NEW l \in RewardLists PROVE \E L \in SUBSET Weeks : Listed(rewardsLists'[l], L)
    <3>1. CASE l = list
      <4>1. K \cup {time} \in SUBSET Weeks
        OBVIOUS
      <4> QED BY <1>3, <1>6, <3>1, <4>1
    <3>2. CASE l # list
      BY <1>6, <3>2 DEF RewardInv, ListsInOrder
    <3> QED BY <3>1, <3>2
  <2> QED BY <1>2, <1>4, <2>2, <2>3 DEF RewardInv, ListsInOrder
<1>8. DueNow' = [DueNow EXCEPT ![list][time] = @ + amount]
  <2>1. \A l \in RewardLists : DueNow[l] = DueOf(rewardsLists[l]) /\ DueNow'[l] = DueOf(rewardsLists'[l])
    BY DEF DueNow
  <2>2. DueNow'[list] = [DueNow[list] EXCEPT ![time] = @ + amount]
    BY <1>3, <1>6, <2>1
  <2>3. \A l \in RewardLists \ {list} : DueNow'[l] = DueNow[l]
    BY <1>6, <2>1
  <2>4. DueNow = [l \in RewardLists |-> DueNow[l]] /\ DueNow' = [l \in RewardLists |-> DueNow'[l]]
    BY DEF DueNow
  <2> QED BY <2>2, <2>3, <2>4
<1>9. Promise!Schedule(list, amount, time)
  <2>1. time <= clock + MaxAhead
    BY <1>2
  <2> QED BY <1>2, <1>4, <1>8, <2>1, Zenon DEF Promise!Schedule, DueNow, Promise!tokenOf, tokenOf
<1>10. time \in Promise!Weeks
  BY Zenon DEF Promise!Weeks, Weeks
<1> QED BY <1>7, <1>9, <1>10, Zenon DEF Promise!ScheduleNext

LEMMA StartRefines ==
  ASSUME RewardInv, NEW lists \in SUBSET RewardLists, startAll(lists)
  PROVE  RewardInv' /\ Promise!ScheduleNext
<1> DEFINE started == [list \in RewardLists |-> getPendingRewards(rewardsLists[list], clock)]
           paid == [list \in RewardLists |-> IF list \in lists THEN started[list].amount ELSE 0]
           after(list) == [rewardsLists[list] EXCEPT ![HEAD].nextTimestamp = started[list].key]
<1>1. clock \in Nat /\ clock > 0 /\ rewardsLists \in [RewardLists -> NodesOf]
  BY DEF RewardInv
<1>2. /\ rewardsLists' = [list \in RewardLists |->
                            IF list \in lists THEN after(list) ELSE rewardsLists[list]]
      /\ held' = [token \in RewardTokens |->
           held[token] - SumFunction([list \in {l \in RewardLists : tokenOf(l) = token} |-> paid[list]])]
      /\ received' = [list \in RewardLists |-> received[list] + paid[list]]
      /\ UNCHANGED clock
  BY Zenon DEF startAll
<1>3. ASSUME NEW list \in RewardLists
      PROVE  /\ \E L \in SUBSET Weeks : Listed(after(list), L)
             /\ DueOf(after(list)) = [w \in Weeks |-> IF w <= clock THEN 0 ELSE DueOf(rewardsLists[list])[w]]
             /\ started[list].amount
                  = SumFunction([w \in {v \in Weeks : v <= clock} |-> DueOf(rewardsLists[list])[w]])
  <2>1. PICK K \in SUBSET Weeks : Listed(rewardsLists[list], K)
    BY DEF RewardInv, ListsInOrder
  <2>2. started[list] = getPendingRewards(rewardsLists[list], clock)
    OBVIOUS
  <2>3. {k \in K : clock < k} \in SUBSET Weeks
    OBVIOUS
  <2> DEFINE nodes == rewardsLists[list]
             s == getPendingRewards(nodes, clock)
             done == [nodes EXCEPT ![HEAD].nextTimestamp = s.key]
  <2>4. /\ Listed(done, {k \in K : clock < k})
        /\ DueOf(done) = [w \in Weeks |-> IF w <= clock THEN 0 ELSE DueOf(nodes)[w]]
        /\ s.amount = SumFunction([w \in {v \in Weeks : v <= clock} |-> DueOf(nodes)[w]])
    <3>1. Listed(nodes, K) /\ clock \in Nat
      BY <1>1, <2>1
    <3> HIDE DEF nodes
    <3> QED BY <3>1, StartTakesOff
  <2>5. after(list) = done
    BY <2>2
  <2> HIDE DEF started, after, done
  <2> QED BY <2>2, <2>3, <2>4, <2>5
<1> HIDE DEF after
<1>4. RewardInv'
  <2>1. ASSUME NEW list \in RewardLists
        PROVE  \E L \in SUBSET Weeks : Listed(rewardsLists'[list], L)
    <3>1. CASE list \in lists
      <4>1. rewardsLists'[list] = after(list)
        BY <1>2, <3>1
      <4> QED BY <1>3, <4>1
    <3>2. CASE list \notin lists
      <4>1. rewardsLists'[list] = rewardsLists[list]
        BY <1>2, <3>2
      <4> QED BY <4>1 DEF RewardInv, ListsInOrder
    <3> QED BY <3>1, <3>2
  <2>2. \A list \in RewardLists : rewardsLists'[list] \in NodesOf
    BY <2>1 DEF Listed
  <2>3. rewardsLists' \in [RewardLists -> NodesOf]
    <3>1. rewardsLists' = [list \in RewardLists |-> rewardsLists'[list]]
      BY <1>2
    <3> QED BY <2>2, <3>1
  <2> QED BY <1>1, <1>2, <2>1, <2>3 DEF RewardInv, ListsInOrder
<1>5. \A list \in RewardLists : DueNow[list] = DueOf(rewardsLists[list])
  BY DEF DueNow
<1>6. DueNow' = [list \in RewardLists |-> [w \in Weeks |->
                   IF list \in lists /\ w <= clock THEN 0 ELSE DueNow[list][w]]]
  <2>1. ASSUME NEW list \in RewardLists
        PROVE  DueOf(rewardsLists'[list])
                 = [w \in Weeks |-> IF list \in lists /\ w <= clock THEN 0 ELSE DueNow[list][w]]
    <3>1. CASE list \in lists
      <4>1. rewardsLists'[list] = after(list)
        BY <1>2, <3>1
      <4> QED BY <1>3, <1>5, <3>1, <4>1
    <3>2. CASE list \notin lists
      <4>1. rewardsLists'[list] = rewardsLists[list]
        BY <1>2, <3>2
      <4>2. DueNow[list] = [w \in Weeks |-> DueNow[list][w]]
        BY <1>5 DEF DueOf
      <4> QED BY <1>5, <3>2, <4>1, <4>2
    <3> QED BY <3>1, <3>2
  <2> QED BY <2>1 DEF DueNow
<1>7. paid = [list \in RewardLists |-> IF list \in lists
                THEN SumFunction([w \in {v \in Weeks : v <= clock} |-> DueNow[list][w]]) ELSE 0]
  <2> HIDE DEF started
  <2> QED BY <1>3, <1>5
<1> HIDE DEF started, paid
<1>8. Promise!Start(lists)
  <2>1. paid = [list \in RewardLists |-> IF list \in lists THEN Promise!payable(list) ELSE 0]
    <3>1. \A list \in RewardLists : Promise!payable(list) =
            SumFunction([w \in {v \in Weeks : v <= clock} |-> DueNow[list][w]])
      BY SameSums, Zenon DEF Promise!payable, DueNow, Promise!Weeks, Weeks
    <3> QED BY <1>7, <3>1
  <2>2. received' = [list \in RewardLists |-> received[list] + paid[list]]
    BY <1>2
  <2>3. held' = [token \in Promise!RewardTokens |->
           held[token] - SumFunction([list \in Promise!RewardsOf(token) |-> paid[list]])]
    BY <1>2, Zenon DEF Promise!RewardTokens, RewardTokens, Promise!RewardsOf, Promise!tokenOf, tokenOf
  <2>4. DueNow' = [list \in RewardLists |-> [w \in Promise!Weeks |->
                     IF list \in lists /\ w <= clock THEN 0 ELSE DueNow[list][w]]]
    BY <1>6, Zenon DEF Promise!Weeks, Weeks
  <2> DEFINE pays == [list \in RewardLists |-> IF list \in lists THEN Promise!payable(list) ELSE 0]
  <2>5. /\ received' = [list \in RewardLists |-> received[list] + pays[list]]
        /\ held' = [token \in Promise!RewardTokens |->
             held[token] - Promise!SumFunction([list \in Promise!RewardsOf(token) |-> pays[list]])]
    BY <2>1, <2>2, <2>3, SameSums
  <2> QED BY <2>4, <2>5, Zenon DEF Promise!Start, DueNow
<1> QED BY <1>4, <1>8, Zenon DEF Promise!ScheduleNext

LEMMA RewardsRest ==
  ASSUME RewardInv, UNCHANGED <<rewardsLists, held, received>>, clock' \in Nat, clock' > 0
  PROVE  RewardInv' /\ Promise!ScheduleNext
<1>1. RewardInv'
  BY DEF RewardInv, ListsInOrder
<1>2. DueNow' = DueNow
  BY DEF DueNow
<1>3. UNCHANGED <<received, held>> /\ DueNow' = DueNow
  BY <1>2
<1>4. Promise!RewardsWait
  BY <1>3 DEF Promise!RewardsWait, Promise!scheduleVars, DueNow
<1> QED BY <1>1, <1>4, Zenon DEF Promise!ScheduleNext

LEMMA RewardsStep ==
  RewardInv /\ [RewardsNext]_rewardVars => RewardInv' /\ [RewardsStay \/ Promise!ScheduleNext]_rewardVars
<1> SUFFICES ASSUME RewardInv, [RewardsNext]_rewardVars
             PROVE  RewardInv' /\ [RewardsStay \/ Promise!ScheduleNext]_rewardVars
  OBVIOUS
<1>1. ASSUME NEW list \in RewardLists, NEW amount \in RewardAmounts, NEW time \in Weeks,
             scheduleDistribution(list, amount, time)
      PROVE  RewardInv' /\ Promise!ScheduleNext
  BY <1>1, ScheduleRefines
<1>2. ASSUME NEW list \in RewardLists, startDistributionForToken(list)
      PROVE  RewardInv' /\ Promise!ScheduleNext
  <2>1. {list} \in SUBSET RewardLists /\ startAll({list})
    BY <1>2 DEF startDistributionForToken
  <2> QED BY <2>1, StartRefines
<1>3. ASSUME NEW gauge, startDistributions(gauge)
      PROVE  RewardInv' /\ Promise!ScheduleNext
  <2> DEFINE lists == {list \in RewardLists : list[1] = gauge /\ isDistributor[list]}
  <2>1. lists \in SUBSET RewardLists /\ startAll(lists)
    BY <1>3 DEF startDistributions
  <2> HIDE DEF lists
  <2> QED BY <2>1, StartRefines
<1>4. ASSUME NEW list \in RewardLists, setRewardDistributor(list)
      PROVE  RewardInv' /\ Promise!ScheduleNext
  <2>1. UNCHANGED <<rewardsLists, held, received>> /\ clock' \in Nat /\ clock' > 0
    BY <1>4 DEF setRewardDistributor, RewardInv
  <2> QED BY <2>1, RewardsRest
<1>5. ASSUME RewardTick
      PROVE  RewardInv' /\ Promise!ScheduleNext
  <2>1. UNCHANGED <<rewardsLists, held, received>> /\ clock' \in Nat /\ clock' > 0
    BY <1>5 DEF RewardTick, TimePasses, RewardInv
  <2> QED BY <2>1, RewardsRest
<1>6. ASSUME UNCHANGED rewardVars
      PROVE  RewardInv' /\ Promise!ScheduleNext
  <2>1. UNCHANGED <<rewardsLists, held, received>> /\ clock' \in Nat /\ clock' > 0
    BY <1>6 DEF rewardVars, RewardInv
  <2> QED BY <2>1, RewardsRest
<1> QED BY <1>1, <1>2, <1>3, <1>4, <1>5, <1>6 DEF RewardsNext

\* Each start and schedule is one of those promised, for any gauges, tokens, amounts and
\* order of weeks.
THEOREM PromisesAreKept == RewardsSpec => SchedulerImplements
<1>1. RewardsInit => RewardInv /\ Promise!ScheduleInit
  BY RewardsInitially
<1>2. RewardInv /\ [RewardsNext]_rewardVars
        => RewardInv' /\ [RewardsStay \/ Promise!ScheduleNext]_rewardVars
  BY RewardsStep
<1> QED BY <1>1, <1>2, PTL DEF RewardsSpec, SchedulerImplements
=============================================================================
