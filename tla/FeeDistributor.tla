----------------------------- MODULE FeeDistributor -----------------------------
(***************************************************************************)
(* The FeeDistributor: tokens it is given are assigned to the weeks they   *)
(* came in, and the holders of votes claim their share of each week by the *)
(* votes they had as it began.  Supplies, users and tokens are brought up  *)
(* to date separately, by anyone and at any time, each up to a cursor of   *)
(* its own and in loops that may stop before they get there.               *)
(***************************************************************************)
EXTENDS WeekClock, Sequences, FiniteSets, FiniteSetsExt, Functions

CONSTANTS Users, FeeTokens,
          Day,           \* `1 days', the end of a week
          MaxWeeks,      \* the iterations of loops over weeks, 20 in the code
          MaxSteps,      \* those over weeks and points of a user, 50 in the code
          MaxEpochs,     \* points not yet seen above which they are searched, 20
          FirstPoints,   \* of each user, when the contract is created
          Slopes,        \* of locks: votes that are lost in a unit of time
          LockEnds,      \* ends of weeks
          Gifts,         \* amounts of tokens that come in
          MaxPoints, MaxGifts  \* bounds

\* Users are finitely many.  The escrow's points are in the order they were made in, all
\* before the contract is there.
Point == [bias: Nat, slope: Nat, ts: Nat]
InOrder(history) ==
  \A i, j \in DOMAIN history : i < j => history[i].ts <= history[j].ts
ASSUME FeeAssumption ==
  /\ IsFiniteSet(Users)
  /\ Day \in Nat /\ MaxWeeks \in Nat /\ MaxSteps \in Nat \ {0} /\ MaxEpochs \in Nat
  /\ Slopes \subseteq Nat /\ LockEnds \subseteq Nat /\ Gifts \subseteq Nat
  /\ FirstPoints \in [Users -> Seq(Point)]
  /\ \A u \in Users :
       /\ InOrder(FirstPoints[u])
       /\ \A i \in DOMAIN FirstPoints[u] : FirstPoints[u][i].ts < 2 * Week

VARIABLES points,               \* user_point_history of the VotingEscrow
          startTime,            \* of the contract
          supply,               \* the time cursor and the cached supply of votes
          userState,            \* with the user's cached votes
          tokenState,           \* with the amounts of the token by week
          userTokenTimeCursor,  \* up to where a user has claimed a token
          balanceOf,            \* the contract's tokens
          claimed,              \* by user and token (no step reads it)
          gifts                 \* how often tokens came in

feeVars == <<clock, points, startTime, supply, userState, tokenState, userTokenTimeCursor,
             balanceOf, claimed, gifts>>

lesser(a, b) == IF a <= b THEN a ELSE b
greater(a, b) == IF a >= b THEN a ELSE b
NoneByWeek == [w \in Weeks |-> 0]

-----------------------------------------------------------------------------
\* The VotingEscrow: votes decrease from each point along its slope until they are gone.
\* The supply, which it keeps by points of its own, is what its users have together.
NoPoint == [bias |-> 0, slope |-> 0, ts |-> 0]
votesAt(point, t) == greater(point.bias - point.slope * (t - point.ts), 0)
PointsBy(u, t) == {i \in DOMAIN points[u] : points[u][i].ts <= t}
escrowBalanceOf(u, t) ==
  IF PointsBy(u, t) = {} THEN 0 ELSE votesAt(points[u][Max(PointsBy(u, t))], t)
totalSupply(t) == SumFunction([u \in Users |-> escrowBalanceOf(u, t)])

\* A lock ends with a week.  Without one, or after its tokens were withdrawn, a user makes
\* a new one.  One that runs is increased or prolonged, one that has ended withdrawn.
LockEnd(point) == IF point.slope = 0 THEN 0 ELSE point.ts + point.bias \div point.slope
LastPoint(u) == IF points[u] = <<>> THEN NoPoint ELSE points[u][Len(points[u])]
PointsMade == SumFunction([u \in Users |-> Len(points[u])])
pointAdded(u, bias, slope) ==
  /\ PointsMade < MaxPoints
  /\ points' = [points EXCEPT ![u] = Append(@, [bias |-> bias, slope |-> slope, ts |-> clock])]
  /\ UNCHANGED <<clock, startTime, supply, userState, tokenState, userTokenTimeCursor, balanceOf,
                 claimed, gifts>>
Lock(u, slope, end) ==
  LET last == LastPoint(u)
  IN  /\ end > clock
      /\ last.slope # 0 => /\ clock < LockEnd(last)
                           /\ slope >= last.slope /\ end >= LockEnd(last)
                           /\ (slope = last.slope) # (end = LockEnd(last))
      /\ pointAdded(u, slope * (end - clock), slope)
Withdraw(u) ==
  /\ clock >= LockEnd(LastPoint(u))
  /\ pointAdded(u, 0, 0)

-----------------------------------------------------------------------------
\* The weeks that have begun, so many at a time.
checkpointTotalSupply ==
  LET weekStart == roundDownTimestamp(clock)
      n == lesser(MaxWeeks, (weekStart - supply.timeCursor) \div Week + 1)
      next == supply.timeCursor + n * Week
  IN  IF supply.timeCursor > weekStart \/ weekStart = clock THEN supply
      ELSE [timeCursor |-> next,
            cache |-> [w \in Weeks |-> IF supply.timeCursor <= w /\ w < next THEN totalSupply(w)
                                       ELSE supply.cache[w]]]

\* Binary search for the last point by a timestamp, or the given epoch if there is none.
halved(u, timestamp, s) ==
  LET mid == (s.min + s.max + 2) \div 2
  IN  IF s.min >= s.max THEN s
      ELSE IF points[u][mid].ts <= timestamp THEN [s EXCEPT !.min = mid]
      ELSE [s EXCEPT !.max = mid - 1]
searching(u, timestamp, start) ==
  LET search[i \in 0..Len(points[u])] ==
        IF i = 0 THEN start ELSE halved(u, timestamp, search[i - 1])
  IN  search
findTimestampUserEpoch(u, timestamp, minUserEpoch, maxUserEpoch) ==
  searching(u, timestamp, [min |-> minUserEpoch, max |-> maxUserEpoch])[Len(points[u])].min

\* The epoch a checkpoint starts from: epoch 0 is empty.
firstEpoch(u) ==
  LET state == userState[u]
      max == Len(points[u])
      found == IF state.timeCursor = 0 THEN findTimestampUserEpoch(u, startTime, 0, max)
               ELSE IF max - state.lastEpochCheckpointed > MaxEpochs
               THEN findTimestampUserEpoch(u, state.timeCursor, state.lastEpochCheckpointed, max)
               ELSE state.lastEpochCheckpointed
  IN  IF found = 0 THEN 1 ELSE found

\* One iteration: to the next point if the week is not before it, else the week's votes.
userStep(u, s) ==
  LET next == IF s.epoch > Len(points[u]) THEN NoPoint ELSE points[u][s.epoch]
      votes == votesAt(s.current, s.week)
  IN  IF s.done THEN s
      ELSE IF s.week >= next.ts /\ s.epoch <= Len(points[u])
      THEN [s EXCEPT !.epoch = @ + 1, !.current = next]
      ELSE IF s.week >= clock THEN [s EXCEPT !.done = TRUE]
      ELSE IF votes = 0 /\ s.epoch > Len(points[u])
      THEN [s EXCEPT !.week = roundUpTimestamp(clock), !.done = TRUE]
      ELSE [s EXCEPT !.votes[s.week] = votes, !.week = @ + Week]

userSteps(u, start) ==
  LET loop[i \in 0..MaxSteps] == IF i = 0 THEN start ELSE userStep(u, loop[i - 1])
  IN  loop

\* Too early for a first checkpoint before anything is distributed.
CanCheckpointUser(u) == points[u] # <<>> /\ userState[u].timeCursor = 0 => clock > startTime
checkpointUserBalance(u) ==
  LET state == userState[u]
      epoch == firstEpoch(u)
      start == IF state.timeCursor = 0
               THEN greater(startTime, roundUpTimestamp(points[u][epoch].ts)) ELSE state.timeCursor
      end == userSteps(u, [week |-> start, epoch |-> epoch, current |-> NoPoint,
                           votes |-> state.votes, done |-> FALSE])[MaxSteps]
  IN  IF points[u] = <<>> \/ (state.timeCursor # 0 /\ state.timeCursor >= clock) THEN state
      ELSE [startTime |-> IF state.timeCursor = 0 THEN start ELSE state.startTime,
            timeCursor |-> end.week, lastEpochCheckpointed |-> end.epoch - 1, votes |-> end.votes]

-----------------------------------------------------------------------------
\* Mutant: the weeks before the current one are each given the time since the beginning.
tokenStep_NotAdvanced(s, new, since) ==
  LET nextWeek == s.week + Week
      elapsed == lesser(clock, nextWeek) - s.last
  IN  IF s.done THEN s
      ELSE [s EXCEPT !.perWeek[s.week] = @ + (IF since = 0 THEN new ELSE (new * elapsed) \div since),
                     !.week = nextWeek, !.done = clock < nextWeek]
\* One iteration: what came in is spread over the time since the last checkpoint.
tokenStep(s, new, since) ==
  LET nextWeek == s.week + Week
      elapsed == lesser(clock, nextWeek) - s.last
  IN  IF s.done THEN s
      ELSE [s EXCEPT !.perWeek[s.week] = @ + (IF since = 0 THEN new ELSE (new * elapsed) \div since),
                     !.week = nextWeek, !.last = nextWeek, !.done = clock < nextWeek]

tokenSteps(start, new, since) ==
  LET loop[i \in 0..MaxWeeks] == IF i = 0 THEN start ELSE tokenStep(loop[i - 1], new, since)
  IN  loop

CanCheckpointToken(state) == state.timeCursor = 0 => clock > startTime
checkpointToken(state, balance, force) ==
  LET first == state.timeCursor = 0
      last == IF first THEN clock ELSE state.timeCursor
      alreadyCheckpointedThisWeek == roundDownTimestamp(clock) = roundDownTimestamp(last)
      nearingEndOfWeek == roundUpTimestamp(clock) - clock < Day
      new == balance - state.cachedBalance
      end == tokenSteps([week |-> roundDownTimestamp(last), last |-> last,
                         perWeek |-> state.perWeek, done |-> new = 0], new, clock - last)[MaxWeeks]
  IN  IF ~first /\ ~force /\ alreadyCheckpointedThisWeek /\ ~nearingEndOfWeek THEN state
      ELSE [startTime |-> IF first THEN roundDownTimestamp(clock) ELSE state.startTime,
            timeCursor |-> clock, cachedBalance |-> balance, perWeek |-> end.perWeek]

-----------------------------------------------------------------------------
\* The first week to claim, and the first that cannot be claimed yet.
getUserTokenTimeCursor(u, t, user, token) ==
  IF userTokenTimeCursor[u][t] > 0 THEN userTokenTimeCursor[u][t]
  ELSE greater(user.startTime, token.startTime)

\* Mutant: the week is claimed that the token was last brought up to date in.
firstUnclaimableWeek_Current(votes, user, token) ==
  lesser(roundUpTimestamp(lesser(votes.timeCursor, user.timeCursor)), roundUpTimestamp(token.timeCursor))
firstUnclaimableWeek(votes, user, token) ==
  lesser(roundUpTimestamp(lesser(votes.timeCursor, user.timeCursor)), roundDownTimestamp(token.timeCursor))

share(token, w, votes, all) == (token.perWeek[w] * votes) \div all

\* What is claimed is gone from the balance as the contract knows it.  A week without
\* any votes cannot be got past.
claimWeeks(u, t, votes, user, token) ==
  LET from == getUserTokenTimeCursor(u, t, user, token)
      to == greater(from, lesser(firstUnclaimableWeek(votes, user, token), from + MaxWeeks * Week))
      weeks == {w \in Weeks : from <= w /\ w < to}
      amount == SumFunction([w \in weeks |-> share(token, w, user.votes[w], votes.cache[w])])
  IN  /\ \A w \in weeks : votes.cache[w] # 0
      /\ userTokenTimeCursor' = [userTokenTimeCursor EXCEPT ![u][t] = to]
      /\ tokenState' = [tokenState EXCEPT ![t] = [token EXCEPT !.cachedBalance = @ - amount]]
      /\ balanceOf' = [balanceOf EXCEPT ![t] = @ - amount]
      /\ claimed' = [claimed EXCEPT ![u][t] = @ + amount]

-----------------------------------------------------------------------------
\* The contract starts with the week that began, if there are votes then, or later.
FeeInit ==
  /\ ClockInit
  /\ points = FirstPoints
  /\ startTime \in {Week, 2 * Week}
  /\ startTime = Week => totalSupply(Week) > 0
  /\ supply = [timeCursor |-> startTime, cache |-> NoneByWeek]
  /\ userState = [u \in Users |-> [startTime |-> 0, timeCursor |-> 0,
                                   lastEpochCheckpointed |-> 0, votes |-> NoneByWeek]]
  /\ tokenState = [t \in FeeTokens |-> [startTime |-> 0, timeCursor |-> 0,
                                        cachedBalance |-> 0, perWeek |-> NoneByWeek]]
  /\ userTokenTimeCursor = [u \in Users |-> [t \in FeeTokens |-> 0]]
  /\ balanceOf = [t \in FeeTokens |-> 0]
  /\ claimed = [u \in Users |-> [t \in FeeTokens |-> 0]]
  /\ gifts = 0

Checkpoint ==
  /\ supply' = checkpointTotalSupply
  /\ UNCHANGED <<clock, points, startTime, userState, tokenState, userTokenTimeCursor, balanceOf,
                 claimed, gifts>>
CheckpointUser(u) ==
  /\ CanCheckpointUser(u)
  /\ userState' = [userState EXCEPT ![u] = checkpointUserBalance(u)]
  /\ UNCHANGED <<clock, points, startTime, supply, tokenState, userTokenTimeCursor, balanceOf,
                 claimed, gifts>>
CheckpointToken(t) ==
  /\ CanCheckpointToken(tokenState[t])
  /\ tokenState' = [tokenState EXCEPT ![t] = checkpointToken(@, balanceOf[t], TRUE)]
  /\ UNCHANGED <<clock, points, startTime, supply, userState, userTokenTimeCursor, balanceOf,
                 claimed, gifts>>

\* Tokens come in by a deposit, or just come in.
DepositToken(t, amount) ==
  /\ gifts < MaxGifts /\ gifts' = gifts + 1
  /\ CanCheckpointToken(tokenState[t])
  /\ balanceOf' = [balanceOf EXCEPT ![t] = @ + amount]
  /\ tokenState' = [tokenState EXCEPT ![t] =
       checkpointToken(checkpointToken(@, balanceOf[t], FALSE), balanceOf'[t], TRUE)]
  /\ UNCHANGED <<clock, points, startTime, supply, userState, userTokenTimeCursor, claimed>>
Transfer(t, amount) ==
  /\ gifts < MaxGifts /\ gifts' = gifts + 1
  /\ balanceOf' = [balanceOf EXCEPT ![t] = @ + amount]
  /\ UNCHANGED <<clock, points, startTime, supply, userState, tokenState, userTokenTimeCursor, claimed>>

\* Who may claim for a user makes no difference to what is claimed, and is left out.
ClaimToken(u, t) ==
  /\ CanCheckpointUser(u) /\ CanCheckpointToken(tokenState[t])
  /\ supply' = checkpointTotalSupply
  /\ userState' = [userState EXCEPT ![u] = checkpointUserBalance(u)]
  /\ claimWeeks(u, t, supply', userState'[u], checkpointToken(tokenState[t], balanceOf[t], FALSE))
  /\ UNCHANGED <<clock, points, startTime, gifts>>

Tick ==
  /\ TimePasses
  /\ UNCHANGED <<points, startTime, supply, userState, tokenState, userTokenTimeCursor, balanceOf,
                 claimed, gifts>>

FeeNext ==
  \/ \E u \in Users : \/ \E slope \in Slopes, end \in LockEnds : Lock(u, slope, end)
                      \/ Withdraw(u) \/ CheckpointUser(u)
                      \/ \E t \in FeeTokens : ClaimToken(u, t)
  \/ \E t \in FeeTokens : \/ CheckpointToken(t)
                          \/ \E amount \in Gifts : DepositToken(t, amount) \/ Transfer(t, amount)
  \/ Checkpoint
  \/ Tick

FeeSpec == FeeInit /\ [][FeeNext]_feeVars

-----------------------------------------------------------------------------
\* Whatever was brought up to date when and how far, and however often a user claimed:
\* what they got is, for each of the weeks they have claimed, their share of all that
\* is assigned to the week, by the votes the escrow says they and everyone had as it
\* began.  So no week is claimed before its votes are known or while it can be given
\* more, none is claimed twice, and none is skipped.
ClaimsExact ==
  \A u \in Users, t \in FeeTokens :
    claimed[u][t] =
      SumFunction([w \in {v \in Weeks : v < userTokenTimeCursor[u][t]} |->
        share(tokenState[t], w, escrowBalanceOf(u, w), greater(totalSupply(w), 1))])

\* No token is assigned twice: what the weeks were given is no more than was claimed
\* of it and what is left, which the contract does hold.
AssignedIsCovered ==
  \A t \in FeeTokens :
    /\ SumFunction(tokenState[t].perWeek)
         <= tokenState[t].cachedBalance + SumFunction([u \in Users |-> claimed[u][t]])
    /\ 0 <= tokenState[t].cachedBalance /\ tokenState[t].cachedBalance <= balanceOf[t]

=============================================================================
