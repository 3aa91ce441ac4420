---------------------------- MODULE SharedBeforeEach ----------------------------
(***************************************************************************)
(* The hook that tests share: it sets up the chain once, and goes back to  *)
(* a snapshot of that before each test.  Mocha runs the hooks of the       *)
(* suites around a test from the outermost in, and goes on with what is    *)
(* after a suite when there is no test of it left.                         *)
(***************************************************************************)
EXTENDS Integers, Sequences, SequencesExt

CONSTANTS Schedule,     \* of each test, in order, the hooks of the suites around it
          SharedHooks   \* those of them that are shared; the others are plain beforeEach

VARIABLES evm,          \* the state of the chain: what was done to it, in order
          taken,        \* the snapshots that the network has, from the first id
          SNAPSHOTS,    \* the ids that the hooks keep, a stack
          initialized,  \* the shared hooks that are set up
          base,         \* the chain as the outermost shared hook found it
          at            \* the test whose hooks run, how many did, and how it is going

sharedVars == <<evm, taken, SNAPSHOTS, initialized, base, at>>

\* A hook is of one suite: the tests around which it is are one after the other, and it
\* is in the same place of each, after the same hooks.
Hooks == UNION {ToSet(Schedule[i]) : i \in DOMAIN Schedule}
SuitesNested ==
  \A i, j \in DOMAIN Schedule : \A p \in DOMAIN Schedule[i], q \in DOMAIN Schedule[j] :
    i <= j /\ Schedule[i][p] = Schedule[j][q] =>
      /\ p = q
      /\ \A k \in i..j : /\ p <= Len(Schedule[k])
                        /\ \A r \in 1..p : Schedule[k][r] = Schedule[i][r]
ASSUME ScheduleAssumption ==
  /\ Schedule \in Seq(Seq(Hooks))
  /\ "none" \notin Hooks
  /\ SuitesNested

Done == at.test > Len(Schedule)
hooks == Schedule[at.test]
hook == hooks[at.hook + 1]

-----------------------------------------------------------------------------
\* Going back to a snapshot drops it, and those that were taken after it.
takeSnapshot(state, held) == Append(held, state)
revert(held, id) == SubSeq(held, 1, id - 1)

SharedInit ==
  /\ evm = <<>>
  /\ taken = <<>>
  /\ SNAPSHOTS = <<>>
  /\ initialized = {}
  /\ base = <<>>
  /\ at = [test |-> 1, hook |-> 0, failed |-> "none"]

HookRuns == ~Done /\ at.failed = "none" /\ at.hook < Len(hooks)
HookDone == at' = [at EXCEPT !.hook = @ + 1]

\* Mutant: a hook is set up on whatever the chain holds.
found_AsItIs == [state |-> evm, taken |-> taken, kept |-> SNAPSHOTS]
\* What a shared hook finds when it is set up: the state as of the hook before it, if
\* there is one, whatever was done to the chain since.
found ==
  IF SNAPSHOTS = <<>> THEN [state |-> evm, taken |-> taken, kept |-> <<>>]
  ELSE LET state == taken[Last(SNAPSHOTS)]
           again == takeSnapshot(state, revert(taken, Last(SNAPSHOTS)))
       IN  [state |-> state, taken |-> again, kept |-> Append(Front(SNAPSHOTS), Len(again))]
SetUp ==
  /\ HookRuns /\ hook \in SharedHooks \ initialized
  /\ evm' = Append(found.state, hook)
  /\ taken' = takeSnapshot(evm', found.taken)
  /\ SNAPSHOTS' = Append(found.kept, Len(taken'))
  /\ initialized' = initialized \cup {hook}
  /\ base' = IF SNAPSHOTS = <<>> THEN evm ELSE base
  /\ HookDone

GoBack ==
  /\ HookRuns /\ hook \in initialized
  /\ evm' = taken[Last(SNAPSHOTS)]
  /\ taken' = takeSnapshot(evm', revert(taken, Last(SNAPSHOTS)))
  /\ SNAPSHOTS' = Append(Front(SNAPSHOTS), Len(taken'))
  /\ UNCHANGED <<initialized, base>>
  /\ HookDone

PlainHook ==
  /\ HookRuns /\ hook \notin SharedHooks
  /\ evm' = Append(evm, hook)
  /\ UNCHANGED <<taken, SNAPSHOTS, initialized, base>>
  /\ HookDone

\* A hook that fails may have done something; the tests of its suite are left out.
FailSetUp(partly) ==
  /\ HookRuns /\ hook \in SharedHooks \ initialized
  /\ evm' = IF partly THEN Append(found.state, "part of " \o hook) ELSE found.state
  /\ taken' = found.taken
  /\ SNAPSHOTS' = found.kept
  /\ at' = [at EXCEPT !.failed = hook]
  /\ UNCHANGED <<initialized, base>>

\* A test, and after it or a failure, the ends of the suites that it is the last of.
After(i, j) ==
  LET before == UNION {ToSet(Schedule[k]) : k \in i..(j - 1)}
      rest == UNION {ToSet(Schedule[k]) : k \in j..Len(Schedule)}
      over == (before \ rest) \cap initialized
  IN  /\ SNAPSHOTS' = SubSeq(SNAPSHOTS, 1, Len(SNAPSHOTS) - Cardinality(over))
      /\ initialized' = initialized \ over
      /\ at' = [test |-> j, hook |-> 0, failed |-> "none"]
RunTest ==
  /\ ~Done /\ at.failed = "none" /\ at.hook = Len(hooks)
  /\ evm' = Append(evm, "test")
  /\ After(at.test, at.test + 1)
  /\ UNCHANGED <<taken, base>>
SkipSuite ==
  /\ ~Done /\ at.failed # "none"
  /\ \E j \in (at.test + 1)..(Len(Schedule) + 1) :
       /\ \A k \in at.test..(j - 1) : Contains(Schedule[k], at.failed)
       /\ j <= Len(Schedule) => ~Contains(Schedule[j], at.failed)
       /\ After(at.test, j)
  /\ UNCHANGED <<evm, taken, base>>

SharedNext ==
  SetUp \/ GoBack \/ PlainHook \/ (\E partly \in BOOLEAN : FailSetUp(partly)) \/ RunTest \/ SkipSuite

SharedSpec == SharedInit /\ [][SharedNext]_sharedVars

-----------------------------------------------------------------------------
\* The shared ones of the first n hooks of a list, in their order, for each n.
sharedAmong(list) ==
  LET among[n \in 0..Len(list)] ==
        IF n = 0 THEN <<>>
        ELSE IF list[n] \in SharedHooks THEN Append(among[n - 1], list[n]) ELSE among[n - 1]
  IN  among

\* The hooks act as if each of them was run before every test: a test finds the chain as
\* the outermost shared hook found it, with what the shared hooks around the test, in
\* their order, have done since, and then the plain hooks after the last of them.
\* Nothing is left of other tests and suites, or of a hook that failed in one of them;
\* nor of the plain hooks before the last shared one.
ActsAsBeforeEach ==
  ~Done /\ at.failed = "none" /\ at.hook = Len(hooks) /\ ToSet(hooks) \cap SharedHooks # {} =>
    LET last == CHOOSE i \in DOMAIN hooks :
                  hooks[i] \in SharedHooks /\ \A j \in (i + 1)..Len(hooks) : hooks[j] \notin SharedHooks
    IN  evm = base \o sharedAmong(hooks)[last] \o SubSeq(hooks, last + 1, Len(hooks))

=============================================================================
