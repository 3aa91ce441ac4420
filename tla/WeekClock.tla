-------------------------------- MODULE WeekClock --------------------------------
(***************************************************************************)
(* Time as the contracts of liquidity mining see it: block.timestamp, and  *)
(* the weeks it falls into.  Timestamps are numbers of a unit of which a   *)
(* week has few.                                                           *)
(***************************************************************************)
EXTENDS Integers

CONSTANTS Week,      \* `1 weeks', in units of time
          MaxClock   \* bound

ASSUME WeekAssumption == Week \in Nat \ {0} /\ MaxClock \in Nat

VARIABLE clock  \* block.timestamp

roundDownTimestamp(t) == (t \div Week) * Week
roundUpTimestamp(t) == roundDownTimestamp(t + Week - 1)

\* The weeks there are, by the time they begin.
Weeks == {k * Week : k \in 0..(MaxClock \div Week + 1)}

\* Contracts are deployed as the second week ends.
ClockInit == clock = 2 * Week - 1
TimePasses == clock < MaxClock /\ clock' = clock + 1

=============================================================================
