----------------------------- MODULE EnumerableSet -----------------------------
(***************************************************************************)
(* solidity-utils' EnumerableSet: an array of values, and for each value   *)
(* its index plus one, here its position; zero if it is not in the set.    *)
(***************************************************************************)
EXTENDS Integers, Sequences

EmptySet(all) == [values |-> <<>>, indexes |-> [v \in all |-> 0]]

contains(s, v) == s.indexes[v] # 0

\* A value that is not in the set.
add(s, v) ==
  [values |-> Append(s.values, v),
   indexes |-> [s.indexes EXCEPT ![v] = Len(s.values) + 1]]

\* A value of the set, which the last one replaces in the array.
remove(s, v) ==
  LET last == s.values[Len(s.values)]
  IN [values |-> [i \in 1..(Len(s.values) - 1) |->
                    IF i = s.indexes[v] THEN last ELSE s.values[i]],
      indexes |-> [s.indexes EXCEPT ![last] = s.indexes[v], ![v] = 0]]
-----------------------------------------------------------------------------
Members(s) == {v \in DOMAIN s.indexes : contains(s, v)}

\* The array lists the members, each once, where its index says.
Consistent(s) ==
  /\ \A i \in 1..Len(s.values) :
       /\ s.values[i] \in DOMAIN s.indexes
       /\ s.indexes[s.values[i]] = i
  /\ \A v \in Members(s) :
       /\ s.indexes[v] \in 1..Len(s.values)
       /\ s.values[s.indexes[v]] = v
=============================================================================
