----------------------------- MODULE EnumerableMap -----------------------------
(***************************************************************************)
(* solidity-utils' EnumerableMap: a mapping that can also be listed.  Its  *)
(* pairs are in the slots below _length, in no promised order, and         *)
(* _indexes gives each key's slot plus one, zero for a key that is not in  *)
(* the map.  A sequence's positions start at one, so here an index is a    *)
(* position; the slots from _length on, which are blank, are not kept.     *)
(* The functions named unchecked_... trust the index they are given.       *)
(***************************************************************************)
EXTENDS Integers, Sequences

EmptyMap(keys) == [entries |-> <<>>, indexes |-> [k \in keys |-> 0]]

contains(map, key) == map.indexes[key] # 0

\* Of a key in the map.
get(map, key) == map.entries[map.indexes[key]].value

\* A key gets a value; a new key gets the slot after the last.
set(map, key, value) ==
  IF contains(map, key)
    THEN [map EXCEPT !.entries[map.indexes[key]].value = value]
    ELSE [entries |-> Append(map.entries, [key |-> key, value |-> value]),
          indexes |-> [map.indexes EXCEPT ![key] = Len(map.entries) + 1]]

unchecked_setAt(map, i, value) ==
  IF i \in DOMAIN map.entries THEN [map EXCEPT !.entries[i].value = value] ELSE map

\* Swap and pop: the last pair moves to the slot the key leaves.
remove_NotReindexed(map, key) ==
  LET last == map.entries[Len(map.entries)]
  IN [entries |-> [i \in 1..(Len(map.entries) - 1) |->
                     IF i = map.indexes[key] THEN last ELSE map.entries[i]],
      indexes |-> [map.indexes EXCEPT ![key] = 0]]
remove(map, key) ==
  LET last == map.entries[Len(map.entries)]
  IN [entries |-> [i \in 1..(Len(map.entries) - 1) |->
                     IF i = map.indexes[key] THEN last ELSE map.entries[i]],
      indexes |-> [map.indexes EXCEPT ![last.key] = map.indexes[key], ![key] = 0]]
-----------------------------------------------------------------------------
\* What the map is to its callers: a partial function.
Keys(map) == {k \in DOMAIN map.indexes : contains(map, k)}
AsFunction(map) == [k \in Keys(map) |-> get(map, k)]

\* Slots and indices point at each other.
Consistent(map) ==
  /\ \A i \in 1..Len(map.entries) :
       /\ map.entries[i].key \in DOMAIN map.indexes
       /\ map.indexes[map.entries[i].key] = i
  /\ \A k \in Keys(map) :
       /\ map.indexes[k] \in 1..Len(map.entries)
       /\ map.entries[map.indexes[k]].key = k
=============================================================================
