------------------------------ MODULE StringMap ------------------------------
(* What a string dictionary of the crash reporter promises its callers         *)
(* (common/simple_string_dictionary.h): a map with room for Capacity keys.     *)
(* Storing replaces the value of a key that is present; it fails, changing     *)
(* nothing, only when the key is new and the map is full.                      *)
EXTENDS Naturals, FiniteSets

CONSTANTS Keys, Values, Nul, Capacity, Clip(_)

VARIABLES map,       \* function from the keys that are present to their values
          last       \* the last operation and whether it succeeded

Empty == [k \in {} |-> 0]
Init == map = Empty /\ last = [op |-> "none", key |-> Nul, ok |-> TRUE]

Store(k, v) ==
  /\ k \in DOMAIN map \/ Cardinality(DOMAIN map) < Capacity
  /\ map' = [x \in DOMAIN map \cup {k} |-> IF x = k THEN Clip(v) ELSE map[x]]
  /\ last' = [op |-> "set", key |-> k, ok |-> TRUE]
Refuse(k) ==
  /\ k \notin DOMAIN map /\ Cardinality(DOMAIN map) = Capacity
  /\ map' = map
  /\ last' = [op |-> "set", key |-> k, ok |-> FALSE]
Remove(k) ==
  /\ map' = [x \in DOMAIN map \ {k} |-> map[x]]
  /\ last' = [op |-> "remove", key |-> k, ok |-> k \in DOMAIN map]

Next == \E k \in Keys : Refuse(k) \/ Remove(k) \/ \E v \in Values : Store(k, v)
Spec == Init /\ [][Next]_<<map, last>>
=============================================================================
