--------------------------- MODULE StringDictionary ---------------------------
(* NonAllocatingMap, the fixed array of entries behind SimpleStringDictionary  *)
(* (common/simple_string_dictionary.h): crash keys are set in it by the        *)
(* program and walked by whoever writes them out.  An entry with an empty key  *)
(* is free.  Callers may keep the index SetKeyValue returned and set or remove *)
(* through it; an iterator may be under way while entries change.              *)
EXTENDS Naturals, FiniteSets

CONSTANTS Keys,            \* the keys callers use
          Values,          \* the values callers pass
          Nul,             \* the empty string
          NumEntries,
          ClipKey(_),      \* strncpy into key[KeySize], the last byte cut
          Clip(_)          \* strncpy into value[ValueSize], the last byte cut

ASSUME DictionaryAssumption == NumEntries \in Nat /\ Nul \notin Keys

VARIABLES entries,         \* entries_
          last,            \* the last operation and what it returned
          held,            \* held[k]: the index a caller keeps for k, or NumEntries
          current,         \* the iterator's current_
          visited,         \* visited[k]: how often it returned k
          stable           \* the keys that are present since it was made
vars == <<entries, last, held, current, visited, stable>>

Ids == 0 .. NumEntries - 1
Free == [key |-> Nul, value |-> Nul]
is_active(e) == e.key # Nul
\* The first index of a set, NumEntries when there is none.
FirstOf(S) == IF S = {} THEN NumEntries ELSE CHOOSE i \in S : \A j \in S : i <= j
\* strncmp over KeySize bytes: a stored key is shorter than KeySize, so it
\* equals the key only as a whole.
IndexIn(list, k) == FirstOf({i \in Ids : list[i].key = k})
GetEntryIndexForKey(k) == IndexIn(entries, k)
GetValueForKey(k) == entries[GetEntryIndexForKey(k)].value
ActiveIn(list) == {list[i].key : i \in {j \in Ids : is_active(list[j])}}

Init == /\ entries = [i \in Ids |-> Free]
        /\ last = [op |-> "none", key |-> Nul, ok |-> TRUE]
        /\ held = [k \in Keys |-> NumEntries]
        /\ current = 0 /\ visited = [k \in Keys |-> 0] /\ stable = {}
-----------------------------------------------------------------------------
\* Where SetKeyValue stores: the entry of the key, or the first free one, or
\* nowhere; and the mutant that looks for a free entry first.
FreeIn(list) == FirstOf({i \in Ids : ~is_active(list[i])})
SlotForFreeFirst(list, k) == IF FreeIn(list) # NumEntries THEN FreeIn(list) ELSE IndexIn(list, k)
SlotFor(list, k) == IF IndexIn(list, k) = NumEntries THEN FreeIn(list) ELSE IndexIn(list, k)
SetIn(list, k, v) ==
  IF SlotFor(list, k) = NumEntries THEN list
  ELSE [list EXCEPT ![SlotFor(list, k)] =
          [key |-> IF is_active(@) THEN @.key ELSE ClipKey(k), value |-> Clip(v)]]
\* SetKeyValue with a value.
SetKeyValue(k, v) ==
  /\ entries' = SetIn(entries, k, v)
  /\ last' = [op |-> "set", key |-> k, ok |-> SlotFor(entries, k) # NumEntries]
  /\ held' = [held EXCEPT ![k] = SlotFor(entries, k)]
  /\ UNCHANGED <<current, visited, stable>>

\* SetValueAtIndex with the index kept for k.
SetValueAtIndex(k, v) ==
  /\ held[k] < NumEntries
  /\ entries' = [entries EXCEPT ![held[k]].value = Clip(v)]
  /\ last' = [op |-> "set", key |-> k, ok |-> TRUE]
  /\ UNCHANGED <<held, current, visited, stable>>

\* RemoveAtIndex: key and value become the empty string.
RemoveIn(list, i) == IF i >= NumEntries THEN list ELSE [list EXCEPT ![i] = Free]
\* The caller drops the index it kept.
RemoveAtIndex(k, i) ==
  /\ entries' = RemoveIn(entries, i)
  /\ last' = [op |-> "remove", key |-> k, ok |-> i < NumEntries]
  /\ held' = [held EXCEPT ![k] = NumEntries]
  /\ stable' = stable \ {k}
  /\ UNCHANGED <<current, visited>>
\* RemoveKey, also reached by SetKeyValue with a NULL value.
RemoveKey(k) == RemoveAtIndex(k, GetEntryIndexForKey(k))
removeHeld(k) == held[k] < NumEntries /\ RemoveAtIndex(k, held[k])
-----------------------------------------------------------------------------
\* Iterator::Next: the next active entry from current_ on, or the end.
iterate ==
  LET i == FirstOf({j \in Ids : j >= current /\ is_active(entries[j])})
  IN /\ current < NumEntries
     /\ current' = IF i = NumEntries THEN i ELSE i + 1
     /\ visited' = IF i = NumEntries THEN visited
                   ELSE [visited EXCEPT ![entries[i].key] = @ + 1]
     /\ UNCHANGED <<entries, last, held, stable>>
\* A caller starts over with a new iterator.
newIterator == /\ current = NumEntries
               /\ current' = 0 /\ visited' = [k \in Keys |-> 0]
               /\ stable' = ActiveIn(entries)
               /\ UNCHANGED <<entries, last, held>>

Next == \/ \E k \in Keys : \/ RemoveKey(k) \/ removeHeld(k)
                           \/ \E v \in Values : SetKeyValue(k, v) \/ SetValueAtIndex(k, v)
        \/ iterate \/ newIterator
Spec == Init /\ [][Next]_vars
-----------------------------------------------------------------------------
Stored == {Clip(v) : v \in Values}
(* The variables hold values of their types; a free entry has no value.        *)
TypeOK == /\ entries \in [Ids -> [key : Keys, value : Stored] \cup {Free}]
          /\ last \in [op : {"none", "set", "remove"}, key : Keys \cup {Nul}, ok : BOOLEAN]
          /\ held \in [Keys -> 0 .. NumEntries]
          /\ current \in 0 .. NumEntries
          /\ visited \in [Keys -> Nat] /\ stable \in SUBSET Keys

(* "Sanity check that the key only appears once" (SetKeyValue).                *)
KeyAppearsOnce ==
  \A i, j \in Ids : is_active(entries[i]) /\ entries[i].key = entries[j].key => i = j

(* The index SetKeyValue returned names the entry of its key until the key is  *)
(* removed, whatever other keys are set or removed meanwhile                   *)
(* (SetValueAtIndex asserts that the entry is in use).                         *)
HeldIndexNamesKey ==
  \A k \in Keys : held[k] < NumEntries => entries[held[k]].key = k

(* A walk returns every key that is present throughout it exactly once,        *)
(* although other keys are set and removed between two calls of                *)
(* Iterator::Next.                                                             *)
WalkComplete ==
  \A k \in stable : /\ k \in ActiveIn(entries)
                    /\ visited[k] = IF GetEntryIndexForKey(k) < current THEN 1 ELSE 0
-----------------------------------------------------------------------------
\* The abstract map: the active entries.
map == [k \in ActiveIn(entries) |-> GetValueForKey(k)]
M == INSTANCE StringMap WITH map <- map, last <- last, Capacity <- NumEntries

(* The array of entries implements the map: every operation does to the map    *)
(* what StringMap allows, and fails only when the map is full.                 *)
ImplementsMap == M!Spec
=============================================================================
