------------------------ MODULE BreakpadCommonProofs ------------------------
(***************************************************************************)
(* Proofs about the containers of libbreakpad's common directory.          *)
(*                                                                         *)
(* StringDictionary, for every number of entries and every set of keys and *)
(* values: the array is a map, kept indexes stay valid, a walk is          *)
(* complete.  The inductive invariant is the conjunction of the module's   *)
(* four invariants.                                                        *)
(*                                                                         *)
(* PageAllocator, for every page size, every size of the header of a run,  *)
(* every sequence of requests and every placement by the kernel: no byte   *)
(* is handed out twice (theorem AllocatorSoundHolds).                      *)
(***************************************************************************)
EXTENDS StringDictionary, PageAllocator, FiniteSetTheorems, WellFoundedInduction, TLAPS

-----------------------------------------------------------------------------
(* StringDictionary                                                        *)

\* Callers use keys shorter than KeySize.
ShortKeys == \A k \in Keys : ClipKey(k) = k
Unique(list) == \A i, j \in Ids : is_active(list[i]) /\ list[i].key = list[j].key => i = j
Lists == [Ids -> [key : Keys, value : Stored] \cup {Free}]

(* The search loops of the dictionary end at a smallest index.                 *)
LEMMA FirstExists ==
  ASSUME NEW S \in SUBSET Ids, S # {}
  PROVE  FirstOf(S) \in S /\ \A j \in S : FirstOf(S) <= j
<1> USE Zenon
<1> DEFINE R == {p \in Nat \X Nat : p[1] < p[2]}
<1>1. IsWellFoundedOn(R, Nat)
  <2> USE DEF OpToRel
  <2> QED BY NatLessThanWellFounded
<1>2. \E x \in S : \A y \in S : ~ (<<y, x>> \in R)
  <2>1. S \subseteq Nat
    BY SMT, DictionaryAssumption DEF Ids
  <2> HIDE DEF R
  <2> QED BY <1>1, <2>1, WFMin
<1>3. PICK x \in S : \A y \in S : ~ (<<y, x>> \in R)
  BY <1>2
<1>4. \A y \in S : x <= y
  <2> SUFFICES ASSUME NEW y \in S PROVE x <= y
    OBVIOUS
  <2>1. x \in Nat /\ y \in Nat
    BY SMT, DictionaryAssumption DEF Ids
  <2>2. ~ (y < x)
    BY <1>3, <2>1
  <2> QED BY SMT, <2>1, <2>2
<1> QED BY <1>4 DEF FirstOf

(* GetEntryIndexForKey finds the entry of a key, and only that one.            *)
LEMMA IndexFacts ==
  ASSUME NEW list \in Lists, NEW k \in Keys
  PROVE  /\ IndexIn(list, k) \in 0 .. NumEntries
         /\ IndexIn(list, k) # NumEntries => /\ IndexIn(list, k) \in Ids
                                            /\ list[IndexIn(list, k)].key = k
         /\ IndexIn(list, k) = NumEntries => \A i \in Ids : list[i].key # k
         /\ Unique(list) => \A i \in Ids : list[i].key = k => IndexIn(list, k) = i
<1> USE Zenon
<1> DEFINE S == {i \in Ids : list[i].key = k}
<1>1. S \in SUBSET Ids /\ NumEntries \notin Ids
  BY SMT, DictionaryAssumption DEF Ids
<1>2. CASE S = {}
  BY SMT, <1>1, <1>2, DictionaryAssumption DEF IndexIn, FirstOf
<1>3. CASE S # {}
  <2>1. FirstOf(S) \in S
    BY <1>1, <1>3, FirstExists
  <2>2. IndexIn(list, k) = FirstOf(S)
    BY DEF IndexIn
  <2>3. Nul # k
    BY DictionaryAssumption
  <2>4. IndexIn(list, k) \in Ids /\ list[IndexIn(list, k)].key = k
    BY <2>1, <2>2
  <2>5. ASSUME Unique(list), NEW i \in Ids, list[i].key = k PROVE IndexIn(list, k) = i
    BY <2>3, <2>4, <2>5 DEF Unique, is_active
  <2> QED BY SMT, <1>1, <2>4, <2>5, DictionaryAssumption DEF Ids
<1> QED BY <1>2, <1>3

(* The search for a free entry finds one if there is one.                      *)
LEMMA FreeFacts ==
  ASSUME NEW list \in Lists
  PROVE  /\ FreeIn(list) \in 0 .. NumEntries
         /\ FreeIn(list) # NumEntries => FreeIn(list) \in Ids /\ ~is_active(list[FreeIn(list)])
         /\ FreeIn(list) = NumEntries => \A i \in Ids : is_active(list[i])
<1> USE Zenon
<1> DEFINE S == {i \in Ids : ~is_active(list[i])}
<1>1. S \in SUBSET Ids /\ NumEntries \notin Ids
  BY SMT, DictionaryAssumption DEF Ids
<1>2. CASE S = {}
  BY SMT, <1>1, <1>2, DictionaryAssumption DEF FreeIn, FirstOf
<1>3. CASE S # {}
  <2>1. FirstOf(S) \in S
    BY <1>1, <1>3, FirstExists
  <2>2. FreeIn(list) = FirstOf(S)
    BY DEF FreeIn
  <2> QED BY SMT, <1>1, <2>1, <2>2, DictionaryAssumption DEF Ids
<1> QED BY <1>2, <1>3

\* The inductive invariant.
Inv == TypeOK /\ KeyAppearsOnce /\ HeldIndexNamesKey /\ WalkComplete

(* The entry types, in the form the steps below use.                           *)
LEMMA EntryFacts ==
  ASSUME NEW list \in Lists, NEW i \in Ids
  PROVE  /\ list[i] = Free \/ list[i] \in [key : Keys, value : Stored]
         /\ is_active(list[i]) <=> list[i].key \in Keys
         /\ is_active(list[i]) => list[i] \in [key : Keys, value : Stored]
         /\ ~is_active(list[i]) => list[i] = Free
<1> USE Zenon
<1>1. list[i] = Free \/ list[i] \in [key : Keys, value : Stored]
  BY DEF Lists
<1>2. Free.key = Nul
  BY DEF Free
<1> QED BY <1>1, <1>2, DictionaryAssumption DEF is_active

(* SetKeyValue leaves a well-typed array in which every key appears once: the  *)
(* slot gets the key and the value, the others stay.                           *)
LEMMA SetFacts ==
  ASSUME ShortKeys, NEW list \in Lists, Unique(list), NEW k \in Keys, NEW v \in Values
  PROVE  LET s == SlotFor(list, k) IN
         /\ SetIn(list, k, v) \in Lists /\ Unique(SetIn(list, k, v))
         /\ s \in 0 .. NumEntries
         /\ s = NumEntries => SetIn(list, k, v) = list
         /\ s # NumEntries =>
              /\ s \in Ids
              /\ is_active(list[s]) => list[s].key = k
              /\ ~is_active(list[s]) => \A i \in Ids : list[i].key # k
              /\ SetIn(list, k, v)[s] = [key |-> k, value |-> Clip(v)]
              /\ \A i \in Ids \ {s} : SetIn(list, k, v)[i] = list[i] /\ list[i].key # k
<1> USE Zenon
<1> DEFINE s == SlotFor(list, k)
           new == SetIn(list, k, v)
<1>1. s \in 0 .. NumEntries
  BY IndexFacts, FreeFacts DEF SlotFor
<1>2. CASE s = NumEntries
  BY <1>1, <1>2 DEF SetIn
<1>3. CASE s # NumEntries
  <2>1. s \in Ids
    BY <1>3, IndexFacts, FreeFacts DEF SlotFor
  <2>2. is_active(list[s]) => list[s].key = k
    BY <1>3, IndexFacts, FreeFacts DEF SlotFor
  <2>3. ~is_active(list[s]) => \A i \in Ids : list[i].key # k
    <3> SUFFICES ASSUME ~is_active(list[s]) PROVE \A i \in Ids : list[i].key # k
      OBVIOUS
    <3>1. IndexIn(list, k) = NumEntries
      BY <1>3, IndexFacts, DictionaryAssumption DEF SlotFor, is_active
    <3> QED BY <3>1, IndexFacts
  <2>4. new = [list EXCEPT ![s] = [key |-> k, value |-> Clip(v)]]
    BY <1>3, <2>1, <2>2 DEF SetIn, ShortKeys, Lists
  <2>5. new[s] = [key |-> k, value |-> Clip(v)] /\ \A i \in Ids \ {s} : new[i] = list[i]
    BY <2>1, <2>4 DEF Lists
  <2>6. [key |-> k, value |-> Clip(v)] \in [key : Keys, value : Stored]
    BY DEF Stored
  <2>7. new \in Lists
    BY <2>4, <2>6 DEF Lists
  <2>8. \A i \in Ids \ {s} : list[i].key # k
    BY <2>1, <2>2, <2>3 DEF Unique
  <2>9. Unique(new)
    <3> SUFFICES ASSUME NEW i \in Ids, NEW j \in Ids, is_active(new[i]), new[i].key = new[j].key
                 PROVE  i = j
      BY DEF Unique
    <3>1. CASE i = s \/ j = s
      BY SMT, <3>1, <2>5, <2>8
    <3>2. CASE i # s /\ j # s
      BY <3>2, <2>5 DEF Unique
    <3> QED BY <3>1, <3>2
  <2> HIDE DEF s, new
  <2>10. QED
    BY <1>1, <1>3, <2>1, <2>2, <2>3, <2>5, <2>7, <2>8, <2>9 DEF s, new
<1> QED BY <1>2, <1>3

(* RemoveAtIndex frees one entry and leaves the others.                        *)
LEMMA RemoveFacts ==
  ASSUME NEW list \in Lists, Unique(list), NEW i \in 0 .. NumEntries
  PROVE  /\ RemoveIn(list, i) \in Lists /\ Unique(RemoveIn(list, i))
         /\ i = NumEntries => RemoveIn(list, i) = list
         /\ i # NumEntries => /\ i \in Ids
                             /\ RemoveIn(list, i)[i] = Free
                             /\ \A j \in Ids \ {i} : RemoveIn(list, i)[j] = list[j]
<1> USE Zenon
<1> DEFINE new == RemoveIn(list, i)
<1>1. CASE i = NumEntries
  BY SMT, <1>1, DictionaryAssumption DEF RemoveIn
<1>2. CASE i # NumEntries
  <2>1. i \in Ids /\ new = [list EXCEPT ![i] = Free]
    BY SMT, <1>2, DictionaryAssumption DEF RemoveIn, Ids
  <2>2. new[i] = Free /\ \A j \in Ids \ {i} : new[j] = list[j]
    BY <2>1 DEF Lists
  <2>3. new \in Lists
    BY <2>1 DEF Lists
  <2>4. ~is_active(Free)
    BY DEF Free, is_active
  <2>5. Unique(new)
    <3> SUFFICES ASSUME NEW a \in Ids, NEW b \in Ids, is_active(new[a]), new[a].key = new[b].key
                 PROVE  a = b
      BY DEF Unique
    <3>1. a # i /\ b # i
      BY <2>2, <2>4 DEF is_active
    <3> QED BY <3>1, <2>2 DEF Unique
  <2> QED BY <1>2, <2>1, <2>2, <2>3, <2>5
<1> QED BY <1>1, <1>2

(* A key is present exactly when some entry has it.                            *)
LEMMA ActiveFacts ==
  ASSUME NEW list \in Lists
  PROVE  /\ ActiveIn(list) \subseteq Keys
         /\ \A k \in Keys : k \in ActiveIn(list) <=> \E i \in Ids : list[i].key = k
<1> USE Zenon
<1>1. \A i \in Ids : is_active(list[i]) <=> list[i].key \in Keys
  BY EntryFacts
<1> QED BY <1>1 DEF ActiveIn

(* The invariant, and what a state of the program is allowed to do with it.    *)
LEMMA InitInv == Init => Inv
<1> USE Zenon
<1> SUFFICES ASSUME Init PROVE Inv
  OBVIOUS
<1>1. ~is_active(Free)
  BY DEF Free, is_active
<1>2. TypeOK
  BY SMT, DictionaryAssumption DEF Init, TypeOK
<1>3. KeyAppearsOnce /\ HeldIndexNamesKey /\ WalkComplete
  BY SMT, <1>1, DictionaryAssumption DEF Init, KeyAppearsOnce, HeldIndexNamesKey,
     WalkComplete, Ids
<1> QED BY <1>2, <1>3 DEF Inv

(* SetKeyValue keeps the invariant.                                            *)
LEMMA SetKeepsInv ==
  ASSUME ShortKeys, Inv, NEW k \in Keys, NEW v \in Values, SetKeyValue(k, v)
  PROVE  Inv'
<1> USE Zenon
<1>1. entries \in Lists /\ Unique(entries)
  BY DEF Inv, TypeOK, KeyAppearsOnce, Unique, Lists
<1>2. entries' = SetIn(entries, k, v)
  BY DEF SetKeyValue
<1>3. entries' \in Lists /\ Unique(entries')
  BY <1>1, <1>2, SetFacts
<1>4. SlotFor(entries, k) \in 0 .. NumEntries
  BY <1>1, SetFacts
<1>10. /\ SlotFor(entries, k) = NumEntries => entries' = entries
       /\ SlotFor(entries, k) # NumEntries =>
            /\ is_active(entries[SlotFor(entries, k)]) => entries[SlotFor(entries, k)].key = k
            /\ entries'[SlotFor(entries, k)] = [key |-> k, value |-> Clip(v)]
            /\ \A i \in Ids \ {SlotFor(entries, k)} : entries'[i] = entries[i]
  BY SMT, <1>1, <1>2, SetFacts
<1>5. \A i \in Ids : is_active(entries[i]) => entries'[i].key = entries[i].key
  <2> SUFFICES ASSUME NEW i \in Ids, is_active(entries[i])
               PROVE  entries'[i].key = entries[i].key
    OBVIOUS
  <2>1. CASE SlotFor(entries, k) = NumEntries
    <3>1. entries' = entries
      BY <1>10, <2>1
    <3> QED BY <3>1, Zenon
  <2>2. CASE SlotFor(entries, k) # NumEntries /\ i = SlotFor(entries, k)
    BY SMT, <1>10, <2>2
  <2>3. CASE SlotFor(entries, k) # NumEntries /\ i # SlotFor(entries, k)
    BY <1>10, <2>3
  <2> QED BY <2>1, <2>2, <2>3
<1>6. TypeOK'
  BY <1>3, <1>4 DEF Inv, TypeOK, Lists, SetKeyValue
<1>7. KeyAppearsOnce'
  BY <1>3 DEF KeyAppearsOnce, Unique
<1>8. HeldIndexNamesKey'
  <2> SUFFICES ASSUME NEW x \in Keys, held'[x] < NumEntries PROVE entries'[held'[x]].key = x
    BY DEF HeldIndexNamesKey
  <2>1. CASE x = k
    <3>1. held'[x] = SlotFor(entries, k)
      BY <2>1 DEF SetKeyValue, Inv, TypeOK
    <3>2. SlotFor(entries, k) # NumEntries
      BY SMT, <3>1, DictionaryAssumption
    <3> QED BY SMT, <1>10, <2>1, <3>1, <3>2
  <2>2. CASE x # k
    <3>1. held'[x] = held[x] /\ held[x] \in 0 .. NumEntries
      BY <2>2 DEF SetKeyValue, Inv, TypeOK
    <3>2. held[x] \in Ids /\ entries[held[x]].key = x
      BY SMT, <3>1, DictionaryAssumption DEF Inv, HeldIndexNamesKey, Ids
    <3>3. is_active(entries[held[x]])
      BY <3>2, DictionaryAssumption DEF is_active
    <3> QED BY <1>5, <3>1, <3>2, <3>3
  <2> QED BY <2>1, <2>2
<1>9. WalkComplete'
  <2> SUFFICES ASSUME NEW x \in stable
               PROVE  /\ x \in ActiveIn(entries')
                      /\ visited[x] = IF IndexIn(entries', x) < current THEN 1 ELSE 0
    BY DEF WalkComplete, SetKeyValue, GetEntryIndexForKey
  <2>1. x \in Keys /\ x \in ActiveIn(entries)
    BY DEF Inv, TypeOK, WalkComplete
  <2>2. PICK i \in Ids : entries[i].key = x
    BY <1>1, <2>1, ActiveFacts
  <2>3. entries'[i].key = x
    BY <1>5, <2>1, <2>2, DictionaryAssumption DEF is_active
  <2>4. IndexIn(entries, x) = i /\ IndexIn(entries', x) = i
    BY SMT, <1>1, <1>3, <2>1, <2>2, <2>3, IndexFacts
  <2>5. x \in ActiveIn(entries')
    BY <1>3, <2>1, <2>3, ActiveFacts
  <2> QED BY <2>4, <2>5 DEF Inv, WalkComplete, GetEntryIndexForKey
<1> QED BY <1>6, <1>7, <1>8, <1>9 DEF Inv

(* SetValueAtIndex keeps the invariant.                                        *)
LEMMA SetAtIndexKeepsInv ==
  ASSUME Inv, NEW k \in Keys, NEW v \in Values, SetValueAtIndex(k, v)
  PROVE  /\ Inv'
         /\ held[k] \in Ids /\ entries[held[k]].key = k
         /\ entries' = [entries EXCEPT ![held[k]] = [key |-> k, value |-> Clip(v)]]
<1> USE Zenon
<1>1. entries \in Lists /\ Unique(entries)
  BY DEF Inv, TypeOK, KeyAppearsOnce, Unique, Lists
<1>2. held[k] \in Ids /\ entries[held[k]].key = k
  BY SMT, DictionaryAssumption DEF Inv, TypeOK, HeldIndexNamesKey, SetValueAtIndex, Ids
<1>3. entries[held[k]] \in [key : Keys, value : Stored]
  BY <1>1, <1>2, EntryFacts
<1>4. entries' = [entries EXCEPT ![held[k]] = [key |-> k, value |-> Clip(v)]]
  <2>1. entries' = [entries EXCEPT ![held[k]] = [entries[held[k]] EXCEPT !.value = Clip(v)]]
    BY <1>1, <1>2 DEF SetValueAtIndex, Lists
  <2>2. [entries[held[k]] EXCEPT !.value = Clip(v)] = [key |-> k, value |-> Clip(v)]
    BY SMT, <1>2, <1>3
  <2> QED BY <2>1, <2>2
<1>5. entries' \in Lists
  BY <1>1, <1>4 DEF Lists, Stored
<1>6. \A i \in Ids : entries'[i].key = entries[i].key
  BY <1>1, <1>2, <1>4 DEF Lists
<1>7. Unique(entries')
  BY <1>1, <1>6 DEF Unique, is_active
<1>8. TypeOK'
  BY <1>5 DEF Inv, TypeOK, Lists, SetValueAtIndex
<1>9. KeyAppearsOnce'
  BY <1>7 DEF KeyAppearsOnce, Unique
<1>10. HeldIndexNamesKey'
  <2> SUFFICES ASSUME NEW x \in Keys, held[x] < NumEntries PROVE entries'[held[x]].key = x
    BY DEF HeldIndexNamesKey, SetValueAtIndex
  <2>1. held[x] \in Ids
    BY SMT, DictionaryAssumption DEF Inv, TypeOK, Ids
  <2> QED BY <1>6, <2>1 DEF Inv, HeldIndexNamesKey
<1>11. \A x \in Keys : IndexIn(entries', x) = IndexIn(entries, x)
  BY <1>6 DEF IndexIn
<1>12. ActiveIn(entries') = ActiveIn(entries)
  BY <1>6 DEF ActiveIn, is_active
<1>13. WalkComplete'
  BY <1>11, <1>12 DEF Inv, TypeOK, WalkComplete, GetEntryIndexForKey, SetValueAtIndex
<1> QED BY <1>2, <1>4, <1>8, <1>9, <1>10, <1>13 DEF Inv

(* RemoveKey and RemoveAtIndex through a kept index both come to an index of   *)
(* the key's entry, or to none; from there they keep the invariant.            *)
LEMMA RemoveIndex ==
  ASSUME Inv, NEW k \in Keys, RemoveKey(k) \/ removeHeld(k)
  PROVE  /\ GetEntryIndexForKey(k) \in 0 .. NumEntries
         /\ RemoveAtIndex(k, GetEntryIndexForKey(k))
<1> USE Zenon
<1>1. entries \in Lists /\ Unique(entries)
  BY DEF Inv, TypeOK, KeyAppearsOnce, Unique, Lists
<1>2. GetEntryIndexForKey(k) \in 0 .. NumEntries
  BY <1>1, IndexFacts DEF GetEntryIndexForKey
<1>3. CASE RemoveKey(k)
  BY <1>2, <1>3 DEF RemoveKey
<1>4. CASE removeHeld(k)
  <2>1. held[k] \in Ids /\ entries[held[k]].key = k
    BY SMT, <1>4, DictionaryAssumption DEF Inv, TypeOK, HeldIndexNamesKey,
       removeHeld, Ids
  <2>2. GetEntryIndexForKey(k) = held[k]
    BY SMT, <1>1, <2>1, IndexFacts DEF GetEntryIndexForKey
  <2> QED BY <1>2, <1>4, <2>2 DEF removeHeld
<1> QED BY <1>3, <1>4

(* RemoveKey() keeps the invariant: it empties the one entry of the key.       *)
LEMMA RemoveKeepsInv ==
  ASSUME Inv, NEW k \in Keys, RemoveKey(k) \/ removeHeld(k)
  PROVE  /\ Inv'
         /\ \A i \in Ids : entries[i].key # k => entries'[i] = entries[i]
         /\ \A i \in Ids : entries'[i].key # k
<1> USE Zenon
<1> DEFINE r == GetEntryIndexForKey(k)
<1>1. entries \in Lists /\ Unique(entries)
  BY DEF Inv, TypeOK, KeyAppearsOnce, Unique, Lists
<1>2. r \in 0 .. NumEntries /\ RemoveAtIndex(k, r)
  BY RemoveIndex
<1>3. entries' = RemoveIn(entries, r)
  BY <1>2 DEF RemoveAtIndex
<1>4. /\ r # NumEntries => r \in Ids /\ entries[r].key = k
      /\ r = NumEntries => \A i \in Ids : entries[i].key # k
      /\ \A i \in Ids : entries[i].key = k => r = i
  BY <1>1, IndexFacts DEF GetEntryIndexForKey
<1> HIDE DEF r
<1>5. /\ entries' \in Lists /\ Unique(entries')
      /\ r = NumEntries => entries' = entries
      /\ r # NumEntries => entries'[r] = Free /\ \A j \in Ids \ {r} : entries'[j] = entries[j]
  BY <1>1, <1>2, <1>3, RemoveFacts
<1>6. \A i \in Ids : entries[i].key # k => entries'[i] = entries[i]
  BY <1>4, <1>5
<1>7. \A i \in Ids : entries'[i].key # k
  <2>1. Free.key # k
    BY DictionaryAssumption DEF Free
  <2> QED BY <1>4, <1>5, <2>1
<1>8. TypeOK'
  <2>1. last' \in [op : {"none", "set", "remove"}, key : Keys \cup {Nul}, ok : BOOLEAN]
    BY SMT, <1>2 DEF RemoveAtIndex
  <2>2. held' \in [Keys -> 0 .. NumEntries]
    BY SMT, <1>2, DictionaryAssumption DEF Inv, TypeOK, RemoveAtIndex
  <2>3. current' \in 0 .. NumEntries /\ visited' \in [Keys -> Nat] /\ stable' \in SUBSET Keys
    BY <1>2 DEF Inv, TypeOK, RemoveAtIndex
  <2> QED BY <1>5, <2>1, <2>2, <2>3 DEF TypeOK, Lists
<1>9. KeyAppearsOnce'
  BY <1>5 DEF KeyAppearsOnce, Unique
<1>10. HeldIndexNamesKey'
  <2> SUFFICES ASSUME NEW x \in Keys, held'[x] < NumEntries PROVE entries'[held'[x]].key = x
    BY DEF HeldIndexNamesKey
  <2>1. x # k /\ held'[x] = held[x] /\ held[x] \in 0 .. NumEntries
    BY SMT, <1>2, DictionaryAssumption DEF RemoveAtIndex, Inv, TypeOK
  <2>2. held[x] \in Ids /\ entries[held[x]].key = x
    BY SMT, <2>1, DictionaryAssumption DEF Inv, HeldIndexNamesKey, Ids
  <2> QED BY <1>6, <2>1, <2>2
<1>11. WalkComplete'
  <2> SUFFICES ASSUME NEW x \in stable'
               PROVE  /\ x \in ActiveIn(entries')
                      /\ visited[x] = IF IndexIn(entries', x) < current THEN 1 ELSE 0
    BY <1>2 DEF WalkComplete, RemoveAtIndex, GetEntryIndexForKey
  <2>1. x \in stable /\ x # k /\ x \in Keys /\ x \in ActiveIn(entries)
    BY <1>2 DEF Inv, TypeOK, WalkComplete, RemoveAtIndex
  <2>2. PICK i \in Ids : entries[i].key = x
    BY <1>1, <2>1, ActiveFacts
  <2>3. entries'[i].key = x
    BY <1>6, <2>1, <2>2
  <2>4. IndexIn(entries, x) = i /\ IndexIn(entries', x) = i
    BY SMT, <1>1, <1>5, <2>1, <2>2, <2>3, IndexFacts
  <2>5. x \in ActiveIn(entries')
    BY <1>5, <2>1, <2>3, ActiveFacts
  <2> QED BY <2>1, <2>4, <2>5 DEF Inv, WalkComplete, GetEntryIndexForKey
<1> QED BY <1>6, <1>7, <1>8, <1>9, <1>10, <1>11 DEF Inv

(* Iterator::Next keeps the invariant: no active entry lies between current_   *)
(* and the entry it returns.                                                   *)
LEMMA IterateKeepsInv ==
  ASSUME Inv, iterate
  PROVE  Inv'
<1> USE Zenon
<1> DEFINE S == {j \in Ids : j >= current /\ is_active(entries[j])}
           i == FirstOf(S)
<1>1. entries \in Lists /\ Unique(entries)
  BY DEF Inv, TypeOK, KeyAppearsOnce, Unique, Lists
<1>2. /\ UNCHANGED <<entries, last, held, stable>> /\ current < NumEntries
      /\ current' = IF i = NumEntries THEN i ELSE i + 1
      /\ visited' = IF i = NumEntries THEN visited
                    ELSE [visited EXCEPT ![entries[i].key] = @ + 1]
  BY DEF iterate
<1>3. S \in SUBSET Ids
  OBVIOUS
<1>4. CASE S = {}
  <2>1. i = NumEntries
    BY <1>4 DEF FirstOf
  <2>2. current' = NumEntries /\ visited' = visited
    BY <1>2, <2>1
  <2>3. TypeOK'
    <3>1. current' \in 0 .. NumEntries
      BY SMT, <2>2, DictionaryAssumption
    <3> QED BY <1>2, <2>2, <3>1 DEF Inv, TypeOK
  <2>4. KeyAppearsOnce' /\ HeldIndexNamesKey'
    BY <1>2 DEF Inv, KeyAppearsOnce, HeldIndexNamesKey
  <2>5. WalkComplete'
    <3> SUFFICES ASSUME NEW x \in stable
                 PROVE  /\ x \in ActiveIn(entries)
                        /\ visited[x] = IF IndexIn(entries, x) < NumEntries THEN 1 ELSE 0
      BY <1>2, <2>2 DEF WalkComplete, GetEntryIndexForKey
    <3>1. x \in Keys /\ x \in ActiveIn(entries)
      BY DEF Inv, TypeOK, WalkComplete
    <3>2. PICK n \in Ids : entries[n].key = x
      BY <1>1, <3>1, ActiveFacts
    <3>3. IndexIn(entries, x) = n /\ is_active(entries[n])
      BY <1>1, <3>1, <3>2, IndexFacts, DictionaryAssumption DEF is_active
    <3>4. n < current /\ n < NumEntries
      <4>1. n \in Nat /\ n < NumEntries /\ current \in Nat
        BY SMT, DictionaryAssumption DEF Inv, TypeOK, Ids
      <4>2. ~(n >= current)
        BY <1>4, <3>3
      <4> QED BY SMT, <4>1, <4>2
    <3> QED BY <3>1, <3>3, <3>4 DEF Inv, WalkComplete, GetEntryIndexForKey
  <2> QED BY <2>3, <2>4, <2>5 DEF Inv
<1>5. CASE S # {}
  <2>1. i \in S /\ \A j \in S : i <= j
    BY <1>3, <1>5, FirstExists
  <2> DEFINE y == entries[i].key
  <2>2. i \in Ids /\ i # NumEntries /\ i >= current /\ is_active(entries[i]) /\ i \in Nat
    BY SMT, <2>1, DictionaryAssumption DEF Ids
  <2>3. y \in Keys
    BY <1>1, <2>2, EntryFacts
  <2>4. current' = i + 1 /\ visited' = [visited EXCEPT ![y] = @ + 1]
    BY <1>2, <2>2
  <2>6. \A j \in Ids : j >= current /\ is_active(entries[j]) => i <= j
    BY <2>1
  <2> HIDE DEF i, S
  <2>7. TypeOK'
    <3>1. current' \in 0 .. NumEntries
      BY SMT, <2>2, <2>4, DictionaryAssumption DEF Ids
    <3>2. visited' \in [Keys -> Nat]
      BY SMT, <2>3, <2>4 DEF Inv, TypeOK
    <3> QED BY <1>2, <3>1, <3>2 DEF Inv, TypeOK
  <2>8. KeyAppearsOnce' /\ HeldIndexNamesKey'
    BY <1>2 DEF Inv, KeyAppearsOnce, HeldIndexNamesKey
  <2>9. WalkComplete'
    <3> SUFFICES ASSUME NEW x \in stable
                 PROVE  /\ x \in ActiveIn(entries)
                        /\ visited'[x] = IF IndexIn(entries, x) < i + 1 THEN 1 ELSE 0
      BY <1>2, <2>4 DEF WalkComplete, GetEntryIndexForKey
    <3>1. x \in Keys /\ x \in ActiveIn(entries)
      BY DEF Inv, TypeOK, WalkComplete
    <3>2. PICK n \in Ids : entries[n].key = x
      BY <1>1, <3>1, ActiveFacts
    <3>3. IndexIn(entries, x) = n /\ is_active(entries[n]) /\ n \in Nat
      BY SMT, <1>1, <3>1, <3>2, IndexFacts, DictionaryAssumption DEF is_active, Ids
    <3>4. visited[x] = IF n < current THEN 1 ELSE 0
      BY <3>3 DEF Inv, WalkComplete, GetEntryIndexForKey
    <3>5. current \in Nat /\ visited \in [Keys -> Nat]
      BY SMT DEF Inv, TypeOK
    <3>6. CASE n = i
      BY SMT, <2>2, <2>4, <3>1, <3>2, <3>3, <3>4, <3>5, <3>6
    <3>7. CASE n # i
      <4>1. x # y
        BY <1>1, <2>2, <3>2, <3>7 DEF Unique
      <4>2. visited'[x] = visited[x]
        BY <2>3, <2>4, <3>1, <3>5, <4>1
      <4>3. n < current <=> n < i + 1
        BY SMT, <2>2, <2>6, <3>3, <3>5, <3>7
      <4> QED BY <3>1, <3>3, <3>4, <4>2, <4>3
    <3> QED BY <3>6, <3>7
  <2> QED BY <2>7, <2>8, <2>9 DEF Inv
<1> QED BY <1>4, <1>5

(* A new iterator keeps the invariant: nothing is visited, everything present  *)
(* is stable.                                                                  *)
LEMMA NewIteratorKeepsInv ==
  ASSUME Inv, newIterator
  PROVE  Inv'
<1> USE Zenon
<1>1. entries \in Lists
  BY DEF Inv, TypeOK, Lists
<1>2. ActiveIn(entries) \subseteq Keys
  BY <1>1, ActiveFacts
<1>3. /\ UNCHANGED <<entries, last, held>> /\ current' = 0
      /\ visited' = [k \in Keys |-> 0] /\ stable' = ActiveIn(entries)
  BY DEF newIterator
<1>4. TypeOK'
  BY SMT, <1>2, <1>3, DictionaryAssumption DEF Inv, TypeOK
<1>5. KeyAppearsOnce' /\ HeldIndexNamesKey'
  BY <1>3 DEF Inv, KeyAppearsOnce, HeldIndexNamesKey
<1>6. WalkComplete'
  <2> SUFFICES ASSUME NEW x \in ActiveIn(entries)
               PROVE  visited'[x] = IF IndexIn(entries, x) < 0 THEN 1 ELSE 0
    BY <1>3 DEF WalkComplete, GetEntryIndexForKey
  <2>1. IndexIn(entries, x) \in 0 .. NumEntries
    BY <1>1, <1>2, IndexFacts
  <2> QED BY SMT, <1>2, <1>3, <2>1
<1> QED BY <1>4, <1>5, <1>6 DEF Inv

(* Every call on the dictionary keeps the invariant, when the keys fit.        *)
LEMMA NextKeepsInv == ASSUME ShortKeys PROVE Inv /\ [Next]_vars => Inv'
<1> USE Zenon
<1> SUFFICES ASSUME Inv, [Next]_vars PROVE Inv'
  OBVIOUS
<1>1. CASE UNCHANGED vars
  BY <1>1 DEF vars, Inv, TypeOK, KeyAppearsOnce, HeldIndexNamesKey, WalkComplete,
              GetEntryIndexForKey
<1>2. ASSUME NEW k \in Keys, NEW v \in Values, SetKeyValue(k, v) PROVE Inv'
  BY <1>2, SetKeepsInv
<1>3. ASSUME NEW k \in Keys, NEW v \in Values, SetValueAtIndex(k, v) PROVE Inv'
  BY <1>3, SetAtIndexKeepsInv
<1>4. ASSUME NEW k \in Keys, RemoveKey(k) \/ removeHeld(k) PROVE Inv'
  BY <1>4, RemoveKeepsInv
<1>5. CASE iterate
  BY <1>5, IterateKeepsInv
<1>6. CASE newIterator
  BY <1>6, NewIteratorKeepsInv
<1> QED BY <1>1, <1>2, <1>3, <1>4, <1>5, <1>6 DEF Next

(* For keys that fit, every reachable state has the types, each key in one     *)
(* entry, valid kept indexes and a complete walk so far.                       *)
THEOREM DictionaryInvariant ==
  ASSUME ShortKeys
  PROVE  Spec => [](TypeOK /\ KeyAppearsOnce /\ HeldIndexNamesKey /\ WalkComplete)
<1>1. Inv /\ [Next]_vars => Inv'
  BY NextKeepsInv
<1> QED BY <1>1, InitInv, PTL DEF Spec, Inv
-----------------------------------------------------------------------------
(* The map has as many keys as there are active entries: it is full when no    *)
(* entry is free, and only then.                                               *)
LEMMA CountFacts ==
  ASSUME NEW list \in Lists, Unique(list)
  PROVE  /\ FreeIn(list) = NumEntries => Cardinality(ActiveIn(list)) = NumEntries
         /\ FreeIn(list) # NumEntries => Cardinality(ActiveIn(list)) < NumEntries
<1> USE Zenon
<1> DEFINE A == {j \in Ids : is_active(list[j])}
           f == [j \in A |-> list[j].key]
<1>1. f \in Bijection(A, ActiveIn(list))
  <2>1. f \in [A -> ActiveIn(list)]
    BY DEF ActiveIn
  <2>2. f \in Injection(A, ActiveIn(list))
    BY <2>1 DEF Injection, IsInjective, Unique
  <2>3. f \in Surjection(A, ActiveIn(list))
    BY <2>1 DEF Surjection, ActiveIn
  <2> QED BY <2>2, <2>3 DEF Bijection
<1>2. IsFiniteSet(Ids) /\ Cardinality(Ids) = NumEntries
  BY SMT, FS_Interval, DictionaryAssumption DEF Ids
<1>3. A \in SUBSET Ids
  OBVIOUS
<1> HIDE DEF A, f
<1>4. /\ IsFiniteSet(A) /\ Cardinality(A) <= NumEntries
      /\ Cardinality(A) = NumEntries => A = Ids
  BY <1>2, <1>3, FS_Subset
<1>5. ExistsBijection(A, ActiveIn(list))
  BY <1>1 DEF ExistsBijection
<1>6. Cardinality(ActiveIn(list)) = Cardinality(A) /\ Cardinality(A) \in Nat
  BY <1>4, <1>5, FS_Bijection, FS_CardinalityType
<1>7. CASE FreeIn(list) = NumEntries
  <2>1. A = Ids
    BY <1>7, FreeFacts DEF A
  <2> QED BY <1>2, <1>6, <1>7, <2>1
<1>8. CASE FreeIn(list) # NumEntries
  <2>1. A # Ids
    BY <1>8, FreeFacts DEF A
  <2> QED BY SMT, <1>4, <1>6, <1>8, <2>1, DictionaryAssumption
<1> QED BY <1>7, <1>8

(* GetValueForKey returns the value of the entry that has the key.             *)
LEMMA ValueFacts ==
  ASSUME NEW list \in Lists, Unique(list), NEW i \in Ids, NEW k \in Keys, list[i].key = k
  PROVE  k \in ActiveIn(list) /\ list[IndexIn(list, k)].value = list[i].value
<1> USE Zenon
<1>1. IndexIn(list, k) = i
  BY IndexFacts
<1> QED BY <1>1, ActiveFacts

(* Storing at index s makes the map with the new value at k.                   *)
LEMMA StoreMap ==
  ASSUME NEW old \in Lists, Unique(old), NEW new \in Lists, Unique(new),
         NEW k \in Keys, NEW w, NEW s \in Ids,
         new[s] = [key |-> k, value |-> w],
         is_active(old[s]) => old[s].key = k,
         \A i \in Ids \ {s} : new[i] = old[i] /\ old[i].key # k
  PROVE  [x \in ActiveIn(new) |-> new[IndexIn(new, x)].value]
           = [x \in ActiveIn(old) \cup {k} |->
                IF x = k THEN w ELSE old[IndexIn(old, x)].value]
<1> USE Zenon
<1>1. new[s].key = k /\ new[s].value = w
  BY SMT
<1>2. ASSUME NEW x \in Keys
      PROVE  x \in ActiveIn(new) <=> x \in ActiveIn(old) \cup {k}
  <2>1. CASE x = k
    BY <1>1, <2>1, ActiveFacts
  <2>2. CASE x # k
    <3>1. ASSUME NEW i \in Ids, new[i].key = x PROVE old[i].key = x
      BY <1>1, <2>2, <3>1
    <3>2. ASSUME NEW i \in Ids, old[i].key = x PROVE new[i].key = x
      <4>1. i # s
        BY <2>2, <3>2, DictionaryAssumption DEF is_active
      <4> QED BY <3>2, <4>1
    <3> QED BY SMT, <2>2, <3>1, <3>2, ActiveFacts
  <2> QED BY <2>1, <2>2
<1>3. ActiveIn(new) = ActiveIn(old) \cup {k}
  BY <1>2, ActiveFacts
<1>4. ASSUME NEW x \in ActiveIn(new)
      PROVE  new[IndexIn(new, x)].value = IF x = k THEN w ELSE old[IndexIn(old, x)].value
  <2>1. x \in Keys
    BY ActiveFacts
  <2>2. PICK i \in Ids : new[i].key = x
    BY <2>1, ActiveFacts
  <2>3. new[IndexIn(new, x)].value = new[i].value
    BY <2>1, <2>2, ValueFacts
  <2>4. CASE x = k
    <3>1. i = s
      BY <2>2, <2>4
    <3> QED BY <1>1, <2>3, <2>4, <3>1
  <2>5. CASE x # k
    <3>1. i # s
      BY <1>1, <2>2, <2>5
    <3>2. new[i] = old[i]
      BY <3>1
    <3>3. old[IndexIn(old, x)].value = old[i].value
      BY <2>1, <2>2, <3>2, ValueFacts
    <3> QED BY <2>3, <2>5, <3>2, <3>3
  <2> QED BY <2>4, <2>5
<1> QED BY <1>3, <1>4

(* Removing the key makes the map without it.                                  *)
LEMMA RemoveMap ==
  ASSUME NEW old \in Lists, Unique(old), NEW new \in Lists, Unique(new), NEW k \in Keys,
         \A i \in Ids : old[i].key # k => new[i] = old[i],
         \A i \in Ids : new[i].key # k,
         \A i \in Ids : old[i].key = k => ~is_active(new[i])
  PROVE  [x \in ActiveIn(new) |-> new[IndexIn(new, x)].value]
           = [x \in ActiveIn(old) \ {k} |-> old[IndexIn(old, x)].value]
<1> USE Zenon
<1>1. ASSUME NEW x \in Keys
      PROVE  x \in ActiveIn(new) <=> x \in ActiveIn(old) \ {k}
  <2>1. ASSUME NEW i \in Ids, new[i].key = x PROVE old[i].key = x /\ x # k
    BY <2>1, DictionaryAssumption DEF is_active
  <2>2. ASSUME NEW i \in Ids, old[i].key = x, x # k PROVE new[i].key = x
    BY <2>2
  <2> QED BY SMT, <2>1, <2>2, ActiveFacts
<1>2. ActiveIn(new) = ActiveIn(old) \ {k}
  BY <1>1, ActiveFacts
<1>3. ASSUME NEW x \in ActiveIn(new)
      PROVE  new[IndexIn(new, x)].value = old[IndexIn(old, x)].value
  <2>1. x \in Keys /\ x # k
    BY <1>2, ActiveFacts
  <2>2. PICK i \in Ids : new[i].key = x
    BY <2>1, ActiveFacts
  <2>3. old[i].key # k
    BY <2>1, <2>2, DictionaryAssumption DEF is_active
  <2>4. new[i] = old[i]
    BY <2>3
  <2> QED BY SMT, <2>1, <2>2, <2>4, ValueFacts
<1> QED BY <1>2, <1>3

(* The sizes StringMap speaks of are those of this module.                     *)
LEMMA SameCardinality == \A S : M!Cardinality(S) = Cardinality(S)
  BY Zenon DEF M!Cardinality, Cardinality

(* Every step of the dictionary is a step of the map.                          *)
LEMMA StepRefines ==
  ASSUME ShortKeys, Inv, Inv', [Next]_vars
  PROVE  [M!Next]_<<map, last>>
<1> USE Zenon
<1>1. entries \in Lists /\ Unique(entries) /\ entries' \in Lists /\ Unique(entries')
  BY DEF Inv, TypeOK, KeyAppearsOnce, Unique, Lists
<1>2. /\ map = [x \in ActiveIn(entries) |-> entries[IndexIn(entries, x)].value]
      /\ map' = [x \in ActiveIn(entries') |-> entries'[IndexIn(entries', x)].value]
  BY DEF map, GetValueForKey, GetEntryIndexForKey
<1>3. DOMAIN map = ActiveIn(entries)
  BY <1>2
<1>4. ASSUME UNCHANGED entries PROVE map' = map
  BY <1>2, <1>4
<1>5. CASE UNCHANGED vars
  BY <1>4, <1>5 DEF vars
<1>6. CASE iterate \/ newIterator
  BY <1>4, <1>6 DEF iterate, newIterator
<1>7. ASSUME NEW k \in Keys, NEW v \in Values, SetKeyValue(k, v) PROVE M!Next
  <2>1. entries' = SetIn(entries, k, v)
    BY <1>7 DEF SetKeyValue
  <2>2. last' = [op |-> "set", key |-> k, ok |-> SlotFor(entries, k) # NumEntries]
    BY <1>7 DEF SetKeyValue
  <2>3. CASE SlotFor(entries, k) = NumEntries
    <3>1. map' = map
      <4>1. entries' = entries
        BY <2>1, <2>3 DEF SetIn
      <4> QED BY <1>4, <4>1
    <3>2. IndexIn(entries, k) = NumEntries /\ FreeIn(entries) = NumEntries
      BY <2>3 DEF SlotFor
    <3>3. k \notin ActiveIn(entries)
      BY SMT, <1>1, <3>2, IndexFacts, ActiveFacts
    <3>4. Cardinality(ActiveIn(entries)) = NumEntries
      BY <1>1, <3>2, CountFacts
    <3>5. M!Refuse(k)
      BY <1>3, <2>2, <2>3, <3>1, <3>3, <3>4, SameCardinality DEF M!Refuse
    <3> QED BY <3>5 DEF M!Next
  <2>4. CASE SlotFor(entries, k) # NumEntries
    <3>1. /\ SlotFor(entries, k) \in Ids
          /\ is_active(entries[SlotFor(entries, k)]) => entries[SlotFor(entries, k)].key = k
          /\ entries'[SlotFor(entries, k)] = [key |-> k, value |-> Clip(v)]
          /\ \A i \in Ids \ {SlotFor(entries, k)} : entries'[i] = entries[i] /\ entries[i].key # k
      BY SMT, <1>1, <2>1, <2>4, SetFacts
    <3>2. map' = [x \in ActiveIn(entries) \cup {k} |->
                    IF x = k THEN Clip(v) ELSE entries[IndexIn(entries, x)].value]
      BY SMT, <1>1, <1>2, <3>1, StoreMap
    <3>3. map' = [x \in DOMAIN map \cup {k} |-> IF x = k THEN Clip(v) ELSE map[x]]
      BY <1>2, <1>3, <3>2
    <3>4. k \in ActiveIn(entries) \/ Cardinality(ActiveIn(entries)) < NumEntries
      <4>1. CASE IndexIn(entries, k) = NumEntries
        BY <1>1, <2>4, <4>1, CountFacts DEF SlotFor
      <4>2. CASE IndexIn(entries, k) # NumEntries
        BY SMT, <1>1, <4>2, IndexFacts, ActiveFacts
      <4> QED BY <4>1, <4>2
    <3>5. M!Store(k, v)
      BY <1>3, <2>2, <2>4, <3>3, <3>4, SameCardinality DEF M!Store
    <3> QED BY <3>5 DEF M!Next
  <2> QED BY <2>3, <2>4
<1>8. ASSUME NEW k \in Keys, NEW v \in Values, SetValueAtIndex(k, v) PROVE M!Next
  <2>1. /\ held[k] \in Ids /\ entries[held[k]].key = k
        /\ entries' = [entries EXCEPT ![held[k]] = [key |-> k, value |-> Clip(v)]]
    BY <1>8, SetAtIndexKeepsInv
  <2>2. /\ entries'[held[k]] = [key |-> k, value |-> Clip(v)]
        /\ \A i \in Ids \ {held[k]} : entries'[i] = entries[i]
    BY <1>1, <2>1 DEF Lists
  <2>3. \A i \in Ids \ {held[k]} : entries[i].key # k
    BY <1>1, <2>1, DictionaryAssumption DEF Unique, is_active
  <2>4. map' = [x \in ActiveIn(entries) \cup {k} |->
                  IF x = k THEN Clip(v) ELSE entries[IndexIn(entries, x)].value]
    <3>1. is_active(entries[held[k]]) => entries[held[k]].key = k
      BY <2>1
    <3>2. \A i \in Ids \ {held[k]} : entries'[i] = entries[i] /\ entries[i].key # k
      BY <2>2, <2>3
    <3>3. held[k] \in Ids /\ entries'[held[k]] = [key |-> k, value |-> Clip(v)]
      BY <2>1, <2>2
    <3>4. [x \in ActiveIn(entries') |-> entries'[IndexIn(entries', x)].value]
           = [x \in ActiveIn(entries) \cup {k} |->
                IF x = k THEN Clip(v) ELSE entries[IndexIn(entries, x)].value]
      BY SMT, <1>1, <3>1, <3>2, <3>3, StoreMap
    <3> QED BY <1>2, <3>4
  <2>5. map' = [x \in DOMAIN map \cup {k} |-> IF x = k THEN Clip(v) ELSE map[x]]
    BY <1>2, <1>3, <2>4
  <2>6. k \in DOMAIN map
    BY <1>1, <1>3, <2>1, ActiveFacts
  <2>7. M!Store(k, v)
    BY <1>8, <2>5, <2>6 DEF M!Store, SetValueAtIndex
  <2> QED BY <2>7 DEF M!Next
<1>9. ASSUME NEW k \in Keys, RemoveKey(k) \/ removeHeld(k) PROVE M!Next
  <2>1. /\ \A i \in Ids : entries[i].key # k => entries'[i] = entries[i]
        /\ \A i \in Ids : entries'[i].key # k
    BY <1>9, RemoveKeepsInv
  <2>2. RemoveAtIndex(k, GetEntryIndexForKey(k)) /\ GetEntryIndexForKey(k) \in 0 .. NumEntries
    BY <1>9, RemoveIndex
  <2>3. \A i \in Ids : entries[i].key = k => ~is_active(entries'[i])
    <3> SUFFICES ASSUME NEW i \in Ids, entries[i].key = k PROVE ~is_active(entries'[i])
      OBVIOUS
    <3>1. GetEntryIndexForKey(k) = i
      BY <1>1, IndexFacts DEF GetEntryIndexForKey
    <3>2. entries' = RemoveIn(entries, i)
      BY <2>2, <3>1 DEF RemoveAtIndex
    <3>3. i \in 0 .. NumEntries /\ i # NumEntries
      BY SMT, <2>2, <3>1, DictionaryAssumption DEF Ids
    <3>4. entries'[i] = Free
      BY <1>1, <3>2, <3>3, RemoveFacts
    <3> QED BY SMT, <3>4 DEF Free, is_active
  <2>4. map' = [x \in ActiveIn(entries) \ {k} |-> entries[IndexIn(entries, x)].value]
    BY SMT, <1>1, <1>2, <2>1, <2>3, RemoveMap
  <2>5. map' = [x \in DOMAIN map \ {k} |-> map[x]]
    BY <1>2, <1>3, <2>4
  <2>6. GetEntryIndexForKey(k) < NumEntries <=> k \in DOMAIN map
    <3>1. GetEntryIndexForKey(k) # NumEntries <=> k \in ActiveIn(entries)
      BY SMT, <1>1, IndexFacts, ActiveFacts DEF GetEntryIndexForKey
    <3> QED BY SMT, <1>3, <2>2, <3>1, DictionaryAssumption
  <2>7. last' = [op |-> "remove", key |-> k, ok |-> k \in DOMAIN map]
    BY SMT, <2>2, <2>6 DEF RemoveAtIndex
  <2>8. M!Remove(k)
    BY <2>5, <2>7 DEF M!Remove
  <2> QED BY <2>8 DEF M!Next
<1> QED BY <1>5, <1>6, <1>7, <1>8, <1>9 DEF Next

(* A dictionary just constructed stands for the empty map.                     *)
LEMMA InitRefines == Init => M!Init
<1> USE Zenon
<1> SUFFICES ASSUME Init PROVE M!Init
  OBVIOUS
<1>1. ActiveIn(entries) = {}
  BY DEF Init, ActiveIn, is_active, Free
<1>2. map = [k \in {} |-> 0]
  BY <1>1 DEF map
<1> QED BY <1>2 DEF Init, M!Init, M!Empty

(* For keys that fit, the array of entries implements the map of StringMap:    *)
(* SetKeyValue stores or, only when the map is full, refuses; RemoveKey        *)
(* removes; kept indexes and iterators do no harm.                             *)
THEOREM DictionaryImplementsMap == ASSUME ShortKeys PROVE Spec => ImplementsMap
<1>1. Inv /\ [Next]_vars => Inv'
  BY NextKeepsInv
<1>2. Inv /\ Inv' /\ [Next]_vars => [M!Next]_<<map, last>>
  BY StepRefines
<1> QED BY <1>1, <1>2, InitInv, InitRefines, PTL DEF Spec, ImplementsMap, M!Spec

-----------------------------------------------------------------------------
(* PageAllocator                                                           *)

\* The bytes of a run are those from RunStart to RunEnd - 1.
RunStart(r) == r.first * page_size_
RunEnd(r) == (r.first + r.num_pages) * page_size_

AllocTypeOK ==
  /\ runs \subseteq [first : Nat, num_pages : Nat \ {0}]
  /\ blocks \subseteq [start : Nat, len : Nat \ {0}]
  /\ current_page_ \in Nat /\ page_offset_ \in 0 .. page_size_ - 1
  /\ pages_allocated_ \in Nat

\* One of two runs ends where the other begins, or before.
RunsInv ==
  \A r, s \in runs : r # s => r.first + r.num_pages <= s.first \/ s.first + s.num_pages <= r.first

\* So do two blocks, and a block lies behind the header of a run.
Before(b, c) == b.start + b.len <= c.start
InRun(b, r) == RunStart(r) + Header <= b.start /\ b.start + b.len <= RunEnd(r)
BlocksInv ==
  /\ \A b, c \in blocks : b # c => Before(b, c) \/ Before(c, b)
  /\ \A b \in blocks : \E r \in runs : InRun(b, r)

\* The current page is the last of a run; from page_offset_ on, which is behind the
\* header, it holds no part of a block.
FreeFrom == current_page_ + page_offset_
FreeInv ==
  current_page_ # Nowhere =>
    \E r \in runs : /\ current_page_ + page_size_ = RunEnd(r)
                    /\ RunStart(r) + Header <= FreeFrom
                    /\ \A b \in blocks : b.start + b.len <= FreeFrom \/ RunEnd(r) <= b.start

AllPages == UNION {Pages(r) : r \in runs}
CountInv == IsFiniteSet(AllPages) /\ pages_allocated_ = Cardinality(AllPages)

\* The inductive invariant.
AllocInv == AllocTypeOK /\ RunsInv /\ BlocksInv /\ FreeInv /\ CountInv

-----------------------------------------------------------------------------
\* Multiplying by the page size keeps the order and distributes over sums.
LEMMA PageProduct ==
  ASSUME NEW a \in Nat, NEW b \in Nat
  PROVE  /\ a * page_size_ \in Nat
         /\ (a + b) * page_size_ = a * page_size_ + b * page_size_
         /\ a <= b => a * page_size_ <= b * page_size_
BY AllocatorAssumption

\* The quotient that rounds up.
LEMMA RoundUp ==
  ASSUME NEW n \in Nat \ {0}
  PROVE  LET q == (n + page_size_ - 1) \div page_size_
         IN q \in Nat \ {0} /\ (q - 1) * page_size_ < n /\ n <= q * page_size_
BY AllocatorAssumption

\* The remainder of a number that is at most the page size.
LEMMA Remainder ==
  ASSUME NEW k \in Nat, k <= page_size_
  PROVE  k % page_size_ = IF k = page_size_ THEN 0 ELSE k
BY AllocatorAssumption

\* Alloc takes the fewest pages that hold the header and the bytes, and the offset it
\* computes is the end of the bytes in the last page, unless they fill it.
LEMMA PagesNeeded ==
  ASSUME NEW bytes \in Nat \ {0}, NEW pages,
         pages = (bytes + Header + page_size_ - 1) \div page_size_
  PROVE  /\ pages \in Nat \ {0}
         /\ bytes + Header <= pages * page_size_
         /\ OffsetAfter(bytes, pages) \in 0 .. page_size_ - 1
         /\ OffsetAfter(bytes, pages) # 0 =>
              bytes + Header = (pages - 1) * page_size_ + OffsetAfter(bytes, pages)
<1> USE Zenon
<1> DEFINE n == bytes + Header
           k == n - (pages - 1) * page_size_
<1>1. n \in Nat \ {0} /\ page_size_ \in Nat \ {0}
  BY SMT, AllocatorAssumption
<1>2. pages \in Nat \ {0} /\ (pages - 1) * page_size_ < n /\ n <= pages * page_size_
  BY <1>1, RoundUp
<1>3. pages * page_size_ = (pages - 1) * page_size_ + page_size_
      /\ (pages - 1) * page_size_ \in Nat
  BY SMT, <1>1, <1>2
<1>4. k \in Nat /\ k <= page_size_ /\ k # 0
  BY SMT, <1>1, <1>2, <1>3
<1>5. page_size_ - (page_size_ * pages - n) = k
  BY SMT, <1>1, <1>2, <1>3
<1>6. OffsetAfter(bytes, pages) = k % page_size_
  BY <1>5 DEF OffsetAfter
<1>7. k % page_size_ = IF k = page_size_ THEN 0 ELSE k
  BY <1>4, Remainder
<1>. HIDE DEF k
<1>8. OffsetAfter(bytes, pages) \in 0 .. page_size_ - 1
  BY SMT, <1>1, <1>4, <1>6, <1>7
<1>9. OffsetAfter(bytes, pages) # 0 => OffsetAfter(bytes, pages) = k
  BY <1>6, <1>7
<1>. QED
  BY SMT, <1>1, <1>2, <1>3, <1>8, <1>9 DEF k

\* Runs that share no page share no byte.
LEMMA RunsApartInBytes ==
  ASSUME NEW r \in [first : Nat, num_pages : Nat \ {0}],
         NEW s \in [first : Nat, num_pages : Nat \ {0}],
         r.first + r.num_pages <= s.first
  PROVE  RunEnd(r) <= RunStart(s)
BY PageProduct DEF RunEnd, RunStart

\* Intervals of pages that do not meet lie one behind the other.
LEMMA PagesApart ==
  ASSUME NEW r \in [first : Nat, num_pages : Nat \ {0}],
         NEW s \in [first : Nat, num_pages : Nat \ {0}],
         Pages(r) \cap Pages(s) = {}
  PROVE  r.first + r.num_pages <= s.first \/ s.first + s.num_pages <= r.first
<1> USE Zenon
<1> SUFFICES ASSUME s.first < r.first + r.num_pages, r.first < s.first + s.num_pages
             PROVE  FALSE
  BY SMT
<1>1. CASE r.first <= s.first
  <2>1. s.first \in Pages(r) /\ s.first \in Pages(s)
    BY SMT, <1>1 DEF Pages
  <2>. QED
    BY <2>1
<1>2. CASE s.first < r.first
  <2>1. r.first \in Pages(r) /\ r.first \in Pages(s)
    BY SMT, <1>2 DEF Pages
  <2>. QED
    BY <2>1
<1>. QED
  BY SMT, <1>1, <1>2

-----------------------------------------------------------------------------
\* Nothing is allocated when the allocator is created, nor after FreeAll.
LEMMA EmptyInv ==
  ASSUME runs = {}, blocks = {}, current_page_ = Nowhere, page_offset_ = 0,
         pages_allocated_ = 0
  PROVE  AllocInv
<1> USE Zenon
<1>1. AllocTypeOK
  BY SMT, AllocatorAssumption DEF AllocTypeOK, Nowhere
<1>2. AllPages = {}
  BY DEF AllPages
<1>3. CountInv
  BY <1>2, FS_EmptySet DEF CountInv
<1>. QED
  BY <1>1, <1>3 DEF AllocInv, RunsInv, BlocksInv, FreeInv

\* A block from the current page comes from the part of it that is free, in front of
\* what stays free.
LEMMA HereStep ==
  ASSUME AllocInv, NEW bytes \in Sizes, allocHere(bytes)
  PROVE  AllocInv'
<1> USE Zenon
<1> DEFINE new == [start |-> FreeFrom, len |-> bytes]
<1>1. bytes \in Nat \ {0} /\ page_size_ \in Nat \ {0} /\ Header \in Nat /\ page_offset_ \in Nat
  BY SMT, AllocatorAssumption DEF allocHere, AllocInv, AllocTypeOK
<1>2. new \in [start : Nat, len : Nat \ {0}] /\ blocks' = blocks \cup {new} /\ runs' = runs
  BY SMT, <1>1 DEF allocHere, FreeFrom, AllocInv, AllocTypeOK
<1>3. /\ page_offset_ + bytes <= page_size_
      /\ page_offset_' = IF page_offset_ + bytes = page_size_ THEN 0 ELSE page_offset_ + bytes
      /\ current_page_' = IF page_offset_ + bytes = page_size_ THEN Nowhere ELSE current_page_
  <2>1. page_offset_ + bytes <= page_size_
    BY SMT, <1>1 DEF allocHere
  <2>. QED
    BY SMT, <1>1, <2>1, Remainder DEF allocHere
<1>4. AllocTypeOK'
  BY SMT, <1>1, <1>2, <1>3, AllocatorAssumption DEF AllocInv, AllocTypeOK, allocHere,
     Nowhere
<1>5. PICK r \in runs : /\ current_page_ + page_size_ = RunEnd(r)
                        /\ RunStart(r) + Header <= FreeFrom
                        /\ \A b \in blocks : b.start + b.len <= FreeFrom \/ RunEnd(r) <= b.start
  BY DEF allocHere, AllocInv, FreeInv
<1>6. FreeFrom + bytes <= RunEnd(r) /\ FreeFrom \in Nat /\ RunEnd(r) \in Nat
  BY SMT, <1>1, <1>3, <1>5 DEF FreeFrom, AllocInv, AllocTypeOK
<1>7. \A b \in blocks : Before(b, new) \/ Before(new, b)
  BY SMT, <1>1, <1>5, <1>6 DEF Before, AllocInv, AllocTypeOK
<1>8. InRun(new, r)
  BY <1>5, <1>6 DEF InRun
<1>9. BlocksInv'
  BY <1>2, <1>5, <1>7, <1>8 DEF AllocInv, BlocksInv, Before, InRun, RunStart, RunEnd
<1>10. FreeInv'
  <2> SUFFICES ASSUME current_page_' # Nowhere PROVE FreeInv'
    BY DEF FreeInv, Nowhere
  <2>1. current_page_' = current_page_ /\ FreeFrom' = FreeFrom + bytes
    BY SMT, <1>1, <1>3 DEF FreeFrom, AllocInv, AllocTypeOK
  <2>2. RunStart(r) + Header <= FreeFrom + bytes
    BY SMT, <1>1, <1>5, <1>6, PageProduct DEF RunStart, AllocInv, AllocTypeOK
  <2>3. \A b \in blocks' : b.start + b.len <= FreeFrom' \/ RunEnd(r) <= b.start
    BY SMT, <1>1, <1>2, <1>5, <1>6, <2>1 DEF AllocInv, AllocTypeOK
  <2>. QED
    BY <1>2, <1>5, <2>1, <2>2, <2>3 DEF FreeInv, RunStart, RunEnd
<1>11. RunsInv' /\ CountInv'
  BY <1>2 DEF AllocInv, RunsInv, CountInv, AllPages, Pages, allocHere
<1>. QED
  BY <1>4, <1>9, <1>10, <1>11 DEF AllocInv

\* New pages are nobody's, so that their block meets no other, and what is left of the
\* last page is behind it.
LEMMA PagesStep ==
  ASSUME AllocInv, NEW bytes \in Sizes, allocPages(bytes)
  PROVE  AllocInv'
<1> USE Zenon
<1> DEFINE pages == (bytes + Header + page_size_ - 1) \div page_size_
           left == OffsetAfter(bytes, pages)
<1>1. bytes \in Nat \ {0} /\ page_size_ \in Nat \ {0} /\ Header \in Nat /\ Space \in Nat
  BY SMT, AllocatorAssumption DEF allocPages
<1>2. /\ pages \in Nat \ {0} /\ bytes + Header <= pages * page_size_
      /\ left \in 0 .. page_size_ - 1
      /\ left # 0 => bytes + Header = (pages - 1) * page_size_ + left
  BY <1>1, PagesNeeded
<1>3. PICK first \in 0 .. Space - pages :
        LET run == [first |-> first, num_pages |-> pages]
            a   == first * page_size_
        IN /\ \A r \in runs : Pages(r) \cap Pages(run) = {}
           /\ runs' = runs \cup {run}
           /\ blocks' = blocks \cup {[start |-> BlockStart(a), len |-> bytes]}
           /\ current_page_' = IF left # 0 THEN a + page_size_ * (pages - 1) ELSE Nowhere
  BY DEF allocPages
<1>4. page_offset_' = left /\ pages_allocated_' = pages_allocated_ + pages
  BY DEF allocPages
<1> HIDE DEF pages, left
<1> DEFINE run == [first |-> first, num_pages |-> pages]
           a == first * page_size_
           new == [start |-> a + Header, len |-> bytes]
<1>5. /\ run \in [first : Nat, num_pages : Nat \ {0}]
      /\ new \in [start : Nat, len : Nat \ {0}] /\ a \in Nat
      /\ runs' = runs \cup {run} /\ blocks' = blocks \cup {new}
  BY SMT, <1>1, <1>2, <1>3, PageProduct DEF BlockStart
<1>6. RunStart(run) = a /\ RunEnd(run) = a + pages * page_size_
  BY <1>1, <1>2, <1>5, PageProduct DEF RunStart, RunEnd
<1>7. \A r \in runs : \/ r.first + r.num_pages <= run.first
                      \/ run.first + run.num_pages <= r.first
  BY <1>3, <1>5, PagesApart DEF AllocInv, AllocTypeOK
<1>8. \A r \in runs : RunEnd(r) <= RunStart(run) \/ RunEnd(run) <= RunStart(r)
  BY <1>5, <1>7, RunsApartInBytes DEF AllocInv, AllocTypeOK
<1>9. InRun(new, run)
  BY SMT, <1>1, <1>2, <1>5, <1>6, PageProduct DEF InRun
<1>10. \A b \in blocks : \/ b.start + b.len <= RunStart(run)
                         \/ RunEnd(run) <= b.start
  <2> SUFFICES ASSUME NEW b \in blocks
               PROVE  b.start + b.len <= RunStart(run) \/ RunEnd(run) <= b.start
    OBVIOUS
  <2>1. PICK r \in runs : InRun(b, r)
    BY DEF AllocInv, BlocksInv
  <2>2. b.start \in Nat /\ b.len \in Nat /\ RunStart(r) \in Nat /\ RunEnd(r) \in Nat
    BY SMT, <1>1, PageProduct DEF AllocInv, AllocTypeOK, RunStart, RunEnd
  <2>3. RunStart(run) \in Nat /\ RunEnd(run) \in Nat
    BY SMT, <1>1, <1>2, <1>5, PageProduct DEF RunStart, RunEnd
  <2>. QED
    BY SMT, <1>1, <1>8, <2>1, <2>2, <2>3 DEF InRun
<1>11. AllocTypeOK'
  BY SMT, <1>1, <1>2, <1>3, <1>4, <1>5, PageProduct DEF AllocInv, AllocTypeOK, Nowhere
<1>12. RunsInv'
  BY <1>5, <1>7 DEF AllocInv, RunsInv
<1>13. BlocksInv'
  <2>1. \A b \in blocks : Before(b, new) \/ Before(new, b)
    BY SMT, <1>1, <1>2, <1>5, <1>6, <1>9, <1>10, PageProduct
       DEF Before, InRun, AllocInv, AllocTypeOK
  <2>. QED
    BY <1>5, <1>9, <2>1 DEF AllocInv, BlocksInv, Before, InRun, RunStart, RunEnd
<1>14. FreeInv'
  <2> SUFFICES ASSUME left # 0 PROVE FreeInv'
    BY <1>3 DEF FreeInv, Nowhere
  <2>1. pages * page_size_ = (pages - 1) * page_size_ + page_size_
        /\ (pages - 1) * page_size_ \in Nat
        /\ page_size_ * (pages - 1) = (pages - 1) * page_size_
    BY SMT, <1>1, <1>2
  <2>2. current_page_' = a + (pages - 1) * page_size_ /\ page_offset_' = left
    BY <1>3, <1>4, <2>1
  <2>3. FreeFrom' = a + Header + bytes
    BY SMT, <1>1, <1>2, <1>5, <2>1, <2>2 DEF FreeFrom
  <2>4. current_page_' + page_size_ = RunEnd(run)
    BY SMT, <1>1, <1>5, <1>6, <2>1, <2>2
  <2>5. \A b \in blocks' : b.start + b.len <= FreeFrom' \/ RunEnd(run) <= b.start
    BY SMT, <1>1, <1>5, <1>6, <1>10, <2>3 DEF AllocInv, AllocTypeOK
  <2>6. RunStart(run) + Header <= FreeFrom'
    BY SMT, <1>1, <1>5, <1>6, <2>3
  <2>. QED
    BY <1>5, <2>4, <2>5, <2>6 DEF FreeInv, RunStart, RunEnd
<1>15. CountInv'
  <2>1. IsFiniteSet(Pages(run)) /\ Cardinality(Pages(run)) = pages
    <3>1. first \in Int /\ pages \in Nat \ {0} /\ first + pages - 1 \in Int
          /\ first <= first + pages - 1 /\ (first + pages - 1) - first + 1 = pages
      BY SMT, <1>2, <1>5
    <3>2. IsFiniteSet(first .. first + pages - 1)
          /\ Cardinality(first .. first + pages - 1) = pages
      BY SMT, <3>1, FS_Interval
    <3>3. Pages(run) = first .. first + pages - 1
      BY DEF Pages
    <3>. QED
      BY <3>2, <3>3
  <2>2. AllPages' = AllPages \cup Pages(run)
    BY <1>5 DEF AllPages, Pages
  <2>3. AllPages \cap Pages(run) = {}
    BY <1>3 DEF AllPages
  <2>4. IsFiniteSet(AllPages) /\ Cardinality(AllPages) \in Nat
    BY FS_CardinalityType DEF AllocInv, CountInv
  <2>5. Cardinality(AllPages \cap Pages(run)) = 0
    BY <2>3, FS_EmptySet
  <2>6. IsFiniteSet(AllPages') /\ Cardinality(AllPages') = Cardinality(AllPages) + pages
    <3>1. /\ IsFiniteSet(AllPages \cup Pages(run))
          /\ Cardinality(AllPages \cup Pages(run))
               = Cardinality(AllPages) + Cardinality(Pages(run)) - Cardinality(AllPages \cap Pages(run))
      BY <2>1, <2>4, FS_Union
    <3>. QED
      BY SMT, <1>2, <2>1, <2>2, <2>4, <2>5, <3>1
  <2>. QED
    BY <1>4, <2>6 DEF AllocInv, CountInv
<1>. QED
  BY <1>11, <1>12, <1>13, <1>14, <1>15 DEF AllocInv

\* The intervals of the invariant are the sets of bytes of the property.
LEMMA SoundByInv == AllocInv => AllocatorSound
<1> USE Zenon
<1> SUFFICES ASSUME AllocInv PROVE AllocatorSound
  OBVIOUS
<1>1. \A b \in blocks : b.start \in Nat /\ b.len \in Nat
  BY DEF AllocInv, AllocTypeOK
<1>2. \A r \in runs : /\ RunStart(r) \in Nat /\ RunStart(r) = r.first * page_size_
                      /\ RunEnd(r) = RunStart(r) + r.num_pages * page_size_
                      /\ r.num_pages * page_size_ \in Nat
  BY PageProduct DEF AllocInv, AllocTypeOK, RunStart, RunEnd
<1>3. BlocksApart
  <2>1. ASSUME NEW b \in blocks, NEW c \in blocks, b # c
        PROVE  Bytes(b.start, b.len) \cap Bytes(c.start, c.len) = {}
    BY SMT, <1>1, <2>1 DEF AllocInv, BlocksInv, Before, Bytes
  <2>2. ASSUME NEW b \in blocks
        PROVE  \E r \in runs :
                 Bytes(b.start, b.len) \subseteq
                   Bytes(r.first * page_size_ + Header, r.num_pages * page_size_ - Header)
    <3>1. PICK r \in runs : InRun(b, r)
      BY DEF AllocInv, BlocksInv
    <3>2. Bytes(b.start, b.len) \subseteq
            Bytes(r.first * page_size_ + Header, r.num_pages * page_size_ - Header)
      BY SMT, <1>1, <1>2, <3>1, AllocatorAssumption DEF InRun, Bytes
    <3>. QED
      BY <3>2
  <2>. QED
    BY <2>1, <2>2 DEF BlocksApart
<1>4. FreePartUnused
  <2>1. pages_allocated_ = Cardinality(UNION {Pages(r) : r \in runs})
    BY DEF AllocInv, CountInv, AllPages
  <2>2. ASSUME current_page_ # Nowhere, NEW b \in blocks
        PROVE  Bytes(b.start, b.len)
                 \cap Bytes(current_page_ + page_offset_, page_size_ - page_offset_) = {}
    <3>1. PICK r \in runs : /\ current_page_ + page_size_ = RunEnd(r)
                            /\ b.start + b.len <= FreeFrom \/ RunEnd(r) <= b.start
      BY <2>2 DEF AllocInv, FreeInv
    <3>. QED
      BY SMT, <1>1, <3>1, AllocatorAssumption DEF AllocInv, AllocTypeOK, FreeFrom, Bytes
  <2>. QED
    BY <2>1, <2>2 DEF FreePartUnused
<1>. QED
  BY <1>3, <1>4 DEF AllocatorSound

\* The inductive invariant holds whatever was allocated before.
THEOREM AllocatorInvariant == AllocSpec => []AllocInv
<1>1. AllocInit => AllocInv
  BY EmptyInv DEF AllocInit
<1>2. AllocInv /\ [AllocNext]_allocVars => AllocInv'
  <2> SUFFICES ASSUME AllocInv, [AllocNext]_allocVars PROVE AllocInv'
    OBVIOUS
  <2>1. CASE FreeAll
    <3>1. runs' = {} /\ blocks' = {} /\ current_page_' = Nowhere /\ page_offset_' = 0
          /\ pages_allocated_' = 0
      BY <2>1 DEF FreeAll
    <3>2. AllocTypeOK'
      BY <3>1, AllocatorAssumption DEF AllocTypeOK, Nowhere
    <3>3. AllPages' = {}
      BY <3>1 DEF AllPages
    <3>4. CountInv'
      BY <3>1, <3>3, FS_EmptySet DEF CountInv
    <3>. QED
      BY <3>1, <3>2, <3>4 DEF AllocInv, RunsInv, BlocksInv, FreeInv, Nowhere
  <2>2. ASSUME NEW bytes \in Sizes, allocHere(bytes) PROVE AllocInv'
    BY <2>2, HereStep
  <2>3. ASSUME NEW bytes \in Sizes, allocPages(bytes) PROVE AllocInv'
    BY <2>3, PagesStep
  <2>4. CASE UNCHANGED allocVars
    BY <2>4 DEF allocVars, AllocInv, AllocTypeOK, RunsInv, BlocksInv, FreeInv,
       FreeFrom, CountInv,
                AllPages, Nowhere
  <2>. QED
    BY <2>1, <2>2, <2>3, <2>4 DEF AllocNext
<1>. QED
  BY <1>1, <1>2, PTL DEF AllocSpec

\* PageAllocator: for every page size and header, wherever the kernel maps pages and
\* whatever is asked for, the blocks of Alloc() do not overlap, lie behind the header
\* of one run, and leave the rest of the current page unused; pages_allocated() is
\* the number of mapped pages.
THEOREM AllocatorSoundHolds == AllocSpec => []AllocatorSound
<1>1. AllocInv => AllocatorSound
  BY SoundByInv
<1>. QED
  BY <1>1, AllocatorInvariant, PTL
====
