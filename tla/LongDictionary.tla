---------------------------- MODULE LongDictionary ----------------------------
(* LongStringDictionary (common/long_string_dictionary.cc): a value that does  *)
(* not fit an entry is cut into segments stored under key__1, key__2, ...      *)
(* A key of the underlying dictionary is <<name, i>>; i = 0 is the plain key.  *)
EXTENDS StringDictionary, Sequences, SequencesExt

CONSTANTS Names,           \* the callers' keys, none with the suffix of a segment
          LongValues,      \* the callers' values: sequences of characters
          kSuffixes,       \* number of suffixes
          value_size

VARIABLES long,            \* entries_ of the dictionary
          stored           \* stored[k]: the value GetValueForKey has to return
longVars == <<long, stored>>

Room == value_size - 1
LongInit == long = [i \in Ids |-> Free] /\ stored = [k \in Names |-> <<>>]

Has(list, k, i) == IndexIn(list, <<k, i>>) # NumEntries
\* The segments in front of the first suffix that is missing.
Leading(list, k) ==
  LET n == CHOOSE n \in 0 .. kSuffixes :
             /\ \A i \in 1 .. n : Has(list, k, i)
             /\ n < kSuffixes => ~Has(list, k, n + 1)
  IN [i \in 1 .. n |-> i]

\* Mutant: the first segment is removed, the others stay.
RemoveLongFirst(list, k) ==
  IF Has(list, k, 0) THEN RemoveIn(list, IndexIn(list, <<k, 0>>))
  ELSE RemoveIn(list, IndexIn(list, <<k, 1>>))
\* RemoveKey: the plain key, or else the segments up to the first missing one.
RemoveLong(list, k) ==
  IF Has(list, k, 0) THEN RemoveIn(list, IndexIn(list, <<k, 0>>))
  ELSE FoldLeft(LAMBDA l, i : RemoveIn(l, IndexIn(l, <<k, i>>)), list, Leading(list, k))

\* GetValueForKey: the plain value, or the leading segments put together.
GetLong(list, k) ==
  IF Has(list, k, 0) THEN list[IndexIn(list, <<k, 0>>)].value
  ELSE FoldLeft(LAMBDA v, i : v \o list[IndexIn(list, <<k, i>>)].value, <<>>,
                Leading(list, k))

\* The segments SetKeyValue stores: at most kSuffixes, value_size - 1 long.
Segment(v, i) == SubSeq(v, (i - 1) * Room + 1, IF i * Room < Len(v) THEN i * Room ELSE Len(v))
SegmentsOf(v) == SelectSeq([i \in 1 .. kSuffixes |-> i], LAMBDA i : (i - 1) * Room < Len(v))
SetLong(list, k, v) ==
  LET cleared == RemoveLong(list, k)
  IN IF Len(v) <= Room THEN SetIn(cleared, <<k, 0>>, v)
     ELSE FoldLeft(LAMBDA l, i : SetIn(l, <<k, i>>, Segment(v, i)), cleared, SegmentsOf(v))

\* What can be kept of the value: all of it when it fits one entry, else as many
\* segments as there are suffixes and free entries.
Kept(v, free) ==
  IF Len(v) <= Room THEN IF free > 0 THEN v ELSE <<>>
  ELSE LET most == Room * (IF free < kSuffixes THEN free ELSE kSuffixes)
       IN SubSeq(v, 1, IF Len(v) < most THEN Len(v) ELSE most)

setLong(k, v) ==
  /\ long' = SetLong(long, k, v)
  /\ stored' = [stored EXCEPT ![k] =
       Kept(v, Cardinality({i \in Ids : ~is_active(RemoveLong(long, k)[i])}))]
\* RemoveKey, also reached by SetKeyValue with a NULL value.
removeLong(k) == /\ long' = RemoveLong(long, k)
                 /\ stored' = [stored EXCEPT ![k] = <<>>]

LongNext == \E k \in Names : removeLong(k) \/ \E v \in LongValues : setLong(k, v)
-----------------------------------------------------------------------------
(* The value read back is the value stored, cut only by the number of suffixes *)
(* and of free entries, after any sequence of calls: no segment of an earlier, *)
(* longer value is left behind (SetKeyValue, RemoveKey, GetValueForKey).       *)
LongValueKept == \A k \in Names : GetLong(long, k) = stored[k]

(* "If there is no more space in the map, then the operation silently fails"   *)
(* (long_string_dictionary.h): the key then keeps the value it had.            *)
LongSetAllOrNothing ==
  [][\A k \in Names, v \in LongValues :
       long' = SetLong(long, k, v)
         => GetLong(long, k)' \in {GetLong(long, k), Kept(v, kSuffixes)}]_longVars
=============================================================================
