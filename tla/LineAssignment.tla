---------------------------- MODULE LineAssignment ----------------------------
(* DwarfCUToModule::AssignLinesToFunctions(): one pass over the ranges of the  *)
(* functions and over the lines of a compilation unit, from low to high        *)
(* addresses, gives every function the pieces of lines that lie in its ranges  *)
(* (common/dwarf_cu_to_module.cc).  Addresses wrap around at AddressLimit.     *)
EXTENDS Integers, Sequences, FiniteSets, SequencesExt

CONSTANTS RangeInputs,     \* sets of [address, size, function]: ranges of the functions
          LineInputs,      \* sets of [address, size, number]
          AddressLimit

VARIABLES assignPc,        \* "sort", "pass", "done"
          sorted_ranges, cuLines,
          range_it, line_it, \* positions; one behind the last at the end
          current,
          functionLines,   \* pieces added: sets of [function, address, size, number]
          pieces,          \* how many were added
          assignAsserted   \* an assert() has failed
assignVars == <<assignPc, sorted_ranges, cuLines, range_it, line_it, current, functionLines,
                pieces, assignAsserted>>

kMaxAddress == AddressLimit - 1
AtAddress(a) == a % AddressLimit
within(item, address) == AtAddress(address - item.address) < item.size

Orders(S) ==
  {s \in SetToSeqs(S) : \A i, j \in 1 .. Len(s) : i < j => s[i].address <= s[j].address}
AssignInit ==
  /\ assignPc = "sort"
  /\ \E R \in RangeInputs : sorted_ranges = SetToSeq(R)
  /\ \E L \in LineInputs : cuLines = SetToSeq(L)
  /\ range_it = 1 /\ line_it = 1 /\ current = 0 /\ functionLines = {} /\ pieces = 0
  /\ assignAsserted = FALSE

FillSortedFunctionRanges(S) == Orders({r \in S : r.size # 0})

\* Up to the loop: the pass starts at the first range or line, unless that is at
\* the address that marks removed functions.
sortAll ==
  /\ assignPc = "sort"
  /\ \E r \in FillSortedFunctionRanges(ToSet(sorted_ranges)) : sorted_ranges' = r
  /\ \E l \in Orders(ToSet(cuLines)) : cuLines' = l
  /\ LET starts == {s[1].address : s \in {sorted_ranges', cuLines'} \ {<<>>}}
     IN IF starts = {} THEN current' = 0 /\ assignPc' = "done"
        ELSE /\ current' = CHOOSE a \in starts : \A b \in starts : a <= b
             /\ assignPc' = IF current' = kMaxAddress THEN "done" ELSE "pass"
  /\ UNCHANGED <<range_it, line_it, functionLines, pieces, assignAsserted>>

HasRange == range_it <= Len(sorted_ranges)
HasLine == line_it <= Len(cuLines)
TheRange == sorted_ranges[range_it]
TheLine == cuLines[line_it]
InRange == HasRange /\ current >= TheRange.address
InLine == HasLine /\ current >= TheLine.address
Least(S) == CHOOSE a \in S : \A b \in S : a <= b

\* The next address at which the byte before differs in being covered by a range
\* or by a line.
NextTransition ==
  CASE InRange /\ InLine ->
         AtAddress(current + Least({TheRange.size - (current - TheRange.address),
                                    TheLine.size - (current - TheLine.address)}))
    [] InRange /\ ~InLine ->
         IF HasLine /\ within(TheRange, TheLine.address) THEN TheLine.address
         ELSE AtAddress(TheRange.address + TheRange.size)
    [] ~InRange /\ InLine ->
         IF HasRange /\ within(TheLine, TheRange.address) THEN TheRange.address
         ELSE AtAddress(TheLine.address + TheLine.size)
    [] OTHER -> Least({s.address : s \in (IF HasRange THEN {TheRange} ELSE {})
                                         \cup (IF HasLine THEN {TheLine} ELSE {})})

\* The first item from an iterator on that contains or follows an address.
SkipTo(items, it, address) ==
  LET Stops(i) == i > Len(items) \/ address < items[i].address \/ within(items[i], address)
  IN Least({i \in it .. Len(items) + 1 : Stops(i)})

\* One turn of the loop.
onePass ==
  /\ assignPc = "pass"
  /\ LET next == NextTransition
         piece == [function |-> TheRange.function, address |-> current,
                   size |-> AtAddress(next - current), number |-> TheLine.number]
         ends == next = 0 \/ next = kMaxAddress
         r == SkipTo(sorted_ranges, range_it, next)
         l == SkipTo(cuLines, line_it, next)
     IN /\ IF InRange /\ InLine
           THEN functionLines' = functionLines \cup {piece} /\ pieces' = pieces + 1
           ELSE UNCHANGED <<functionLines, pieces>>
        /\ assignAsserted' =
             (assignAsserted
               \/ (HasRange /\ current >= TheRange.address /\ ~within(TheRange, current))
               \/ (HasLine /\ current >= TheLine.address /\ ~within(TheLine, current))
               \/ (~ends /\ next <= current))
        /\ IF ends THEN assignPc' = "done" /\ UNCHANGED <<range_it, line_it, current>>
           ELSE /\ range_it' = r /\ line_it' = l /\ current' = next
                /\ assignPc' = IF r > Len(sorted_ranges) /\ l > Len(cuLines) THEN "done" ELSE "pass"
        /\ UNCHANGED <<sorted_ranges, cuLines>>

AssignNext == sortAll \/ onePass
-----------------------------------------------------------------------------
Bytes(item) == item.address .. item.address + item.size - 1
Overlap(s) == \E i, j \in 1 .. Len(s) : i < j /\ Bytes(s[i]) \cap Bytes(s[j]) # {}

\* Every byte in a range and in a line is given to the function with the number of
\* the line, in one piece of its own, and no other byte is, when the ranges are
\* disjoint and the lines are disjoint and nothing lies in the last byte of the
\* address space; where they overlap no byte is given that is not in both.  The
\* loop makes progress and its asserts hold in all cases.
LinesAssigned ==
  /\ ~assignAsserted
  /\ \A p \in functionLines :
       /\ \E i \in 1 .. Len(sorted_ranges) : sorted_ranges[i].function = p.function
                                             /\ Bytes(p) \subseteq Bytes(sorted_ranges[i])
       /\ \E i \in 1 .. Len(cuLines) : cuLines[i].number = p.number /\ Bytes(p) \subseteq Bytes(cuLines[i])
  /\ assignPc = "done" /\ ~Overlap(sorted_ranges) /\ ~Overlap(cuLines) =>
       /\ pieces = Cardinality(functionLines)
       /\ \A i \in 1 .. Len(sorted_ranges) : \A j \in 1 .. Len(cuLines) :
            \A b \in (Bytes(sorted_ranges[i]) \cap Bytes(cuLines[j])) \ {kMaxAddress} :
              Cardinality({p \in functionLines : b \in Bytes(p)}) = 1
=============================================================================
