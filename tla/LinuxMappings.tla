----------------------------- MODULE LinuxMappings -----------------------------
(* The memory mappings of the dumped process: LinuxDumper reads                *)
(* /proc/<pid>/maps line by line, merges the lines of one library, moves the   *)
(* main executable to the front, and corrects load biases (Android) or joins   *)
(* huge pages (ChromeOS); everything else it and the two writers compute about *)
(* stacks and free space is a function of that list                            *)
(* (client/linux/minidump_writer/linux_dumper.cc, minidump_writer.cc,          *)
(* client/linux/microdump_writer/microdump_writer.cc).                         *)
(*                                                                             *)
(* An address counts words; a page is PageSize words.                          *)
EXTENDS Integers, Sequences, FiniteSets, SequencesExt

CONSTANTS Top,               \* addresses are below Top
          MaxLines,          \* lines of the maps file
          MapNames,          \* names of mapped files; "" is an anonymous mapping
          LongNames,         \* the ones that do not fit into MappingInfo::name
          Vaddrs,            \* smallest vaddrs of libraries
          PageSize,
          kStackToCapture,   \* most of a stack that is captured
          kHpageSize,        \* huge page
          shift, table,      \* SanitizeStackCopy: address bits dropped, bitfield length
          Offsets,           \* file offsets of named lines in a ChromeOS process
          Entries            \* values of AT_ENTRY; 0 is none

ASSUME MappingsAssumption ==
  /\ {Top, MaxLines, PageSize, kStackToCapture, kHpageSize, shift, table} \subseteq Nat
  /\ PageSize > 0 /\ kHpageSize > 0 /\ shift > 0 /\ table > 0

VARIABLES lines,             \* lines of the file read so far
          mappings,          \* mappings_
          entry,             \* AT_ENTRY
          chrome,            \* __CHROMEOS__ is defined (else __ANDROID__)
          phase
mappingVars == <<lines, mappings, entry, chrome, phase>>

Addresses == 0 .. Top - 1
End(m) == m.start + m.size
Holds(m, a) == m.start <= a /\ a < End(m)
\* MappingContainsAddress: the range the kernel reported.
MappingContainsAddress(m, a) == m.sysStart <= a /\ a < m.sysEnd
First(P(_)) == LET hits == {k \in DOMAIN mappings : P(mappings[k])}
               IN IF hits = {} THEN 0 ELSE CHOOSE k \in hits : \A j \in hits : k <= j
\* FindMapping and FindMappingNoBias: the index of the first hit, 0 for NULL.
FindMapping(a) == First(LAMBDA m : Holds(m, a))
FindMappingNoBias(a) == First(LAMBDA m : MappingContainsAddress(m, a))
-----------------------------------------------------------------------------
MappingsInit ==
  /\ lines = <<>> /\ mappings = <<>>
  /\ entry \in Entries
  /\ chrome \in BOOLEAN
  /\ phase = "reading"

\* Whether the line continues the last mapping: a named line that starts where
\* the mapping ends, with the same name, and the same protection or a protection
\* that becomes executable.
Merges(module, line) ==
  /\ line.start = End(module)
  /\ line.name = module.name
  /\ line.exec = module.exec \/ (~module.exec /\ line.exec)

\* One line of EnumerateMappings.  A name that is too long is not copied, so
\* that its lines never merge.
EnumerateLine(list, line) ==
  IF line.name # "" /\ list # <<>> /\ Merges(Last(list), line)
  THEN [list EXCEPT ![Len(list)] =
          [@ EXCEPT !.sysEnd = line.end, !.size = line.end - Last(list).start,
                    !.exec = @ \/ line.exec]]
  ELSE Append(list, [sysStart |-> line.start, sysEnd |-> line.end, start |-> line.start,
                     size |-> line.end - line.start, offset |-> line.offset,
                     exec |-> line.exec,
                     name |-> IF line.name \in LongNames THEN "" ELSE line.name])

\* The kernel lists the mappings in increasing order of addresses.
readLine(line) ==
  /\ phase = "reading" /\ Len(lines) < MaxLines
  /\ lines # <<>> => Last(lines).end <= line.start
  /\ lines' = Append(lines, line)
  /\ mappings' = EnumerateLine(mappings, line)
  /\ UNCHANGED <<entry, chrome, phase>>

\* The end of EnumerateMappings: the mapping of the entry point moves to the
\* front, the ones before it one place up.
MoveToFront(list, k) == <<list[k]>> \o RemoveAt(list, k)
EntryMapping == IF entry = 0 THEN 0 ELSE First(LAMBDA m : Holds(m, entry))
linesEnd ==
  /\ phase = "reading" /\ mappings # <<>>
  /\ mappings' = IF EntryMapping = 0 THEN mappings ELSE MoveToFront(mappings, EntryMapping)
  /\ phase' = "late"
  /\ UNCHANGED <<lines, entry, chrome>>
-----------------------------------------------------------------------------
(* Android: LatePostprocessMappings                                            *)

\* What the ELF header and segments of a library say.
Elfs == [dyn : BOOLEAN, min_vaddr : Vaddrs, packed : BOOLEAN]
\* A library is mapped no lower than its segments ask for.
Fits(elf) == \A k \in DOMAIN mappings :
  mappings[k].name # "" => elf[mappings[k].name].min_vaddr <= mappings[k].start
\* GetEffectiveLoadBias: the start lowered by the smallest vaddr of a library
\* with packed relocations.
GetEffectiveLoadBias(e, start) == IF e.min_vaddr # 0 /\ e.packed THEN start - e.min_vaddr
                                  ELSE start
LatePostprocess(m, elf) ==
  IF ~(m.exec /\ m.name # "") \/ ~elf[m.name].dyn THEN m
  ELSE LET bias == GetEffectiveLoadBias(elf[m.name], m.start)
       IN [m EXCEPT !.size = @ + m.start - bias, !.start = bias]
-----------------------------------------------------------------------------
(* ChromeOS: CrOSPostProcessMappings                                           *)

Huge(m) == m.size >= kHpageSize /\ m.exec /\ m.size % kHpageSize = 0
             /\ m.start % kHpageSize = 0 /\ m.name = ""

\* TryRecoverMappings(curr, next)
TryRecover2(list, k) ==
  LET curr == list[k]  next == list[k + 1]
  IN IF /\ curr.size # 0 /\ next.size # 0 /\ Huge(curr) /\ next.name # ""
        /\ End(curr) = next.start /\ curr.size = next.offset
     THEN IF next.exec
          THEN [list EXCEPT ![k].name = next.name, ![k].size = @ + next.size,
                            ![k + 1].size = 0]
          ELSE [list EXCEPT ![k].name = next.name]
     ELSE list

\* TryRecoverMappings(prev, curr, next), and the mutant that keeps prev's place
\* in the list when it is joined.
TryRecover3Keeps(list, k) ==
  LET prev == list[k]  curr == list[k + 1]  next == list[k + 2]
  IN IF /\ 0 \notin {prev.size, curr.size, next.size} /\ Huge(curr) /\ next.name # ""
        /\ End(curr) = next.start /\ End(prev) = curr.start
        /\ prev.name = next.name /\ next.offset = prev.offset + prev.size + curr.size
        /\ prev.exec
     THEN [list EXCEPT ![k + 1] = [curr EXCEPT !.name = prev.name, !.start = prev.start,
                                               !.offset = prev.offset,
                                               !.size = @ + prev.size]]
     ELSE list
TryRecover3(list, k) ==
  LET prev == list[k]  curr == list[k + 1]  next == list[k + 2]
      joined == [curr EXCEPT !.name = prev.name,
                   !.start = IF prev.exec THEN prev.start ELSE @,
                   !.offset = IF prev.exec THEN prev.offset ELSE prev.offset + prev.size,
                   !.size = @ + (IF prev.exec THEN prev.size ELSE 0)
                              + (IF next.exec THEN next.size ELSE 0)]
  IN IF /\ 0 \notin {prev.size, curr.size, next.size} /\ Huge(curr) /\ next.name # ""
        /\ End(curr) = next.start /\ End(prev) = curr.start
        /\ prev.name = next.name /\ next.offset = prev.offset + prev.size + curr.size
     THEN [list EXCEPT ![k] = [prev EXCEPT !.size = IF prev.exec THEN 0 ELSE @],
                       ![k + 1] = joined,
                       ![k + 2] = [next EXCEPT !.size = IF next.exec THEN 0 ELSE @]]
     ELSE list

\* The first entry is put in order, both passes run, joined segments are
\* collected, and the mapping that covers the first one's range goes in front.
CrOSPostProcess(list) ==
  LET first  == list[1]
      after  == {k \in 2 .. Len(list) : list[k].start > first.start}
      next   == IF after = {} THEN Len(list) + 1
                ELSE CHOOSE k \in after : \A j \in after : k <= j
      sorted == SubSeq(list, 2, next - 1) \o <<first>> \o SubSeq(list, next, Len(list))
      pass2  == FoldLeft(TryRecover2, sorted, [k \in 1 .. Len(list) - 1 |-> k])
      pass3  == FoldLeft(TryRecover3, pass2, [k \in 1 .. Len(list) - 2 |-> k])
      kept   == SelectSeq(pass3, LAMBDA m : m.size > 0)
      covers == {k \in DOMAIN kept : kept[k].start <= first.start /\ End(kept[k]) >= End(first)}
  IN IF covers = {} THEN kept
     ELSE MoveToFront(kept, CHOOSE k \in covers : \A j \in covers : k <= j)

\* LateInit.  A ChromeOS process has more than one mapping.
LateInit ==
  /\ phase = "late"
  /\ \/ /\ chrome /\ Len(mappings) > 1
        /\ mappings' = CrOSPostProcess(mappings)
     \/ /\ ~chrome
        /\ \E elf \in [MapNames \ ({""} \cup LongNames) -> Elfs] :
             /\ Fits(elf)
             /\ mappings' = [k \in DOMAIN mappings |-> LatePostprocess(mappings[k], elf)]
  /\ phase' = "ready"
  /\ UNCHANGED <<lines, entry, chrome>>

MappingsNext ==
  \/ \E start \in Addresses \ {0}, size \in 1 .. 3, name \in MapNames, exec \in BOOLEAN :
       \E offset \in IF chrome /\ name # "" THEN Offsets ELSE {0} :
         /\ start + size <= Top
         /\ readLine([start |-> start, end |-> start + size, name |-> name, exec |-> exec,
                      offset |-> offset])
  \/ linesEnd \/ LateInit
MappingsSpec == MappingsInit /\ [][MappingsNext]_mappingVars
-----------------------------------------------------------------------------
(* What the writers compute from the list                                      *)

\* GetStackInfo: from the stack pointer's page to the end of its mapping, at
\* most kStackToCapture.
PageOf(sp) == sp - (sp % PageSize)
GetStackInfo(sp) ==
  LET k == FindMapping(PageOf(sp))
      left == End(mappings[k]) - PageOf(sp)
  IN IF k = 0 THEN [found |-> FALSE, stack |-> 0, len |-> 0]
     ELSE [found |-> TRUE, stack |-> PageOf(sp),
           len |-> IF left > kStackToCapture THEN kStackToCapture ELSE left]

\* FillThreadStack with a limit: the chunks below the one of the stack pointer
\* are skipped.
Skipped(stack, sp, max) ==
  LET past == {n \in 0 .. Top : stack + n * max >= sp - max}
  IN stack + max * (CHOOSE n \in past : \A m \in past : n <= m)
FillThreadStack(sp, max) ==
  LET info == GetStackInfo(sp)
  IN IF ~info.found \/ info.len <= max THEN info
     ELSE [info EXCEPT !.len = max, !.stack = Skipped(@, sp, max)]

\* The bitfield of SanitizeStackCopy, and the mutant that leaves out the bit of
\* the end address.
Bit(a) == (a \div 2 ^ shift) % table
could_hit_mappingShort ==
  UNION {{b % table : b \in (mappings[k].start \div 2 ^ shift) .. ((End(mappings[k]) \div 2 ^ shift) - 1)} :
           k \in {k \in DOMAIN mappings : mappings[k].exec}}
could_hit_mapping ==
  UNION {{b % table : b \in (mappings[k].start \div 2 ^ shift) .. (End(mappings[k]) \div 2 ^ shift)} :
           k \in {k \in DOMAIN mappings : mappings[k].exec}}

\* One word of the loop: kept or replaced by the marker, and the mapping hit
\* last (0: none).  small: the word is a small integer.
SanitizeWord(a, small, sp, last_hit) ==
  LET stack == FindMappingNoBias(sp)
      hit == FindMappingNoBias(a)
      inStack == stack # 0 /\ MappingContainsAddress(mappings[stack], a)
      inLast == last_hit # 0 /\ MappingContainsAddress(mappings[last_hit], a)
      inCode == Bit(a) \in could_hit_mapping /\ hit # 0 /\ mappings[hit].exec
  IN [kept |-> small \/ inStack \/ inLast \/ inCode,
      last |-> IF ~small /\ ~inStack /\ ~inLast /\ inCode THEN hit ELSE last_hit]
\* The loop over the words: the mappings that may be the one hit last.
LastHits(sp) == {0} \cup {SanitizeWord(a, FALSE, sp, 0).last : a \in Addresses}

\* MicrodumpWriter::DumpFreeSpace.
MappingsAreAdjacent(a, b) == a.start <= b.start /\ End(a) >= b.start
MappingLessThan(a, b) == End(a) < End(b)
NextOrderedMapping(curr) ==
  LET later == {k \in DOMAIN mappings : MappingLessThan(mappings[curr], mappings[k])}
      best == {k \in later : \A j \in later : ~MappingLessThan(mappings[j], mappings[k])}
  IN IF later = {} THEN 0 ELSE CHOOSE k \in best : \A j \in best : k <= j
EndOfRun(curr) ==
  LET stops == {k \in curr .. Len(mappings) :
                  k = Len(mappings) \/ ~MappingsAreAdjacent(mappings[k], mappings[k + 1])}
  IN CHOOSE k \in stops : \A j \in stops : k <= j
Lowest == CHOOSE k \in DOMAIN mappings :
            \A j \in DOMAIN mappings : \/ mappings[k].start < mappings[j].start
                                       \/ mappings[k].start = mappings[j].start /\ k <= j
\* The loop, as a function of the number of iterations left: the end of each
\* adjacent run, the hole up to the next mapping, until the stack's mapping or
\* the last one.
FreeSpace(stack) ==
  LET scan[n \in 0 .. Len(mappings), curr \in DOMAIN mappings] ==
        LET run  == EndOfRun(curr)
            next == NextOrderedMapping(run)
            hole == mappings[next].start - End(mappings[run])
            rest == scan[n - 1, next]
        IN IF n = 0 \/ run = stack \/ next = 0
           THEN [hi |-> End(mappings[run]), cnt |-> 0, sum |-> 0, max |-> 0]
           ELSE IF hole <= 0 THEN rest
           ELSE [hi |-> rest.hi, cnt |-> rest.cnt + 1, sum |-> rest.sum + hole,
                 max |-> IF hole > rest.max THEN hole ELSE rest.max]
  IN scan[Len(mappings), Lowest]

-----------------------------------------------------------------------------
Lists == Seq([start : Int, size : Nat \ {0}, sysStart : Nat, sysEnd : Nat, name : MapNames,
              exec : BOOLEAN, offset : Nat])
(* The variables hold values of their types.                                   *)
MappingsTypeOK ==
  /\ phase \in {"reading", "late", "ready"}
  /\ entry \in Nat /\ Len(lines) <= MaxLines
  /\ mappings \in Lists

Read == {a \in Addresses : \E k \in DOMAIN lines : lines[k].start <= a /\ a < lines[k].end}
LineOf(a) == lines[CHOOSE k \in DOMAIN lines : lines[k].start <= a /\ a < lines[k].end]

(* No address of the file is lost or gains another name on the way into the    *)
(* list: merging (EnumerateMappings) keeps to lines of one name, and the huge  *)
(* page pass only names anonymous pages.                                       *)
CoverageKept ==
  /\ Read = {a \in Addresses : \E k \in DOMAIN mappings :
                                  MappingContainsAddress(mappings[k], a)
                                  \/ (chrome /\ Holds(mappings[k], a))}
  /\ \A a \in Read, k \in DOMAIN mappings :
       Holds(mappings[k], a) /\ LineOf(a).name # "" /\ mappings[k].sysStart = mappings[k].start
         => mappings[k].name = LineOf(a).name \/ LineOf(a).name \in LongNames

(* After the huge page pass the mappings are still apart and cover what they   *)
(* covered, and the one with the entry point is first                          *)
(* (CrOSPostProcessMappings).                                                  *)
HugePagesKeepMappings ==
  chrome /\ phase = "ready" =>
    /\ \A j, k \in DOMAIN mappings :
         j # k => End(mappings[j]) <= mappings[k].start \/ End(mappings[k]) <= mappings[j].start
    /\ Read = {a \in Addresses : \E k \in DOMAIN mappings : Holds(mappings[k], a)}

(* The first mapping of the list is the main executable's whenever some        *)
(* mapping holds the entry point: readers of the minidump take the first       *)
(* module for the executable.                                                  *)
EntryFirst ==
  phase # "reading" /\ entry # 0 /\ entry \in Read => Holds(mappings[1], entry)

(* The part of a stack that is captured lies in one mapping of the process and *)
(* starts at or below the stack pointer (GetStackInfo): the first mapping of   *)
(* the list that holds its page, which may be a library with a load bias.      *)
StackInfoInMapping ==
  phase = "ready" =>
    \A sp \in Addresses :
      LET info == GetStackInfo(sp)
      IN info.found =>
           /\ info.len > 0 /\ info.stack <= sp
           /\ \E k \in DOMAIN mappings : /\ mappings[k].start <= info.stack
                                         /\ info.stack + info.len <= End(mappings[k])

(* The bitfield and the mapping hit last only save time: a word survives the   *)
(* sanitizer exactly when it points into the stack's mapping or into an        *)
(* executable one (SanitizeStackCopy), whatever words came before it.          *)
SanitizerExact ==
  phase = "ready" /\ ~chrome =>
    \A sp \in Addresses : \A last_hit \in LastHits(sp), a \in Addresses :
      SanitizeWord(a, FALSE, sp, last_hit).kept <=>
        \E k \in DOMAIN mappings :
          /\ MappingContainsAddress(mappings[k], a)
          /\ mappings[k].exec \/ MappingContainsAddress(mappings[k], sp)

\* No load bias moves the start of a mapping below the start of one before it.
BiasKeepsOrder ==
  \A j, k \in DOMAIN mappings :
    End(mappings[j]) < End(mappings[k]) => mappings[j].start <= mappings[k].start

(* The free space reported (DumpFreeSpace) is never less than what no mapping  *)
(* covers between the lowest mapping and the end of the scan, although the     *)
(* list is out of order and biased mappings overlap others.  It is more only   *)
(* where a bias reaches over a whole mapping: then holes that the biased       *)
(* mapping covers are counted before the scan comes to it.                     *)
FreeSpaceExact ==
  phase = "ready" /\ ~chrome =>
    \A stack \in 0 .. Len(mappings) :
      LET found == FreeSpace(stack)
          free == Cardinality({a \in mappings[Lowest].start .. found.hi - 1 :
                                 \A k \in DOMAIN mappings : ~Holds(mappings[k], a)})
      IN found.sum >= free /\ (BiasKeepsOrder => found.sum = free)

(* Merging lines, recovering huge pages and moving the executable to the front *)
(* neither lose nor invent an address, and the executable is first.            *)
MappingsFaithful == CoverageKept /\ HugePagesKeepMappings /\ EntryFirst

(* What is computed from the list: the stack to capture is part of one mapping *)
(* that holds the stack pointer, the sanitizer keeps what points into code or  *)
(* the stack, the free space is what no mapping covers or, under a large bias, *)
(* more.                                                                       *)
StackScansExact == StackInfoInMapping /\ SanitizerExact /\ FreeSpaceExact

-----------------------------------------------------------------------------
(* Statements of comments the code does not keep                               *)

(* "Skip empty chunks of length max_stack_len" (FillThreadStack): the chunk    *)
(* that is kept holds the stack pointer.                                       *)
ChunkHoldsPointer ==
  phase = "ready" =>
    \A sp \in Addresses :
      LET info == FillThreadStack(sp, PageSize \div 2)
      IN info.found => info.stack <= sp /\ sp < info.stack + info.len

(* "Once we reach |stack_mapping| we are done scanning for free space regions" *)
(* (DumpFreeSpace).                                                            *)
ScanEndsAtStack ==
  phase = "ready" /\ ~chrome =>
    \A stack \in DOMAIN mappings : FreeSpace(stack).hi <= End(mappings[stack])
=============================================================================
