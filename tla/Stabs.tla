-------------------------------- MODULE Stabs --------------------------------
(* STABS debugging information: StabsReader walks the entries of a section and *)
(* StabsToModule collects the functions and their lines and computes, in       *)
(* Finalize(), the sizes that STABS does not give (common/stabs_reader.cc,     *)
(* common/stabs_to_module.cc).  The entries are chosen as they are fetched.    *)
EXTENDS Integers, Sequences, FiniteSets, SequencesExt, FiniteSetsExt

CONSTANTS StabEntries,     \* [type, name, value]
          StabAddresses,   \* addresses are taken modulo this
          kFallbackSize,
          unitized_,
          MaxStabs,        \* how many entries a section has at most
          MaxStabUnits     \* how many of them are N_UNDF at most

AtEnd == [type |-> "end", name |-> "", value |-> 0]
NoFunction == [address |-> -1]

VARIABLES stabPc,          \* "process", "start", "body", "function", "done"
          iterator_,       \* the entry it refers to
          stabs,           \* the entries before it
          string_offset_, next_cu_string_offset_,
          unit_strings,    \* where the strings of the unit really start
          stab_source_file_, queued_lines_, function_address,
          in_compilation_unit_, comp_unit_base_address_, boundaries_,
          current_function_, stabFunctions, stabExterns,
          stabAsserted
stabVars == <<stabPc, iterator_, stabs, string_offset_, next_cu_string_offset_, unit_strings,
              stab_source_file_, queued_lines_, function_address, in_compilation_unit_,
              comp_unit_base_address_, boundaries_, current_function_, stabFunctions, stabExterns,
              stabAsserted>>
readerVars == <<string_offset_, next_cu_string_offset_, unit_strings, stabExterns>>

UnitsIn(s) == Cardinality({i \in 1 .. Len(s) : s[i].type = "UNDF"})
\* Any entry may come next, or the end of the section.
Fetch(before) ==
  {AtEnd} \cup {e \in StabEntries : Len(before) < MaxStabs
                                    /\ (e.type = "UNDF" => UnitsIn(before) < MaxStabUnits)}
StabInit ==
  /\ stabPc = "process" /\ stabs = <<>> /\ iterator_ \in Fetch(<<>>)
  /\ string_offset_ = 0 /\ next_cu_string_offset_ = 0 /\ unit_strings = 0
  /\ stab_source_file_ = "" /\ queued_lines_ = <<>> /\ function_address = 0
  /\ in_compilation_unit_ = FALSE /\ comp_unit_base_address_ = 0 /\ boundaries_ = {}
  /\ current_function_ = NoFunction /\ stabFunctions = <<>> /\ stabExterns = {}
  /\ stabAsserted = FALSE

Address(a) == a % StabAddresses
advance == stabs' = Append(stabs, iterator_) /\ iterator_' \in Fetch(stabs')
stay == UNCHANGED <<stabs, iterator_>>
Boundary(a) == IF a # 0 THEN boundaries_ \cup {a} ELSE boundaries_
-----------------------------------------------------------------------------
\* StabsReader::Process(): entries outside compilation units.
Process ==
  /\ stabPc = "process" /\ iterator_.type \notin {"end", "SO"}
  /\ IF iterator_.type = "UNDF" /\ unitized_
     THEN /\ string_offset_' = next_cu_string_offset_
          /\ next_cu_string_offset_' = iterator_.value
          /\ unit_strings' = 
               LET sizes[i \in 0 .. Len(stabs)] ==
                     IF i = 0 THEN 0
                     ELSE sizes[i - 1] + (IF stabs[i].type = "UNDF" THEN stabs[i].value ELSE 0)
               IN sizes[Len(stabs)]
          /\ UNCHANGED stabExterns
     ELSE IF iterator_.type = "EXT"
     THEN stabExterns' = stabExterns \cup {iterator_.value}
          /\ UNCHANGED <<string_offset_, next_cu_string_offset_, unit_strings>>
     ELSE UNCHANGED readerVars
  /\ advance
  /\ UNCHANGED <<stabPc, stab_source_file_, queued_lines_, function_address, in_compilation_unit_,
                 comp_unit_base_address_, boundaries_, current_function_, stabFunctions,
                 stabAsserted>>

\* The start of ProcessCompilationUnit(): a directory may come before the file.
\* StartCompilationUnit() opens the unit.
StartCompilationUnitStab ==
  /\ in_compilation_unit_' = TRUE /\ stabAsserted' = (stabAsserted \/ in_compilation_unit_)
  /\ comp_unit_base_address_' = iterator_.value
  /\ boundaries_' = boundaries_ \cup {iterator_.value}
  /\ stab_source_file_' = iterator_.name
ProcessCompilationUnit ==
  /\ \/ stabPc = "process" /\ iterator_.type = "SO"
     \/ stabPc = "start"
  /\ LET noUnit == UNCHANGED <<in_compilation_unit_, stabAsserted, comp_unit_base_address_,
                               boundaries_, stab_source_file_>>
     IN IF stabPc = "process" /\ iterator_.name = "dir/"
        THEN stabPc' = "start" /\ advance /\ noUnit
        ELSE IF iterator_.type # "SO" THEN stabPc' = "process" /\ stay /\ noUnit
        ELSE IF iterator_.name = "" THEN stabPc' = "process" /\ advance /\ noUnit
        ELSE stabPc' = "body" /\ advance /\ StartCompilationUnitStab
  /\ UNCHANGED <<queued_lines_, function_address, current_function_, stabFunctions>>
  /\ UNCHANGED readerVars

\* Its loop: lines and file names outside functions.
unitEntry ==
  /\ stabPc = "body" /\ iterator_.type \notin {"end", "SO", "FUN"}
  /\ queued_lines_' = IF iterator_.type = "SLINE"
                      THEN Append(queued_lines_, [address |-> iterator_.value,
                                                  file |-> stab_source_file_])
                      ELSE queued_lines_
  /\ stab_source_file_' = IF iterator_.type = "SOL" THEN iterator_.name ELSE stab_source_file_
  /\ advance
  /\ UNCHANGED <<stabPc, function_address, in_compilation_unit_, comp_unit_base_address_,
                 boundaries_, current_function_, stabFunctions, stabAsserted>>
  /\ UNCHANGED readerVars

\* Its end, at the next N_SO or the end of the section, and EndCompilationUnit().
EndCompilationUnit ==
  /\ stabPc = "body" /\ iterator_.type \in {"end", "SO"}
  /\ LET closes == iterator_.type = "SO" /\ iterator_.name = ""
     IN /\ boundaries_' = Boundary(IF closes THEN iterator_.value ELSE 0)
        /\ IF closes THEN advance ELSE stay
  /\ stabPc' = "process" /\ in_compilation_unit_' = FALSE /\ comp_unit_base_address_' = 0
  /\ queued_lines_' = <<>>
  /\ stabAsserted' = (stabAsserted \/ ~in_compilation_unit_)
  /\ UNCHANGED <<stab_source_file_, function_address, current_function_, stabFunctions>>
  /\ UNCHANGED readerVars

\* Mutant: the queued lines stay queued.
StartFunctionKeeps ==
  /\ stabPc = "body" /\ iterator_.type = "FUN"
  /\ function_address' = iterator_.value
  /\ current_function_' = [name |-> iterator_.name, address |-> iterator_.value,
                           lines |-> queued_lines_, at |-> Len(stabs) + 1]
  /\ boundaries_' = boundaries_ \cup {iterator_.value}
  /\ stabAsserted' = (stabAsserted \/ current_function_ # NoFunction)
  /\ stabPc' = "function" /\ advance
  /\ UNCHANGED <<queued_lines_, stab_source_file_, in_compilation_unit_, comp_unit_base_address_,
                 stabFunctions>>
  /\ UNCHANGED readerVars

\* The start of ProcessFunction(): StartFunction() and the queued lines.
StartFunction ==
  /\ stabPc = "body" /\ iterator_.type = "FUN"
  /\ function_address' = iterator_.value
  /\ current_function_' = [name |-> iterator_.name, address |-> iterator_.value,
                           lines |-> queued_lines_, at |-> Len(stabs) + 1]
  /\ queued_lines_' = <<>>
  /\ boundaries_' = boundaries_ \cup {iterator_.value}
  /\ stabAsserted' = (stabAsserted \/ current_function_ # NoFunction)
  /\ stabPc' = "function" /\ advance
  /\ UNCHANGED <<stab_source_file_, in_compilation_unit_, comp_unit_base_address_, stabFunctions>>
  /\ UNCHANGED readerVars

\* Its loop: lines relative to the function.
functionEntry ==
  /\ stabPc = "function" /\ iterator_.type \notin {"end", "SO", "FUN"}
  /\ current_function_' =
       IF iterator_.type = "SLINE"
       THEN [current_function_ EXCEPT !.lines =
               Append(@, [address |-> Address(function_address + iterator_.value),
                          file |-> stab_source_file_])]
       ELSE current_function_
  /\ stab_source_file_' = IF iterator_.type = "SOL" THEN iterator_.name ELSE stab_source_file_
  /\ stabAsserted' = (stabAsserted \/ ~in_compilation_unit_ \/ current_function_ = NoFunction)
  /\ advance
  /\ UNCHANGED <<stabPc, queued_lines_, function_address, in_compilation_unit_,
                 comp_unit_base_address_, boundaries_, stabFunctions>>
  /\ UNCHANGED readerVars

\* Its end: an unnamed N_FUN gives the size, anything else its own address.
EndFunction ==
  /\ stabPc = "function" /\ iterator_.type \in {"end", "SO", "FUN"}
  /\ LET terminates == iterator_.type = "FUN" /\ iterator_.name = ""
         ending_address == CASE iterator_.type = "end" -> 0
                             [] terminates -> Address(function_address + iterator_.value)
                             [] OTHER -> iterator_.value
     IN /\ boundaries_' = Boundary(ending_address)
        /\ IF terminates THEN advance ELSE stay
  /\ stabFunctions' = IF current_function_.address >= comp_unit_base_address_
                      THEN Append(stabFunctions, current_function_) ELSE stabFunctions
  /\ current_function_' = NoFunction
  /\ stabAsserted' = (stabAsserted \/ current_function_ = NoFunction)
  /\ stabPc' = "body"
  /\ UNCHANGED <<stab_source_file_, queued_lines_, function_address, in_compilation_unit_,
                 comp_unit_base_address_>>
  /\ UNCHANGED readerVars

\* The sizes of a function and of its lines.
WithSizes(f) ==
  LET above == {b \in boundaries_ : b > f.address}
      size == IF above = {} THEN kFallbackSize ELSE Min(above) - f.address
      lines == SortSeq(f.lines, LAMBDA a, b : a.address < b.address)
      n == Len(lines)
      LineEnd(i) == IF i < n THEN lines[i + 1].address ELSE f.address + size
  IN [name |-> f.name, address |-> f.address, at |-> f.at, size |-> size,
      lines |-> [i \in 1 .. n |-> [address |-> lines[i].address, file |-> lines[i].file,
                                   size |-> Address(LineEnd(i) - lines[i].address)]]]
Finalize ==
  /\ stabPc = "process" /\ iterator_ = AtEnd
  /\ stabPc' = "done"
  /\ stabFunctions' = [i \in 1 .. Len(stabFunctions) |-> WithSizes(stabFunctions[i])]
  /\ UNCHANGED <<iterator_, stabs, stab_source_file_, queued_lines_, function_address,
                 in_compilation_unit_, comp_unit_base_address_, boundaries_, current_function_,
                 stabAsserted>>
  /\ UNCHANGED readerVars

StabNext == \/ Process \/ ProcessCompilationUnit \/ unitEntry \/ EndCompilationUnit
            \/ StartFunction \/ functionEntry \/ EndFunction \/ Finalize
-----------------------------------------------------------------------------
(* What the entries say, read from the whole section.                          *)
Types(i) == stabs[i].type
\* The name in force for a line: the last file name before it.
FileAt(i) == stabs[Max({j \in 1 .. i - 1 : Types(j) \in {"SO", "SOL"}})].name
\* An N_SO with a directory, which the N_SO of the file is to follow.
Directory ==
  LET directory[i \in 0 .. Len(stabs)] ==
        i > 0 /\ stabs[i].name = "dir/" /\ ~directory[i - 1]
  IN directory
\* A unit is open behind the entry at i.
InUnit ==
  LET open[i \in 0 .. Len(stabs)] ==
        /\ i > 0 /\ ~Directory[i]
        /\ IF Types(i) = "SO" THEN stabs[i].name # "" ELSE open[i - 1]
  IN open
\* The last entry before i that opens or closes a unit or a function; it opens a
\* function, in a unit, unless it is unnamed and one is open.
Marks(i) == Max({0} \cup {k \in 1 .. i - 1 : Types(k) \in {"FUN", "SO"}})
Opens ==
  LET opens[i \in 0 .. Len(stabs)] ==
        i > 0 /\ Types(i) = "FUN" /\ InUnit[i] /\ (stabs[i].name # "" \/ ~opens[Marks(i)])
  IN opens
\* The address at which the unit of an entry starts.
UnitStart(i) == stabs[Max({k \in 1 .. i : Types(k) = "SO"})].value
Functions == {i \in 1 .. Len(stabs) : Opens[i]}
\* Where something starts or ends: functions and units start, a unit ends with an
\* unnamed N_SO, and a function with the N_SO or N_FUN that follows it, whose value
\* is the size of the function if it is an unnamed N_FUN.
Ends ==
  {stabs[i].value : i \in Functions}
  \cup {stabs[i].value : i \in {k \in 1 .. Len(stabs) :
           Types(k) = "SO" /\ (InUnit[k] \/ (InUnit[k - 1] /\ stabs[k].name = ""))}}
  \cup {IF Types(i) = "FUN" /\ stabs[i].name = "" THEN Address(stabs[Marks(i)].value + stabs[i].value)
        ELSE stabs[i].value :
          i \in {k \in 1 .. Len(stabs) : Types(k) \in {"FUN", "SO"} /\ Opens[Marks(k)]}}
\* The entry at i belongs to the function that starts at f: it comes after it
\* and before the next function, or before it and outside the previous one.
LinesOf(f) ==
  LET after == {i \in f + 1 .. Len(stabs) : Types(i) = "SLINE" /\ Marks(i) = f}
      before == {i \in 1 .. f - 1 : Types(i) = "SLINE" /\ Marks(i) = Marks(f) /\ Marks(i) > 0
                                     /\ ~Opens[Marks(i)]}
  IN {[address |-> stabs[i].value, file |-> FileAt(i)] : i \in before}
     \cup {[address |-> Address(stabs[f].value + stabs[i].value), file |-> FileAt(i)] : i \in after}

\* The handler is called in order.  When the section is read, the functions are
\* those of the entries, but for those before the start of their unit; each extends
\* to the next address at which an entry says that something starts or ends, the
\* size an unnamed N_FUN gives included; and its lines are those the entries give
\* it, each under the file name in force.
StabsFaithful ==
  /\ ~stabAsserted
  /\ stabPc = "done" =>
       /\ {stabFunctions[k].at : k \in 1 .. Len(stabFunctions)}
            = {i \in Functions : stabs[i].value >= UnitStart(i)}
       /\ \A k \in 1 .. Len(stabFunctions) :
            LET f == stabFunctions[k]
                above == {a \in Ends : a > stabs[f.at].value}
            IN /\ f.size = IF above = {} THEN kFallbackSize ELSE Min(above) - stabs[f.at].value
               /\ {[address |-> f.lines[i].address, file |-> f.lines[i].file] : i \in 1 .. Len(f.lines)}
                    = LinesOf(f.at)

\* "Each CU's strings are separate; the n_strx values are offsets within the
\* current CU's portion of the .stabstr section" (StabsReader::Process()).
UnitStringsOwn == string_offset_ = unit_strings
\* "This will happen at most once per module: since we've added all functions'
\* addresses to the boundary table, only one can be the last" (Finalize()).
FallbackOnce ==
  stabPc = "done" =>
    Cardinality({k \in 1 .. Len(stabFunctions) : ~\E b \in boundaries_ : b > stabFunctions[k].address}) <= 1
=============================================================================
