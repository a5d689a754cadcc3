----------------------------- MODULE SymbolModule -----------------------------
(* From the debugging information entries (DIEs) of a file's compilation units *)
(* to the records of its symbol file: DwarfCUToModule names the functions from *)
(* their own attributes, from the scopes around them and from the entries that *)
(* their specification and abstract-origin attributes refer to, and finds      *)
(* their address ranges (common/dwarf_cu_to_module.cc, RangeListReader of      *)
(* common/dwarf/dwarf2reader.cc, common/dwarf_range_list_handler.cc,           *)
(* common/language.cc); Module keeps functions, externs and files and writes   *)
(* them (common/module.cc).                                                    *)
(* The externs at the start are those of a stripped file read before its debug *)
(* file.                                                                       *)
(* A name is a sequence of components: 10 + o is the DW_AT_name of the entry   *)
(* at offset o, 20 + o its demangled and 30 + o its raw linkage name.          *)
EXTENDS Integers, Sequences, FiniteSets, SequencesExt, FiniteSetsExt

CONSTANTS DieKinds,        \* [tag, named, linkage, decl, inline, attr, code, ranges]
          Roots,           \* of the compilation units: [language, low_pc], the
                           \* language "cxx", "java" or "asm"
          RangesSection,   \* .debug_ranges as a sequence of <<start, end>>, or Null
          MaxPc,           \* the highest address: selects a base in .debug_ranges
          IntSpace,        \* how many values an int has
          SourceFiles,     \* names of source files, as numbers: their order
          ModuleRanges,    \* SetAddressRanges: set of [address, size]
          ExternAddresses, \* of the symbols of the ELF symbol table
          architecture_,
          MaxOffset,       \* how many entries the units have together
          Null

VARIABLES symPc,           \* "unit", "die", "externs", "written"
          handle_inter_cu_refs_, unitLanguage, low_pc, cu_offset, offset,
          child_contexts,  \* names of the open scopes, innermost last
          specifications, origins, cuFunctions, forward_ref_die_to_func,
          unitDies,        \* every entry read (history)
          functions_, externs_, written
symbolVars == <<symPc, handle_inter_cu_refs_, unitLanguage, low_pc, cu_offset, offset, child_contexts,
                specifications, origins, cuFunctions, forward_ref_die_to_func, unitDies,
                functions_, externs_, written>>

NoName == <<>>
NameOmitted == <<0>>
SymInit ==
  /\ symPc = "unit" /\ handle_inter_cu_refs_ \in BOOLEAN /\ unitLanguage = "cxx" /\ low_pc = 0
  /\ cu_offset = 1 /\ offset = 1 /\ child_contexts = <<>>
  /\ specifications = <<>> /\ origins = <<>> /\ cuFunctions = <<>>
  /\ forward_ref_die_to_func = <<>> /\ unitDies = <<>>
  /\ functions_ = {} /\ externs_ \in SUBSET ExternAddresses /\ written = Null

-----------------------------------------------------------------------------
(* Names.                                                                      *)
HasFunctions(language) == language # "asm"
MakeQualifiedName(language, parent, name) ==
  IF parent = NoName \/ language = "asm" THEN name ELSE parent \o name
\* The names a linkage name yields: demangled, or raw when it is not demangled.
DemangleName(language, kind, o) ==
  [demangled |-> IF kind.linkage = "mangled" /\ language = "cxx" THEN <<20 + o>> ELSE NoName,
   raw |-> IF kind.linkage # "" /\ (kind.linkage = "plain" \/ language # "cxx") THEN <<30 + o>>
           ELSE NoName]

IsUnhandledInterCUReference(target) == ~handle_inter_cu_refs_ /\ target < cu_offset
\* The specification a DW_AT_specification attribute finds, Null if it finds none.
FindSpecification(kind, target) ==
  IF kind.attr = "specification" /\ ~IsUnhandledInterCUReference(target)
     /\ target \in DOMAIN specifications
  THEN specifications[target] ELSE Null
IsForward(kind, target) ==
  /\ \/ kind.attr = "specification" /\ ~IsUnhandledInterCUReference(target)
        /\ target \notin DOMAIN specifications
     \/ kind.attr = "origin" /\ target \notin DOMAIN origins
  /\ target > offset

EnclosingName == IF child_contexts = <<>> THEN NoName ELSE Last(child_contexts)

\* Mutant: an entry with a specification is qualified by the scope it stands in.
ComputeNamesHere(kind, target) ==
  LET spec == FindSpecification(kind, target)
      d == DemangleName(unitLanguage, kind, offset)
  IN [qualified |-> IF d.demangled # NoName THEN d.demangled
                    ELSE IF spec # Null THEN spec.qualified_name ELSE NoName,
      unqualified |-> IF kind.named THEN <<10 + offset>>
                      ELSE IF spec # Null THEN spec.unqualified_name ELSE d.raw,
      enclosing |-> EnclosingName]

\* The parts of a name: a qualified name from the linkage name of the entry or of
\* its specification, else an unqualified name within an enclosing one.
ComputeNames(kind, target) ==
  LET spec == FindSpecification(kind, target)
      d == DemangleName(unitLanguage, kind, offset)
  IN [qualified |-> IF d.demangled # NoName THEN d.demangled
                    ELSE IF spec # Null THEN spec.qualified_name ELSE NoName,
      unqualified |-> IF kind.named THEN <<10 + offset>>
                      ELSE IF spec # Null THEN spec.unqualified_name ELSE d.raw,
      enclosing |-> IF spec # Null THEN spec.enclosing_name ELSE EnclosingName]

ComputeQualifiedName(kind, target) ==
  LET n == ComputeNames(kind, target)
  IN IF n.qualified # NoName THEN n.qualified
     ELSE IF n.unqualified # NoName
          THEN MakeQualifiedName(unitLanguage, n.enclosing, n.unqualified)
     ELSE NoName
\* What the same function records for references to this entry.
RecordSpecification(kind, target) ==
  LET n == ComputeNames(kind, target)
      spec == IF n.qualified # NoName
              THEN [qualified_name |-> n.qualified, enclosing_name |-> NoName,
                    unqualified_name |-> NoName]
              ELSE [qualified_name |-> NoName, enclosing_name |-> n.enclosing,
                    unqualified_name |-> n.unqualified]
  IN IF (kind.decl /\ n.qualified # NoName)
        \/ (n.qualified = NoName /\ n.unqualified # NoName)
     THEN (offset :> spec) @@ specifications
     ELSE specifications
-----------------------------------------------------------------------------
(* Address ranges.                                                             *)
PcRange(address, size) == [address |-> address, size |-> size]
AddressOrder(a, b) == a.address < b.address
\* The list at a position of .debug_ranges: Null if it runs out of the section.
ReadRangeList(at, base) ==
  LET n == Len(RangesSection)
      ends == {i \in at + 1 .. n : RangesSection[i] = <<0, 0>>}
      list == at + 1 .. Min(ends) - 1
      selects == {i \in list : RangesSection[i][1] = MaxPc}
      BaseAt(i) == LET before == {j \in selects : j < i}
                   IN IF before = {} THEN base ELSE RangesSection[Max(before)][2]
      adds == SetToSortSeq(list \ selects, <)
  IN IF ends = {} THEN Null
     ELSE SortSeq([k \in 1 .. Len(adds) |->
                     PcRange(RangesSection[adds[k]][1] + BaseAt(adds[k]),
                           RangesSection[adds[k]][2] - RangesSection[adds[k]][1])],
                  AddressOrder)

\* The attributes of the kinds of code the entry at offset o may have.
LowPc(code, o) == IF code \in {"address", "length"} THEN o ELSE 0
HighPc(code, o) == CASE code = "address" -> LowPc(code, o) + 1
                     [] code \in {"length", "zero"} -> LowPc(code, o) + 1   \* high_pc_ += low_pc_
                     [] OTHER -> 0
\* An attribute DW_AT_ranges of 0 counts as none.
FunctionRanges(kind, o, base) ==
  IF kind.ranges = 0
  THEN <<PcRange(LowPc(kind.code, o), HighPc(kind.code, o) - LowPc(kind.code, o))>>
  ELSE LET r == IF RangesSection = Null THEN Null ELSE ReadRangeList(kind.ranges, base)
       IN IF r = Null THEN <<>> ELSE r
\* The sizes are added up in an int.
IsEmptyRange(ranges) == FoldLeft(LAMBDA total, r : (total + r.size) % IntSpace, 0, ranges) = 0
-----------------------------------------------------------------------------
(* The handlers of the entries.                                                *)
Targets(kind) == IF kind.attr = "" THEN {0} ELSE (1 .. MaxOffset) \ {offset}
Remember(kind, target) ==
  unitDies' = Append(unitDies, [kind |-> kind, target |-> target, unit |-> cu_offset,
                                parent |-> EnclosingName, language |-> unitLanguage,
                                low_pc |-> low_pc])

\* The root entry: only compilation units are read.
StartUnit ==
  /\ symPc = "unit" /\ offset <= MaxOffset
  /\ \E root \in Roots : unitLanguage' = root.language /\ low_pc' = root.low_pc
  /\ symPc' = "die" /\ cu_offset' = offset /\ child_contexts' = <<>> /\ cuFunctions' = <<>>
  /\ forward_ref_die_to_func' = <<>>
  /\ UNCHANGED <<handle_inter_cu_refs_, offset, specifications, origins, unitDies, functions_,
                 externs_, written>>

\* NamedScopeHandler: its name is the context of its children.
NamedScope ==
  /\ symPc = "die" /\ offset <= MaxOffset
  /\ \E kind \in {k \in DieKinds : k.tag = "scope"} : \E target \in Targets(kind) :
       /\ child_contexts' = Append(child_contexts, ComputeQualifiedName(kind, target))
       /\ specifications' = RecordSpecification(kind, target)
       /\ Remember(kind, target)
  /\ offset' = offset + 1
  /\ UNCHANGED <<symPc, handle_inter_cu_refs_, unitLanguage, low_pc, cu_offset, origins, cuFunctions,
                 forward_ref_die_to_func, functions_, externs_, written>>
EndScope ==
  /\ symPc = "die" /\ child_contexts # <<>>
  /\ child_contexts' = Front(child_contexts)
  /\ UNCHANGED <<symPc, handle_inter_cu_refs_, unitLanguage, low_pc, cu_offset, offset, specifications,
                 origins, cuFunctions, forward_ref_die_to_func, unitDies, functions_, externs_,
                 written>>

\* FuncHandler::Finish(): a function with code, or an abstract origin.
FinishFunction(kind, target, name_) ==
  LET ranges == FunctionRanges(kind, offset, low_pc)
      fixed == IF name_ # NoName /\ offset \in DOMAIN forward_ref_die_to_func
               THEN [cuFunctions EXCEPT ![forward_ref_die_to_func[offset]].name = name_]
               ELSE cuFunctions
      function == [name |-> IF name_ # NoName THEN name_ ELSE NameOmitted,
                   address |-> ranges[1].address, ranges |-> ranges, lines |-> <<>>,
                   die |-> offset]
  IN IF ~IsEmptyRange(ranges) /\ function.address # 0
     THEN /\ cuFunctions' = Append(fixed, function)
          /\ forward_ref_die_to_func' =
               IF IsForward(kind, target) /\ target \in DOMAIN forward_ref_die_to_func
               THEN [forward_ref_die_to_func EXCEPT ![target] = Len(cuFunctions) + 1]
               ELSE forward_ref_die_to_func
          /\ UNCHANGED origins
     ELSE /\ cuFunctions' = fixed
          /\ origins' = IF IsEmptyRange(ranges) /\ kind.inline THEN (offset :> name_) @@ origins
                        ELSE origins
          /\ UNCHANGED forward_ref_die_to_func
\* A subprogram: its attributes, EndAttributes() and Finish().
Func ==
  /\ symPc = "die" /\ offset <= MaxOffset
  /\ \E kind \in {k \in DieKinds : k.tag = "function"} : \E target \in Targets(kind) :
       LET own == ComputeQualifiedName(kind, target)
           name_ == IF own = NoName /\ kind.attr = "origin" /\ target \in DOMAIN origins
                    THEN origins[target] ELSE own
       IN /\ specifications' = RecordSpecification(kind, target)
          /\ FinishFunction(kind, target, name_)
          /\ Remember(kind, target)
  /\ offset' = offset + 1
  /\ UNCHANGED <<symPc, handle_inter_cu_refs_, unitLanguage, low_pc, cu_offset, child_contexts, functions_,
                 externs_, written>>
-----------------------------------------------------------------------------
(* Module.                                                                     *)
AddressIsInModule(a) ==
  ModuleRanges = {} \/ \E s \in ModuleRanges : s.address <= a /\ a < s.address + s.size
\* AddFunction() for each function in turn: the first of those that are equal stays.
AddFunctions(S, fs) ==
  LET Equal(f, g) == f.address = g.address /\ f.name = g.name
      new == {i \in 1 .. Len(fs) : /\ AddressIsInModule(fs[i].address)
                                   /\ ~\E g \in S : Equal(fs[i], g)
                                   /\ ~\E j \in 1 .. i - 1 : Equal(fs[i], fs[j])}
  IN S \cup {fs[i] : i \in new}
\* Each takes the extern at its address, on ARM else the one with the Thumb bit set.
RemoveExterns(E, fs) ==
  LET Drop(ext, f) ==
        IF ~AddressIsInModule(f.address) THEN ext
        ELSE IF f.address \in ext THEN ext \ {f.address}
        ELSE IF architecture_ = "arm" /\ f.address % 2 = 0 THEN ext \ {f.address + 1}
        ELSE ext
  IN FoldLeft(Drop, E, fs)

\* A line for each range, from a source file, as ReadSourceLines() and
\* AssignLinesToFunctions() give them, or none.
WithLines(f, file) ==
  IF file = Null THEN f
  ELSE [f EXCEPT !.lines = [i \in 1 .. Len(f.ranges) |->
                              [address |-> f.ranges[i].address, file |-> file]]]

\* DwarfCUToModule::Finish(), for units with an entry below their root.
FinishUnit ==
  /\ symPc = "die" /\ child_contexts = <<>> /\ offset > cu_offset
  /\ IF ~HasFunctions(unitLanguage) THEN UNCHANGED <<functions_, externs_, specifications>>
     ELSE /\ \E file \in SourceFiles \cup {Null} :
               LET fs == [i \in 1 .. Len(cuFunctions) |-> WithLines(cuFunctions[i], file)]
               IN /\ functions_' = AddFunctions(functions_, fs)
                  /\ externs_' = RemoveExterns(externs_, fs)
          /\ specifications' = IF handle_inter_cu_refs_ THEN specifications ELSE <<>>
  /\ symPc' = IF offset <= MaxOffset THEN "unit" ELSE "externs"
  /\ cuFunctions' = <<>>
  /\ UNCHANGED <<handle_inter_cu_refs_, unitLanguage, low_pc, cu_offset, offset, child_contexts, origins,
                 forward_ref_die_to_func, unitDies, written>>

AddExtern ==
  /\ symPc = "externs"
  /\ \E a \in ExternAddresses : a \notin externs_ /\ AddressIsInModule(a)
                                /\ externs_' = externs_ \cup {a}
  /\ UNCHANGED <<symPc, handle_inter_cu_refs_, unitLanguage, low_pc, cu_offset, offset, child_contexts,
                 specifications, origins, cuFunctions, forward_ref_die_to_func, unitDies,
                 functions_, written>>

\* The files that lines cite are numbered in the order of their names.
AssignSourceIds ==
  LET cited == {f \in SourceFiles : \E g \in functions_ : \E i \in 1 .. Len(g.lines) : g.lines[i].file = f}
  IN [f \in SourceFiles |-> IF f \in cited THEN Cardinality({h \in cited : h < f}) ELSE -1]

\* The position in a function's lines at which the loop over its ranges arrives.
LineAfter(f) ==
  LET after[k \in 0 .. Len(f.ranges)] ==
        IF k = 0 THEN 1
        ELSE Min({j \in after[k - 1] .. Len(f.lines) + 1 :
                    j = Len(f.lines) + 1
                    \/ f.lines[j].address \notin f.ranges[k].address
                                                 .. f.ranges[k].address + f.ranges[k].size - 1})
  IN after
Write ==
  /\ symPc = "externs"
  /\ LET ids == AssignSourceIds
     IN written' =
          [files |-> {[id |-> ids[f], name |-> f] : f \in {g \in SourceFiles : ids[g] >= 0}},
           funcs |-> {[name |-> f.name, range |-> f.ranges[k],
                       lines |-> {[address |-> f.lines[j].address, id |-> ids[f.lines[j].file]] :
                                    j \in LineAfter(f)[k - 1] .. LineAfter(f)[k] - 1}] :
                        <<f, k>> \in {p \in functions_ \X (1 .. 3) : p[2] <= Len(p[1].ranges)}},
           publics |-> externs_]
  /\ symPc' = "written"
  /\ UNCHANGED <<handle_inter_cu_refs_, unitLanguage, low_pc, cu_offset, offset, child_contexts,
                 specifications, origins, cuFunctions, forward_ref_die_to_func, unitDies,
                 functions_, externs_>>

SymNext == StartUnit \/ NamedScope \/ EndScope \/ Func \/ FinishUnit \/ AddExtern \/ Write
-----------------------------------------------------------------------------
(* What the names should be, from the entries alone.                           *)
Die(o) == unitDies[o]
Linkage(o) == DemangleName(Die(o).language, Die(o).kind, o)
\* The entries that o's specification attributes lead to, o first.
SpecificationChain(o) ==
  LET chain[p \in 1 .. Len(unitDies)] ==
        LET d == Die(p)
            usable(t) == LET c == chain[t]
                             q == \E i \in 1 .. Len(c) : Linkage(c[i]).demangled # NoName
                         IN IF q THEN Die(t).kind.decl
                            ELSE \E i \in 1 .. Len(c) : Die(c[i]).kind.named
                                                        \/ (i = Len(c) /\ Linkage(c[i]).raw # NoName)
        IN IF d.kind.attr = "specification" /\ d.target < p
              /\ (handle_inter_cu_refs_ \/ d.target >= d.unit)
           THEN IF usable(d.target) THEN <<p>> \o chain[d.target] ELSE <<p>>
           ELSE <<p>>
  IN chain[o]
\* The first linkage name along the chain, else the first name along it in the
\* scope where the chain ends.
ExpectedName(o) ==
  LET c == SpecificationChain(o)
      linked == {i \in 1 .. Len(c) : Linkage(c[i]).demangled # NoName}
      named == {i \in 1 .. Len(c) : Die(c[i]).kind.named}
      end == Die(c[Len(c)])
  IN IF linked # {} THEN Linkage(c[Min(linked)]).demangled
     ELSE IF named # {} THEN MakeQualifiedName(Die(o).language, end.parent, <<10 + c[Min(named)]>>)
     ELSE IF Linkage(c[Len(c)]).raw # NoName
          THEN MakeQualifiedName(Die(o).language, end.parent, Linkage(c[Len(c)]).raw)
     ELSE NoName
ExpectedFunctionName(o) ==
  LET own == ExpectedName(o)
      t == Die(o).target
      viaOrigin == own = NoName /\ Die(o).kind.attr = "origin" /\ t < o
                   /\ Die(t).kind.tag = "function" /\ Die(t).kind.inline
                   /\ Die(t).kind.code = "none" /\ Die(t).kind.ranges = 0
  IN IF viaOrigin
     THEN IF ExpectedName(t) # NoName THEN ExpectedName(t) ELSE NameOmitted
     ELSE IF own # NoName THEN own ELSE NameOmitted

RefersForward(o) == Die(o).kind.attr # "" /\ Die(o).target > o
RangesOf(o) == FunctionRanges(Die(o).kind, o, Die(o).low_pc)
\* The entries of functions whose code begins in the module, other than at address
\* zero, and is not empty: the ones the module is to hold.
WithCode ==
  {o \in 1 .. offset - 1 :
     /\ Die(o).kind.tag = "function" /\ HasFunctions(Die(o).language) /\ ~IsEmptyRange(RangesOf(o))
     /\ RangesOf(o)[1].address # 0 /\ AddressIsInModule(RangesOf(o)[1].address)}

\* The functions have the names that their entries and the entries these refer
\* back to give them: a specification in another unit counts only where references
\* across units are handled, an abstract origin always.  (Of a function that refers
\* forward only ForwardNamesFixed says what its name should be.)  Every function of
\* a finished unit with code in the module is there, where the sizes of its ranges
\* do not add up to a multiple of 2^32; the module holds no function twice, none
\* outside its segments and no extern that a function replaced.  The file written
\* from it gives every line once, under the record of the range that contains it,
\* with the number of a file record of its own file, the numbers being 0, 1, ...
\* without a gap.
SymbolsWritten ==
  /\ symPc # "die" =>
       /\ \A f \in functions_ :
            /\ RefersForward(f.die) \/ f.name = ExpectedFunctionName(f.die)
            /\ AddressIsInModule(f.address)
            /\ \A g \in functions_ : f # g => <<f.name, f.address>> # <<g.name, g.address>>
       /\ \A o \in WithCode : \E f \in functions_ :
            /\ f.address = RangesOf(o)[1].address
            /\ RefersForward(o) \/ f.name = ExpectedFunctionName(o)
  /\ symPc = "unit" => \A f \in functions_ : f.address \notin externs_
  /\ symPc = "written" =>
       LET recs == written.funcs
       IN /\ {r.id : r \in written.files} = 0 .. Cardinality(written.files) - 1
          /\ \A f \in functions_ : \A j \in 1 .. Len(f.lines) :
               Cardinality({<<r, l>> \in recs \X UNION {r.lines : r \in recs} :
                              /\ r.name = f.name /\ l \in r.lines /\ l.address = f.lines[j].address
                              /\ l.address \in r.range.address .. r.range.address + r.range.size - 1
                              /\ [id |-> l.id, name |-> f.lines[j].file] \in written.files}) = 1

\* "If we have a forward reference to a DW_AT_specification or
\* DW_AT_abstract_origin, then don't warn, the name will be fixed up later"
\* (FuncHandler::Finish()): a function whose specification stands later in its
\* unit, with a name, has that name when the unit is finished.
ForwardNamesFixed ==
  symPc = "externs" =>
    \A f \in functions_ :
      LET d == Die(f.die)
      IN d.kind.attr = "specification" /\ d.target > f.die /\ d.target <= Len(unitDies)
         /\ Die(d.target).unit = d.unit /\ Die(d.target).kind.named
         => f.name # NameOmitted
=============================================================================
