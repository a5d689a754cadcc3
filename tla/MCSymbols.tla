------------------------------ MODULE MCSymbols ------------------------------
(***************************************************************************)
(* The readers of DWARF and the symbol module.  Each behaviour exercises   *)
(* one of them:                                                            *)
(*   "frames"    CallFrameInfo: call frame information to STACK CFI;       *)
(*   "dies"      DieReader: a compilation unit and its split DWARF file;   *)
(*   "lines"     LineProgram: one line number program;                     *)
(*   "assign"    LineAssignment: two ranges and two lines, placed anyhow;  *)
(*   "module"    SymbolModule: functions of a unit and the symbol file;    *)
(***************************************************************************)
EXTENDS Integers, Sequences, FiniteSets, FiniteSetsExt, SequencesExt, TLC

CONSTANTS Parts, Nothing

VARIABLES
  part, eh_frame_, cfiPc, entryCount, all_ok, functionBase, cie, address_, instructions, rules_,
  cie_rules_, saved_rules_, entry_, backwards, asserted, diePc, unit, dwpFile,
  dieptr, die_stack, dispatcher, truncated, dieCount, linePc, lineHeader, lsm, pending,
  directories_, files_, highest_file_number_, omitted_line_end_, lines_, rows, astray, opcodes,
  assignPc, sorted_ranges, cuLines, range_it, line_it, current, functionLines, pieces,
  assignAsserted, symPc, handle_inter_cu_refs_, unitLanguage, low_pc, cu_offset, offset, child_contexts,
  specifications, origins, cuFunctions, forward_ref_die_to_func, unitDies, functions_, externs_,
  written

SeqsTo(S, n) == UNION {[1 .. k -> S] : k \in 0 .. n}
Distinct(S, n) == {s \in SeqsTo(S, n) : \A i, j \in DOMAIN s : i # j => s[i] # s[j]}
-----------------------------------------------------------------------------
(* Call frame information: CIEs of versions 1, 4 and 5.                    *)
Cie1 ==
  [complete |-> TRUE, version |-> 1, augmentation |-> "", address_size |-> 0,
   segment_size |-> 0, personality |-> "none", lsda |-> "none", pointer |-> "absptr",
   code_alignment_factor |-> 1, data_alignment_factor |-> -1, return_address |-> 1]
SmallCies ==
  {[Cie1 EXCEPT !.version = 4, !.address_size = 8, !.augmentation = "z",
                !.personality = "funcrel", !.lsda = "nobase"],
   [Cie1 EXCEPT !.version = 5],
   [Cie1 EXCEPT !.augmentation = "z", !.lsda = "funcrel"]}
Frames == INSTANCE CallFrameInfo WITH
  Registers <- {0, 1}, Names <- (0 :> "$a" @@ 1 :> "$b"), WindowOut <- {0},
  WindowSaved <- {1}, CfiOffsets <- {1}, Cies <- SmallCies, MaxEntries <- 2,
  FdeAddresses <- {0}, MaxInstructions <- 5, MaxAddress <- 1

(* Debugging entries: a unit with or without a split DWARF file.           *)
Attribute(a, f, n) == [attr |-> a, form |-> f, n |-> n, indirect |-> FALSE, id |-> <<1, 2>>]
SmallAbbrevs ==
  [tag : {"compile_unit"}, has_children : BOOLEAN,
   attributes : {<<>>, <<Attribute("dwo_id", "data8", 0), Attribute("dwo_name", "strp", 0)>>}]
  \cup [tag : {"subprogram"}, has_children : BOOLEAN,
        attributes : {<<Attribute("name", "string", 2)>>}]
UnitOf(v, e) ==
  [version |-> v, address_size |-> 8, offset_size |-> 4, unit_type |-> "skeleton",
   dwo_id |-> <<1, 2>>, exists |-> e]
\* Hash tables of four slots; the probes of three identifiers collide.
Slot(low, index) == [id |-> <<1, low>>, index |-> index]
FreeSlot == [id |-> <<0, 0>>, index |-> 0]
SlotTables ==
  {<<Slot(3, 3), Slot(2, 1), Slot(1, 2), FreeSlot>>,
   <<FreeSlot, Slot(3, 3), Slot(1, 2), FreeSlot>>,
   <<Slot(3, 3), Slot(1, 2), FreeSlot, Slot(2, 1)>>}
SmallDwps ==
  {[version |-> 0, slots |-> <<>>, sound |-> FALSE, cut |-> FALSE]}
  \cup [version : {1, 2}, slots : SlotTables, sound : {TRUE}, cut : BOOLEAN]
Dies == INSTANCE DieReader WITH
  Abbrevs <- SmallAbbrevs, Units <- {UnitOf(1, FALSE), UnitOf(4, TRUE), UnitOf(5, FALSE)},
  DwoIds <- {<<1, 2>>, <<1, 1>>}, DwpFiles <- SmallDwps, MaxDies <- 3

(* Line number programs of versions 4 and 5; one header is cut short.      *)
Relative(n) == [abs |-> FALSE, names |-> <<n>>]
LineHeader(v, s) ==
  [version |-> v, min_insn_length |-> v - 3, line_base |-> -1, line_range |-> 2, opcode_base |-> 10,
   dirs |-> <<Relative("d")>>, sound |-> s,
   files |-> <<[path |-> Relative("f"), dir |-> 1],
               [path |-> [abs |-> TRUE, names |-> <<"g">>], dir |-> 2]>>]
Lines == INSTANCE LineProgram WITH
  LineHeaders <- {LineHeader(4, TRUE), LineHeader(5, TRUE), LineHeader(5, FALSE)},
  SpecialOpcodes <- {1, 3}, FileNumbers <- {1, 2, 3}, AddressSpace <- 4, LineSpace <- 2,
  MaxOpcodes <- 6, compilation_dir_ <- [abs |-> TRUE, names |-> <<"c">>]

(* Two ranges and two lines anywhere in five addresses.                    *)
Placed == {x \in [address : 0 .. 4, size : 0 .. 4] : x.address + x.size <= 5}
RangesOf(f) ==
  {[address |-> x.address, size |-> x.size, function |-> f] : x \in {y \in Placed : y.address > 0}}
LinesOf(n) ==
  {[address |-> x.address, size |-> x.size, number |-> n] : x \in {y \in Placed : y.size > 0}}
Assign == INSTANCE LineAssignment WITH
  RangeInputs <- {{r, q} : r \in RangesOf("f"), q \in RangesOf("g")},
  LineInputs <- {{l, m} : l \in LinesOf(1), m \in LinesOf(2)}, AddressLimit <- 5

(* A compilation unit of up to three entries.                              *)
Kind(tag, named, linkage, decl, inline, attr, code, ranges) ==
  [tag |-> tag, named |-> named, linkage |-> linkage, decl |-> decl, inline |-> inline,
   attr |-> attr, code |-> code, ranges |-> ranges]
Kinds ==
  {Kind("scope", TRUE, "", FALSE, FALSE, "", "none", 0),
   Kind("scope", FALSE, "", FALSE, FALSE, "specification", "none", 0),
   Kind("function", TRUE, "", TRUE, FALSE, "", "none", 0),
   Kind("function", FALSE, "", FALSE, FALSE, "specification", "length", 0),
   Kind("function", FALSE, "mangled", TRUE, TRUE, "specification", "none", 0),
   Kind("function", FALSE, "", FALSE, FALSE, "origin", "none", 1),
   Kind("function", TRUE, "", FALSE, FALSE, "", "none", 5),
   Kind("function", FALSE, "plain", FALSE, TRUE, "", "none", 0)}
RangeLists == <<<<0, 0>>, <<4, 5>>, <<9, 1>>, <<1, 2>>, <<0, 0>>, <<1, 5>>, <<0, 0>>, <<2, 3>>>>
Module == INSTANCE SymbolModule WITH
  DieKinds <- Kinds, RangesSection <- RangeLists, MaxPc <- 9, IntSpace <- 4,
  Roots <- {[language |-> "cxx", low_pc |-> 1], [language |-> "asm", low_pc |-> 0]},
  SourceFiles <- {1, 2}, ModuleRanges <- {[address |-> 1, size |-> 4]}, ExternAddresses <- {3},
  MaxOffset <- 3, architecture_ <- "arm", Null <- Nothing

-----------------------------------------------------------------------------
cfiVars ==
  <<eh_frame_, cfiPc, entryCount, all_ok, functionBase, cie, address_, instructions, rules_,
    cie_rules_, saved_rules_, entry_, backwards, asserted>>
dieVars ==
  <<diePc, unit, dwpFile, dieptr, die_stack, dispatcher, truncated, dieCount>>
lineVars ==
  <<linePc, lineHeader, lsm, pending, directories_, files_, highest_file_number_,
    omitted_line_end_, lines_, rows, astray, opcodes>>
assignVars ==
  <<assignPc, sorted_ranges, cuLines, range_it, line_it, current, functionLines, pieces,
    assignAsserted>>
symbolVars ==
  <<symPc, handle_inter_cu_refs_, unitLanguage, low_pc, cu_offset, offset, child_contexts,
    specifications, origins, cuFunctions, forward_ref_die_to_func, unitDies, functions_,
    externs_, written>>
allVars == <<part, cfiVars, dieVars, lineVars, assignVars, symbolVars>>

Some(S) == CHOOSE x \in S : TRUE
\* A dumper that is not exercised stays in one of its initial states.
Idle ==
  /\ part # "frames" => eh_frame_ = FALSE
  /\ part # "dies" => dwpFile = Some(SmallDwps)
  /\ part # "assign" =>
       /\ sorted_ranges = SetToSeq({[address |-> 1, size |-> 1, function |-> f] : f \in {"f", "g"}})
       /\ cuLines = SetToSeq({[address |-> 0, size |-> 1, number |-> n] : n \in {1, 2}})
  /\ part # "module" => handle_inter_cu_refs_ = FALSE /\ externs_ = {}
AllInit ==
  /\ part \in Parts /\ Idle
  /\ Frames!CfiInit
  /\ Dies!DieInit
  /\ Lines!LineInit
  /\ Assign!AssignInit
  /\ Module!SymInit
AllNext ==
  /\ UNCHANGED part
  /\ \/ part = "frames" /\ Frames!CfiNext
        /\ UNCHANGED <<dieVars, lineVars, assignVars, symbolVars>>
     \/ part = "dies" /\ Dies!DieNext
        /\ UNCHANGED <<cfiVars, lineVars, assignVars, symbolVars>>
     \/ part = "lines" /\ Lines!LineNext
        /\ UNCHANGED <<cfiVars, dieVars, assignVars, symbolVars>>
     \/ part = "assign" /\ Assign!AssignNext
        /\ UNCHANGED <<cfiVars, dieVars, lineVars, symbolVars>>
     \/ part = "module" /\ Module!SymNext
        /\ UNCHANGED <<cfiVars, dieVars, lineVars, assignVars>>
AllSpec == AllInit /\ [][AllNext]_allVars

\* Instructions are interpreted alike in both sections, and whether or not an entry
\* was refused before: one of the four cases is explored to MaxInstructions, the
\* others up to the third instruction.
LongestOnce == eh_frame_ \/ ~all_ok => instructions < 3
-----------------------------------------------------------------------------
(* The properties of the dumpers; a conjunction where several read one      *)
(* kind of debugging information.                                           *)

\* CallFrameInfo: the STACK CFI records restore, at every address, what the rules
\* of the call frame information in force there say.
FramesFaithful == part = "frames" => Frames!FramesFaithful

\* DieReader: handlers are begun and ended in order, once but for the root handler,
\* and a skeleton unit takes its content from a split unit with its identifier only.
DiesDelivered == part = "dies" => Dies!DiesDelivered

\* LineProgram and LineAssignment: the rows of the line number program are the
\* lines of the module where the reader keeps its place (no DW_LNE_define_file, no
\* MD5 sums), and each function has the pieces of lines in its ranges.
LinesRight == /\ part = "lines" => Lines!LinesFaithful
              /\ part = "assign" => Assign!LinesAssigned

\* SymbolModule: names, ranges, sources and externs of the symbol file are those
\* of the entries of the unit.
SymbolsWritten == part = "module" => Module!SymbolsWritten
=============================================================================
