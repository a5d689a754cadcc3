------------------------------ MODULE MCReaders ------------------------------
(***************************************************************************)
(* The readers of other files.  Each behaviour exercises one of them:      *)
(*   "stabs"     Stabs: up to four entries;                                *)
(*   "elf"       ElfSymbols: an object, its debug file and directories;    *)
(*   "mach"      MachSymbols: thin and fat files;                          *)
(*   "windows"   WindowsSymbols: transformed images, symbols, unwind codes.*)
(***************************************************************************)
EXTENDS Integers, Sequences, FiniteSets, FiniteSetsExt, SequencesExt, TLC

CONSTANTS Parts

VARIABLES
  part, stabPc, iterator_, stabs, string_offset_, next_cu_string_offset_, unit_strings,
  stab_source_file_, queued_lines_, function_address, in_compilation_unit_,
  comp_unit_base_address_, boundaries_, current_function_, stabFunctions, stabExterns,
  stabAsserted, elfPc, objFile, debuglink_file_, debug_dirs_, searched, symbol_data, header,
  elfFile, identifier, moduleName, found_debug_info_section, found_usable_info, loading_addr_,
  address_ranges_, loaded_sections_, elfLoads, elfExterns, machPc, machFile, asked, machData,
  selected_object_file_, machIdentifier, cmdIndex, listHere, listAvailable, machLoadAddress,
  machLoads, handed, winPc, pdb, opens, code_file_, image_map_, file_ids_, unique_files_,
  rva_symbol, turn, last_frame, winOutput, winResult

SeqsTo(S, n) == UNION {[1 .. k -> S] : k \in 0 .. n}
Distinct(S, n) == {s \in SeqsTo(S, n) : \A i, j \in DOMAIN s : i # j => s[i] # s[j]}
-----------------------------------------------------------------------------
(* STABS entries.                                                          *)
Stab(t, n, v) == [type |-> t, name |-> n, value |-> v]
Entries ==
  {Stab("SO", "a", 1), Stab("SO", "a", 2), Stab("SO", "", 2), Stab("SO", "dir/", 1),
   Stab("FUN", "f", 1), Stab("FUN", "f", 2), Stab("FUN", "", 1), Stab("SLINE", "", 0),
   Stab("SLINE", "", 3), Stab("SOL", "b", 0), Stab("UNDF", "", 1), Stab("EXT", "x", 1)}
StabsOf == INSTANCE Stabs WITH
  StabEntries <- Entries, StabAddresses <- 8, kFallbackSize <- 6, unitized_ <- TRUE,
  MaxStabs <- 4, MaxStabUnits <- 1

(* ELF objects, with and without what a stripped one lacks, of several     *)
(* machines, and the debug files a directory may hold.                     *)
ElfSymbol(v, t, d) == [value |-> v, type |-> t, shndx |-> d]
ElfTables ==
  ".symtab" :> {ElfSymbol(1, "FUNC", "1"), ElfSymbol(2, "FUNC", "UNDEF"), ElfSymbol(5, "FUNC", "1")}
  @@ ".dynsym" :> {ElfSymbol(1, "OBJECT", "1"), ElfSymbol(3, "FUNC", "1")}
LoadsAt(a, b) == <<[vaddr |-> a, memsz |-> b], [vaddr |-> a + b + 1, memsz |-> 1]>>
BuildId(n) == [type |-> "build_id", descsz |-> n, desc |-> "id"]
ElfBase ==
  [opens |-> TRUE, valid |-> TRUE, class |-> 64, machine |-> "x86_64", data |-> "lsb",
   loads |-> LoadsAt(1, 3), notes |-> <<>>, noteSection |-> <<>>, text |-> 1,
   dynamic |-> <<[tag |-> "NEEDED", val |-> 1], [tag |-> "SONAME", val |-> 3]>>, dynstr |-> 4,
   sections |-> {}, symbols |-> ElfTables, link |-> "sound"]
Section(name) == <<name, "PROGBITS">>
SymtabSections == {<<".symtab", "SYMTAB">>, <<".strtab", "STRTAB">>}
DebugSections == SymtabSections \cup {Section(".eh_frame"), Section(".debug_info")}
Elfs ==
  {[ElfBase EXCEPT !.sections = s \cup {<<".dynsym", "DYNSYM">>, <<".dynstr", "STRTAB">>},
                   !.noteSection = <<BuildId(1)>>] :
     s \in SUBSET (DebugSections \cup {Section(".gnu_debuglink")})}
  \cup {[ElfBase EXCEPT !.sections = s \cup {Section(".gnu_debuglink")}, !.machine = m,
                        !.data = "msb", !.class = 32] :
          m \in {"mips", "ppc", "other"},
          s \in SUBSET {<<".debug_info", "MIPS_DWARF">>, Section(".stab"),
                        <<".debug_frame", "MIPS_DWARF">>}}
  \cup {[ElfBase EXCEPT !.valid = FALSE], [ElfBase EXCEPT !.opens = FALSE],
        [ElfBase EXCEPT !.data = "bad"], [ElfBase EXCEPT !.class = 0],
        [ElfBase EXCEPT !.text = 0, !.notes = <<<<BuildId(0)>>>>],
        [ElfBase EXCEPT !.dynstr = 3], [ElfBase EXCEPT !.dynamic = <<>>],
        [ElfBase EXCEPT !.sections = DebugSections \ {Section(".debug_info")}, !.link = "broken"]}
DebugElf == [ElfBase EXCEPT !.loads = LoadsAt(2, 2)]
DebugElfs ==
  {[DebugElf EXCEPT !.sections = s] : s \in SUBSET DebugSections}
  \cup {[DebugElf EXCEPT !.machine = "mips", !.data = d,
                         !.sections = {<<".debug_info", "MIPS_DWARF">>}] : d \in {"lsb", "msb"}}
  \cup {[DebugElf EXCEPT !.valid = FALSE]}
Elf == INSTANCE ElfSymbols WITH
  ObjectFiles <- Elfs, MaxDirs <- 2, SymbolDatas <- {"all", "no_cfi", "only_cfi"},
  DirContents <- [kind : {"missing", "same", "unreadable", "mismatch"}, file : {DebugElf}]
                 \cup [kind : {"found"}, file : DebugElfs]

(* Mach-O files.  In a segment an address equals its offset.               *)
MachSection(n, a, s, z) == [name |-> n, address |-> a, offset |-> a, size |-> s, zerofill |-> z]
Segment(n, sz, off, fs, b, secs) ==
  [type |-> "segment", name |-> n, size |-> sz, vmaddr |-> 1, fileoff |-> off, filesize |-> fs,
   bits_64 |-> b, sections |-> secs]
Text == Segment("__TEXT", 5, 1, 2, TRUE, <<MachSection("__eh_frame", 2, 1, FALSE)>>)
Dwarf(s) == Segment("__DWARF", 6, 1, 5, TRUE, <<MachSection("__debug_info", 5, s, FALSE),
                                                MachSection("__debug_frame", 3, 1, TRUE)>>)
Symtab(sz, o) ==
  [type |-> "symtab", size |-> sz, symoff |-> o, nsyms |-> 2, stroff |-> 4, strsize |-> 2,
   sound |-> TRUE]
OtherCommand(t, n) == [type |-> t, size |-> n]
Commands ==
  {Text, Dwarf(1), Dwarf(2),
   Segment("__DWARF", 6, 0, 0, FALSE, <<MachSection("__debug_info", 3, 1, FALSE),
                                        MachSection("__debug_info", 3, 1, FALSE)>>),
   Segment("__DWARF", 4, 1, 2, FALSE, <<MachSection("__debug_info", 2, 1, FALSE)>>),
   Segment("__TEXT", 4, 1, 15, TRUE, <<>>),
   Symtab(3, 1), Symtab(3, 14), Symtab(2, 1),
   OtherCommand("uuid", 2), OtherCommand("other", 0), OtherCommand("other", 1)}
SizeOf(cs) == FoldLeft(LAMBDA a, c : a + c.size, 0, cs)
MachObject(t, magic, st, cs, n, size, sizeofcmds) ==
  [cputype |-> t, cpusubtype |-> st, placed |-> TRUE, large |-> FALSE, size |-> size,
   magic |-> magic, htype |-> t, hsubtype |-> st, complete |-> TRUE, ncmds |-> n,
   sizeofcmds |-> sizeofcmds, commands |-> cs]
Intel(cs, n, sizeofcmds) == MachObject("x86_64", "cigam_64", 3, cs, n, 15, sizeofcmds)
Arm64(st, cs) == MachObject("arm64", "cigam_64", st, cs, Len(cs), 40, SizeOf(cs))
FatObjects ==
  {Arm64(0, <<Text, OtherCommand("uuid", 2)>>), Arm64(2, <<Text>>), Intel(<<>>, 0, 0),
   [Arm64(0, <<>>) EXCEPT !.hsubtype = 2], [Arm64(0, <<>>) EXCEPT !.magic = "magic"],
   MachObject("other", "cigam_64", 0, <<>>, 0, 6, 0), [Arm64(0, <<>>) EXCEPT !.placed = FALSE],
   [Arm64(0, <<Text>>) EXCEPT !.large = TRUE]}
MachFile(m, os) ==
  [access |-> TRUE, entries |-> 1, contents |-> "read", short |-> FALSE, magic |-> m, objects |-> os]
ThinFile == MachFile("thin", <<Arm64(0, <<>>)>>)
ThinFiles ==
  {MachFile("thin", <<Intel(cs, n, SizeOf(cs) - z)>>) :
     cs \in SeqsTo(Commands, 2), n \in 1 .. 3, z \in {-1, 0, 1}}
Machs ==
  {f \in ThinFiles : f.objects[1].sizeofcmds >= 0}
  \cup {MachFile("fat", os) : os \in SeqsTo(FatObjects, 3)}
  \cup {[ThinFile EXCEPT !.access = FALSE], [ThinFile EXCEPT !.short = TRUE],
        [ThinFile EXCEPT !.entries = 2], MachFile("none", <<>>),
        [ThinFile EXCEPT !.contents = "none"], [ThinFile EXCEPT !.contents = "error"]}
Mach == INSTANCE MachSymbols WITH
  MachFiles <- Machs, LocalArch <- <<"x86_64", 3>>, OffsetWidth <- 4,
  Architectures <- {<<>>, <<"arm64", 0>>, <<"arm64", 1>>, <<"x86_64", 3>>},
  MachDatas <- {"all", "only_cfi"}

(* PDBs.  Images of four bytes behind a header of none or one: every order *)
(* of the pieces with one injected, every labelling of three or four       *)
(* pieces with an original place, pieces that overlap or hold another,     *)
(* headers of two sizes; sets of symbols; unwind operations.               *)
Far == 99
Injected == [o |-> Far, len |-> 1]
PiecesOf(h, cuts) ==
  {[o |-> p, len |-> Min({q \in cuts \cup {4} : q > p}) - p] : p \in {h} \cup cuts}
Image(h, cuts, s) ==
  LET pos[i \in 1 .. Len(s) + 1] == IF i = 1 THEN h ELSE pos[i - 1] + s[i - 1].len
  IN [to |-> [i \in 1 .. Len(s) + 1 |-> [t |-> pos[i], o |-> IF i > Len(s) THEN Far ELSE s[i].o]],
      from |-> SetToSortSeq({h} \cup cuts, <), length |-> 4]
OverlappingImages ==
  {Image(0, {1, 2}, s) :
     s \in {q \in SeqsTo({Injected, [o |-> 0, len |-> 2], [o |-> 0, len |-> 3], [o |-> 1, len |-> 1],
                          [o |-> 1, len |-> 2], [o |-> 3, len |-> 1]}, 3) : Len(q) >= 2}}
HeaderImages ==
  {[Image(1, c, s) EXCEPT !.from = SetToSortSeq({h} \cup c, <)] :
     h \in {1, 2}, c \in SUBSET {3},
     s \in SeqsTo({Injected, [o |-> 2, len |-> 1], [o |-> 3, len |-> 1]}, 3)}
Images ==
  OverlappingImages \cup HeaderImages
  \cup {Image(0, {1, 2}, s) :
     s \in {q \in SeqsTo({Injected, [o |-> 0, len |-> 1], [o |-> 1, len |-> 1],
                          [o |-> 2, len |-> 2]}, 4) : Len(q) >= 3}}
  \cup UNION {{Image(h, c, s) : s \in Distinct(PiecesOf(h, c) \cup {Injected}, 5) \ {<<>>}} :
                h \in {0, 1}, c \in SUBSET (2 .. 3)}
PdbSymbol(rva, length, n, public, code) ==
  [rva |-> rva, length |-> length, name |-> n, public |-> public, code |-> code,
   params |-> <<[offset |-> 8, size |-> 3, onStack |-> TRUE]>>,
   decorated |-> IF public THEN "fastcall" ELSE "none", declared |-> 12]
PdbFunction(rva, length, n) == PdbSymbol(rva, length, n, FALSE, TRUE)
PdbPublic(rva, n, code) == PdbSymbol(rva, 0, n, TRUE, code)
PdbBase ==
  [isPdb |-> TRUE, peBeside |-> FALSE, guid |-> "g", signature |-> "s", age |-> 1, cpu |-> "x86",
   codeId |-> "c", omap |-> [to |-> <<>>, from |-> <<>>, length |-> 0], size |-> 4,
   files |-> <<[id |-> 1, name |-> "a"], [id |-> 2, name |-> "a"], [id |-> 3, name |-> "b"]>>,
   symbols |-> <<PdbFunction(0, 2, 1)>>,
   lines |-> <<[rva |-> 0, length |-> 2, number |-> 1, file |-> 2],
               [rva |-> 2, length |-> 1, number |-> 2, file |-> 3]>>,
   blocks |-> <<[rva |-> 3, length |-> 1, parent |-> 1], [rva |-> 0, length |-> 1, parent |-> 1]>>,
   frames |-> <<>>, unwind |-> <<>>]
Frame(rva, size, prolog) == [type |-> 4, rva |-> rva, size |-> size, prolog |-> prolog]
MovedPdbs ==
  {[PdbBase EXCEPT !.omap = i, !.size = i.to[Len(i.to)].t,
      !.symbols = <<PdbFunction(0, 3, 1), PdbPublic(0, 2, TRUE), PdbPublic(1, 3, TRUE)>>,
      !.frames = <<Frame(0, 3, 1), Frame(0, 3, 1), Frame(3, 1, 0)>>] : i \in Images}
SeveralPdbs ==
  {[PdbBase EXCEPT !.symbols = fs \o ps] :
     fs \in Distinct({PdbFunction(0, 2, 1), PdbFunction(0, 2, 2), PdbFunction(2, 0, 4)}, 3) \ {<<>>},
     ps \in Distinct({PdbPublic(0, 5, TRUE), PdbPublic(2, 6, TRUE), PdbPublic(2, 7, FALSE)}, 2)}
Op(o, i, w) == [op |-> o, info |-> i, words |-> w]
Ops ==
  {Op("PUSH_NONVOL", 3, <<>>), Op("ALLOC_LARGE", 0, <<5>>), Op("ALLOC_LARGE", 1, <<5, 1>>),
   Op("ALLOC_SMALL", 2, <<>>), Op("SET_FPREG", 0, <<>>), Op("SAVE_NONVOL", 3, <<4>>),
   Op("SAVE_NONVOL_FAR", 3, <<4, 1>>), Op("PUSH_MACHFRAME", 0, <<>>), Op("PUSH_MACHFRAME", 1, <<>>)}
Pdb64 == {[PdbBase EXCEPT !.cpu = "x86_64", !.peBeside = b, !.isPdb = i, !.guid = g] :
            b \in BOOLEAN, i \in BOOLEAN, g \in {"g", "s"}}
UnwindPdbs ==
  {[p EXCEPT !.unwind = <<[begin |-> 1, end |-> 3, chain |-> <<c, d>>]>>] :
     p \in {q \in Pdb64 : q.peBeside /\ q.isPdb /\ q.guid = "g"},
     c \in SeqsTo(Ops, 2), d \in SeqsTo(Ops, 1)}
AllPdbs == MovedPdbs \cup SeveralPdbs \cup Pdb64 \cup UnwindPdbs
Windows == INSTANCE WindowsSymbols WITH Pdbs <- AllPdbs, MaxOpens <- 1
-----------------------------------------------------------------------------
stabVars ==
  <<stabPc, iterator_, stabs, string_offset_, next_cu_string_offset_, unit_strings,
    stab_source_file_, queued_lines_, function_address, in_compilation_unit_,
    comp_unit_base_address_, boundaries_, current_function_, stabFunctions, stabExterns,
    stabAsserted>>
elfVars ==
  <<elfPc, objFile, debuglink_file_, debug_dirs_, searched, symbol_data, header, elfFile,
    identifier, moduleName, found_debug_info_section, found_usable_info, loading_addr_,
    address_ranges_, loaded_sections_, elfLoads, elfExterns>>
machVars ==
  <<machPc, machFile, asked, machData, selected_object_file_, machIdentifier, cmdIndex,
    listHere, listAvailable, machLoadAddress, machLoads, handed>>
winVars ==
  <<winPc, pdb, opens, code_file_, image_map_, file_ids_, unique_files_, rva_symbol, turn,
    last_frame, winOutput, winResult>>
allVars == <<part, stabVars, elfVars, machVars, winVars>>

Some(S) == CHOOSE x \in S : TRUE
\* A dumper that is not exercised stays in one of its initial states.
Idle ==
  /\ part # "stabs" => iterator_ = Some(Entries)
  /\ part # "elf" => objFile = Some(Elfs) /\ symbol_data = "all" /\ debug_dirs_ = 0 /\ header = FALSE
  /\ part # "mach" => machFile = Some(Machs) /\ asked = <<>> /\ machData = "all"
  /\ part # "windows" => pdb = Some(Pdb64)
AllInit ==
  /\ part \in Parts /\ Idle
  /\ StabsOf!StabInit
  /\ Elf!ElfInit
  /\ Mach!MachInit
  /\ Windows!WinInit
AllNext ==
  /\ UNCHANGED part
  /\ \/ part = "stabs" /\ StabsOf!StabNext
        /\ UNCHANGED <<elfVars, machVars, winVars>>
     \/ part = "elf" /\ Elf!ElfNext
        /\ UNCHANGED <<stabVars, machVars, winVars>>
     \/ part = "mach" /\ Mach!MachNext
        /\ UNCHANGED <<stabVars, elfVars, winVars>>
     \/ part = "windows" /\ Windows!WinNext
        /\ UNCHANGED <<stabVars, elfVars, machVars>>
AllSpec == AllInit /\ [][AllNext]_allVars
-----------------------------------------------------------------------------
(* The properties of the dumpers; a conjunction where several read one      *)
(* kind of debugging information.                                           *)

\* Stabs: functions have the extents and the lines that the entries give them.
StabsFaithful == part = "stabs" => StabsOf!StabsFaithful

\* ElfSymbols and MachSymbols: what is loaded comes from the file selected, once,
\* with the identifier of that file, and errors end the dump.
ObjectFilesRight == /\ part = "elf" => Elf!ElfSymbolsRight
                    /\ part = "mach" => Mach!MachSymbolsRight

\* WindowsSymbols: the symbols name what the transformed image has at an address.
PdbSymbolsRight == part = "windows" => Windows!WindowsSymbolsRight
=============================================================================
