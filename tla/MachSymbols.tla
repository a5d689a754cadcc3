----------------------------- MODULE MachSymbols -----------------------------
(* The symbol dumper for Mach-O files (common/mac/dump_syms.cc): FatReader     *)
(* finds the object files, one is selected for an architecture, MachoID walks  *)
(* the file a second time for the identifier, and mach_o::Reader walks the     *)
(* load commands of the selected object, whose sections are loaded into a      *)
(* Module (common/mac/macho_reader.cc, macho_walker.cc, macho_id.cc).  Lengths *)
(* are in units that keep the order of the sizes of the structures.            *)
EXTENDS Integers, Sequences, FiniteSets, SequencesExt

CONSTANTS MachFiles,     \* [access, entries, contents, short, magic, objects]; an object is
                         \* [cputype, cpusubtype, placed, large, size, magic, htype,
                         \*  hsubtype, complete, ncmds, sizeofcmds, commands]
          Architectures, \* <<cputype, cpusubtype>> asked for, or <<>>
          LocalArch,
          OffsetWidth,   \* the offset of a section is stored modulo this
          MachDatas      \* subset of {"all", "no_cfi", "only_cfi"}

MachHeader == 3
CommandHeader == 2
SegmentFields == 2
SymtabFields == 1
SectionHeader == 1

VARIABLES machPc,                 \* "read", "select", "create", "header", "commands",
                                  \* "done", "failed", "crashed"
          machFile, asked, machData,
          selected_object_file_,  \* index of the object, or 0
          machIdentifier,         \* [object, kind]: where it comes from
          cmdIndex,               \* load commands walked
          listHere,               \* the one at the cursor
          listAvailable,          \* what is left of the region
          machLoadAddress, machLoads,
          handed                  \* contents given to the handlers
machVars == <<machPc, machFile, asked, machData, selected_object_file_, machIdentifier, cmdIndex,
              listHere, listAvailable, machLoadAddress, machLoads, handed>>
walkVars == <<cmdIndex, listHere, listAvailable, machLoadAddress, machLoads, handed>>

NoIdentifier == [object |-> 0, kind |-> "none"]
Objects == machFile.objects
Object == Objects[selected_object_file_]
FirstIndex(P) == IF P = {} THEN 0 ELSE CHOOSE i \in P : \A j \in P : i <= j

MachInit ==
  /\ machPc = "read" /\ machFile \in MachFiles /\ asked \in Architectures /\ machData \in MachDatas
  /\ selected_object_file_ = 0 /\ machIdentifier = NoIdentifier /\ cmdIndex = 0 /\ listHere = 1
  /\ listAvailable = 0 /\ machLoadAddress = 0 /\ machLoads = <<>> /\ handed = {}
-----------------------------------------------------------------------------
\* FatReader::Read(): a fat file names its objects, which must lie in it; an
\* object alone is one that fills the file.
FatReaderRead(f) ==
  CASE f.magic = "fat" -> ~f.short /\ \A i \in 1 .. Len(f.objects) : f.objects[i].placed
    [] f.magic = "thin" -> ~f.short
    [] OTHER -> FALSE

\* DumpSymbols::Read(): the file, or the only one in a bundle.  A file that cannot
\* be opened has no contents, and is read through a null pointer.
Read ==
  /\ machPc = "read"
  /\ machPc' = IF ~machFile.access \/ machFile.entries # 1 \/ machFile.contents = "error" THEN "failed"
               ELSE IF machFile.contents = "none" THEN "crashed"
               ELSE IF FatReaderRead(machFile) /\ Objects # <<>> THEN "select" ELSE "failed"
  /\ UNCHANGED <<machFile, asked, machData, selected_object_file_, machIdentifier>>
  /\ UNCHANGED walkVars

\* The object with the type and subtype, else the first with the type.
NXFindBestFatArch(type, subtype) ==
  LET exact == {i \in 1 .. Len(Objects) : Objects[i].cputype = type /\ Objects[i].cpusubtype = subtype}
      similar == {i \in 1 .. Len(Objects) : Objects[i].cputype = type}
  IN IF exact # {} THEN FirstIndex(exact) ELSE FirstIndex(similar)
\* When an object does not fit fat_arch there must be an exact match.
FindBestMatchForArchitecture(type, subtype) ==
  IF \A i \in 1 .. Len(Objects) : ~Objects[i].large THEN NXFindBestFatArch(type, subtype)
  ELSE FirstIndex({i \in 1 .. Len(Objects) : Objects[i].cputype = type /\ Objects[i].cpusubtype = subtype})

\* SetArchitecture(), when an architecture was asked for.
SetArchitecture ==
  /\ machPc = "select" /\ asked # <<>>
  /\ selected_object_file_' = FindBestMatchForArchitecture(asked[1], asked[2])
  /\ machPc' = IF selected_object_file_' = 0 THEN "failed" ELSE "create"
  /\ UNCHANGED <<machFile, asked, machData, machIdentifier>>
  /\ UNCHANGED walkVars
\* The start of CreateEmptyModule(): the only object or the local architecture.
SelectLocal ==
  /\ machPc = "select" /\ asked = <<>>
  /\ selected_object_file_' = IF Len(Objects) = 1 THEN 1
                              ELSE FindBestMatchForArchitecture(LocalArch[1], LocalArch[2])
  /\ machPc' = IF selected_object_file_' = 0 THEN "failed" ELSE "create"
  /\ UNCHANGED <<machFile, asked, machData, machIdentifier>>
  /\ UNCHANGED walkVars

\* MachoWalker::FindHeader(): the first object with the type and the subtype, in
\* the headers of a fat file and in the header of a thin one.
FindHeader(type, subtype) ==
  FirstIndex({i \in 1 .. Len(Objects) :
           IF machFile.magic = "fat"
           THEN Objects[i].cputype = type /\ Objects[i].cpusubtype = subtype
           ELSE Objects[i].htype = type /\ Objects[i].hsubtype = subtype})
\* FileID::MachoIdentifier(): the UUID of the first LC_UUID command, or a digest
\* of the sections.
MachoIdentifier(type, subtype) ==
  LET i == FindHeader(type, subtype)
      uuids == {j \in 1 .. Len(Objects[i].commands) : Objects[i].commands[j].type = "uuid"}
  IN IF i = 0 THEN NoIdentifier
     ELSE [object |-> i, kind |-> IF uuids # {} THEN "uuid" ELSE "md5"]
CreateEmptyModule ==
  /\ machPc = "create"
  /\ machIdentifier' = MachoIdentifier(Object.cputype, Object.cpusubtype)
  /\ machPc' = IF machIdentifier' = NoIdentifier THEN "failed" ELSE "header"
  /\ UNCHANGED <<machFile, asked, machData, selected_object_file_>>
  /\ UNCHANGED walkVars
-----------------------------------------------------------------------------
\* No header has the one of a type that is not supported.
ExpectedMagic(type) == CASE type \in {"arm", "i386"} -> "cigam"
                         [] type \in {"arm64", "x86_64"} -> "cigam_64"
                         [] type = "ppc" -> "magic"
                         [] type = "ppc64" -> "magic_64"
                         [] OTHER -> "none"
\* Reader::Read(): the header of the object is that of the expected architecture
\* and the region of the load commands, which follows it, lies in the object.
ReadHeader ==
  /\ machPc = "header"
  /\ IF /\ Object.magic = ExpectedMagic(Object.cputype) /\ Object.complete
        /\ Object.htype = Object.cputype /\ Object.hsubtype = Object.cpusubtype
        /\ MachHeader + Object.sizeofcmds <= Object.size
     THEN machPc' = "commands" /\ listAvailable' = Object.sizeofcmds
     ELSE machPc' = "failed" /\ UNCHANGED listAvailable
  /\ UNCHANGED <<machFile, asked, machData, selected_object_file_, machIdentifier, cmdIndex, listHere,
                 machLoadAddress, machLoads, handed>>

\* What the cursor of a command has left behind its header.  Available() is
\* unsigned: a command that claims less than its header has room without end.
Room(cmd, need) == cmd.size < CommandHeader \/ cmd.size >= CommandHeader + need

\* The offset of a section, which is stored modulo OffsetWidth.
SectionOffset(seg, sec) ==
  LET stored == sec.offset % OffsetWidth
      recomputed == seg.fileoff + sec.address - seg.vmaddr
  IN IF seg.bits_64 /\ seg.fileoff + seg.filesize > OffsetWidth - 1 /\ stored = recomputed % OffsetWidth
     THEN recomputed ELSE stored
EmptySegment(seg) == seg.fileoff = 0 /\ seg.filesize = 0
SectionPlaced(seg, sec) ==
  \/ sec.zerofill \/ EmptySegment(seg)
  \/ LET offset == SectionOffset(seg, sec)
     IN /\ seg.fileoff <= offset /\ offset <= seg.fileoff + seg.filesize
        /\ sec.size <= seg.fileoff + seg.filesize - offset
\* WalkSegmentSections(): all section headers are there and their data in the segment.
WalkSegmentSections(seg) ==
  /\ Room(seg, SegmentFields + Len(seg.sections) * SectionHeader)
  /\ \A i \in 1 .. Len(seg.sections) : SectionPlaced(seg, seg.sections[i])
\* MapSegmentSections(): the last section of a name counts.
SectionMap(seg, name) ==
  LET named == {i \in 1 .. Len(seg.sections) : seg.sections[i].name = name}
  IN IF named = {} THEN 0 ELSE CHOOSE i \in named : \A j \in named : j <= i

Supported(type) == type \in {"i386", "x86_64", "arm", "arm64"}
\* SegmentCommand(): what is loaded from a segment.
SegmentLoads(seg) ==
  LET Has(name) == SectionMap(seg, name) # 0
      dwarf == IF machData # "only_cfi" /\ Has("__debug_info") THEN <<"__debug_info">> ELSE <<>>
      cfi(name) == IF machData # "no_cfi" /\ Has(name) /\ Supported(Object.cputype)
                   THEN <<name>> ELSE <<>>
  IN CASE seg.name = "__TEXT" -> cfi("__eh_frame")
       [] seg.name = "__DWARF" -> dwarf \o cfi("__debug_frame")
       [] OTHER -> <<>>
Contents(seg, i) ==
  LET sec == seg.sections[i]
  IN IF sec.zerofill \/ EmptySegment(seg) THEN [start |-> 0, size |-> 0, true |-> 0]
     ELSE [start |-> SectionOffset(seg, sec), size |-> sec.size, true |-> sec.offset]

advanceList(cmd) ==
  /\ cmdIndex' = cmdIndex + 1 /\ listAvailable' = listAvailable - cmd.size
  /\ listHere' = IF cmd.size = 0 THEN listHere ELSE listHere + 1
stopWalk == machPc' = "failed" /\ UNCHANGED walkVars

\* WalkLoadCommands(): one load command.
loadCommandOverrun ==
  /\ machPc = "commands" /\ cmdIndex < Object.ncmds
  /\ \/ listHere > Len(Object.commands) \/ listAvailable < CommandHeader
     \/ listHere \in 1 .. Len(Object.commands) /\ Object.commands[listHere].size > listAvailable
  /\ stopWalk
  /\ UNCHANGED <<machFile, asked, machData, selected_object_file_, machIdentifier>>
Command == Object.commands[listHere]
atCommand(types) == /\ machPc = "commands" /\ cmdIndex < Object.ncmds
                    /\ listHere <= Len(Object.commands) /\ listAvailable >= CommandHeader
                    /\ Command.size <= listAvailable /\ Command.type \in types
SegmentCommand ==
  /\ atCommand({"segment"})
  /\ IF /\ Room(Command, SegmentFields) /\ Command.fileoff <= Object.size
        /\ Command.filesize <= Object.size - Command.fileoff /\ WalkSegmentSections(Command)
     THEN /\ machLoadAddress' = IF Command.name = "__TEXT" THEN Command.vmaddr ELSE machLoadAddress
          /\ machLoads' = machLoads \o SegmentLoads(Command)
          /\ handed' = handed \cup {Contents(Command, i) : i \in 1 .. Len(Command.sections)}
          /\ advanceList(Command) /\ UNCHANGED machPc
     ELSE stopWalk
  /\ UNCHANGED <<machFile, asked, machData, selected_object_file_, machIdentifier>>
\* SymtabCommand() does not look at symbol_data_.
SymtabCommand ==
  /\ atCommand({"symtab"})
  /\ IF /\ Room(Command, SymtabFields) /\ Command.symoff + Command.nsyms <= Object.size
        /\ Command.stroff + Command.strsize <= Object.size /\ Command.sound
     THEN /\ machLoads' = Append(machLoads, "symtab")
          /\ handed' = handed \cup {[start |-> Command.symoff, size |-> Command.nsyms, true |-> Command.symoff],
                                    [start |-> Command.stroff, size |-> Command.strsize, true |-> Command.stroff]}
          /\ advanceList(Command) /\ UNCHANGED <<machPc, machLoadAddress>>
     ELSE stopWalk
  /\ UNCHANGED <<machFile, asked, machData, selected_object_file_, machIdentifier>>
UnknownCommand ==
  /\ atCommand({"uuid", "other"}) /\ advanceList(Command)
  /\ UNCHANGED <<machPc, machFile, asked, machData, selected_object_file_, machIdentifier,
                 machLoadAddress, machLoads, handed>>
\* ReadSymbolData() returns the module.
endCommands ==
  /\ machPc = "commands" /\ cmdIndex = Object.ncmds /\ machPc' = "done"
  /\ UNCHANGED <<machFile, asked, machData, selected_object_file_, machIdentifier>>
  /\ UNCHANGED walkVars

MachNext == \/ Read \/ SetArchitecture \/ SelectLocal \/ CreateEmptyModule \/ ReadHeader
            \/ loadCommandOverrun \/ SegmentCommand \/ SymtabCommand \/ UnknownCommand \/ endCommands
-----------------------------------------------------------------------------
\* What is dumped comes from one object of the file and from inside it.  The
\* identifier is that of the object whose load commands are read, though MachoID
\* looks for it by itself; what the handlers get lies in that object, and at the
\* place the section really has when its stored offset is exact or can be
\* recomputed.  A module comes out only after all load commands: then the addresses
\* are relative to the text segment, if there is one, and every section with
\* debugging or unwind information was loaded once, as far as it was asked for.
\* (DumpSymbols::ReadSymbolData(), MachoWalker::FindHeader(),
\* Reader::WalkSegmentSections().)
MachSymbolsRight ==
  /\ machIdentifier # NoIdentifier => machIdentifier.object = selected_object_file_
  /\ \A c \in handed : c.size = 0 \/ c.start + c.size <= Object.size
  /\ \A c \in handed : c.size = 0 \/ c.start = c.true
  /\ machPc = "done" =>
       LET commands == [i \in 1 .. listHere - 1 |-> Object.commands[i]]
           ofType(type) == {i \in DOMAIN commands : commands[i].type = type}
           segments(name) == {i \in ofType("segment") : commands[i].name = name}
           with(name, section) ==
             {i \in segments(name) : \E j \in DOMAIN commands[i].sections :
                commands[i].sections[j].name = section}
           loaded(what, from, wanted) ==
             Cardinality({i \in DOMAIN machLoads : machLoads[i] = what})
               = IF wanted THEN Cardinality(from) ELSE 0
       IN /\ loaded("__debug_info", with("__DWARF", "__debug_info"), machData # "only_cfi")
          /\ loaded("__debug_frame", with("__DWARF", "__debug_frame"), machData # "no_cfi")
          /\ loaded("__eh_frame", with("__TEXT", "__eh_frame"), machData # "no_cfi")
          /\ loaded("symtab", ofType("symtab"), TRUE)
          /\ \A i \in segments("__TEXT") : machLoadAddress = commands[i].vmaddr
          /\ asked # <<>> => Object.htype = asked[1]

\* "if there is a problem reading |filename|, report it and return false"
\* (DumpSymbols::Read(), dump_syms.h).
ReadProblemsReported == machPc # "crashed"
=============================================================================
