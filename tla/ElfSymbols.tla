------------------------------ MODULE ElfSymbols ------------------------------
(* The symbol dumper for ELF files (common/linux/dump_symbols.cc): a file is   *)
(* mapped and identified, its sections are loaded into a Module, and when it   *)
(* has no debugging information the file its .gnu_debuglink names is looked    *)
(* for in the debug directories, checked and loaded into the same Module.      *)
EXTENDS Integers, Sequences, FiniteSets, SequencesExt

CONSTANTS ObjectFiles,   \* [opens, valid, class, machine, data, loads, notes,
                         \*  noteSection, text, dynamic, dynstr, sections, symbols,
                         \*  link]
          DirContents,   \* what a debug directory holds under the linked name:
                         \* [kind, file], kind one of "missing", "same" (the object
                         \* itself), "unreadable", "mismatch" (of the CRC), "found"
          MaxDirs,
          SymbolDatas    \* subset of {"all", "no_cfi", "only_cfi"}

VARIABLES elfPc,
          objFile, debuglink_file_, \* a path was found: that in the last directory
          debug_dirs_,        \* how many debug directories there are
          searched,           \* what those already searched hold
          symbol_data,
          header,             \* only the header is asked for: WriteSymbolFileHeader()
          elfFile,            \* the file LoadSymbols() reads: "obj" or "debug"
          identifier, moduleName,
          found_debug_info_section, found_usable_info,
          loading_addr_, address_ranges_,  \* of the module
          loaded_sections_,
          elfLoads,           \* every load of a section: <<section, file>>
          elfExterns          \* the module's externs: [address, file]
elfVars == <<elfPc, objFile, debuglink_file_, debug_dirs_, searched, symbol_data, header, elfFile,
             identifier, moduleName,
             found_debug_info_section, found_usable_info, loading_addr_, address_ranges_,
             loaded_sections_, elfLoads, elfExterns>>
inputVars == <<objFile, debug_dirs_, symbol_data, header>>
moduleVars == <<loading_addr_, address_ranges_, loaded_sections_, elfLoads, elfExterns>>

debugFile == Last(searched).file
ElfFile == IF elfFile = "obj" THEN objFile ELSE debugFile

ElfInit ==
  /\ elfPc = "open" /\ objFile \in ObjectFiles /\ symbol_data \in SymbolDatas
  /\ debug_dirs_ \in 0 .. MaxDirs
  /\ searched = <<>> /\ debuglink_file_ = FALSE /\ elfFile = "obj" /\ identifier = "none"
  /\ header \in BOOLEAN /\ moduleName = "none"
  /\ found_debug_info_section = FALSE /\ found_usable_info = FALSE
  /\ loading_addr_ = 0 /\ address_ranges_ = <<>> /\ loaded_sections_ = {}
  /\ elfLoads = <<>> /\ elfExterns = {}
-----------------------------------------------------------------------------
\* FindElfSectionByName(): a section has the name and the type asked for.  On
\* MIPS the DWARF sections may have a type of their own.
FindElfSectionByName(f, name, type) == <<name, type>> \in f.sections
FindDwarfSection(f, name) == \/ FindElfSectionByName(f, name, "PROGBITS")
                             \/ f.machine = "mips" /\ FindElfSectionByName(f, name, "MIPS_DWARF")

\* The first note of the type of a build id in a segment, when it is not empty.
ElfClassBuildIDNoteIdentifier(notes) ==
  LET ids == SelectSeq(notes, LAMBDA n : n.type = "build_id")
  IN IF ids = <<>> \/ Head(ids).descsz = 0 THEN "none" ELSE Head(ids).desc
\* The first segment that has one decides, then the section.
FindElfBuildIDNote(f) ==
  LET found == SelectSeq(f.notes, LAMBDA s : ElfClassBuildIDNoteIdentifier(s) # "none")
  IN IF found # <<>> THEN ElfClassBuildIDNoteIdentifier(Head(found))
     ELSE ElfClassBuildIDNoteIdentifier(f.noteSection)
HashElfTextSection(f) == IF f.text > 0 THEN "hash" ELSE "none"
ElfFileIdentifierFromMappedFile(f) ==
  LET note == FindElfBuildIDNote(f) IN IF note # "none" THEN note ELSE HashElfTextSection(f)

ElfArchitecture(f) == IF f.machine = "other" THEN "none" ELSE f.machine
DwarfCFIRegisterNames(f) == f.machine \in {"x86", "arm", "arm64", "mips", "x86_64"}
ElfEndianness(f) == f.data \in {"lsb", "msb"}
LoadELF(f) == f.opens /\ f.valid

\* The first DT_SONAME, when it lies in the dynamic string table.
FindElfSoNameFromDynamicSection(f) ==
  LET sonames == SelectSeq(f.dynamic, LAMBDA d : d.tag = "SONAME")
  IN IF sonames = <<>> \/ Head(sonames).val >= f.dynstr THEN "none" ELSE "soname"
ElfFileSoNameFromMappedFile(f) ==
  IF f.dynamic # <<>> /\ f.dynstr > 0 THEN FindElfSoNameFromDynamicSection(f) ELSE "none"

\* ReadSymbolData() and WriteSymbolFileHeader(): the object is mapped, identified
\* and named.
InitModuleForElfClass(f) ==
  IF ElfFileIdentifierFromMappedFile(f) # "none" /\ ElfArchitecture(f) # "none"
  THEN /\ identifier' = ElfFileIdentifierFromMappedFile(f)
       /\ moduleName' = IF ElfFileSoNameFromMappedFile(f) # "none"
                        THEN ElfFileSoNameFromMappedFile(f) ELSE "base"
       /\ elfPc' = IF header THEN "header" ELSE IF ElfEndianness(f) THEN "load" ELSE "failed"
  ELSE elfPc' = "failed" /\ UNCHANGED <<identifier, moduleName>>
ReadSymbolData ==
  /\ elfPc = "open"
  /\ IF LoadELF(objFile) /\ objFile.class \in {32, 64}
     THEN InitModuleForElfClass(objFile)
     ELSE elfPc' = "failed" /\ UNCHANGED <<identifier, moduleName>>
  /\ UNCHANGED <<debuglink_file_, searched, elfFile, found_debug_info_section, found_usable_info>>
  /\ UNCHANGED <<inputVars, moduleVars>>

GetLoadingAddress(f) == IF f.loads = <<>> THEN 0 ELSE f.loads[1].vaddr
GetPtLoadSegmentRanges(f) == f.loads
\* The start of LoadSymbols().
LoadSymbols ==
  /\ elfPc = "load" /\ elfPc' = IF symbol_data # "only_cfi" THEN "stab" ELSE "debug_frame"
  /\ loading_addr_' = GetLoadingAddress(ElfFile)
  /\ address_ranges_' = GetPtLoadSegmentRanges(ElfFile)
  /\ found_debug_info_section' = FALSE /\ found_usable_info' = FALSE
  /\ UNCHANGED <<debuglink_file_, searched, elfFile, identifier, moduleName, loaded_sections_, elfLoads, elfExterns>>
  /\ UNCHANGED inputVars

\* LoadedSection() only warns about a section that has been loaded before.
LoadedSection(section) ==
  /\ loaded_sections_' = loaded_sections_ \cup {section}
  /\ elfLoads' = Append(elfLoads, <<section, elfFile>>)
InAddressRanges(a) ==
  \/ address_ranges_ = <<>>
  \/ \E i \in 1 .. Len(address_ranges_) :
       /\ address_ranges_[i].vaddr <= a
       /\ a < address_ranges_[i].vaddr + address_ranges_[i].memsz
\* Functions that are defined, unless there is an extern at the address.
ELFSymbolsToModule(table) ==
  elfExterns \cup {[address |-> s.value, file |-> elfFile] :
                     s \in {t \in table : /\ t.type = "FUNC" /\ t.shndx # "UNDEF"
                                          /\ InAddressRanges(t.value)
                                          /\ \A e \in elfExterns : e.address # t.value}}

StabSection(f) == FindElfSectionByName(f, ".stab", "PROGBITS")
\* Loads of debugging information: whether it could be read changes nothing.
LoadStabs ==
  /\ elfPc = "stab" /\ elfPc' = "debug_info"
  /\ IF StabSection(ElfFile)
     THEN LoadedSection(".stab") /\ found_debug_info_section' = TRUE /\ found_usable_info' = TRUE
     ELSE UNCHANGED <<loaded_sections_, elfLoads, found_debug_info_section, found_usable_info>>
  /\ UNCHANGED <<debuglink_file_, searched, elfFile, identifier, moduleName, loading_addr_, address_ranges_, elfExterns>>
  /\ UNCHANGED inputVars
LoadDwarf ==
  /\ elfPc = "debug_info" /\ elfPc' = "symtab"
  /\ IF FindDwarfSection(ElfFile, ".debug_info")
     THEN LoadedSection(".debug_info") /\ found_debug_info_section' = TRUE /\ found_usable_info' = TRUE
     ELSE UNCHANGED <<loaded_sections_, elfLoads, found_debug_info_section, found_usable_info>>
  /\ UNCHANGED <<debuglink_file_, searched, elfFile, identifier, moduleName, loading_addr_, address_ranges_, elfExterns>>
  /\ UNCHANGED inputVars

\* The symbol table, or the dynamic one when there is no other.
LoadSymbolTable ==
  /\ elfPc = "symtab" /\ elfPc' = IF symbol_data # "no_cfi" THEN "debug_frame" ELSE "loaded"
  /\ LET Table(table, strings, type) ==
           /\ FindElfSectionByName(ElfFile, table, type) /\ FindElfSectionByName(ElfFile, strings, "STRTAB")
         Load(table) == /\ LoadedSection(table) /\ found_usable_info' = TRUE
                        /\ elfExterns' = ELFSymbolsToModule(ElfFile.symbols[table])
     IN IF Table(".symtab", ".strtab", "SYMTAB") THEN Load(".symtab")
        ELSE IF Table(".dynsym", ".dynstr", "DYNSYM") THEN Load(".dynsym")
        ELSE UNCHANGED <<loaded_sections_, elfLoads, found_usable_info, elfExterns>>
  /\ UNCHANGED <<debuglink_file_, searched, elfFile, identifier, moduleName, loading_addr_, address_ranges_,
                 found_debug_info_section>>
  /\ UNCHANGED inputVars

LoadDwarfCFI(section, next, found) ==
  /\ elfPc' = next
  /\ IF found
     THEN LoadedSection(section)
          /\ found_usable_info' = (found_usable_info \/ DwarfCFIRegisterNames(ElfFile))
     ELSE UNCHANGED <<loaded_sections_, elfLoads, found_usable_info>>
  /\ UNCHANGED <<debuglink_file_, searched, elfFile, identifier, moduleName, loading_addr_, address_ranges_,
                 found_debug_info_section, elfExterns>>
  /\ UNCHANGED inputVars
LoadDebugFrame == elfPc = "debug_frame"
                  /\ LoadDwarfCFI(".debug_frame", "eh_frame", FindDwarfSection(ElfFile, ".debug_frame"))
LoadEhFrame == elfPc = "eh_frame"
               /\ LoadDwarfCFI(".eh_frame", "loaded",
                               FindElfSectionByName(ElfFile, ".eh_frame", "PROGBITS"))
-----------------------------------------------------------------------------
\* The end of LoadSymbols() and what ReadSymbolDataElfClass() does then: without
\* debug directories usable information is enough, else the link is followed.
LoadSymbolsEnd ==
  /\ elfPc = "loaded"
  /\ elfPc' = IF found_debug_info_section THEN "done"
              ELSE IF elfFile = "obj" /\ debug_dirs_ > 0
                   THEN IF FindElfSectionByName(ElfFile, ".gnu_debuglink", "PROGBITS") /\ ElfFile.link = "sound"
                        THEN "search" ELSE "failed"
              ELSE IF found_usable_info THEN "done" ELSE "failed"
  /\ UNCHANGED <<debuglink_file_, searched, elfFile, identifier, moduleName, found_debug_info_section, found_usable_info>>
  /\ UNCHANGED <<inputVars, moduleVars>>

\* Mutant: the checksum is computed and not compared.
ReadDebugLinkNoCrc ==
  /\ elfPc = "search"
  /\ IF Len(searched) = debug_dirs_ THEN elfPc' = "failed" /\ UNCHANGED <<debuglink_file_, searched>>
     ELSE \E it \in DirContents :
            /\ searched' = Append(searched, it)
            /\ CASE it.kind \in {"same", "missing"} -> UNCHANGED <<elfPc, debuglink_file_>>
                 [] it.kind = "unreadable" -> elfPc' = "failed" /\ UNCHANGED debuglink_file_
                 [] OTHER -> elfPc' = "sanitize" /\ debuglink_file_' = TRUE
  /\ UNCHANGED <<elfFile, identifier, moduleName, found_debug_info_section, found_usable_info>>
  /\ UNCHANGED <<inputVars, moduleVars>>
\* ReadDebugLink(): one directory.  A read error ends the search.
ReadDebugLink ==
  /\ elfPc = "search"
  /\ IF Len(searched) = debug_dirs_ THEN elfPc' = "failed" /\ UNCHANGED <<debuglink_file_, searched>>
     ELSE \E it \in DirContents :
            /\ searched' = Append(searched, it)
            /\ CASE it.kind \in {"same", "missing", "mismatch"} -> UNCHANGED <<elfPc, debuglink_file_>>
                 [] it.kind = "unreadable" -> elfPc' = "failed" /\ UNCHANGED debuglink_file_
                 [] OTHER -> elfPc' = "sanitize" /\ debuglink_file_' = TRUE
  /\ UNCHANGED <<elfFile, identifier, moduleName, found_debug_info_section, found_usable_info>>
  /\ UNCHANGED <<inputVars, moduleVars>>

\* The debug file is mapped and must be of the same architecture and byte order.
SanitizeDebugFile ==
  /\ elfPc = "sanitize"
  /\ IF /\ LoadELF(debugFile) /\ ElfArchitecture(debugFile) = ElfArchitecture(objFile)
        /\ ElfEndianness(debugFile) /\ debugFile.data = objFile.data
     THEN elfPc' = "load" /\ elfFile' = "debug"
     ELSE elfPc' = "failed" /\ UNCHANGED elfFile
  /\ UNCHANGED <<debuglink_file_, searched, identifier, moduleName, found_debug_info_section, found_usable_info>>
  /\ UNCHANGED <<inputVars, moduleVars>>

ElfNext == \/ ReadSymbolData \/ LoadSymbols \/ LoadStabs \/ LoadDwarf \/ LoadSymbolTable
           \/ LoadDebugFrame \/ LoadEhFrame \/ LoadSymbolsEnd \/ ReadDebugLink \/ SanitizeDebugFile
-----------------------------------------------------------------------------
DebugInfo == {".stab", ".debug_info"}
CfiSections == {".debug_frame", ".eh_frame"}
Loaded(file) == {l[1] : l \in {m \in Range(elfLoads) : m[2] = file}}

\* What is dumped describes the object that was named.  Debugging information
\* comes from one file only: from the object when it has any, and then no other
\* file is read; the other file is the first in the debug directories with the
\* right checksum, for the same machine.  No section is loaded twice from one
\* file, only what the options ask for is loaded, and no function of a symbol
\* table that was loaded first is missing.  Without debug directories nothing
\* usable is given up, and with a symbol file there is always an identifier.
\* (LoadSymbols(), ReadDebugLink(), ReadSymbolDataElfClass().)
ElfSymbolsRight ==
  LET wanted == symbol_data # "only_cfi"
      own == wanted /\ (StabSection(objFile)
                        \/ FindDwarfSection(objFile, ".debug_info"))
  IN /\ Cardinality(Range(elfLoads)) = Len(elfLoads)
     /\ (Loaded("obj") \cap DebugInfo = {} \/ Loaded("debug") = {})
     /\ own /\ elfPc \in {"done", "failed"} /\ identifier # "none" /\ ElfEndianness(objFile) =>
          elfPc = "done" /\ ~debuglink_file_ /\ Loaded("obj") \cap DebugInfo # {}
     /\ debuglink_file_ =>
          /\ Last(searched).kind = "found"
          /\ \A i \in 1 .. Len(searched) - 1 : searched[i].kind \in {"missing", "same", "mismatch"}
     /\ Loaded("debug") # {} => debugFile.machine = objFile.machine /\ debugFile.data = objFile.data
     /\ symbol_data = "no_cfi" => Loaded("obj") \cap CfiSections = {} /\ Loaded("debug") \cap CfiSections = {}
     /\ symbol_data = "only_cfi" => Loaded("obj") \subseteq CfiSections /\ elfExterns = {}
     /\ elfPc = "done" => identifier # "none" /\ elfLoads # <<>>
     /\ elfPc = "done" /\ ".symtab" \in Loaded("obj") =>
          \A s \in objFile.symbols[".symtab"] :
            /\ s.type = "FUNC" /\ s.shndx # "UNDEF"
            /\ (\E l \in Range(objFile.loads) : s.value \in l.vaddr .. l.vaddr + l.memsz - 1)
            => [address |-> s.value, file |-> "obj"] \in elfExterns
     /\ elfPc = "failed" /\ identifier # "none" /\ debug_dirs_ = 0 => ~found_usable_info

\* "Keeps track of which sections have been loaded so sections don't accidentally
\* get loaded twice from two different files": LoadedSection() only warns.
SectionsLoadedOnce == Cardinality({l[1] : l \in Range(elfLoads)}) = Len(elfLoads)

\* "The ELF file and linked debug file are expected to have the same preferred
\* loading address": set_loading_addr() compares only when has_loading_addr_ is
\* set, which nothing sets, and the module takes the address of the second file.
SameLoadingAddress ==
  elfPc = "done" /\ debuglink_file_ => GetLoadingAddress(objFile) = GetLoadingAddress(debugFile)
=============================================================================
