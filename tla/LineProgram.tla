----------------------------- MODULE LineProgram -----------------------------
(* The line number program of a compilation unit: LineInfo reads its header    *)
(* and runs its opcodes, and reports a line when it knows where the next one   *)
(* starts; DwarfLineToModule files the lines with their source files           *)
(* (common/dwarf/dwarf2reader.cc, common/dwarf_line_to_module.cc).             *)
(*                                                                             *)
(* The program is invented as it is read.  A path is a sequence of names with  *)
(* a mark for absolute ones.                                                   *)
EXTENDS Integers, Sequences, FiniteSets, SequencesExt, TLC

CONSTANTS LineHeaders,    \* [version, min_insn_length, line_base, line_range,
                          \*  opcode_base, dirs, files, sound]
          SpecialOpcodes, \* special opcodes, counted from opcode_base
          FileNumbers, AddressSpace, LineSpace, MaxOpcodes,
          compilation_dir_

VARIABLES linePc,         \* "header", "lines", "done"
          lineHeader,
          lsm,            \* LineStateMachine
          pending,        \* the pending line, or NoLine
          directories_, files_, highest_file_number_,
          omitted_line_end_,
          lines_,
          rows,           \* the rows of the table so far (history)
          astray,         \* an opcode is read where none starts (history)
          opcodes
lineVars == <<linePc, lineHeader, lsm, pending, directories_, files_, highest_file_number_,
              omitted_line_end_, lines_, rows, astray, opcodes>>

NoLine == [address |-> -1]
NoFile == [abs |-> FALSE, names |-> <<"no file">>]
ResetLsm == [address |-> 0, file |-> 1, line |-> 1, end_sequence |-> FALSE]
LineInit ==
  /\ linePc = "header" /\ lineHeader = [version |-> 0] /\ lsm = ResetLsm /\ pending = NoLine
  /\ directories_ = [x \in {} |-> NoFile] /\ files_ = [x \in {} |-> NoFile]
  /\ highest_file_number_ = -1 /\ omitted_line_end_ = 0
  /\ lines_ = <<>> /\ rows = <<>> /\ astray = FALSE /\ opcodes = 0
-----------------------------------------------------------------------------
(* The tables of the header                                                    *)
Empty == [abs |-> FALSE, names |-> <<>>]
ExpandPath(path, base) ==
  IF path.abs \/ base = Empty THEN path ELSE [abs |-> base.abs, names |-> base.names \o path.names]

\* Directory zero is the compilation directory and is not redefined.
DefineDir(dirs, path, n) ==
  IF n = 0 THEN dirs ELSE (n :> ExpandPath(path, compilation_dir_)) @@ dirs
\* An undefined directory gives a name as it stands.
FullName(dirs, path, dir) ==
  ExpandPath(path, IF dir = 0 THEN compilation_dir_
                   ELSE IF dir \in DOMAIN dirs THEN dirs[dir] ELSE Empty)
FileNumber(n, highest) == IF n = -1 THEN highest + 1 ELSE n
DefineFile(t, dirs, path, n, dir) ==
  LET number == FileNumber(n, t.highest)
  IN [files |-> (number :> FullName(dirs, path, dir)) @@ t.files,
      highest |-> IF number > t.highest THEN number ELSE t.highest]

\* Version 5 numbers directories and files from zero; before, zero is not in the
\* tables, and the file of that number is the empty name.
FirstNumber(h) == IF h.version <= 4 THEN 1 ELSE 0
ReadDirs(h) ==
  FoldLeft(LAMBDA d, i : DefineDir(d, h.dirs[i], i - 1 + FirstNumber(h)), [x \in {} |-> NoFile],
           [i \in DOMAIN h.dirs |-> i])
ReadFiles(h, dirs) ==
  LET none == [files |-> [x \in {} |-> NoFile], highest |-> -1]
  IN FoldLeft(LAMBDA t, i : DefineFile(t, dirs, h.files[i].path, i - 1 + FirstNumber(h), h.files[i].dir),
              IF h.version <= 4 THEN DefineFile(none, dirs, Empty, 0, 0) ELSE none,
              [i \in DOMAIN h.files |-> i])
\* A header of version 5 with an entry format other than the path for directories,
\* or with MD5 sums, is not read as it is written: what follows is anything, and
\* is not followed (astray).
ReadLineHeader(h) ==
  /\ linePc = "header"
  /\ lineHeader' = h /\ linePc' = "lines"
  /\ directories_' = ReadDirs(h)
  /\ LET t == ReadFiles(h, ReadDirs(h)) IN files_' = t.files /\ highest_file_number_' = t.highest
  /\ astray' = ~h.sound
  /\ UNCHANGED <<lsm, pending, omitted_line_end_, lines_, rows, opcodes>>
-----------------------------------------------------------------------------
(* DwarfLineToModule::AddLine()                                                *)
Wrap(a) == a % AddressSpace

\* Mutant: a line that follows an omitted one is kept.
OmitsZeroOnly(address, end) == address = 0

\* Lines at address zero belong to functions the linker has dropped, and so do
\* the lines that follow them without a gap.
Omits(address, end) == address = 0 \/ address = end
AddLine(address, length, file, line) ==
  LET size == IF address + length > AddressSpace THEN AddressSpace - address ELSE length
  IN IF length = 0 THEN UNCHANGED <<lines_, omitted_line_end_, files_>>
     ELSE IF Omits(address, omitted_line_end_)
     THEN omitted_line_end_' = Wrap(address + size) /\ UNCHANGED <<lines_, files_>>
     ELSE /\ omitted_line_end_' = 0
          /\ files_' = IF file \in DOMAIN files_ THEN files_ ELSE (file :> NoFile) @@ files_
          /\ lines_' = IF files_'[file] = NoFile THEN lines_
                       ELSE Append(lines_, [address |-> address, size |-> size,
                                            file |-> files_[file], number |-> line])
-----------------------------------------------------------------------------
(* ReadLines(): one turn of the loop                                           *)

\* The opcode adds a row: the pending line ends where it starts.
addRow(new) ==
  /\ IF pending = NoLine THEN UNCHANGED <<lines_, omitted_line_end_, files_>>
     ELSE AddLine(pending.address, Wrap(new.address - pending.address), pending.file, pending.line)
  /\ pending' = IF new.end_sequence THEN NoLine ELSE new
  /\ lsm' = IF new.end_sequence THEN ResetLsm ELSE new
  /\ rows' = Append(rows, new)
  /\ UNCHANGED <<highest_file_number_, astray>>
onlyState(new) ==
  /\ lsm' = new
  /\ UNCHANGED <<pending, files_, highest_file_number_, omitted_line_end_, lines_, rows, astray>>
Advanced(a) == [lsm EXCEPT !.address = Wrap(@ + a)]
AdvancedLine(m, n) == [m EXCEPT !.line = (@ + n) % LineSpace]
MinInsn == lineHeader.min_insn_length

specialOpcode(op) ==
  addRow(AdvancedLine(Advanced((op \div lineHeader.line_range) * MinInsn),
                      (op % lineHeader.line_range) + lineHeader.line_base))
copy == addRow(lsm)
endSequence == addRow([lsm EXCEPT !.end_sequence = TRUE])
\* DW_LNE_define_file counts its numbers twice: the next opcode is read three
\* bytes late.
defineFile(path, dir) ==
  /\ LET t == DefineFile([files |-> files_, highest |-> highest_file_number_], directories_, path, -1, dir)
     IN files_' = t.files /\ highest_file_number_' = t.highest
  /\ astray' = TRUE
  /\ UNCHANGED <<lsm, pending, omitted_line_end_, lines_, rows>>
ProcessOneOpcode ==
  \/ \E op \in SpecialOpcodes : specialOpcode(op)
  \/ copy \/ endSequence
  \/ \E a \in {1, 2} : onlyState(Advanced(a * MinInsn)) \/ onlyState(Advanced(a))
  \/ onlyState(Advanced(MinInsn * ((255 - lineHeader.opcode_base) \div lineHeader.line_range)))
  \/ \E a \in 0 .. AddressSpace - 1 : onlyState([lsm EXCEPT !.address = a])
  \/ \E n \in {-1, 1} : onlyState(AdvancedLine(lsm, n))
  \/ \E f \in FileNumbers : onlyState([lsm EXCEPT !.file = f])
  \/ onlyState(lsm)
  \/ \E h \in LineHeaders : \E i \in DOMAIN h.files : defineFile(h.files[i].path, h.files[i].dir)

ReadLines ==
  /\ linePc = "lines" /\ opcodes < MaxOpcodes /\ ~astray
  /\ opcodes' = opcodes + 1
  /\ ProcessOneOpcode
  /\ UNCHANGED <<linePc, lineHeader, directories_>>
endOfLines ==
  /\ linePc = "lines" /\ linePc' = "done"
  /\ UNCHANGED <<lineHeader, lsm, pending, directories_, files_, highest_file_number_,
                 omitted_line_end_, lines_, rows, astray, opcodes>>
LineNext == (\E h \in LineHeaders : ReadLineHeader(h)) \/ ReadLines \/ endOfLines
-----------------------------------------------------------------------------
(* What the table says.  A row's line extends to the next row of its sequence. *)
Intervals ==
  {[row |-> i, from |-> rows[i].address, size |-> Wrap(rows[i + 1].address - rows[i].address)] :
     i \in {j \in 1 .. Len(rows) - 1 : ~rows[j].end_sequence /\ rows[j + 1].address # rows[j].address}}
Clipped(v) == IF v.from + v.size > AddressSpace THEN AddressSpace - v.from ELSE v.size
Omitted == LET Before(v) == {w \in Intervals : w.row < v.row}
               Previous(v) == CHOOSE w \in Before(v) : \A x \in Before(v) : x.row <= w.row
               RowsFrom0(v) == {w \in Intervals : w.row <= v.row /\ w.from = 0}
           IN {v \in Intervals : \E z \in RowsFrom0(v) : \A w \in Intervals :
                 w.row > z.row /\ w.row <= v.row => w.from = 0 \/ w.from = Wrap(Previous(w).from + Clipped(Previous(w)))}
Known(v) == rows[v.row].file \in DOMAIN files_ /\ files_[rows[v.row].file] # NoFile
ExpectedLines == {v \in Intervals \ Omitted : Known(v)}

\* The lines filed are those of the table, in its order: each goes from its row to
\* the next row of the same sequence, none reaches beyond the address space, and
\* exactly those are left out that have no length, whose file is not defined, or
\* that start at address zero or follow such a line without a gap.  Not of programs
\* with DW_LNE_define_file (dwarf2reader.cc:1475) and version 5 headers with MD5
\* sums (1168) or directory formats, which the reader loses its place in (astray).
LinesFaithful ==
  ~astray =>
    LET expected == SetToSortSeq(ExpectedLines, LAMBDA v, w : v.row < w.row)
    IN lines_ = [i \in 1 .. Len(expected) |->
                  [address |-> expected[i].from, size |-> Clipped(expected[i]),
                   file |-> files_[rows[expected[i].row].file], number |-> rows[expected[i].row].line]]

\* "It is always paired with a DW_FORM_data16 and is unused in this case"
\* (dwarf2reader.cc:1170): what is not used is passed over and reading goes on at the
\* next entry; violated by MD5 sums, and by DW_LNE_define_file.
PlaceKept == ~astray
=============================================================================
