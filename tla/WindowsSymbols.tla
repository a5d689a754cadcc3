---------------------------- MODULE WindowsSymbols ----------------------------
(* Symbol files of Windows modules (common/windows/pdb_source_line_writer.cc,  *)
(* omap.cc, pe_util.cc): what DIA tells of a PDB is written with the addresses *)
(* that post-link tools have moved, and the unwind codes of a 64-bit image     *)
(* become stack records.  Names are numbers in the order of their strings.     *)
EXTENDS Integers, Sequences, FiniteSets, SequencesExt, FiniteSetsExt, Functions, TLC

CONSTANTS Pdbs,            \* what DIA and the image can tell
          MaxOpens         \* how often one writer opens a file

VARIABLES winPc,           \* "open", "omap", "info", "files", "record", "print",
                           \* "blocks", "frames", "unwind", "done"
          pdb, opens,
          code_file_,      \* "", "opened", "found" or "set"
          image_map_,      \* [mapping, endpoint_index_map, subsequent_rva_block]
          file_ids_, unique_files_,
          rva_symbol, turn, last_frame,
          winOutput,       \* records written, as a sequence
          winResult
winVars == <<winPc, pdb, opens, code_file_, image_map_, file_ids_, unique_files_, rva_symbol, turn,
             last_frame, winOutput, winResult>>
writerVars == <<pdb, opens, code_file_, image_map_>>
-----------------------------------------------------------------------------
\* Address translation.  A mapping is a sequence of blocks of the original image
\* [o, t, len, inj, rem]: original and transformed start, length, bytes injected
\* after and bytes removed after it.
Block(o, t, len, inj, rem) == [o |-> o, t |-> t, len |-> len, inj |-> inj, rem |-> rem]
End(b) == b.o + b.len

FillInRemovedLengths(m) ==
  LET state[i \in 0 .. Len(m)] ==
        IF i = 0 THEN [fill |-> 1, front |-> 0, map |-> m]
        ELSE LET s == state[i - 1]
                 removed == m[i].o - s.front
             IN [fill |-> IF removed > 0 /\ i > s.fill THEN i ELSE s.fill,
                 front |-> End(m[i]),
                 map |-> IF removed <= 0 THEN s.map
                         ELSE [j \in DOMAIN m |->
                                IF j >= s.fill /\ j < i /\ End(m[j]) = s.front
                                THEN [s.map[j] EXCEPT !.rem = removed] ELSE s.map[j]]]
  IN state[Len(m)].map

OriginalLess(a, b) == a.o < b.o \/ (a.o = b.o /\ a.len < b.len)
MappedLess(a, b) == a.t < b.t \/ (a.t = b.t /\ a.len < b.len)

HeaderBlock(d) ==
  LET header == Min({d.to[1].t, d.from[1]})
  IN IF d.to[1].t > 0 /\ d.from[1] > 0
     THEN <<Block(0, 0, header, d.to[1].t - header, d.from[1] - header)>> ELSE <<>>
\* The blocks in the order of OMAPTO; what lies between two of them is injected.
Blocks(d) ==
  LET state[i \in 0 .. Len(d.to)] ==
        IF i = 0 THEN HeaderBlock(d)
        ELSE LET m == state[i - 1]
                 e == d.to[i]
                 left == d.length - e.o
                 len == IF i < Len(d.to) THEN Min({d.to[i + 1].t - e.t, left}) ELSE left
                 last == m[Len(m)]
                 filled == IF m = <<>> THEN m
                           ELSE [m EXCEPT ![Len(m)].inj = @ + (e.t - (last.t + last.len))]
             IN IF e.o >= d.length \/ len = 0 THEN m
                ELSE Append(filled, Block(e.o, e.t, len, 0, 0))
  IN state[Len(d.to)]
BuildMapping(d) ==
  IF d.from = <<>> \/ d.to = <<>> THEN <<>>
  ELSE FillInRemovedLengths(SortSeq(Blocks(d), OriginalLess))

\* Mutant: with the last block that contains it.
BuildEndpointIndexMapLast(m) ==
  LET Covers(i) == m[i].o .. End(m[i]) + m[i].rem - 1
      endpoints == UNION {{m[i].o, End(m[i]) + m[i].rem} : i \in DOMAIN m}
  IN [p \in endpoints |-> LET S == {i \in DOMAIN m : p \in Covers(i)}
                          IN IF S = {} THEN Len(m) + 1 ELSE Max(S)]

\* Every start and end of a block, with the first block that contains it.
BuildEndpointIndexMap(m) ==
  LET Covers(i) == m[i].o .. End(m[i]) + m[i].rem - 1
      endpoints == UNION {{m[i].o, End(m[i]) + m[i].rem} : i \in DOMAIN m}
  IN [p \in endpoints |-> Min({i \in DOMAIN m : p \in Covers(i)} \cup {Len(m) + 1})]

\* From the start of each block of OMAPFROM to the next; nothing if not ascending.
BuildSubsequentRVAMap(from) ==
  IF \E i \in 1 .. Len(from) - 1 : from[i] >= from[i + 1] THEN <<>>
  ELSE [r \in {from[i] : i \in 1 .. Len(from) - 1} |-> Min({q \in ToSet(from) : q > r})]

BuildImageMap(d, old) ==
  LET m == BuildMapping(d)
  IN [mapping |-> m,
      endpoint_index_map |-> IF m = <<>> THEN old.endpoint_index_map ELSE BuildEndpointIndexMap(m),
      subsequent_rva_block |-> old.subsequent_rva_block @@ BuildSubsequentRVAMap(d.from)]

\* The part of a block inside the original addresses rva .. end - 1.
ClipMappedRangeOriginal(rva, end, b) ==
  LET left == IF b.o < rva THEN rva - b.o ELSE 0
      trim == left - b.len
      cut == IF trim > 0 THEN Block(b.o + left, b.t + left, 0, b.inj - Min({trim, b.inj}), b.rem - trim)
             ELSE Block(b.o + left, b.t + left, b.len - left, b.inj, b.rem)
  IN IF end <= b.o \/ End(b) + b.rem <= rva THEN [b EXCEPT !.len = 0, !.inj = 0, !.rem = 0]
     ELSE IF end < End(cut) THEN [cut EXCEPT !.len = end - cut.o, !.inj = 0, !.rem = 0]
     ELSE [cut EXCEPT !.rem = Min({@, end - End(cut)}), !.inj = Min({@, end - End(cut)})]

\* The index of the first block that may contain an address.
FirstBlock(im, rva) ==
  LET ends == DOMAIN im.endpoint_index_map
      before == {p \in ends : p <= rva}
  IN IF \A p \in ends : p < rva THEN Len(im.mapping) + 1
     ELSE im.endpoint_index_map[IF before = {} THEN Min(ends) ELSE Max(before)]

\* The clipped blocks of a range, in the order of the transformed image.
ClippedBlocks(im, rva, length) ==
  LET end == rva + IF length = 0 THEN 1 ELSE length
      last == Cardinality({i \in DOMAIN im.mapping : im.mapping[i].o < end})
      clipped == [i \in 1 .. last |-> ClipMappedRangeOriginal(rva, end, im.mapping[i])]
      touched == IF FirstBlock(im, rva) > last THEN <<>> ELSE SubSeq(clipped, FirstBlock(im, rva), last)
  IN SortSeq(SelectSeq(touched, LAMBDA b : b.len + b.inj > 0), MappedLess)

\* The transformed ranges <<rva, length>> of an original range.  Blocks that follow
\* each other, or with nothing but injected bytes between, make one range.
MapAddressRange(im, rva, length) ==
  LET s == ClippedBlocks(im, rva, length)
      pushed(r, begin, content) == IF begin < content THEN Append(r, <<begin, content - begin>>) ELSE r
      merge[i \in 1 .. Len(s)] ==
        LET content == s[i].t + s[i].len
        IN IF i = 1 THEN [out |-> <<>>, begin |-> s[1].t, content |-> content, injected |-> content + s[1].inj]
           ELSE LET p == merge[i - 1]
                    gap == p.injected < s[i].t
                IN [out |-> IF gap THEN pushed(p.out, p.begin, p.content) ELSE p.out,
                    begin |-> IF gap THEN s[i].t ELSE p.begin,
                    content |-> content, injected |-> content + s[i].inj]
  IN IF im.mapping = <<>> THEN <<<<rva, length>>>>
     ELSE IF s = <<>> THEN <<>>
     ELSE IF length = 0
     THEN LET starts == SetToSortSeq({s[i].t : i \in DOMAIN s}, <)
          IN [i \in DOMAIN starts |-> <<starts[i], 0>>]
     ELSE pushed(merge[Len(s)].out, merge[Len(s)].begin, merge[Len(s)].content)
-----------------------------------------------------------------------------
EmptyMap == [mapping |-> <<>>, endpoint_index_map |-> <<>>, subsequent_rva_block |-> <<>>]
NoFrame == [type |-> -1, rva |-> -1, size |-> 0, prolog |-> -1]
WinInit ==
  /\ winPc = "open" /\ pdb \in Pdbs /\ opens = 0 /\ code_file_ = "" /\ image_map_ = EmptyMap
  /\ file_ids_ = <<>> /\ unique_files_ = <<>> /\ rva_symbol = <<>> /\ turn = 1
  /\ last_frame = NoFrame /\ winOutput = <<>> /\ winResult = FALSE

\* Open() with a file of a format; what was open is closed.  An image is opened
\* only where its PDB is at hand.
Open(format) ==
  /\ winPc \in {"open", "done"} /\ opens < MaxOpens
  /\ opens' = opens + 1 /\ pdb' \in (IF opens = 0 THEN {pdb} ELSE Pdbs)
  /\ code_file_' = IF format = "exe" \/ (format = "any" /\ ~pdb'.isPdb) THEN "opened" ELSE ""
  /\ (format = "pdb" => pdb'.isPdb)
  /\ winPc' = "omap" /\ winOutput' = <<>> /\ winResult' = FALSE
  /\ UNCHANGED <<image_map_, file_ids_, unique_files_, rva_symbol, turn, last_frame>>

SetCodeFile ==
  /\ winPc = "omap" /\ code_file_ = "" /\ code_file_' = "set"
  /\ UNCHANGED <<winPc, pdb, opens, image_map_, file_ids_, unique_files_, rva_symbol, turn,
                 last_frame, winOutput, winResult>>

\* GetOmapDataAndDisableTranslation() and BuildImageMap().
readOmap ==
  /\ winPc = "omap" /\ winPc' = "info"
  /\ image_map_' = BuildImageMap(pdb.omap, image_map_)
  /\ UNCHANGED <<pdb, opens, code_file_, file_ids_, unique_files_, rva_symbol, turn, last_frame,
                 winOutput, winResult>>

\* UsesGUID(): a PDB without a GUID reports its signature in the first field of one.
DebugIdentifier(p) ==
  IF p.guid # p.signature THEN <<"guid", p.guid, p.age>> ELSE <<"signature", p.signature, p.age>>
FindPEFile == IF code_file_ = "" /\ pdb.peBeside THEN "found" ELSE code_file_

\* PrintPDBInfo() and PrintPEInfo().  That there is no image, or one ReadPEInfo()
\* cannot read, only omits the record: WriteSymbols() ignores what it returns.
printInfo ==
  /\ winPc = "info" /\ winPc' = "files" /\ turn' = 1
  /\ code_file_' = FindPEFile
  /\ \E info \in {<<>>} \cup (IF code_file_' = "" THEN {} ELSE {<<<<"INFO", pdb.codeId>>>>}) :
       winOutput' = <<<<"MODULE", pdb.cpu, DebugIdentifier(pdb)>>>> \o info
  /\ UNCHANGED <<pdb, opens, image_map_, file_ids_, unique_files_, rva_symbol, last_frame, winResult>>

\* PrintSourceFiles(): one file of one compiland.
printSourceFile ==
  /\ winPc = "files" /\ turn <= Len(pdb.files)
  /\ LET f == pdb.files[turn]
     IN IF f.name \notin DOMAIN unique_files_
        THEN /\ unique_files_' = unique_files_ @@ (f.name :> f.id)
             /\ winOutput' = Append(winOutput, <<"FILE", f.id, f.name>>)
             /\ UNCHANGED file_ids_
        ELSE /\ file_ids_' = (f.id :> unique_files_[f.name]) @@ file_ids_
             /\ UNCHANGED <<unique_files_, winOutput>>
  /\ turn' = turn + 1
  /\ UNCHANGED <<winPc, writerVars, rva_symbol, last_frame, winResult>>

GetRealFileID(id) == IF id \in DOMAIN file_ids_ THEN file_ids_[id] ELSE id

MaybeRecordSymbol(map, s) ==
  IF s.rva \notin DOMAIN map THEN map @@ (s.rva :> [symbol |-> s, multiple |-> FALSE])
  ELSE IF s.public /\ ~map[s.rva].symbol.public THEN map
  ELSE [map EXCEPT ![s.rva] = [symbol |-> IF s.name < @.symbol.name THEN s ELSE @.symbol,
                               multiple |-> TRUE]]

\* PrintFunctions(): the functions, then the public symbols.
recordSymbol ==
  /\ winPc = "record" /\ turn <= Len(pdb.symbols)
  /\ rva_symbol' = MaybeRecordSymbol(rva_symbol, pdb.symbols[turn])
  /\ turn' = turn + 1
  /\ UNCHANGED <<winPc, writerVars, file_ids_, unique_files_, last_frame, winOutput, winResult>>
-----------------------------------------------------------------------------
\* Parameters on the stack: at least four above the frame pointer, rounded up.
GetFunctionStackParamSize(f) ==
  LET ps == {p \in ToSet(f.params) : p.onStack}
      low == Max({4, Min({p.offset : p \in ps})})
      high == Max({p.offset + p.size : p \in ps})
  IN IF ps = {} \/ high <= low THEN 0
     ELSE high + (IF high % 4 = 0 THEN 0 ELSE 4 - (high % 4)) - low
\* A decorated name tells the size; __fastcall passes eight bytes in registers.
StackParamSize(f) ==
  IF f.decorated = "none" THEN (IF f.public THEN 0 ELSE GetFunctionStackParamSize(f))
  ELSE IF f.decorated = "fastcall" THEN Max({f.declared - 8, 0}) ELSE f.declared

Records(ranges, Record(_)) == [i \in DOMAIN ranges |-> Record(ranges[i])]
\* PrintLines(): the lines DIA finds in the range, each with its own addresses.
LineRecords(rva, length) ==
  LET found == SelectSeq(pdb.lines, LAMBDA l : l.rva < rva + length /\ rva < l.rva + l.length)
  IN FlattenSeq([i \in DOMAIN found |->
       Records(MapAddressRange(image_map_, found[i].rva, found[i].length),
               LAMBDA r : <<"LINE", r, found[i].number, GetRealFileID(found[i].file)>>)])
\* PrintFunction(): FUNC records for all ranges, then the lines.
FunctionRecords(f, rva, length, multiple) ==
  IF length = 0 THEN <<>>
  ELSE Records(MapAddressRange(image_map_, rva, length),
               LAMBDA r : <<"FUNC", multiple, r, StackParamSize(f), f.name>>)
       \o LineRecords(rva, length)

\* The starts of blocks behind an address that are still in the public symbol.
LaterBlocks(s) ==
  LET next == image_map_.subsequent_rva_block
      Nearest(r) == Max({q.rva : q \in {p \in ToSet(pdb.symbols) : p.public /\ p.rva <= r}})
      chain[n \in 0 .. Cardinality(DOMAIN next)] ==
        IF n = 0 THEN <<s.rva>>
        ELSE LET c == chain[n - 1] IN
             IF Len(c) = n /\ c[n] \in DOMAIN next /\ Nearest(next[c[n]]) = s.rva
             THEN Append(c, next[c[n]]) ELSE c
  IN Tail(chain[Cardinality(DOMAIN next)])
\* PrintCodePublicSymbol(): the symbol, and again for every later block of it.
PublicRecords(s, multiple) ==
  IF ~s.code THEN <<>>
  ELSE Records(MapAddressRange(image_map_, s.rva, 1),
               LAMBDA r : <<"PUBLIC", multiple, r[1], StackParamSize(s), s.name>>)
       \o FlattenSeq([i \in DOMAIN LaterBlocks(s) |->
            Records(MapAddressRange(image_map_, LaterBlocks(s)[i], 1),
                    LAMBDA r : <<"PUBLIC", FALSE, r[1], StackParamSize(s), s.name>>)])

printSymbol ==
  /\ winPc = "print" /\ rva_symbol # <<>>
  /\ LET rva == Min(DOMAIN rva_symbol)
         s == rva_symbol[rva].symbol
         m == rva_symbol[rva].multiple
     IN /\ winOutput' = winOutput \o (IF s.public THEN PublicRecords(s, m)
                                      ELSE FunctionRecords(s, s.rva, s.length, m))
        /\ rva_symbol' = Restrict(rva_symbol, DOMAIN rva_symbol \ {rva})
  /\ UNCHANGED <<winPc, writerVars, file_ids_, unique_files_, turn, last_frame, winResult>>

\* A block of a function that lies outside it gets a FUNC record of its own.
printBlock ==
  /\ winPc = "blocks" /\ turn <= Len(pdb.blocks)
  /\ LET b == pdb.blocks[turn]
         f == pdb.symbols[b.parent]
     IN winOutput' = winOutput \o (IF b.rva < f.rva \/ b.rva > f.rva + f.length
                                   THEN FunctionRecords(f, b.rva, b.length, FALSE) ELSE <<>>)
  /\ turn' = turn + 1
  /\ UNCHANGED <<winPc, writerVars, file_ids_, unique_files_, rva_symbol, last_frame, winResult>>

\* PrintFrameDataUsingPDB(): one frame data entry, with the ranges of its prolog and
\* of its body.
FrameRecords(f, prologs, bodies) ==
  IF Len(prologs) = 1 /\ Len(bodies) = 1 /\ prologs[1][1] + prologs[1][2] = bodies[1][1]
  THEN <<<<"STACK WIN", f.type, prologs[1][1], prologs[1][2] + bodies[1][2], prologs[1][2]>>>>
  ELSE Records(prologs, LAMBDA r : <<"STACK WIN", f.type, r[1], r[2], r[2]>>)
       \o Records(bodies, LAMBDA r : <<"STACK WIN", f.type, r[1], r[2], 0>>)
PrologRanges(f) == IF f.prolog > 0 THEN MapAddressRange(image_map_, f.rva, f.prolog) ELSE <<>>
BodyRanges(f) == MapAddressRange(image_map_, f.rva + f.prolog, f.size - f.prolog)
printFrame ==
  /\ winPc = "frames" /\ pdb.cpu # "x86_64" /\ turn <= Len(pdb.frames)
  /\ LET f == pdb.frames[turn]
     IN IF f = last_frame THEN UNCHANGED winOutput
        ELSE \E prologs \in {PrologRanges(f)}, bodies \in {BodyRanges(f)} :
               winOutput' = winOutput \o FrameRecords(f, prologs, bodies)
  /\ last_frame' = pdb.frames[turn] /\ turn' = turn + 1
  /\ UNCHANGED <<winPc, writerVars, file_ids_, unique_files_, rva_symbol, winResult>>
-----------------------------------------------------------------------------
\* The slots of an unwind information: a code, then the words that belong to it.
Slots(ops) ==
  FlattenSeq([i \in DOMAIN ops |->
    <<[op |-> ops[i].op, info |-> ops[i].info, word |-> 0]>>
    \o [j \in DOMAIN ops[i].words |-> [op |-> "raw", info |-> 0, word |-> ops[i].words[j]]]])
WordsSkipped(slot) ==
  CASE slot.op = "ALLOC_LARGE" -> IF slot.info = 0 THEN 1 ELSE 2
    [] slot.op \in {"SAVE_NONVOL", "SAVE_XMM128"} -> 1
    [] slot.op \in {"SAVE_NONVOL_FAR", "SAVE_XMM128_FAR"} -> 2
    [] OTHER -> 0
StackOf(slots, c) ==
  LET s == slots[c]
      fits == c + WordsSkipped(s) <= Len(slots)
  IN CASE s.op = "PUSH_NONVOL" -> 8
       [] s.op = "ALLOC_SMALL" -> s.info * 8 + 8
       [] s.op = "ALLOC_LARGE" /\ fits ->
            IF s.info = 0 THEN slots[c + 1].word * 8
            ELSE slots[c + 1].word + slots[c + 2].word * 65536
       [] s.op = "PUSH_MACHFRAME" -> IF s.info # 0 THEN 88 ELSE 80
       [] OTHER -> 0
\* The loop over the codes of one unwind information: stack size and offset of rip.
WalkCodes(slots) ==
  LET from[c \in 1 .. Len(slots) + 3] ==
        IF c > Len(slots) THEN <<0, 0>>
        ELSE LET rest == from[c + 1 + WordsSkipped(slots[c])]
             IN <<rest[1] + StackOf(slots, c),
                  rest[2] + (IF slots[c].op = "PUSH_MACHFRAME" THEN 80 ELSE 0)>>
  IN from[1]
\* PrintPEFrameData(): one function, along its chain of unwind informations.
printUnwind ==
  /\ winPc = "frames" /\ pdb.cpu = "x86_64" /\ code_file_ # "" /\ turn <= Len(pdb.unwind)
  /\ LET f == pdb.unwind[turn]
         link == [i \in DOMAIN f.chain |-> WalkCodes(Slots(f.chain[i]))]
         size == FoldLeft(LAMBDA a, l : a + l[1], 8, link)
         rip == FoldLeft(LAMBDA a, l : a + l[2], 8, link)
     IN winOutput' = winOutput \o <<<<"CFI INIT", f.begin, f.end - f.begin, rip>>, <<"CFI", f.begin, size>>>>
  /\ turn' = turn + 1
  /\ UNCHANGED <<winPc, writerVars, file_ids_, unique_files_, rva_symbol, last_frame, winResult>>

\* From one loop of WriteSymbols() to the next.
nextLoop ==
  /\ \/ winPc = "files" /\ turn > Len(pdb.files) /\ winPc' = "record"
     \/ winPc = "record" /\ turn > Len(pdb.symbols) /\ winPc' = "print"
     \/ winPc = "print" /\ rva_symbol = <<>> /\ winPc' = "blocks"
     \/ winPc = "blocks" /\ turn > Len(pdb.blocks) /\ winPc' = "frames"
  /\ turn' = 1 /\ last_frame' = NoFrame
  /\ UNCHANGED <<writerVars, file_ids_, unique_files_, rva_symbol, winOutput, winResult>>
\* WriteSymbols() returns; a 64-bit module without an image has no frames.
writeReturns ==
  /\ winPc = "frames" /\ winPc' = "done" /\ turn' = 1
  /\ IF pdb.cpu = "x86_64"
     THEN code_file_ = "" \/ turn > Len(pdb.unwind)
     ELSE turn > Len(pdb.frames)
  /\ winResult' = ~(pdb.cpu = "x86_64" /\ code_file_ = "")
  /\ UNCHANGED <<writerVars, file_ids_, unique_files_, rva_symbol, last_frame, winOutput>>
\* A call of DIA fails and WriteSymbols() returns false with what is written so far.
diaFails ==
  /\ winPc \notin {"open", "done"} /\ winPc' = "done" /\ winResult' = FALSE
  /\ rva_symbol' = <<>> /\ turn' = 1
  /\ UNCHANGED <<writerVars, file_ids_, unique_files_, last_frame, winOutput>>

WinNext ==
  \/ \E format \in {"pdb", "exe", "any"} : Open(format)
  \/ SetCodeFile \/ readOmap \/ printInfo \/ printSourceFile \/ recordSymbol \/ printSymbol
  \/ printBlock \/ printFrame \/ printUnwind \/ nextLoop \/ writeReturns \/ diaFails
-----------------------------------------------------------------------------
Written(kind) == {i \in DOMAIN winOutput : winOutput[i][1] = kind}
\* Where the transformed image has an original byte, by its own table.
OriginalOf(t) ==
  LET d == pdb.omap
      before == {i \in DOMAIN d.to : d.to[i].t <= t}
      e == d.to[Max(before)]
  IN IF d.to = <<>> THEN t
     ELSE IF before = {} THEN (IF t < d.from[1] THEN t ELSE -1)
     ELSE IF e.o + (t - e.t) < d.length THEN e.o + (t - e.t) ELSE -1
Transformed == 0 .. pdb.size - 1
Content(rva, length) == {t \in Transformed : OriginalOf(t) \in rva .. rva + length - 1}
BytesOf(ranges) == UNION {r[1] .. r[1] + r[2] - 1 : r \in ranges}

\* A range of the original image becomes exactly the bytes that come from it and
\* injected bytes between them, in ascending ranges that do not touch.
RangesMapped ==
  winPc = "info" /\ image_map_.mapping # <<>> =>
    \A rva \in 0 .. pdb.omap.length - 1 : \A length \in 1 .. pdb.omap.length - rva :
      \A r \in {MapAddressRange(image_map_, rva, length)}, content \in {Content(rva, length)} :
         /\ content \subseteq BytesOf(ToSet(r))
         /\ \A t \in BytesOf(ToSet(r)) \ content : OriginalOf(t) = -1
         /\ \A i \in 1 .. Len(r) - 1 : r[i][1] + r[i][2] < r[i + 1][1]
         /\ \A i \in 1 .. Len(r) : r[i][1] + r[i][2] - 1 \in content

\* Every file a line refers to has one record, with the name of that file.
FilesDeclared ==
  \A i \in Written("LINE") : \E l \in ToSet(pdb.lines), f \in ToSet(pdb.files) :
    /\ l.number = winOutput[i][3] /\ f.id = l.file
    /\ \E j \in Written("FILE") : winOutput[j] = <<"FILE", winOutput[i][4], f.name>>

\* One symbol for every address: a function if there is one, else a public symbol
\* of code, the first by name, marked if there are several of the kind.
OneSymbolPerAddress ==
  winPc \notin {"open", "omap", "info", "files", "record", "print"} /\ (winPc = "done" => winResult) =>
    \A s \in ToSet(pdb.symbols) :
      LET here == {q \in ToSet(pdb.symbols) : q.rva = s.rva}
          kind == IF \E q \in here : ~q.public THEN {q \in here : ~q.public} ELSE here
          chosen == CHOOSE q \in kind : \A p \in kind : q.name <= p.name
          named == {i \in Written("FUNC") \cup Written("PUBLIC") :
                      /\ winOutput[i][5] \in {q.name : q \in here}
                      /\ winOutput[i][2] = (Cardinality(kind) > 1)}
      IN /\ \A i \in named : winOutput[i][5] = chosen.name
         /\ ~chosen.public /\ chosen.length > 0 /\ Content(chosen.rva, chosen.length) # {} =>
              \E i \in named : winOutput[i][1] = "FUNC"
         /\ chosen.public /\ chosen.code /\ Content(chosen.rva, 1) # {} =>
              \E i \in named : winOutput[i][1] = "PUBLIC"

\* The stack size of a 64-bit function is what its operations take.
Taken(op) ==
  CASE op.op = "PUSH_NONVOL" -> 8 [] op.op = "ALLOC_SMALL" -> op.info * 8 + 8
    [] op.op = "ALLOC_LARGE" -> IF op.info = 0 THEN op.words[1] * 8 ELSE op.words[1] + op.words[2] * 65536
    [] op.op = "PUSH_MACHFRAME" -> IF op.info = 0 THEN 80 ELSE 88 [] OTHER -> 0
UnwindSized ==
  \A i \in Written("CFI") :
    \E f \in ToSet(pdb.unwind) :
      f.begin = winOutput[i][2]
        /\ winOutput[i][3] = FoldLeft(LAMBDA a, op : a + Taken(op), 8, FlattenSeq(f.chain))

\* Every byte of a frame is covered by a record of its type.
FramesCovered ==
  winPc = "done" /\ winResult /\ pdb.cpu # "x86_64" =>
    \A f \in ToSet(pdb.frames) :
      Content(f.rva, f.size) \subseteq
        BytesOf({<<winOutput[i][3], winOutput[i][4]>> : i \in {j \in Written("STACK WIN") : winOutput[j][2] = f.type}})

\* The symbols written name what the image has at an address after post-link tools
\* moved its code, for any order of blocks, injected and removed bytes.
WindowsSymbolsRight ==
  RangesMapped /\ FilesDeclared /\ OneSymbolPerAddress /\ UnwindSized /\ FramesCovered

\* "Outputs a function address and name, followed by its source line list"
\* (pdb_source_line_writer.h:105); violated for a function in several ranges: the
\* lines of all of them follow the record of the last.
LinesFollowFunction ==
  \A i \in Written("LINE") :
    LET f == winOutput[Max({j \in Written("FUNC") : j < i})][3]
    IN BytesOf({winOutput[i][2]}) \cap BytesOf({f}) # {}

\* "determine if the block is outside of the function" (pdb_source_line_writer.cc:482),
\* to print it by itself; violated for a block that starts where its function ends.
BlocksOutsidePrinted ==
  winPc = "done" /\ winResult =>
    \A b \in ToSet(pdb.blocks) :
      LET f == pdb.symbols[b.parent]
      IN b.rva \notin f.rva .. f.rva + f.length - 1 =>
           Content(b.rva, b.length) \subseteq BytesOf({winOutput[i][3] : i \in Written("FUNC")})

\* "set the 'removed' property for any intervals that immediately precede the gap"
\* (omap.cc:269-270), also where one interval holds another; violated there: the front
\* falls back to the end of the inner one.
GapsFilled ==
  LET m == image_map_.mapping
  IN \A i, j \in DOMAIN m : m[j].rem > 0 => End(m[j]) \notin m[i].o .. End(m[i]) - 1
=============================================================================
