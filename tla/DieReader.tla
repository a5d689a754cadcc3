------------------------------ MODULE DieReader ------------------------------
(* Reading the debugging information entries (DIEs) of a compilation unit:     *)
(* CompilationUnit walks .debug_info and, for a skeleton unit, goes on with    *)
(* the split unit of a .dwp or .dwo file; DIEDispatcher keeps a stack of       *)
(* handlers and tells each of them about its own DIE                           *)
(* (common/dwarf/dwarf2reader.cc, dwarf2reader.h, dwarf2diehandler.cc).        *)
(*                                                                             *)
(* The unit is invented as it is read.  The handlers are those of a client     *)
(* that may refuse any DIE and any children.                                   *)
EXTENDS Integers, Sequences, FiniteSets, SequencesExt, TLC

CONSTANTS Abbrevs,        \* [tag, has_children, attributes]: the abbreviations
          Units,          \* [version, address_size, offset_size, unit_type, dwo_id]
          DwoIds,         \* ids of split units, pairs of the low and the high half
          DwpFiles,       \* the .dwp file: [version, slots, sound, cut], or NoDwp
          MaxDies

VARIABLES diePc,          \* "unit", "dies", "split", "done", "crashed", "aborted"
          unit,           \* the CompilationUnit being read
          dwpFile,
          dieptr,
          die_stack,
          dispatcher,     \* DIEDispatcher: [die_handlers_, life, misused], where life
                          \* is the stage of each handler's life, by DIE, and misused
                          \* says that one was called out of turn (history)
          truncated,      \* a unit ended inside a DIE (history)
          dieCount
dieVars == <<diePc, unit, dwpFile, dieptr, die_stack, dispatcher, truncated, dieCount>>

Null == -1
NoDwp == [version |-> 0, slots |-> <<>>, sound |-> FALSE, cut |-> FALSE]
NoUnit == [version |-> 0, is_split_dwarf_ |-> FALSE]
-----------------------------------------------------------------------------
(* Attributes.  n is the number an attribute starts with: an index, a length   *)
(* or the characters of a string.  LEB128 numbers are one byte long.           *)

\* SkipAttribute() and ProcessAttribute() return where the next one starts;
\* DW_FORM_indirect puts the form in front of the value.
SkipAttribute(form, n) ==
  CASE form = "flag_present" -> 0
    [] form \in {"addrx1", "data1", "flag", "ref1", "strx1"} -> 1
    [] form \in {"addrx2", "ref2", "data2", "strx2"} -> 2
    [] form \in {"addrx3", "strx3"} -> 3
    [] form \in {"addrx4", "ref4", "data4", "strx4"} -> 4
    [] form \in {"ref8", "data8", "ref_sig8"} -> 8
    [] form = "string" -> n + 1
    [] form \in {"udata", "ref_udata", "strx", "addrx", "sdata"} -> 1
    [] form = "addr" \/ (form = "ref_addr" /\ unit.version = 2) -> unit.address_size
    [] form = "ref_addr" /\ unit.version > 2 -> unit.offset_size
    [] form = "block1" -> 1 + n
    [] form = "block2" -> 2 + n
    [] form = "block4" -> 4 + n
    [] form \in {"block", "exprloc"} -> n + 1
    [] form \in {"strp", "line_strp", "strp_sup", "sec_offset"} -> unit.offset_size
    [] OTHER -> Null

Unsigned == {"flag_present", "data1", "flag", "data2", "data4", "data8", "udata", "addr",
             "sec_offset", "addrx", "addrx1", "addrx2", "addrx3", "addrx4"}
Strings == {"string", "strp", "line_strp", "strx", "strx1", "strx2", "strx3", "strx4"}
\* Forms that name a string or an address by its place in another section.
ProcessIndexed(form) ==
  CASE form \in {"strx", "addrx"} -> 1
    [] form \in {"strx1", "addrx1"} -> 1
    [] form \in {"strx2", "addrx2"} -> 2
    [] form \in {"strx3", "addrx3"} -> 3
    [] form \in {"strx4", "addrx4"} -> 4
    [] form = "strp_sup" -> 4
    [] OTHER -> Null
ProcessAttribute(form, n) ==
  CASE form = "flag_present" -> 0
    [] form \in {"data1", "flag", "ref1"} -> 1
    [] form \in {"data2", "ref2"} -> 2
    [] form \in {"data4", "ref4"} -> 4
    [] form \in {"data8", "ref8", "ref_sig8"} -> 8
    [] form \in {"udata", "sdata", "ref_udata"} -> 1
    [] form = "string" -> n + 1
    [] form = "addr" \/ (form = "ref_addr" /\ unit.version = 2) -> unit.address_size
    [] form \in {"sec_offset", "strp", "line_strp"} \/ (form = "ref_addr" /\ unit.version > 2) ->
         unit.offset_size
    [] form = "block1" -> n + 1
    [] form = "block2" -> n + 2
    [] form = "block4" -> n + 4
    [] form \in {"block", "exprloc"} -> n + 1
    [] OTHER -> ProcessIndexed(form)

Indirect(a) == IF a.indirect THEN 1 ELSE 0
\* NULL is no place to go on from.
Plus(at, size) == IF at = Null \/ size = Null THEN Null ELSE at + size
SkipDIE(at, abbrev) ==
  FoldLeft(LAMBDA p, a : Plus(p, Plus(Indirect(a), SkipAttribute(a.form, a.n))), at,
           abbrev.attributes)

\* What the unit itself keeps of the attributes of its DIEs.
ProcessAttributeUnsigned(u, a) ==
  IF a.attr = "dwo_id" /\ a.form \in Unsigned THEN [u EXCEPT !.dwo_id = a.id] ELSE u
ProcessAttributeString(u, a) ==
  IF a.attr = "dwo_name" /\ a.form \in Strings THEN [u EXCEPT !.dwo_name = TRUE] ELSE u
ReadInUnit(u, abbrev) ==
  FoldLeft(LAMBDA v, a : ProcessAttributeString(ProcessAttributeUnsigned(v, a), a), u,
           abbrev.attributes)

\* In a split unit the id must be that of the skeleton.
ProcessDIE(u, at, abbrev) ==
  IF abbrev.tag = "compile_unit" /\ u.is_split_dwarf_ /\ u.dwo_id # u.skeleton_dwo_id_
  THEN Null
  ELSE FoldLeft(LAMBDA p, a : Plus(p, Plus(Indirect(a), ProcessAttribute(a.form, a.n))), at,
                abbrev.attributes)
-----------------------------------------------------------------------------
(* DIEDispatcher.  A handler is named by its DIE, but root_handler_ serves the *)
(* root of the unit and that of its split unit; NoHandler stands for NULL.     *)
NoHandler == <<"none">>
RootHandler == <<"root">>
HandlerFor(d, offset) ==
  IF d.die_handlers_ = <<>> THEN RootHandler
  ELSE <<IF unit.is_split_dwarf_ THEN "split" ELSE "unit", offset>>
\* A handler is new; the root handler may have served before.
Begin(d, h) ==
  [d EXCEPT !.life = (h :> "attributes") @@ @,
            !.misused = @ \/ (h \in DOMAIN d.life /\ ~(h = RootHandler /\ d.life[h] = "finished"))]
SetStage(d, h, from, to) ==
  [d EXCEPT !.life = (h :> to) @@ @,
            !.misused = @ \/ (IF h \in DOMAIN d.life THEN d.life[h] ELSE "none") # from]
SetTop(d, entry) == [d EXCEPT !.die_handlers_ = Append(Front(@), entry)]
Top(d) == Last(d.die_handlers_)
Handled(d) == d.die_handlers_ # <<>> /\ Top(d).handler_ # NoHandler

\* EndAttributes() of the parent, once; a parent that takes no children is
\* finished, and its entry stands for the tree that is ignored.
ParentEnds(d, wants) ==
  IF ~Handled(d) \/ Top(d).reported_attributes_end_ THEN d
  ELSE LET told == SetStage(SetTop(d, [Top(d) EXCEPT !.reported_attributes_end_ = TRUE]),
                            Top(d).handler_, "attributes", "children")
       IN IF wants THEN told
          ELSE SetStage(SetTop(told, [Top(told) EXCEPT !.handler_ = NoHandler]),
                        Top(d).handler_, "children", "finished")

\* Only the oldest of nested entries without a handler is pushed.
Pushes(d, handled) == handled \/ d.die_handlers_ = <<>> \/ Handled(d)

\* handled: the client has a handler for the DIE.
StartDIE(d, offset, wants, handled) ==
  LET parent == ParentEnds(d, wants)
      refused == Handled(d) /\ ~Handled(parent)
      handler == HandlerFor(d, offset)
      entry == [offset_ |-> offset, reported_attributes_end_ |-> FALSE,
                handler_ |-> IF handled THEN handler ELSE NoHandler]
      pushed == IF Pushes(parent, handled)
                THEN [parent EXCEPT !.die_handlers_ = Append(@, entry)] ELSE parent
  IN IF refused THEN parent
     ELSE IF handled THEN Begin(pushed, handler) ELSE pushed

\* The attributes of a DIE go to the handler on top, which must be its own.
DeliverAttributes(d, offset) ==
  LET current == Top(d)
  IN [d EXCEPT !.misused = @ \/ current.offset_ # offset \/ current.handler_ = NoHandler
                             \/ d.life[current.handler_] # "attributes"]

\* Mutant: the entry goes with the first DIE that ends.
EndDIEFirst(d, offset) ==
  LET ended == ParentEnds(d, TRUE)
  IN IF d.die_handlers_ = <<>> THEN [d EXCEPT !.misused = TRUE]
     ELSE LET popped == [ended EXCEPT !.die_handlers_ = Front(@)]
          IN IF Handled(d) THEN SetStage(popped, Top(d).handler_, "children", "finished") ELSE popped

\* An entry of a tree that is ignored goes with the DIE it was made for.
EndDIE(d, offset) ==
  LET ended == ParentEnds(d, TRUE)
      popped == [ended EXCEPT !.die_handlers_ = Front(@)]
  IN CASE d.die_handlers_ = <<>> -> [d EXCEPT !.misused = TRUE]
       [] d.die_handlers_ # <<>> /\ Handled(d) ->
            [SetStage(popped, Top(d).handler_, "children", "finished")
               EXCEPT !.misused = @ \/ Top(d).offset_ # offset]
       [] OTHER -> IF Top(d).offset_ # offset THEN d ELSE popped
-----------------------------------------------------------------------------
(* CompilationUnit                                                             *)
DieInit ==
  /\ diePc = "unit" /\ unit = NoUnit /\ dwpFile \in DwpFiles
  /\ dieptr = 0 /\ die_stack = <<>>
  /\ dispatcher = [die_handlers_ |-> <<>>, life |-> [x \in {} |-> "none"], misused |-> FALSE]
  /\ truncated = FALSE /\ dieCount = 0

\* The size of the header, by version and type of the unit.
ReadHeader(u) ==
  (IF u.offset_size = 8 THEN 12 ELSE 4) + 2 + u.offset_size + 1
  + (CASE u.version <= 4 -> 0
       [] u.version > 4 /\ u.unit_type \in {"skeleton", "split_compile"} -> 1 + 8
       [] u.version > 4 /\ u.unit_type \in {"type", "split_type"} -> 1 + 8 + u.offset_size
       [] OTHER -> 1)
ReadDwoId(u) ==
  IF u.version > 4 /\ u.unit_type \in {"skeleton", "split_compile"} THEN u.dwo_id ELSE <<0, 0>>
OpenUnit(u, split, id) ==
  [version |-> u.version, address_size |-> u.address_size, offset_size |-> u.offset_size,
   dwo_id |-> ReadDwoId(u), dwo_name |-> FALSE, is_split_dwarf_ |-> split,
   skeleton_dwo_id_ |-> id]

\* Start() up to ProcessDIEs().  The client refuses versions before 2.
StartCompilationUnit(u, split, id) ==
  /\ unit' = OpenUnit(u, split, id) /\ dieptr' = ReadHeader(u) /\ die_stack' = <<>>
  /\ diePc' = IF u.version >= 2 THEN "dies" ELSE "done"
  /\ UNCHANGED <<dwpFile, dispatcher, truncated, dieCount>>
startUnit(u) == diePc = "unit" /\ StartCompilationUnit(u, FALSE, <<0, 0>>)

\* One turn of ProcessDIEs(): a DIE, which ends at once if it has no children.
oneDie(abbrev, wants, handled) ==
  LET started == StartDIE(dispatcher, dieptr, wants, handled)
      taken == handled /\ Handled(started) /\ Top(started).offset_ = dieptr
      told == IF taken /\ abbrev.attributes # <<>> THEN DeliverAttributes(started, dieptr) ELSE started
      read == IF taken THEN ReadInUnit(unit, abbrev) ELSE unit
  IN /\ diePc = "dies" /\ dieptr # Null /\ dieCount < MaxDies
     /\ handled => dispatcher.die_handlers_ = <<>> \/ Handled(dispatcher)
     /\ abbrev.tag = "compile_unit" <=> die_stack = <<>>
     /\ dieCount' = dieCount + 1 /\ unit' = read
     /\ dieptr' = IF taken THEN ProcessDIE(read, dieptr + 1, abbrev) ELSE SkipDIE(dieptr + 1, abbrev)
     /\ die_stack' = IF abbrev.has_children THEN Append(die_stack, dieptr) ELSE die_stack
     /\ dispatcher' = IF abbrev.has_children THEN told ELSE EndDIE(told, dieptr)
     /\ UNCHANGED <<diePc, dwpFile, truncated>>
\* The end of a list of children.
endOfChildren ==
  /\ diePc = "dies" /\ dieptr # Null /\ die_stack # <<>>
  /\ dispatcher' = EndDIE(dispatcher, Last(die_stack))
  /\ die_stack' = Front(die_stack) /\ dieptr' = dieptr + 1
  /\ UNCHANGED <<diePc, unit, dwpFile, truncated, dieCount>>
\* The unit's length is reached, or padding behind its last DIE.
endOfUnit ==
  /\ diePc = "dies" /\ dieptr # Null
  /\ truncated' = (truncated \/ die_stack # <<>>)
  /\ diePc' = IF ~unit.is_split_dwarf_ /\ unit.dwo_name THEN "split" ELSE "done"
  /\ UNCHANGED <<unit, dwpFile, dieptr, die_stack, dispatcher, dieCount>>
\* A form that is not known, or a split unit of another id: the loop reads on at
\* address zero.
readAtNull ==
  /\ diePc = "dies" /\ dieptr = Null
  /\ diePc' = "crashed"
  /\ UNCHANGED <<unit, dwpFile, dieptr, die_stack, dispatcher, truncated, dieCount>>
-----------------------------------------------------------------------------
(* DwpReader and ProcessSplitDwarf                                             *)

\* The i-th slot probed for an id; the number of slots is a power of two.
Probe(slots, id, i) ==
  LET n == Len(slots) IN 1 + ((id[1] + i * (2 * ((id[2] % n) \div 2) + 1)) % n)
\* The probe that ends the search, or Null: then it never ends.
LastProbe(slots, id, Ends(_)) ==
  LET ends == {i \in 0 .. Len(slots) - 1 : Ends(slots[Probe(slots, id, i)])}
  IN IF ends = {} THEN Null ELSE CHOOSE i \in ends : \A j \in ends : i <= j
NoId == <<0, 0>>
\* Version 1 looks for a free slot by the id, version 2 by the index.
LookupCU(slots, id) ==
  LET i == LastProbe(slots, id, LAMBDA s : s.id \in {NoId, id})
  IN IF i # Null /\ slots[Probe(slots, id, i)].id # NoId THEN slots[Probe(slots, id, i)].index
     ELSE 0
LookupCUv2(slots, id) ==
  LET i == LastProbe(slots, id, LAMBDA s : s.index = 0 \/ s.id = id)
  IN IF i = Null THEN 0 ELSE slots[Probe(slots, id, i)].index

\* Tables that do not fit the section are none.
Initialize(file) == IF file.sound THEN file.version ELSE 0

\* What may be found for the unit: no section, all of them, or, where its list of
\* sections runs over the end of a version 1 table, some without .debug_info.
\* A row that runs over the end of a version 2 table gives none.
ReadDebugSectionsForCU(file, id) ==
  LET version == Initialize(file)
      listed == /\ version \in {1, 2}
                /\ (IF version = 1 THEN LookupCU(file.slots, id)
                    ELSE LookupCUv2(file.slots, id)) # 0
  IN IF ~listed THEN {"none"}
     ELSE IF ~file.cut THEN {"all"}
     ELSE IF version = 1 THEN {"none", "some", "all"} ELSE {"none"}

\* The unit in the .dwp file is read, else the one in the .dwo file, if there is
\* one and it is an ELF file.  Start() asserts that it has a .debug_info.
ProcessSplitDwarf(u) ==
  /\ diePc = "split"
  /\ \E sections \in ReadDebugSectionsForCU(dwpFile, unit.dwo_id) :
       IF sections = "all" \/ (sections = "none" /\ u.exists)
       THEN StartCompilationUnit(u, TRUE, unit.dwo_id)
       ELSE /\ diePc' = IF sections = "some" THEN "aborted" ELSE "done"
            /\ UNCHANGED <<unit, dwpFile, dieptr, die_stack, dispatcher, truncated, dieCount>>

DieNext ==
  \/ \E u \in Units : startUnit(u) \/ ProcessSplitDwarf(u)
  \/ \E abbrev \in Abbrevs : \E wants, handled \in BOOLEAN : oneDie(abbrev, wants, handled)
  \/ endOfChildren \/ endOfUnit \/ readAtNull
-----------------------------------------------------------------------------
Forms == {"flag_present", "addrx1", "data1", "flag", "ref1", "strx1", "addrx2", "ref2", "data2",
          "strx2", "addrx3", "strx3", "addrx4", "ref4", "data4", "strx4", "ref8", "data8", "ref_sig8",
          "string", "udata", "ref_udata", "strx", "addrx", "sdata", "addr", "ref_addr", "block1",
          "block2", "block4", "block", "exprloc", "strp", "line_strp", "strp_sup", "sec_offset"}

\* The id found for a unit is the one filed for it, wherever the other units of
\* the table went, as long as a slot is free.
LookupsFind ==
  \A id \in DwoIds :
    LET filed == {s \in 1 .. Len(dwpFile.slots) : dwpFile.slots[s].id = id}
        index == IF filed = {} THEN 0 ELSE dwpFile.slots[CHOOSE s \in filed : TRUE].index
    IN dwpFile.version \in {1, 2} =>
         LookupCU(dwpFile.slots, id) = index /\ LookupCUv2(dwpFile.slots, id) = index
\* Every handler lives once: it gets its attributes, the end of them, its
\* children and the end, in this order, whatever the client refuses.  Only the
\* root handler lives again, for the root of the split unit, and not before its
\* first life has ended; and of a split unit whose identifier is not that of the
\* skeleton nothing below the root reaches a handler.  This holds as long as units
\* end where their DIEs do; then none is left over.  Where the next DIE is read
\* does not depend on whether a DIE was skipped or processed, for every form but
\* a supplementary string of 64-bit DWARF.  The asserts of EndDIE() hold, and
\* lookups in a .dwp file find the unit they look for.
DiesDelivered ==
  /\ ~truncated =>
       /\ ~dispatcher.misused
       /\ diePc = "done" => /\ dispatcher.die_handlers_ = <<>>
                           /\ \A h \in DOMAIN dispatcher.life : dispatcher.life[h] = "finished"
       /\ \A h \in DOMAIN dispatcher.life :
            h[1] = "split" => unit.dwo_id = unit.skeleton_dwo_id_
  /\ diePc = "unit" => LookupsFind
  /\ unit # NoUnit /\ dieCount = 0 => \A form \in Forms : \A n \in {0, 2} :
       SkipAttribute(form, n) = ProcessAttribute(form, n)
         \/ (form = "strp_sup" /\ unit.offset_size = 8)
\* "If it does not match, we will ignore this compilation unit" (ProcessDIE).
MismatchIgnored == diePc # "crashed"
=============================================================================
