---------------------------- MODULE CallFrameInfo ----------------------------
(* Call frame information: CallFrameInfo::Start() walks the entries of a       *)
(* .debug_frame or .eh_frame section, interprets the instructions of every     *)
(* FDE behind those of its CIE, and reports each change of a rule to its       *)
(* handler, DwarfCFIToModule, which files the rules of one entry by address    *)
(* (common/dwarf/dwarf2reader.cc, common/dwarf_cfi_to_module.cc).              *)
(*                                                                             *)
(* The section is read as it is invented: each step chooses the next entry or  *)
(* the next instruction.  The text of a rule is a tuple of what is printed.    *)
EXTENDS Integers, Sequences, Functions, SequencesExt

CONSTANTS Registers,          \* numbers of registers
          Names,              \* register_names_: a function on some of the numbers
          WindowOut, WindowSaved,  \* registers of DW_CFA_GNU_window_save
          CfiOffsets,         \* operands of the instructions
          Cies,               \* contents of CIEs
          FdeAddresses, MaxAddress,
          MaxEntries, MaxInstructions  \* bounds: entries, entries and instructions

VARIABLES eh_frame_,         \* the section is .eh_frame
          cfiPc,              \* "entries", "cie", "fde", "done"
          entryCount,
          all_ok,
          functionBase,       \* the reader has a function base
          cie,                \* the CIE of the FDE being read
          address_,
          instructions,       \* instructions read so far
          rules_, cie_rules_, saved_rules_,
          entry_,             \* DwarfCFIToModule: the entry, or NoEntry
          backwards,          \* the address has been set back (history)
          asserted            \* an assert() has failed
cfiVars == <<eh_frame_, cfiPc, entryCount, all_ok, functionBase, cie, address_, instructions,
             rules_, cie_rules_, saved_rules_, entry_, backwards, asserted>>

kCFARegister == -1
NoRules == [r \in {} |-> 0]
NoEntry == [address |-> -1, initial_rules |-> NoRules, rule_changes |-> NoRules]
NoCie == [version |-> 0]
-----------------------------------------------------------------------------
(* Rules.  Two rules are equal when they are the same record.                  *)
UndefinedRule == [kind |-> "undefined"]
SameValueRule == [kind |-> "same"]
OffsetRule(base, offset) == [kind |-> "offset", base |-> base, offset |-> offset]
ValOffsetRule(base, offset) == [kind |-> "val_offset", base |-> base, offset |-> offset]
RegisterRule(reg) == [kind |-> "register", base |-> reg]
\* Also a ValExpressionRule: neither kind is filed.
ExpressionRule(e) == [kind |-> "expression", expression |-> e]
\* Only a ValOffsetRule changes.
SetBaseRegister(rule, reg) ==
  IF rule.kind = "val_offset" THEN [rule EXCEPT !.base = reg] ELSE rule
SetOffset(rule, offset) ==
  IF rule.kind = "val_offset" THEN [rule EXCEPT !.offset = offset] ELSE rule

RegisterName(reg) ==
  CASE reg = kCFARegister -> ".cfa"
    [] reg = cie.return_address -> ".ra"
    [] reg # cie.return_address /\ reg \in DOMAIN Names -> Names[reg]
    [] OTHER -> <<"unnamed_register", reg>>

\* Undefined values and expressions are reported as unsupported and not filed.
Supported(rule) == rule.kind \in {"same", "offset", "val_offset", "register"}
RuleText(rule, reg) ==
  CASE rule.kind = "same" -> <<RegisterName(reg)>>
    [] rule.kind = "register" -> <<RegisterName(rule.base)>>
    [] rule.kind = "offset" -> <<RegisterName(rule.base), rule.offset, "+", "^">>
    [] rule.kind = "val_offset" -> <<RegisterName(rule.base), rule.offset, "+">>

\* Rules at the first address of the entry are its initial rules.
Record(entry, address, reg, text) ==
  IF address = entry.address
  THEN [entry EXCEPT !.initial_rules = (RegisterName(reg) :> text) @@ @]
  ELSE LET old == IF address \in DOMAIN entry.rule_changes
                  THEN entry.rule_changes[address] ELSE NoRules
       IN [entry EXCEPT !.rule_changes = (address :> ((RegisterName(reg) :> text) @@ old)) @@ @]

Handle(entry, rule, reg) ==
  IF Supported(rule) THEN Record(entry, address_, reg, RuleText(rule, reg)) ELSE entry
-----------------------------------------------------------------------------
(* State: the interpreter                                                      *)
CfiInit ==
  /\ eh_frame_ \in BOOLEAN
  /\ cfiPc = "entries" /\ entryCount = 0 /\ all_ok = TRUE /\ functionBase = FALSE
  /\ cie = NoCie /\ address_ = 0 /\ instructions = 0
  /\ rules_ = NoRules /\ cie_rules_ = NoRules /\ saved_rules_ = <<>>
  /\ entry_ = NoEntry
  /\ backwards = FALSE /\ asserted = FALSE

HasCFA == kCFARegister \in DOMAIN rules_
SetRule(reg, rule) ==
  /\ rules_' = (reg :> rule) @@ rules_
  /\ entry_' = Handle(entry_, rule, reg)
  /\ UNCHANGED <<address_, saved_rules_, backwards, asserted>>
DoDefCFA(base, offset) == SetRule(kCFARegister, ValOffsetRule(base, offset))
DoDefCFAOffset(offset) ==
  HasCFA /\ SetRule(kCFARegister, SetOffset(rules_[kCFARegister], offset))
DoDefCFARegister(reg) ==
  IF HasCFA
  THEN SetRule(kCFARegister, SetBaseRegister(rules_[kCFARegister], reg))
  \* ops.offset has not been set: it holds anything.
  ELSE \E offset \in CfiOffsets : DoDefCFA(reg, offset)
DoRule(reg, rule) == SetRule(reg, rule)
DoOffset(reg, offset) == HasCFA /\ DoRule(reg, OffsetRule(kCFARegister, offset))
DoValOffset(reg, offset) == HasCFA /\ DoRule(reg, ValOffsetRule(kCFARegister, offset))
DoRestore(reg) ==
  /\ cfiPc = "fde"
  /\ DoRule(reg, IF reg \in DOMAIN cie_rules_ THEN cie_rules_[reg] ELSE SameValueRule)

Advance(to) ==
  /\ to <= MaxAddress
  /\ address_' = to
  /\ backwards' = (backwards \/ to < address_)
  /\ UNCHANGED <<rules_, entry_, saved_rules_, asserted>>

windowSave ==
  LET new == [r \in WindowOut \cup WindowSaved |->
                IF r \in WindowSaved THEN OffsetRule(kCFARegister, r) ELSE RegisterRule(r + 16)]
  IN /\ rules_' = new @@ rules_
     /\ entry_' = FoldSet(LAMBDA r, e : Handle(e, new[r], r), entry_, DOMAIN new)
     /\ UNCHANGED <<address_, saved_rules_, backwards, asserted>>

\* Mutant: registers that have no rule in the state restored are not reported.
TransitionSilent(new) ==
  LET changed == {r \in DOMAIN rules_ \cap DOMAIN new : rules_[r] # new[r]}
  IN FoldSet(LAMBDA r, e : Handle(e, new[r], r), entry_, changed)

\* HandleTransitionTo: what differs is reported; a register that loses its rule
\* is reported as unchanged.
HandleTransitionTo(new) ==
  LET changed == {r \in DOMAIN rules_ \cap DOMAIN new : rules_[r] # new[r]}
      lost == (DOMAIN rules_ \ DOMAIN new) \ {kCFARegister}
  IN FoldSet(LAMBDA r, e : Handle(e, IF r \in lost THEN SameValueRule ELSE new[r], r),
             entry_, changed \cup lost)

rememberState ==
  /\ saved_rules_' = Append(saved_rules_, rules_)
  /\ UNCHANGED <<address_, rules_, entry_, backwards, asserted>>
restoreState ==
  /\ saved_rules_ # <<>>
  /\ LET new == Last(saved_rules_)
     IN /\ HasCFA => kCFARegister \in DOMAIN new
        /\ asserted' = (asserted \/ ~(DOMAIN new \subseteq DOMAIN rules_))
        /\ entry_' = HandleTransitionTo(new)
        /\ rules_' = new
  /\ saved_rules_' = Front(saved_rules_)
  /\ UNCHANGED <<address_, backwards>>
nop == UNCHANGED <<address_, rules_, entry_, saved_rules_, backwards, asserted>>

\* An instruction that DoInstruction() accepts.  The forms of an instruction
\* (operand sizes, factored and signed offsets) differ in how the operand is
\* computed, not in what is done with it.
DoAdvance ==
  \/ \E delta \in {0, 1} : Advance(address_ + delta * cie.code_alignment_factor)
  \/ \E to \in 0 .. MaxAddress : Advance(to)
DoInstruction ==
  \/ \E r \in Registers : DoDefCFARegister(r) \/ \E o \in CfiOffsets : DoDefCFA(r, o)
  \/ \E o \in CfiOffsets : DoDefCFAOffset(o)
  \/ SetRule(kCFARegister, ExpressionRule("e"))
DoRegisterInstruction ==
  \/ \E r \in Registers :
       \/ \E o \in CfiOffsets : \/ DoOffset(r, o * cie.data_alignment_factor)
                               \/ DoValOffset(r, o * cie.data_alignment_factor)
       \/ DoRule(r, UndefinedRule) \/ DoRule(r, SameValueRule)
       \/ \E q \in Registers : DoRule(r, RegisterRule(q))
       \/ DoRule(r, ExpressionRule("e"))
       \/ DoRestore(r)
  \/ rememberState \/ restoreState \/ nop \/ windowSave

\* Entries and instructions share the bound; advances need none, and nothing
\* follows an advance that goes back.
interpret ==
  /\ cfiPc \in {"cie", "fde"}
  /\ \/ DoAdvance /\ UNCHANGED instructions
     \/ /\ entryCount + instructions < MaxInstructions /\ ~backwards
        /\ instructions' = instructions + 1
        /\ DoInstruction \/ DoRegisterInstruction
  /\ UNCHANGED <<eh_frame_, cfiPc, entryCount, all_ok, functionBase, cie, cie_rules_>>

\* InterpretCIE() ends: its rules are those DW_CFA_restore goes back to.
endOfCie ==
  /\ cfiPc = "cie"
  /\ cie_rules_' = rules_ /\ cfiPc' = "fde"
  /\ UNCHANGED <<eh_frame_, entryCount, all_ok, functionBase, cie, address_, instructions, rules_,
                 saved_rules_, entry_, backwards, asserted>>

\* The entry is over: InterpretFDE() has come to its end, or an instruction was
\* cut short, unknown, or not allowed where it stands.  End() hands the entry to
\* the module in both cases.
endOfEntry(ok) ==
  /\ cfiPc = "fde" \/ (cfiPc = "cie" /\ ~ok)
  /\ all_ok' = (all_ok /\ ok) /\ functionBase' = FALSE
  /\ entry_' = NoEntry
  /\ cfiPc' = "entries" /\ rules_' = NoRules /\ cie_rules_' = NoRules /\ saved_rules_' = <<>>
  /\ cie' = NoCie /\ address_' = 0 /\ backwards' = FALSE
  /\ UNCHANGED <<eh_frame_, entryCount, instructions, asserted>>
-----------------------------------------------------------------------------
(* Start(): the entries of the section                                         *)

\* The initial length may be cut short, zero, longer than the section or fit it;
\* the id of a .debug_frame CIE is all ones, that of an .eh_frame CIE is zero.
Heads == [length : {"cut", "zero", "long", "fits"}, idCut : BOOLEAN, id : {"zero", "ones", "other"}]
ReadEntryPrologue(h) ==
  CASE h.length \in {"cut", "long"} -> "lost"
    [] h.length = "zero" -> IF eh_frame_ THEN "terminator" ELSE "incomplete"
    [] h.length = "fits" /\ h.idCut -> "incomplete"
    [] OTHER -> IF h.id = (IF eh_frame_ THEN "zero" ELSE "ones") THEN "cie" ELSE "fde"

\* ReadCIEFields(): whether the CIE can be used.  An FDE-relative encoding is
\* usable when the reader has a function base.
UsableEncoding(e) == e # "nobase" /\ (e = "funcrel" => functionBase)
ReadAugmentation(c) ==
  /\ c.personality # "none" => c.personality # "invalid" /\ UsableEncoding(c.personality)
  /\ c.lsda # "invalid"
  /\ c.pointer # "invalid" /\ UsableEncoding(c.pointer)
ReadCIEFields(c) ==
  /\ c.complete /\ c.version \in 1 .. 4
  /\ c.augmentation # "" => c.augmentation = "z" /\ ReadAugmentation(c)
  /\ c.version >= 4 => c.address_size \in {4, 8} /\ c.segment_size = 0
\* ReadFDEFields(): the LSDA pointer's encoding is looked at once the reader has
\* the function base.
ReadFDEFields(c, complete) == complete /\ c.lsda # "nobase"

\* An entry that is skipped: the loop goes on behind it.
skipEntry(ok) ==
  /\ cfiPc = "entries" /\ entryCount < MaxEntries
  /\ entryCount' = entryCount + 1 /\ all_ok' = (all_ok /\ ok)
  /\ UNCHANGED <<eh_frame_, cfiPc, functionBase, cie, address_, instructions, rules_, cie_rules_,
                 saved_rules_, entry_, backwards, asserted>>
\* The terminator, the end of the section, or an entry of unknown extent.
lastEntry(ok) ==
  /\ cfiPc = "entries"
  /\ cfiPc' = "done" /\ all_ok' = (all_ok /\ ok)
  /\ UNCHANGED <<eh_frame_, entryCount, functionBase, cie, address_, instructions, rules_,
                 cie_rules_, saved_rules_, entry_, backwards, asserted>>
\* The fields of the FDE are no good: a function base that was set stays.
shortFde(c, complete) ==
  /\ cfiPc = "entries" /\ entryCount < MaxEntries /\ ReadCIEFields(c)
  /\ ~ReadFDEFields(c, complete)
  /\ entryCount' = entryCount + 1 /\ all_ok' = FALSE
  /\ functionBase' \in {TRUE, complete \/ functionBase}
  /\ UNCHANGED <<eh_frame_, cfiPc, cie, address_, instructions, rules_, cie_rules_, saved_rules_,
                 entry_, backwards, asserted>>
\* DwarfCFIToModule::Entry(): the initial rule of .ra names the register.
Entry(c, address) ==
  [address |-> address, rule_changes |-> NoRules,
   initial_rules |-> IF c.return_address \in DOMAIN Names
                     THEN ".ra" :> <<Names[c.return_address]>> ELSE NoRules]
readFde(c, address) ==
  /\ cfiPc = "entries" /\ entryCount < MaxEntries /\ ReadCIEFields(c)
  /\ ReadFDEFields(c, TRUE)
  /\ entryCount' = entryCount + 1 /\ functionBase' = TRUE
  /\ cie' = c /\ address_' = address
  /\ asserted' = (asserted \/ entry_ # NoEntry)
  /\ entry_' = Entry(c, address) /\ cfiPc' = "cie"
  /\ UNCHANGED <<eh_frame_, all_ok, instructions, rules_, cie_rules_, saved_rules_, backwards>>

\* One turn of the loop.  CIEs are skipped until an FDE refers to them; an FDE
\* is skipped when its CIE pointer is out of range, does not lead to a CIE, or
\* leads to one that is no good.
readEntry(h) ==
  LET kind == ReadEntryPrologue(h)
  IN \/ kind = "lost" /\ lastEntry(FALSE)
     \/ kind = "terminator" /\ lastEntry(TRUE)
     \/ kind = "incomplete" /\ skipEntry(FALSE)
     \/ kind = "cie" /\ skipEntry(TRUE)
     \/ kind = "fde" /\ skipEntry(FALSE)
     \/ kind = "fde" /\ \E c \in Cies :
          \/ \E complete \in BOOLEAN : shortFde(c, complete)
          \/ \E a \in FdeAddresses : readFde(c, a)

CfiNext ==
  \/ interpret \/ endOfCie \/ \E ok \in BOOLEAN : endOfEntry(ok)
  \/ cfiPc = "entries" /\ (lastEntry(TRUE) \/ \E h \in Heads : readEntry(h))
-----------------------------------------------------------------------------
\* What a reader of the symbol file finds for the register at an address.
Changes(e, a, name) == {b \in DOMAIN e.rule_changes : b <= a /\ name \in DOMAIN e.rule_changes[b]}
Replay(e, a, name) ==
  LET at == Changes(e, a, name)
  IN IF at # {} THEN e.rule_changes[CHOOSE b \in at : \A c \in at : c <= b][name]
     ELSE IF name \in DOMAIN e.initial_rules THEN e.initial_rules[name] ELSE <<>>

\* The entry filed so far says at the current address what the interpreter's
\* rules say there: every rule that can be expressed is found, and a register
\* without a rule is found unchanged or not at all, through any nesting of
\* DW_CFA_remember_state and DW_CFA_restore_state, as long as the addresses do
\* not go backwards.  The asserts about what can be restored hold.
FramesFaithful ==
  /\ ~asserted
  /\ entry_ # NoEntry /\ ~backwards =>
       \A r \in Registers \cup {kCFARegister} :
         LET found == Replay(entry_, address_, RegisterName(r))
         IN IF r \in DOMAIN rules_
            THEN Supported(rules_[r]) => found = RuleText(rules_[r], r)
            ELSE \/ found \in {<<>>, <<RegisterName(r)>>}
                 \/ r = cie.return_address /\ found = <<Names[r]>>

\* "Tell the ByteReader that the function start address from the FDE header is
\* no longer valid" (Start): none is known while the next CIE is read.
FunctionBaseFresh == cfiPc = "entries" => ~functionBase
=============================================================================
