----------------------------- MODULE MCStructures -----------------------------
(* Each behaviour exercises one of the four structures.                        *)
EXTENDS LongDictionary, PageAllocator, LinuxMappings

VARIABLE part
allVars == <<vars, longVars, allocVars, mappingVars, part>>

\* KeySize is 3.
MCClipKey(k) == IF k[1] = "abc" THEN <<"ab", k[2]>> ELSE k
MCClip(v) == IF Len(v) > Room THEN SubSeq(v, 1, Room) ELSE v
MCKeys == {<<"a", 0>>, <<"ab", 0>>, <<"a", 1>>}
MCValues == {<<1>>, <<2, 1>>}
MCLongValues == {<<1>>, <<2>>, <<1, 2>>, <<2, 2, 1>>, <<1, 2, 1, 2>>}

AllInit == /\ part \in {"dictionary", "long", "allocator", "mappings"}
           /\ Init /\ LongInit /\ AllocInit /\ MappingsInit
           /\ part # "mappings" => entry = 0 /\ ~chrome
AllNext ==
  /\ UNCHANGED part
  /\ \/ part = "dictionary" /\ Next /\ UNCHANGED <<longVars, allocVars, mappingVars>>
     \/ part = "long" /\ LongNext /\ UNCHANGED <<vars, allocVars, mappingVars>>
     \/ part = "allocator" /\ AllocNext /\ UNCHANGED <<vars, longVars, mappingVars>>
     \/ part = "mappings" /\ MappingsNext /\ UNCHANGED <<vars, longVars, allocVars>>
AllSpec == AllInit /\ [][AllNext]_allVars
=============================================================================
