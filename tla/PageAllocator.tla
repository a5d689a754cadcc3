----------------------------- MODULE PageAllocator -----------------------------
(* PageAllocator (common/memory_allocator.h): memory for the crashed process,  *)
(* taken from the kernel in pages and never given back before FreeAll.  Where  *)
(* the kernel maps the next pages is its choice.                               *)
EXTENDS Naturals, FiniteSets

CONSTANTS page_size_, Header,      \* bytes of a page, of a PageHeader
          Space,                   \* pages of the address space
          Sizes                    \* sizes that are asked for

ASSUME AllocatorAssumption ==
  /\ page_size_ \in Nat \ {0} /\ Header \in 1 .. page_size_ - 1
  /\ Space \in Nat /\ Sizes \subseteq Nat

VARIABLES runs,                    \* the pages of the list last_: [first, num_pages]
          current_page_,           \* address of the page with room, Nowhere for NULL
          page_offset_, pages_allocated_,
          blocks                   \* what Alloc returned: [start, len]
allocVars == <<runs, current_page_, page_offset_, pages_allocated_, blocks>>

Nowhere == Space * page_size_
AllocInit == /\ runs = {} /\ blocks = {}
             /\ current_page_ = Nowhere /\ page_offset_ = 0 /\ pages_allocated_ = 0

Bytes(start, len) == start .. start + len - 1
Pages(r) == r.first .. r.first + r.num_pages - 1

\* Alloc within the current page.
allocHere(bytes) ==
  /\ bytes > 0 /\ current_page_ # Nowhere /\ page_size_ - page_offset_ >= bytes
  /\ blocks' = blocks \cup {[start |-> current_page_ + page_offset_, len |-> bytes]}
  /\ page_offset_' = (page_offset_ + bytes) % page_size_
  /\ current_page_' = IF page_offset_ + bytes = page_size_ THEN Nowhere ELSE current_page_
  /\ UNCHANGED <<runs, pages_allocated_>>

\* The offset of the free bytes of the last page, and the mutant that forgets the
\* header.
OffsetAfterNoHeader(bytes, pages) == (page_size_ - (page_size_ * pages - bytes)) % page_size_
OffsetAfter(bytes, pages) ==
  (page_size_ - (page_size_ * pages - (bytes + Header))) % page_size_

\* The block behind the header.
BlockStart(a) == a + Header

\* Alloc with GetNPages: pages that nobody has, and the rest of the last one.
allocPages(bytes) ==
  LET pages == (bytes + Header + page_size_ - 1) \div page_size_
      left  == OffsetAfter(bytes, pages)
  IN /\ bytes > 0 /\ ~(current_page_ # Nowhere /\ page_size_ - page_offset_ >= bytes)
     /\ \E first \in 0 .. Space - pages :
          LET run == [first |-> first, num_pages |-> pages]
              a   == first * page_size_
          IN /\ \A r \in runs : Pages(r) \cap Pages(run) = {}
             /\ runs' = runs \cup {run}
             /\ blocks' = blocks \cup {[start |-> BlockStart(a), len |-> bytes]}
             /\ current_page_' = IF left # 0 THEN a + page_size_ * (pages - 1) ELSE Nowhere
     /\ page_offset_' = left
     /\ pages_allocated_' = pages_allocated_ + pages

\* FreeAll: every run of the list is unmapped with the allocator.
FreeAll == /\ runs # {} /\ runs' = {} /\ blocks' = {}
           /\ current_page_' = Nowhere /\ page_offset_' = 0 /\ pages_allocated_' = 0

AllocNext == FreeAll \/ \E bytes \in Sizes : allocHere(bytes) \/ allocPages(bytes)
AllocSpec == AllocInit /\ [][AllocNext]_allocVars
-----------------------------------------------------------------------------
(* The blocks handed out never overlap each other or the header of a run, and  *)
(* each lies in the pages of one run (Alloc), although a run of several pages  *)
(* goes on to serve small blocks from its last page.                           *)
BlocksApart ==
  /\ \A b, c \in blocks : b # c => Bytes(b.start, b.len) \cap Bytes(c.start, c.len) = {}
  /\ \A b \in blocks : \E r \in runs :
       Bytes(b.start, b.len) \subseteq
         Bytes(r.first * page_size_ + Header, r.num_pages * page_size_ - Header)

(* pages_allocated() is the number of pages of all runs, and the free part of  *)
(* the current page belongs to nobody.                                         *)
FreePartUnused ==
  /\ pages_allocated_ = Cardinality(UNION {Pages(r) : r \in runs})
  /\ current_page_ # Nowhere =>
       \A b \in blocks : Bytes(b.start, b.len)
         \cap Bytes(current_page_ + page_offset_, page_size_ - page_offset_) = {}

(* Nothing is handed out twice, and what is free belongs to nobody.            *)
AllocatorSound == BlocksApart /\ FreePartUnused
=============================================================================
