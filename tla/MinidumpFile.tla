----------------------------- MODULE MinidumpFile -----------------------------
(* The file a minidump is written to: MinidumpFileWriter, which hands out      *)
(* ranges of the file (MDRVA: relative virtual address) and copies data into   *)
(* them, and the UntypedMDRVA/TypedMDRVA holders of one range                  *)
(* (client/minidump_file_writer.{h,cc}, minidump_file_writer-inl.h).           *)
(*                                                                             *)
(* A writer is a record.  position and size are position_ and size_, made the  *)
(* ranges handed out so far in order, disk the copies that reached the file,   *)
(* offset the kernel's file offset.  limit (the largest size the kernel lets   *)
(* the file have), workaround (Android kernels whose ftruncate fails) and      *)
(* word32 (a 32-bit process, where size_t and off_t have 32 bits) do not       *)
(* change.  A copy says which range it is meant for (home), which the code     *)
(* knows by construction and the model keeps to state what a copy may touch.   *)
EXTENDS Integers, Sequences, FiniteSets, Functions

CONSTANT PageSize            \* getpagesize()

ASSUME PageSizeAssumption == PageSize \in Nat /\ PageSize % 8 = 0 /\ PageSize > 0

\* kInvalidMDRVA: static_cast<MDRVA>(-1), all ones in 32 bits.
kInvalidMDRVA == -1

Location(rva, size) == [rva |-> rva, size |-> size]

\* The constructor: no file, nothing allocated.
NewFile(limit, workaround, word32) ==
  [file |-> "none", position |-> 0, size |-> 0, made |-> <<>>, disk |-> {},
   offset |-> 0, limit |-> limit, workaround |-> workaround, word32 |-> word32]

\* size rounded up to 64-bit alignment.
Aligned(n) == 8 * ((n + 7) \div 8)

\* ftruncate fails: no range, nothing changes.
GrowthOf(n) == IF Aligned(n) < PageSize THEN PageSize ELSE Aligned(n)
AllocateFails(f, n) == /\ ~f.workaround
                       /\ f.position + Aligned(n) > f.size
                       /\ f.size + GrowthOf(n) > f.limit

\* MinidumpFileWriter::Allocate: the next range, the file grown by at least a
\* page when the aligned size does not fit.  With the workaround the size only
\* counts: write() grows the file.
Allocate(f, n) ==
  IF AllocateFails(f, n) THEN f
  ELSE [f EXCEPT !.made = Append(@, Location(f.position, n)),
                 !.position = @ + (IF f.workaround THEN n ELSE Aligned(n)),
                 !.size = IF f.workaround THEN @ + n
                          ELSE IF f.position + Aligned(n) > @ THEN @ + GrowthOf(n)
                          ELSE @]

\* UntypedMDRVA::Allocate: the position of the holder afterwards.
PositionOf(f, n) == IF AllocateFails(f, n) THEN kInvalidMDRVA ELSE f.position

\* The bound check of MinidumpFileWriter::Copy: size + position in size_t, which
\* wraps for kInvalidMDRVA in 32 bits and exceeds every file size in 64.
Fits(f, rva, n) == /\ rva = kInvalidMDRVA => f.word32
                   /\ rva + n <= f.size

\* MinidumpFileWriter::Copy.  lseek to kInvalidMDRVA fails with -1, which equals
\* the position in a 32-bit off_t: the data then goes where the offset happens
\* to be.  full: the device takes no more data and write() comes back short.
Copy(f, home, rva, n, what, full) ==
  IF ~Fits(f, rva, n) \/ full THEN f
  ELSE LET at == IF rva = kInvalidMDRVA THEN f.offset ELSE rva
       IN [f EXCEPT !.disk = @ \cup {[home |-> home, rva |-> at, size |-> n, what |-> what]},
                    !.offset = at + n]

CopyOK(f, rva, n, full) == Fits(f, rva, n) /\ ~full

\* ~TypedMDRVA flushes the object unless the holder is an array; position_ may
\* be kInvalidMDRVA.
Flush(f, rva, n, what, full) == Copy(f, rva, rva, n, what, full)

\* Open(path) with O_EXCL, and SetFile(fd).
Open(f) == [f EXCEPT !.file = "open"]

\* Close(): ftruncate to the position, then close.  A failed ftruncate returns
\* before close, and the destructor tries once more.
Close(f, truncateFails) ==
  IF f.file # "open" \/ (truncateFails /\ ~f.workaround) THEN f
  ELSE [f EXCEPT !.file = "closed", !.size = IF f.workaround THEN @ ELSE f.position]

-----------------------------------------------------------------------------
(* MDStrings.  A character is named by its width in UTF-8: "one", "two" and    *)
(* "three" bytes become one UTF-16 unit, "four" bytes a surrogate pair, and    *)
(* "bad" is a byte sequence the strict conversion refuses.                     *)
Bytes(c) == CASE c = "two" -> 2 [] c = "three" -> 3 [] c = "four" -> 4 [] OTHER -> 1
Units(c) == IF c = "four" THEN 2 ELSE 1

\* Fold of a width over the characters of a string.
Width(width(_), str) ==
  LET sum[k \in 0 .. Len(str)] == IF k = 0 THEN 0 ELSE sum[k - 1] + width(str[k])
  IN sum[Len(str)]

\* CopyStringToMDString(char): unit by unit, each copy placed at
\* out_idx * out_size; stops at the first character that does not convert or
\* whose copy fails.
UnitAt(rva, str, k) == rva + 4 + Width(Units, SubSeq(str, 1, k - 1)) * 2 * Units(str[k])
Copied(f, rva, str, full) ==
  {k \in 1 .. Len(str) :
     \A j \in 1 .. k : /\ str[j] # "bad"
                       /\ CopyOK(f, UnitAt(rva, str, j), 2 * Units(str[j]), full)}
CopyStringToMDString(f, rva, str, full) ==
  LET step[k \in 0 .. Cardinality(Copied(f, rva, str, full))] ==
        IF k = 0 THEN f
        ELSE Copy(step[k - 1], rva, UnitAt(rva, str, k), 2 * Units(str[k]),
                  <<"char", str>>, full)
  IN step[Cardinality(Copied(f, rva, str, full))]

\* WriteStringCore: length bytes and a terminator, the object (its length field)
\* flushed by the destructor on every path.
WriteStringSize(str) == 4 + 2 * (Width(Bytes, str) + 1)
WriteStringOK(f, str, full) ==
  LET n == WriteStringSize(str)
  IN /\ ~AllocateFails(f, n)
     /\ Copied(Allocate(f, n), f.position, str, full) = 1 .. Len(str)
     /\ CopyOK(Allocate(f, n), f.position + n - 2, 2, full)
WriteString(f, str, full) ==
  LET n    == WriteStringSize(str)
      rva  == PositionOf(f, n)
      made == Allocate(f, n)
      body == CopyStringToMDString(made, rva, str, full)
      nul  == IF Copied(made, rva, str, full) # 1 .. Len(str) THEN body
              ELSE Copy(body, rva, rva + n - 2, 2, <<"nul", str>>, full)
  IN IF AllocateFails(f, n) THEN Flush(f, kInvalidMDRVA, 4, <<"length", str>>, full)
     ELSE Flush(nul, rva, 4, <<"length", str>>, full)
=============================================================================
