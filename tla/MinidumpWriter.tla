---------------------------- MODULE MinidumpWriter ----------------------------
(* Writing a minidump of a live process or of a core file: MinidumpWriter and  *)
(* the WriteMinidump entry points                                              *)
(* (client/linux/minidump_writer/minidump_writer.cc), the thread handling of   *)
(* LinuxPtraceDumper and LinuxCoreDumper, over the file of MinidumpFile.       *)
(*                                                                             *)
(* The writer is one process; the threads of the dumped process run until they *)
(* are attached to, may start and exit meanwhile, and the whole process may be *)
(* killed.  The device may fill up.  Memory contents are left out: a stack, a  *)
(* register set or a file is its length and the location it is written to.    *)
EXTENDS MinidumpFile, SequencesExt

CONSTANTS Tids,              \* thread ids the process may have, as numbers
          CrashThread,       \* dumper.crash_thread()
          Modes,             \* the calls made, see TypeOK
          Limits,            \* largest file sizes the kernel may allow
          kLimitBaseThreadCount

ASSUME WriterAssumption == /\ Tids \subseteq Nat
                           /\ CrashThread \in Nat
                           /\ kLimitBaseThreadCount \in Nat

VARIABLES mode,              \* arguments of the call and the inputs found
          target,            \* target[t]: "unborn", "running", "stopped", "gone"
          threads,           \* dumper_->threads()
          threads_suspended,
          f, full,           \* minidump_writer_, and whether the device is full
          pc, i,             \* stage of the call, and its loop index
          list,              \* position of the list the stage fills
          dir, dirent,       \* the directory's position, the entry being filled
          memory_blocks,
          context,           \* context[t]: where the registers of t are
          crashing_thread_context,
          stackLen,          \* stackLen[t]: bytes of stack written for t
          result
targetVars == <<target, threads, threads_suspended>>
dataVars == <<memory_blocks, context, crashing_thread_context, stackLen>>
vars == <<mode, targetVars, f, full, pc, i, list, dir, dirent, dataVars, result>>

\* Sizes of the records of minidump_format.h (32-bit ARM context).
HeaderSize == 32
DirectorySize == 12
ThreadSize == 48
ModuleSize == 108
MemorySize == 16
ExceptionSize == 168
SystemInfoSize == 56
ContextSize == 368
LinkMapSize == 12
DebugSize == 24
kNumWriters == 13
kLimitAverageThreadStackLength == 8192
kLimitMaxExtraThreadStackLen == 2048
kLimitMinidumpFudgeFactor == 65536
kIPMemorySize == 256

NoLocation == Location(0, 0)
\* crashing_thread_context_ has no initializer: its bytes are whatever the stack
\* held, kept apart from every location the writer produces.
Uninitialized == Location(kInvalidMDRVA, 0)
NullEntry == [type |-> "null", location |-> NoLocation]

Streams == <<"threads", "modules", "memory", "exception", "system", "cpuinfo", "status",
             "lsb", "cmdline", "environ", "auxv", "maps", "dso">>
Files == {"cpuinfo", "status", "lsb", "cmdline", "environ", "auxv", "maps"}

\* Files read through /proc/<crash thread>.
ProcFiles == Files \ {"cpuinfo", "lsb"}

Init ==
  /\ mode \in Modes
  /\ target \in [Tids -> {"unborn", "running"}]
  /\ \E t \in Tids : target[t] = "running"
  /\ mode.context \/ mode.postMortem => target[CrashThread] = "running"
  /\ threads = <<>> /\ threads_suspended = FALSE
  /\ \E limit \in Limits : f = NewFile(limit, mode.workaround, mode.word32)
  /\ full = FALSE
  /\ pc = "init" /\ i = 0 /\ list = 0
  /\ dir = kInvalidMDRVA /\ dirent = NullEntry
  /\ memory_blocks = <<>>
  /\ context = [t \in Tids |-> NoLocation] /\ crashing_thread_context = Uninitialized
  /\ stackLen = [t \in Tids |-> 0]
  /\ result = "none"

Alive == {t \in Tids : target[t] \in {"running", "stopped"}}
Goto(stage) == pc' = stage /\ i' = 0
Return(b) == pc' = "destroy" /\ i' = 0 /\ result' = b
Continue == UNCHANGED result
-----------------------------------------------------------------------------
(* Init                                                                        *)

\* LinuxDumper::Init: auxv, threads, mappings; any of them may fail.  The core
\* dumper takes the threads from the core file, the crashed one first.
EnumerateThreads ==
  IF mode.postMortem
  THEN <<CrashThread>> \o SetToSortSeq(Alive \ {CrashThread}, LAMBDA a, b : a < b)
  ELSE SetToSortSeq(Alive, LAMBDA a, b : a < b)
dumperInit ==
  /\ pc = "init"
  /\ \/ Return("false") /\ UNCHANGED threads
     \/ /\ mode.postMortem \/ Alive # {}
        /\ threads' = EnumerateThreads
        /\ Goto("suspend") /\ Continue
  /\ UNCHANGED <<mode, target, threads_suspended, f, full, list, dir, dirent, dataVars>>

\* SuspendThread: attach and wait. It fails when the thread died or is debugged
\* already, and detaches again from sandbox code.
SuspendThread(t) == target[t] = "running" /\ target' = [target EXCEPT ![t] = "stopped"]

\* Mutant: the index is not stepped back over the removed entry.
ThreadsSuspendSkips ==
  /\ pc = "suspend" /\ ~mode.postMortem /\ i < Len(threads)
  /\ LET t == threads[i + 1]
     IN \/ SuspendThread(t) /\ UNCHANGED threads
        \/ threads' = RemoveAt(threads, i + 1) /\ UNCHANGED target
  /\ i' = i + 1
  /\ Continue
  /\ UNCHANGED <<mode, threads_suspended, f, full, pc, list, dir, dirent, dataVars>>

\* LinuxPtraceDumper::ThreadsSuspend, one thread: suspend it or drop it.
ThreadsSuspend ==
  /\ pc = "suspend" /\ ~mode.postMortem /\ i < Len(threads)
  /\ LET t == threads[i + 1]
     IN \/ SuspendThread(t) /\ i' = i + 1 /\ UNCHANGED threads
        \/ threads' = RemoveAt(threads, i + 1) /\ UNCHANGED <<target, i>>
  /\ Continue
  /\ UNCHANGED <<mode, threads_suspended, f, full, pc, list, dir, dirent, dataVars>>

\* The end of the loop and the rest of MinidumpWriter::Init: no thread left is
\* a failure; the principal mapping may be unreferenced; the path may exist.
opened ==
  /\ pc = "suspend" /\ (mode.postMortem \/ i = Len(threads))
  /\ threads_suspended' = ~mode.postMortem
  /\ \/ /\ threads # <<>>
        /\ f' = Open(f)
        /\ Goto("header") /\ Continue
     \/ /\ threads = <<>> \/ mode.skip \/ mode.byPath
        /\ Return("false") /\ UNCHANGED f
  /\ UNCHANGED <<mode, target, threads, full, list, dir, dirent, dataVars>>
-----------------------------------------------------------------------------
(* Dump                                                                        *)

\* The header and the directory.  The header is flushed when its block ends,
\* zero if the directory could not be allocated.
dumpHeader ==
  /\ pc = "header"
  /\ LET header == Allocate(f, HeaderSize)
         n == kNumWriters * DirectorySize
     IN IF AllocateFails(f, HeaderSize)
        THEN /\ f' = Flush(f, kInvalidMDRVA, HeaderSize, <<"header">>, full)
             /\ Return("false") /\ UNCHANGED dir
        ELSE /\ f' = Flush(Allocate(header, n), f.position, HeaderSize, <<"header">>, full)
             /\ dir' = PositionOf(header, n)
             /\ IF AllocateFails(header, n) THEN Return("false")
                ELSE Goto("threadList") /\ Continue
  /\ UNCHANGED <<mode, targetVars, full, list, dirent, dataVars>>

\* AllocateObjectAndArray(count, length) of a list with a count, and the mutant
\* that allocates the array alone.
ArrayOnly(count, length) == count * length + (IF count = 0 THEN 4 ELSE 0)
ListSize(count, length) == 4 + count * length

\* dir.CopyIndex(dir_index++, &dirent)
CopyIndex(g, index, entry) ==
  Copy(g, dir, dir + index * DirectorySize, DirectorySize, <<"dir", index, entry>>, full)

\* A failed allocation of a list or object: its holder is still flushed.
Failed(n, what) == f' = Flush(f, kInvalidMDRVA, n, what, full) /\ Return("false")

\* WriteThreadListStream: the list of all the threads.
threadList ==
  /\ pc = "threadList"
  /\ LET n == ListSize(Len(threads), ThreadSize)
     IN IF AllocateFails(f, n)
        THEN Failed(4, <<"threadCount">>) /\ UNCHANGED <<list, dirent>>
        ELSE /\ f' = Allocate(f, n)
             /\ list' = f.position
             /\ dirent' = [type |-> "threads", location |-> Location(f.position, n)]
             /\ Goto("thread") /\ Continue
  /\ UNCHANGED <<mode, targetVars, full, dir, dataVars>>

\* The stack limit of the threads past kLimitBaseThreadCount.
extra_thread_stack_len ==
  IF mode.sizeLimit >= 0 /\ list + ListSize(Len(threads), ThreadSize)
       + Len(threads) * kLimitAverageThreadStackLength + kLimitMinidumpFudgeFactor
          > mode.sizeLimit
  THEN kLimitMaxExtraThreadStackLen ELSE -1

\* The crashing thread's registers come from the signal handler.
FromContext(t) == t = CrashThread /\ mode.context /\ ~mode.postMortem

StackLength(t) ==
  LET max == IF FromContext(t) \/ i < kLimitBaseThreadCount THEN -1
             ELSE extra_thread_stack_len
  IN IF max >= 0 /\ mode.stack > max THEN max ELSE mode.stack

\* crashing_thread_context_ is set on both branches; the mutant forgets the one
\* without a context.
CrashContextHandlerOnly(t, at) == IF FromContext(t) THEN at ELSE crashing_thread_context
CrashContext(t, at) == IF t = CrashThread THEN at ELSE crashing_thread_context

\* One allocation and the copies into it: the writer and whether it went well.
Put(g, n, what) ==
  [ok |-> ~AllocateFails(g, n),
   f  |-> IF AllocateFails(g, n) THEN g
          ELSE Copy(Allocate(g, n), g.position, g.position, n, what, full),
   at |-> Location(PositionOf(g, n), n)]

\* One thread of the list.  kept: its stack was found in a mapping and refers to
\* the principal mapping when only those are wanted (FillThreadStack); mapped:
\* the crashing instruction is in a mapping.
WriteThread(kept, mapped) ==
  LET t     == threads[i + 1]
      none  == [ok |-> TRUE, f |-> f, at |-> NoLocation]
      stack == IF kept THEN Put(f, StackLength(t), <<"stack", t>>) ELSE none
      ip    == IF FromContext(t) /\ mapped THEN Put(stack.f, kIPMemorySize, <<"ip", t>>)
               ELSE [none EXCEPT !.f = stack.f]
      cpu   == Put(ip.f, ContextSize, <<"cpu", t>>)
      entry == Copy(cpu.f, list, list + 4 + i * ThreadSize, ThreadSize, <<"thread", t>>, full)
      blocks == (IF kept /\ stack.ok THEN <<stack.at>> ELSE <<>>)
                  \o (IF FromContext(t) /\ mapped /\ stack.ok /\ ip.ok THEN <<ip.at>> ELSE <<>>)
      bad == CASE ~stack.ok -> stack.f
               [] stack.ok /\ ~ip.ok -> ip.f
               [] OTHER -> Flush(cpu.f, kInvalidMDRVA, ContextSize, <<"cpu", t>>, full)
  IN /\ IF stack.ok /\ ip.ok /\ cpu.ok
        THEN /\ f' = entry
             /\ i' = i + 1
             /\ context' = [context EXCEPT ![t] = cpu.at]
             /\ crashing_thread_context' = CrashContext(t, cpu.at)
             /\ UNCHANGED <<pc, result>>
        ELSE /\ f' = Flush(bad, list, 4, <<"threadCount">>, full)
             /\ Return("false")
             /\ UNCHANGED <<context, crashing_thread_context>>
     /\ memory_blocks' = memory_blocks \o blocks
     /\ stackLen' = [stackLen EXCEPT ![t] = IF kept THEN StackLength(t) ELSE 0]

\* GetThreadInfoByIndex reads /proc/<tid>/status and the registers: it fails for
\* a thread that is gone.
threadEntry ==
  /\ pc = "thread" /\ i < Len(threads)
  /\ LET t == threads[i + 1]
     IN IF ~FromContext(t) /\ ~mode.postMortem /\ target[t] = "gone"
        THEN /\ f' = Flush(f, list, 4, <<"threadCount">>, full)
             /\ Return("false")
             /\ UNCHANGED dataVars
        ELSE \E kept \in BOOLEAN, mapped \in (IF FromContext(t) THEN BOOLEAN ELSE {FALSE}) :
               WriteThread(kept, mapped)
  /\ UNCHANGED <<mode, targetVars, full, list, dir, dirent>>

\* The count is flushed when WriteThreadListStream returns, and Dump enters the
\* stream in the directory.
threadsDone ==
  /\ pc = "thread" /\ i = Len(threads)
  /\ f' = CopyIndex(Flush(f, list, 4, <<"threadCount">>, full), 0, dirent)
  /\ Goto("moduleList") /\ Continue
  /\ UNCHANGED <<mode, targetVars, full, list, dir, dirent, dataVars>>

\* WriteMappings: the list of modules, the dumper's and the caller's.
moduleList ==
  /\ pc = "moduleList"
  /\ LET n == ListSize(Len(mode.modules), ModuleSize)
     IN IF AllocateFails(f, n)
        THEN Failed(4, <<"moduleCount">>) /\ UNCHANGED <<list, dirent>>
        ELSE /\ f' = Allocate(f, n)
             /\ list' = f.position
             /\ dirent' = [type |-> "modules", location |-> Location(f.position, n)]
             /\ Goto("module") /\ Continue
  /\ UNCHANGED <<mode, targetVars, full, dir, dataVars>>

\* FillRawModule: the identifier, when the ELF file yields one, and the name.
\* MDCVInfoELF_minsize and a 16-byte identifier.
FillRawModule ==
  /\ pc = "module" /\ i < Len(mode.modules)
  /\ \E known \in BOOLEAN :
       LET name == mode.modules[i + 1]
           cv   == IF known THEN Put(f, 20, <<"cv", i>>) ELSE [ok |-> TRUE, f |-> f]
           fails == Flush(IF cv.ok THEN WriteString(cv.f, name, full) ELSE f,
                          list, 4, <<"moduleCount">>, full)
       IN IF cv.ok /\ WriteStringOK(cv.f, name, full)
          THEN /\ f' = Copy(WriteString(cv.f, name, full), list, list + 4 + i * ModuleSize,
                            ModuleSize, <<"module", i>>, full)
               /\ i' = i + 1 /\ UNCHANGED <<pc, result>>
          ELSE f' = fails /\ Return("false")
  /\ UNCHANGED <<mode, targetVars, full, list, dir, dirent, dataVars>>

modulesDone ==
  /\ pc = "module" /\ i = Len(mode.modules)
  /\ f' = CopyIndex(Flush(f, list, 4, <<"moduleCount">>, full), 1, dirent)
  /\ Goto("appMemory") /\ Continue
  /\ UNCHANGED <<mode, targetVars, full, list, dir, dirent, dataVars>>

\* WriteAppMemory: one region per step.
WriteAppMemory ==
  /\ pc = "appMemory" /\ i < Len(mode.appMemory)
  /\ LET put == Put(f, mode.appMemory[i + 1], <<"app", i>>)
     IN /\ f' = put.f
        /\ IF put.ok
           THEN /\ memory_blocks' = Append(memory_blocks, put.at)
                /\ i' = i + 1 /\ UNCHANGED <<pc, result>>
           ELSE Return("false") /\ UNCHANGED memory_blocks
  /\ UNCHANGED <<mode, targetVars, full, list, dir, dirent, context,
                 crashing_thread_context, stackLen>>

\* WriteMemoryListStream: a descriptor for every block written so far.
WriteMemoryListStream ==
  /\ pc = "appMemory" /\ i = Len(mode.appMemory)
  /\ LET n == ListSize(Len(memory_blocks), MemorySize)
         at == f.position
         copied[k \in 0 .. Len(memory_blocks)] ==
           IF k = 0 THEN Allocate(f, n)
           ELSE Copy(copied[k - 1], at, at + 4 + (k - 1) * MemorySize, MemorySize,
                     <<"block", memory_blocks[k]>>, full)
         entry == [type |-> "memory", location |-> Location(at, n)]
     IN IF AllocateFails(f, n)
        THEN Failed(4, <<"blockCount">>) /\ UNCHANGED dirent
        ELSE /\ f' = CopyIndex(Flush(copied[Len(memory_blocks)], at, 4, <<"blockCount">>, full),
                               2, entry)
             /\ dirent' = entry
             /\ Goto("exception") /\ Continue
  /\ UNCHANGED <<mode, targetVars, full, list, dir, dataVars>>

\* WriteExceptionStream names the crashing thread's registers.
WriteExceptionStream ==
  /\ pc = "exception"
  /\ LET put == Put(f, ExceptionSize, <<"exception", crashing_thread_context>>)
         entry == [type |-> "exception", location |-> put.at]
     IN IF ~put.ok
        THEN Failed(ExceptionSize, <<"exception", NoLocation>>) /\ UNCHANGED dirent
        ELSE /\ f' = CopyIndex(put.f, 3, entry)
             /\ dirent' = entry
             /\ Goto("system") /\ Continue
  /\ UNCHANGED <<mode, targetVars, full, list, dir, dataVars>>

\* The string of the kernel's names, as much of them as the buffer holds, unless
\* uname() fails.
WriteOSInformation(g, named) == IF named THEN WriteString(g, <<"one">>, full) ELSE g

\* WriteSystemInfoStream: the results of WriteCPUInformation, which touches only
\* the record, and of WriteOSInformation are not looked at.
WriteSystemInfoStream ==
  /\ pc = "system"
  /\ \E named \in BOOLEAN :
       LET at == f.position
           os == WriteOSInformation(Allocate(f, SystemInfoSize), named)
           entry == [type |-> "system", location |-> Location(at, SystemInfoSize)]
       IN IF AllocateFails(f, SystemInfoSize)
          THEN Failed(SystemInfoSize, <<"system">>) /\ UNCHANGED dirent
          ELSE /\ f' = CopyIndex(Flush(os, at, SystemInfoSize, <<"system">>, full), 4, entry)
               /\ dirent' = entry
               /\ pc' = "file" /\ i' = 5 /\ Continue
  /\ UNCHANGED <<mode, targetVars, full, list, dir, dataVars>>

\* WriteFile and WriteProcFile: read all of the file, then one range for it.  A
\* file that cannot be read, is empty or finds no room leaves a null entry.
Readable(s) == s \in mode.readable /\ (s \in ProcFiles => CrashThread \in Alive)
WriteFile ==
  /\ pc = "file" /\ i < kNumWriters - 1
  /\ LET put == Put(f, mode.fileSize, <<"file", Streams[i + 1]>>)
         entry == IF Readable(Streams[i + 1]) /\ put.ok
                  THEN [type |-> Streams[i + 1], location |-> put.at] ELSE NullEntry
     IN /\ f' = CopyIndex(IF Readable(Streams[i + 1]) THEN put.f ELSE f, i, entry)
        /\ dirent' = entry
  /\ i' = i + 1
  /\ UNCHANGED <<mode, targetVars, full, pc, list, dir, dataVars, result>>

\* WriteDSODebugStream: the link map array, a name per library, the debug record
\* with the dynamic section; any failure leaves a null entry.
DebugStream ==
  LET maps  == Put(f, Len(mode.dsos) * LinkMapSize, <<"linkmap">>)
      start == IF mode.dsos = <<>> THEN [ok |-> TRUE, f |-> f]
               ELSE [ok |-> maps.ok, f |-> IF maps.ok THEN Allocate(f, Len(mode.dsos) * LinkMapSize)
                                           ELSE f]
      names[k \in 0 .. Len(mode.dsos)] ==
        IF k = 0 THEN start
        ELSE IF ~names[k - 1].ok THEN names[k - 1]
        ELSE LET g == names[k - 1].f
                 s == WriteString(g, mode.dsos[k], full)
             IN IF WriteStringOK(g, mode.dsos[k], full)
                THEN [ok |-> TRUE,
                      f  |-> Copy(s, f.position, f.position + (k - 1) * LinkMapSize,
                                  LinkMapSize, <<"dso", k>>, full)]
                ELSE [ok |-> FALSE, f |-> s]
      last  == names[Len(mode.dsos)]
      n     == DebugSize + mode.dynamic
      debug == Put(last.f, n, <<"debug">>)
  IN IF ~last.ok THEN [f |-> last.f, entry |-> NullEntry]
     ELSE IF ~debug.ok
     THEN [f |-> Flush(last.f, kInvalidMDRVA, DebugSize, <<"debug">>, full), entry |-> NullEntry]
     ELSE [f |-> debug.f, entry |-> [type |-> "dso", location |-> debug.at]]

\* LinuxPtraceDumper::ThreadsResume detaches from every listed thread.
ResumeThread(t) == IF target[t] = "stopped" THEN "running" ELSE target[t]
ThreadsResume ==
  /\ target' = IF ~threads_suspended THEN target
               ELSE [t \in Tids |-> IF t \in Range(threads) THEN ResumeThread(t) ELSE target[t]]
  /\ threads_suspended' = FALSE

\* The last stream, after which Dump resumes the threads and succeeds.
dumpDone ==
  /\ pc = "file" /\ i = kNumWriters - 1
  /\ \E dso \in IF "dso" \in mode.readable THEN {DebugStream}
                ELSE {[f |-> f, entry |-> NullEntry]} :
       /\ f' = CopyIndex(dso.f, kNumWriters - 1, dso.entry)
       /\ dirent' = dso.entry
  /\ ThreadsResume
  /\ Return("true")
  /\ UNCHANGED <<mode, threads, full, list, dir, dataVars>>

\* ~MinidumpWriter: close a file it opened, resume the threads; then
\* ~MinidumpFileWriter closes once more.
destroy ==
  /\ pc = "destroy"
  /\ \E truncateFails \in BOOLEAN, again \in BOOLEAN :
       f' = IF mode.byPath THEN Close(Close(f, truncateFails), again) ELSE f
  /\ ThreadsResume
  /\ pc' = "done"
  /\ UNCHANGED <<mode, threads, full, i, list, dir, dirent, dataVars, result>>
-----------------------------------------------------------------------------
(* The dumped process and the device.  The thread that crashed waits for the   *)
(* dump in its signal handler; the others come and go until they are stopped.  *)

threadStarts(t) == /\ pc \in {"init", "suspend"} /\ ~mode.postMortem
                   /\ target[t] = "unborn" /\ "running" \in Range(target)
                   /\ target' = [target EXCEPT ![t] = "running"]
threadExits(t) == /\ pc \in {"init", "suspend"} /\ ~mode.postMortem
                  /\ target[t] = "running" /\ ~FromContext(t)
                  /\ target' = [target EXCEPT ![t] = "gone"]
processKilled == /\ ~mode.postMortem /\ Alive # {} /\ pc # "done"
                 /\ target' = [t \in Tids |-> IF t \in Alive THEN "gone" ELSE target[t]]
diskFills == pc # "done" /\ ~full /\ full' = TRUE

environment ==
  \/ /\ \/ \E t \in Tids : threadStarts(t) \/ threadExits(t)
        \/ processKilled
     /\ UNCHANGED full
     /\ UNCHANGED <<mode, threads, threads_suspended, f, pc, i, list, dir, dirent, dataVars,
                    result>>
  \/ /\ diskFills
     /\ UNCHANGED <<mode, targetVars, f, pc, i, list, dir, dirent, dataVars, result>>

writer == \/ dumperInit \/ ThreadsSuspend \/ opened \/ dumpHeader
          \/ threadList \/ threadEntry \/ threadsDone
          \/ moduleList \/ FillRawModule \/ modulesDone
          \/ WriteAppMemory \/ WriteMemoryListStream
          \/ WriteExceptionStream \/ WriteSystemInfoStream \/ WriteFile
          \/ dumpDone \/ destroy

Next == writer \/ environment
Spec == Init /\ [][Next]_vars
-----------------------------------------------------------------------------
Stages == {"init", "suspend", "header", "threadList", "thread", "moduleList", "module",
           "appMemory", "exception", "system", "file", "destroy", "done"}

(* The variables hold values of their types.                                   *)
TypeOK ==
  /\ mode \in Modes
  /\ target \in [Tids -> {"unborn", "running", "stopped", "gone"}]
  /\ Range(threads) \subseteq Tids \cup {CrashThread} /\ threads_suspended \in BOOLEAN
  /\ f.position \in Nat /\ f.size \in Nat /\ f.file \in {"none", "open", "closed"}
  /\ full \in BOOLEAN /\ pc \in Stages /\ i \in Nat
  /\ result \in {"none", "true", "false"}

Dumping == pc \notin {"init", "suspend", "destroy", "done"}
Writes(what) == {d \in f.disk : d.what[1] = what}
Inside(d, r) == r.rva <= d.rva /\ d.rva + d.size <= r.rva + r.size
Apart(a, b) == a.rva + a.size <= b.rva \/ b.rva + b.size <= a.rva

(* While the dump of a live process is written, no thread of its list runs:    *)
(* ThreadsSuspend stopped each of them or dropped it from the list, whichever  *)
(* threads started or exited meanwhile.                                        *)
ListedThreadsStopped ==
  Dumping /\ ~mode.postMortem => \A t \in Range(threads) : target[t] # "running"

(* Two ranges of the file never overlap, and all of them are below the write   *)
(* position: what a stream points to is not overwritten by a later one         *)
(* (MinidumpFileWriter::Allocate).                                             *)
RangesDisjoint ==
  /\ f.position <= f.size \/ f.file = "closed"
  /\ \A k \in DOMAIN f.made :
       /\ f.made[k].rva + f.made[k].size <= f.position
       /\ \A j \in 1 .. k - 1 : f.made[j].rva + f.made[j].size <= f.made[k].rva

(* A copy stays inside the range that was allocated for it.  Two cases are     *)
(* left to the deviations: strings with characters outside the basic plane,   *)
(* and the flush of a holder whose allocation failed in a 32-bit process.      *)
CopiesStayInside ==
  \A d \in f.disk :
    \/ d.home = kInvalidMDRVA /\ f.word32
    \/ d.what[1] \in {"char", "nul", "length"} /\ "four" \in Range(d.what[2])
    \/ \E r \in Range(f.made) : r.rva = d.home /\ Inside(d, r)

(* An entry of the directory on disk is null or names a range allocated for    *)
(* its own stream, in the order of the streams; when Dump succeeds on a device *)
(* that never filled up all of kNumWriters entries are there.                  *)
DirectoryFaithful ==
  /\ \A d \in Writes("dir") :
       LET entry == d.what[3]
       IN /\ d.rva = dir + d.what[2] * DirectorySize
          /\ \/ entry = NullEntry
             \/ /\ entry.type = Streams[d.what[2] + 1]
                /\ entry.location \in Range(f.made)
                /\ \A other \in Writes("dir") :
                     other # d => Apart(entry.location, other.what[3].location)
  /\ result = "true" /\ ~full =>
       {d.what[2] : d \in Writes("dir")} = 0 .. kNumWriters - 1

(* The exception stream points at the registers written for the crashing       *)
(* thread whenever that thread is in the thread list.                          *)
ExceptionNamesCrashThread ==
  \A d \in Writes("exception") :
    CrashThread \in Range(threads) => d.what[2] = context[CrashThread]

(* Every block of the memory list is a range that holds the bytes copied for   *)
(* it, unless the device filled up.                                            *)
BlocksBacked ==
  \A d \in Writes("block") :
    /\ d.what[2] \in Range(f.made)
    /\ ~full => \E s \in f.disk : s.home = d.what[2].rva /\ s.size = d.what[2].size

(* From the thread list on the header is in the file and nothing else is       *)
(* written over it ("If a crash occurs somewhere below, at least the header    *)
(* will be intact").                                                           *)
HeaderIntact ==
  Dumping /\ pc # "header" =>
    /\ full \/ Writes("header") # {}
    /\ \A d \in Writes("header"), other \in f.disk : other = d \/ Apart(d, other)

(* When the call is over no thread is left stopped: every path out of Init and *)
(* Dump, the failed ones too, resumes what the writer stopped.                 *)
NothingLeftStopped == pc = "done" => "stopped" \notin Range(target)

(* The file: ranges are apart, every copy lies in the range made for it, the   *)
(* header survives and the blocks of the memory list hold their bytes.         *)
FileSound == RangesDisjoint /\ CopiesStayInside /\ HeaderIntact /\ BlocksBacked

(* The streams: the directory names them, and the exception stream the thread  *)
(* that crashed.                                                               *)
StreamsFaithful == DirectoryFaithful /\ ExceptionNamesCrashThread

(* The threads of the list are stopped while they are dumped, and none is left *)
(* stopped.                                                                    *)
ThreadsStoppedThenResumed == ListedThreadsStopped /\ NothingLeftStopped
-----------------------------------------------------------------------------
(* Statements of the repository's documentation that the code does not keep    *)

(* "Returns true iff successful" (minidump_writer.h): a successful call has    *)
(* put every record into the file.                                             *)
SuccessMeansWritten ==
  result = "true" => Cardinality(Writes("dir")) = kNumWriters

(* "Ensure that the data will fit in the allocated space" (Copy): a copy lies  *)
(* in the range allocated for it.                                              *)
DataFitsAllocated ==
  \A d \in f.disk : \E r \in Range(f.made) : r.rva = d.home /\ Inside(d, r)

(* "the crashing thread will never be limited" (kLimitBaseThreadCount).        *)
CrashingStackWhole == stackLen[CrashThread] \in {0, mode.stack}
=============================================================================
