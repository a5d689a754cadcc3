------------------------- MODULE LinuxCrashHandler -------------------------
(***************************************************************************)
(* libbreakpad: client/linux/handler/exception_handler.cc, as installed by *)
(* breakpad.cpp.                                                           *)
(*                                                                         *)
(* The ExceptionHandlers of a process, their signal dispositions and the   *)
(* global handler stack under its mutex; threads that crash while others   *)
(* construct, destroy or use handlers; the cloned child that writes the    *)
(* dump and the pipe that holds it back until it may ptrace its parent.    *)
(* What the child writes is MinidumpWriter; what a crash server answers is *)
(* CrashGeneration.                                                        *)
(***************************************************************************)
EXTENDS Integers, Sequences, FiniteSets

CONSTANTS
  Threads,       \* threads of the process
  Handlers,      \* ExceptionHandler objects, each constructed at most once
  Installing,    \* those constructed with install_handler = true
  Remotes,       \* the choices of handlers with a CrashGenerationClient
  Signals,       \* some of kExceptionSignals
  SIGABRT,
  AppStack,      \* the alternate stack each thread already has, see Small
  MaxDumps,      \* dumps (pipes and children) that exist at the same time
  MaxIncidents,  \* bound: calls of WriteMinidump() and SimulateSignalDelivery(),
                 \* and times other code drops SA_SIGINFO from a handler
  Reentrant,     \* may a thread be signalled inside a constructor, destructor?
  None

ASSUME HandlerAssumption ==
  /\ IsFiniteSet(Threads) /\ IsFiniteSet(Handlers)
  /\ Installing \subseteq Handlers /\ Remotes \subseteq SUBSET Handlers
  /\ AppStack \in [Threads -> {0, -1, -2}]
  /\ MaxDumps \in Nat /\ MaxIncidents \in Nat
  /\ Reentrant \in BOOLEAN
  /\ None \notin Threads \cup Handlers \cup Signals \cup {SIGABRT}

VARIABLES
  \* the process
  alive,          \* FALSE once a fatal disposition or SIGKILL has ended it
  endedBy,        \* what ended it, see Ends
  disposition,    \* of each signal
  ptracer,        \* the child PR_SET_PTRACER names
  altStack,       \* of each thread: AppStack, or a buffer > 0 from calloc
  \* globals of exception_handler.cc
  stack,          \* g_handler_stack_; NULL is << >>, it never stays empty
  mutex,          \* holder of g_handler_stack_mutex_
  installed,      \* handlers_installed
  oldHandlers,    \* old_handlers
  stackInstalled, \* stack_installed
  oldStack,       \* old_stack
  newStack,       \* new_stack: the last buffer
  freed,          \* buffers that were free'd
  \* the handlers and the threads
  remote,         \* the handlers with a CrashGenerationClient
  life,           \* of each handler: "none" | "live" | "gone"
  path,           \* minidump_descriptor_'s path: how often UpdatePath() ran
  files,          \* dumps that exist on disk: <<handler, path>>
  fdes,           \* of each handler: the pipe it stores, 0 for -1
  thr,            \* the program position of each thread, see Idle
  \* the dumps: pipe d and child d belong together
  readers,        \* processes that hold the read end of pipe d
  writers,        \* processes that hold its write end
  sent,           \* bytes in the pipe
  child,          \* of each dump: the child and its copy of memory
  context,        \* g_crash_context_: the thread it describes
  \* bounds and history
  incidents,
  overlapped,     \* did the dumps of two threads ever overlap?
  dumped          \* <<thread, signal>>: crashes some handler took as handled

procVars == <<alive, endedBy>>
stackVars == <<altStack, stackInstalled, oldStack, newStack, freed>>
regVars == <<remote, stack, installed, oldHandlers, life, stackVars>>
pipeVars == <<readers, writers, sent, child, fdes, ptracer>>
fileVars == <<path, files>>
boundVars == <<incidents, overlapped>>
\* All but the threads and the dumps; all but the threads.
globalVars == <<procVars, disposition, mutex, regVars, fileVars, context,
                boundVars, dumped>>
quietVars == <<globalVars, pipeVars>>
vars == <<quietVars, thr>>

Dumps == 1..MaxDumps
Parent == 0
Procs == {Parent} \cup Dumps

\* An application's stack that is too small; -2 is one that is large enough.
Small == -1

\* "old": the handler found at installation; "exit": _exit(1); "kill": SIGKILL;
\* "pipe": SIGPIPE; "null": a fault inside SignalHandler, its signals blocked.
Ends == {"", "old", "default", "exit", "kill", "pipe", "null"}

\* "plain" is SignalHandler without SA_SIGINFO.
Dispositions == {"old", "default", "breakpad", "plain"}

\* run: the program; ctor, dtor: holding the mutex; enter, locked, loop, after,
\* unlocked, again: SignalHandler, up to the return that repeats the signal;
\* pipe, clone, close, write, wait: GenerateDump(); request: RequestDump().
Pcs == {"run", "ctor", "dtor", "enter", "locked", "loop", "after", "unlocked",
        "again", "pipe", "clone", "close", "write", "wait", "request"}

\* sig, user: the signal and whether si_code <= 0; i: index into the stack;
\* h, d: handler and dump; ok: handled; via: who called GenerateDump().
Idle == [pc |-> "run", sig |-> None, user |-> FALSE, i |-> 0, h |-> None,
         d |-> 0, ok |-> FALSE, via |-> "none"]

NoChild == [pc |-> "none", h |-> None, fd |-> 0, tid |-> None, path |-> 0]

Init ==
  /\ alive = TRUE /\ endedBy = ""
  /\ disposition = [s \in Signals |-> "old"] /\ ptracer = 0
  /\ altStack = AppStack /\ stackInstalled = FALSE
  /\ oldStack = 0 /\ newStack = 0 /\ freed = {}
  /\ stack = << >> /\ mutex = None /\ installed = FALSE
  /\ oldHandlers = [s \in Signals |-> "default"]
  /\ remote \in Remotes
  /\ life = [h \in Handlers |-> "none"] /\ path = [h \in Handlers |-> 0]
  /\ files = {} /\ fdes = [h \in Handlers |-> 0]
  /\ thr = [t \in Threads |-> Idle] /\ context = None
  /\ readers = [d \in Dumps |-> {}] /\ writers = [d \in Dumps |-> {}]
  /\ sent = [d \in Dumps |-> 0] /\ child = [d \in Dumps |-> NoChild]
  /\ incidents = 0 /\ overlapped = FALSE
  /\ dumped = {}

Goto(t, p) == thr' = [thr EXCEPT ![t].pc = p]

\* The process ends: its memory is gone and its descriptors are closed.
Die(why) ==
  /\ alive' = FALSE /\ endedBy' = why
  /\ readers' = [d \in Dumps |-> readers[d] \ {Parent}]
  /\ writers' = [d \in Dumps |-> writers[d] \ {Parent}]
  /\ thr' = [t \in Threads |-> Idle] /\ mutex' = None /\ stack' = << >>
  /\ disposition' = [s \in Signals |-> "default"]
  /\ installed' = FALSE /\ oldHandlers' = [s \in Signals |-> "default"]
  /\ altStack' = [t \in Threads |-> 0] /\ stackInstalled' = FALSE
  /\ oldStack' = 0 /\ newStack' = 0 /\ freed' = {}
  /\ life' = [h \in Handlers |-> "none"] /\ path' = [h \in Handlers |-> 0]
  /\ fdes' = [h \in Handlers |-> 0] /\ ptracer' = 0 /\ context' = None
  /\ incidents' = 0
  /\ UNCHANGED <<remote, sent, child, files, overlapped, dumped>>

Dumping == {"pipe", "clone", "close", "write", "wait"}

\* Thread t uses what the dumps of other threads use without the mutex.
Meets(t) ==
  overlapped' = (overlapped \/ \E u \in Threads \ {t} : thr[u].pc \in Dumping)

-----------------------------------------------------------------------------
(* Construction and destruction. sigaction() and sigaltstack() succeed: they *)
(* are called with valid arguments.                                          *)

InstallAlternateStackLocked(t) ==
  IF stackInstalled \/ altStack[t] \notin {0, Small}
  THEN /\ oldStack' = IF stackInstalled THEN oldStack ELSE altStack[t]
       /\ UNCHANGED <<altStack, stackInstalled, newStack>>
  ELSE /\ oldStack' = altStack[t]
       /\ newStack' = newStack + 1
       /\ altStack' = [altStack EXCEPT ![t] = newStack + 1]
       /\ stackInstalled' = TRUE

\* Mutant: the buffer is freed before the thread leaves it.
RestoreAlternateStackFreed(t) ==
  /\ freed' = IF stackInstalled THEN freed \cup {newStack} ELSE freed
  /\ stackInstalled' = FALSE
  /\ UNCHANGED altStack

RestoreAlternateStackLocked(t) ==
  IF ~stackInstalled
  THEN UNCHANGED <<altStack, stackInstalled, freed>>
  ELSE /\ altStack' = IF altStack[t] = newStack
                      THEN [altStack EXCEPT ![t] = oldStack] ELSE altStack
       /\ freed' = freed \cup {newStack}
       /\ stackInstalled' = FALSE

InstallHandlersLocked ==
  IF installed
  THEN UNCHANGED <<disposition, oldHandlers, installed>>
  ELSE /\ oldHandlers' = disposition
       /\ disposition' = [s \in Signals |-> "breakpad"]
       /\ installed' = TRUE

RestoreHandlersLocked ==
  IF ~installed
  THEN UNCHANGED <<disposition, installed>>
  ELSE /\ disposition' = oldHandlers
       /\ installed' = FALSE

InstallDefaultHandler(s) == disposition' = [disposition EXCEPT ![s] = "default"]

ToFile(h) == h \notin remote

UpdatePath(h) == path' = [path EXCEPT ![h] = @ + 1]

\* ExceptionHandler(): UpdatePath(), then the mutex ...
construct(t, h) ==
  /\ thr[t].pc = "run" /\ life[h] = "none" /\ mutex = None
  /\ mutex' = t
  /\ IF ToFile(h) THEN UpdatePath(h) ELSE UNCHANGED path
  /\ thr' = [thr EXCEPT ![t].pc = "ctor", ![t].h = h]
  /\ UNCHANGED <<procVars, disposition, regVars, pipeVars, files, context,
                 boundVars, dumped>>

\* ... under which it installs what is missing and pushes itself.
constructed(t) ==
  LET h == thr[t].h IN
  /\ thr[t].pc = "ctor"
  /\ IF h \in Installing
     THEN InstallAlternateStackLocked(t) /\ InstallHandlersLocked
     ELSE UNCHANGED <<altStack, stackInstalled, oldStack, newStack,
                      disposition, oldHandlers, installed>>
  /\ stack' = Append(stack, h)
  /\ life' = [life EXCEPT ![h] = "live"]
  /\ mutex' = None /\ thr' = [thr EXCEPT ![t] = Idle]
  /\ context' = None /\ Meets(t)
  /\ UNCHANGED <<procVars, remote, freed, pipeVars, fileVars, incidents, dumped>>

\* Its client destroys no handler that another thread is calling.
Called(h) == \E t \in Threads : thr[t].h = h /\ thr[t].via \in {"write", "simulate"}

\* Mutant: the destructor does not wait for the mutex.
destroyUnlocked(t, h) ==
  /\ thr[t].pc = "run" /\ life[h] = "live" /\ ~Called(h)
  /\ thr' = [thr EXCEPT ![t].pc = "dtor", ![t].h = h]
  /\ UNCHANGED quietVars

destroy(t, h) ==
  /\ thr[t].pc = "run" /\ life[h] = "live" /\ ~Called(h) /\ mutex = None
  /\ mutex' = t
  /\ thr' = [thr EXCEPT ![t].pc = "dtor", ![t].h = h]
  /\ UNCHANGED <<procVars, disposition, regVars, pipeVars, fileVars, context,
                 boundVars, dumped>>

\* std::find() and erase(): a live handler is in the stack once.
Erase(s, h) ==
  LET k == CHOOSE k \in 1..Len(s) : s[k] = h
  IN  [j \in 1..(Len(s) - 1) |-> IF j < k THEN s[j] ELSE s[j + 1]]

destroyed(t) ==
  LET h == thr[t].h
      left == Erase(stack, h) IN
  /\ thr[t].pc = "dtor"
  /\ stack' = left
  /\ IF left = << >>
     THEN RestoreAlternateStackLocked(t) /\ RestoreHandlersLocked
     ELSE UNCHANGED <<altStack, stackInstalled, freed, disposition, installed>>
  /\ life' = [life EXCEPT ![h] = "gone"]
  /\ mutex' = None /\ thr' = [thr EXCEPT ![t] = Idle]
  /\ UNCHANGED <<procVars, remote, oldStack, newStack, oldHandlers, pipeVars, fileVars,
                 context, boundVars, dumped>>

-----------------------------------------------------------------------------
(* SignalHandler()                                                         *)

\* What the kernel does with signal s of thread t. The handler it finds at
\* installation ends the process, as the platform's does.
Deliver(t, s, u) ==
  IF disposition[s] \in {"old", "default"}
  THEN Die(disposition[s])
  ELSE /\ thr' = [thr EXCEPT ![t] = [Idle EXCEPT !.pc = "enter", !.sig = s,
                                       !.user = u, !.via = "signal"]]
       /\ UNCHANGED quietVars

\* A thread faults, or is sent a signal. One that is inside GenerateDump() for
\* its own call is not signalled in this model.
crash(t) ==
  /\ thr[t].pc \in {"run"} \cup (IF Reentrant THEN {"ctor", "dtor"} ELSE {})
  /\ \E s \in Signals, u \in BOOLEAN : Deliver(t, s, u)

\* Other code saves and restores a handler with signal().
loseSiginfo ==
  /\ incidents < MaxIncidents /\ incidents' = incidents + 1
  /\ \E s \in Signals :
       /\ disposition[s] = "breakpad"
       /\ disposition' = [disposition EXCEPT ![s] = "plain"]
  /\ UNCHANGED <<procVars, mutex, regVars, pipeVars, fileVars, thr, context,
                 overlapped, dumped>>

\* g_first_chance_handler_ recovers, or the mutex is taken.
firstChance(t) ==
  /\ thr[t].pc = "enter"
  /\ thr' = [thr EXCEPT ![t] = Idle]
  /\ UNCHANGED quietVars

lockStack(t) ==
  /\ thr[t].pc = "enter" /\ mutex = None
  /\ mutex' = t /\ Goto(t, "locked")
  /\ UNCHANGED <<procVars, disposition, regVars, pipeVars, fileVars, context,
                 boundVars, dumped>>

\* Without SA_SIGINFO the arguments are bogus: reset the flags and return. A
\* fault then repeats; a signal that was sent does not.
resetSiginfo(t) ==
  LET s == thr[t].sig IN
  /\ thr[t].pc = "locked" /\ disposition[s] = "plain"
  /\ disposition' = [disposition EXCEPT ![s] = "breakpad"]
  /\ mutex' = None
  /\ thr' = [thr EXCEPT ![t] = IF thr[t].user THEN Idle
                               ELSE [@ EXCEPT !.pc = "again"]]
  /\ UNCHANGED <<procVars, regVars, pipeVars, fileVars, context, boundVars,
                 dumped>>

\* g_handler_stack_->size(): NULL once the last handler is gone.
enterLoop(t) ==
  /\ thr[t].pc = "locked" /\ disposition[thr[t].sig] # "plain"
  /\ IF stack = << >>
     THEN Die("null")
     ELSE /\ thr' = [thr EXCEPT ![t].pc = "loop", ![t].i = Len(stack)]
          /\ UNCHANGED quietVars

-----------------------------------------------------------------------------
(* HandleSignal() and GenerateDump()                                       *)


\* Thread t starts GenerateDump() of handler h for a caller.
BeginDump(t, h, caller) ==
  /\ thr' = [thr EXCEPT ![t].pc = IF h \in remote THEN "request" ELSE "pipe",
                        ![t].h = h, ![t].via = caller]
  /\ Meets(t)

\* GenerateDump() returned b: to SignalHandler's loop, or to the program.
Returned(t, b) ==
  IF thr[t].via # "signal" THEN Idle
  ELSE IF b THEN [thr[t] EXCEPT !.pc = "after", !.ok = TRUE, !.d = 0]
       ELSE [thr[t] EXCEPT !.pc = "loop", !.i = @ - 1, !.d = 0]

\* filter_ refuses; crash_handler_ takes the crash; or a dump begins with
\* g_crash_context_ describing this thread.
HandleSignal(t, h, caller) ==
  /\ \/ /\ thr' = [thr EXCEPT ![t] = Returned(t, FALSE)]
        /\ UNCHANGED <<context, overlapped>>
     \/ /\ thr' = [thr EXCEPT ![t] = Returned(t, TRUE)]
        /\ context' = t /\ Meets(t)
     \/ context' = t /\ BeginDump(t, h, caller)
  /\ UNCHANGED <<procVars, disposition, mutex, regVars, pipeVars, fileVars,
                 dumped>>

tryHandler(t) ==
  /\ thr[t].pc = "loop" /\ thr[t].i > 0
  /\ HandleSignal(t, stack[thr[t].i], "signal")
  /\ UNCHANGED incidents

\* SimulateSignalDelivery() calls HandleSignal() without the mutex.
SimulateSignalDelivery(t, h) ==
  /\ thr[t].pc = "run" /\ life[h] = "live" /\ incidents < MaxIncidents
  /\ incidents' = incidents + 1
  /\ HandleSignal(t, h, "simulate")

\* WriteMinidump() uses a context of its own, and a new path.
WriteMinidump(t, h) ==
  /\ thr[t].pc = "run" /\ life[h] = "live" /\ incidents < MaxIncidents
  /\ incidents' = incidents + 1
  /\ IF ToFile(h) THEN UpdatePath(h) ELSE UNCHANGED path
  /\ BeginDump(t, h, "write")
  /\ UNCHANGED <<procVars, disposition, mutex, regVars, pipeVars, files,
                 context, dumped>>

\* getcontext() fails: the call returns with nothing but the path changed.
getcontextFails(t, h) ==
  /\ thr[t].pc = "run" /\ life[h] = "live" /\ incidents < MaxIncidents
  /\ incidents' = incidents + 1
  /\ IF ToFile(h) THEN UpdatePath(h) ELSE UNCHANGED path
  /\ thr' = [thr EXCEPT ![t] = Idle]
  /\ UNCHANGED <<procVars, disposition, mutex, regVars, pipeVars, files,
                 context, overlapped, dumped>>

RequestDump(t) ==
  /\ thr[t].pc = "request"
  /\ \E b \in BOOLEAN : thr' = [thr EXCEPT ![t] = Returned(t, b)]
  /\ UNCHANGED quietVars

allocFails(t) ==
  /\ thr[t].pc = "pipe"
  /\ thr' = [thr EXCEPT ![t] = Returned(t, FALSE)]
  /\ UNCHANGED quietVars

\* A dump whose pipe and child are gone from an earlier one.
FreeDump(d) ==
  /\ readers[d] = {} /\ writers[d] = {} /\ child[d] = NoChild
  /\ \A t \in Threads : thr[t].d # d

\* sys_pipe(), which may fail: the handler then stores -1. MaxDumps bounds the
\* dumps at a time; the lowest free number is taken.
makePipe(t) ==
  /\ thr[t].pc = "pipe"
  /\ \E d \in Dumps :
       /\ FreeDump(d) /\ \A e \in 1..(d - 1) : ~FreeDump(e)
       /\ \/ /\ readers' = [readers EXCEPT ![d] = {Parent}]
             /\ writers' = [writers EXCEPT ![d] = {Parent}]
             /\ fdes' = [fdes EXCEPT ![thr[t].h] = d]
          \/ /\ fdes' = [fdes EXCEPT ![thr[t].h] = 0]
             /\ UNCHANGED <<readers, writers>>
       /\ sent' = [sent EXCEPT ![d] = 0]
       /\ thr' = [thr EXCEPT ![t].pc = "clone", ![t].d = d]
  /\ UNCHANGED <<globalVars, child, ptracer>>

\* sys_close() by process p of one end of the pipe with number fd.
Close(ends, fd, p) == [e \in Dumps |-> IF e = fd THEN ends[e] \ {p} ELSE ends[e]]
Inherit(ends, d) == [e \in Dumps |-> IF Parent \in ends[e] THEN ends[e] \cup {d}
                                     ELSE ends[e]]

\* sys_clone() without CLONE_VM or CLONE_FILES: memory and descriptors are
\* copied. When it fails both ends are closed and no callback runs.
cloneChild(t) ==
  LET d == thr[t].d
      h == thr[t].h IN
  /\ thr[t].pc = "clone"
  /\ \/ /\ child' = [child EXCEPT ![d] =
              [pc |-> "start", h |-> h, fd |-> fdes[h], path |-> path[h],
               tid |-> IF thr[t].via = "write" THEN t ELSE context]]
        /\ readers' = Inherit(readers, d) /\ writers' = Inherit(writers, d)
        /\ Goto(t, "close")
     \/ /\ readers' = Close(readers, fdes[h], Parent)
        /\ writers' = Close(writers, fdes[h], Parent)
        /\ thr' = [thr EXCEPT ![t] = Returned(t, FALSE)]
        /\ UNCHANGED child
  /\ UNCHANGED <<globalVars, sent, fdes, ptracer>>

\* Mutant: the child is told to go on before it may trace.
allowTraceLate(t) ==
  /\ thr[t].pc = "close"
  /\ readers' = Close(readers, fdes[thr[t].h], Parent)
  /\ Goto(t, "write")
  /\ UNCHANGED <<globalVars, writers, sent, child, fdes, ptracer>>

\* Closes the read end, then PR_SET_PTRACER.
allowTrace(t) ==
  /\ thr[t].pc = "close"
  /\ readers' = Close(readers, fdes[thr[t].h], Parent)
  /\ ptracer' = thr[t].d
  /\ Goto(t, "write")
  /\ UNCHANGED <<globalVars, writers, sent, child, fdes>>

\* A failing write is logged; without readers it may also be a SIGPIPE.
SendContinueSignalToChild(t) ==
  LET p == fdes[thr[t].h]
      open == p # 0 /\ Parent \in writers[p] IN
  /\ thr[t].pc = "write"
  /\ \/ /\ IF open /\ readers[p] # {} THEN sent' = [sent EXCEPT ![p] = @ + 1]
           ELSE UNCHANGED sent
        /\ Goto(t, "wait")
        /\ UNCHANGED <<globalVars, readers, writers, child, fdes, ptracer>>
     \/ open /\ readers[p] = {} /\ Die("pipe")

Exited == {"ok", "failed", "killed"}

\* waitpid() reaps the child, or fails once it is gone; then the write end is
\* closed. What callback_ returns takes the place of the child's success.
waitChild(t) ==
  LET d == thr[t].d
      h == thr[t].h IN
  /\ thr[t].pc = "wait" /\ child[d].pc \in Exited
  /\ child' = [child EXCEPT ![d] = NoChild]
  /\ writers' = Close(writers, fdes[h], Parent)
  /\ \E b \in BOOLEAN :
       thr' = [thr EXCEPT ![t] = Returned(t, b)]
  /\ UNCHANGED <<globalVars, readers, sent, fdes, ptracer>>

\* A handled signal goes to the default handler, another one to the handlers
\* that were there before; then the mutex is released.
afterLoop(t) ==
  /\ thr[t].pc = "after" \/ (thr[t].pc = "loop" /\ thr[t].i = 0)
  /\ IF thr[t].ok
     THEN /\ InstallDefaultHandler(thr[t].sig) /\ UNCHANGED installed
          /\ dumped' = dumped \cup {<<t, thr[t].sig>>}
     ELSE RestoreHandlersLocked /\ UNCHANGED dumped
  /\ mutex' = None
  /\ Goto(t, "unlocked")
  /\ UNCHANGED <<procVars, remote, stack, oldHandlers, life, stackVars,
                 pipeVars, fileVars, context, boundVars>>

\* A signal that was sent, and SIGABRT, is sent again with tgkill(); if that
\* fails the process exits. A fault repeats by itself on return.
rethrow(t) ==
  /\ thr[t].pc = "unlocked"
  /\ \/ /\ Goto(t, "again")
        /\ UNCHANGED quietVars
     \/ (thr[t].user \/ thr[t].sig = SIGABRT) /\ Die("exit")

repeat(t) ==
  /\ thr[t].pc = "again"
  /\ Deliver(t, thr[t].sig, thr[t].user \/ thr[t].sig = SIGABRT)

-----------------------------------------------------------------------------
(* The child: ThreadEntry()                                                *)

\* Mutant: the child keeps its copy of the write end.
childStartsOpen(d) ==
  /\ child[d].pc = "start"
  /\ child' = [child EXCEPT ![d].pc = "read"]
  /\ UNCHANGED writers

childStarts(d) ==
  /\ child[d].pc = "start"
  /\ child' = [child EXCEPT ![d].pc = "read"]
  /\ writers' = Close(writers, child[d].fd, d)

\* read() returns a byte, end of file, or EBADF.
WaitForContinueSignal(d) ==
  LET p == child[d].fd IN
  /\ child[d].pc = "read"
  /\ \/ /\ p = 0 \/ (p # 0 /\ d \notin readers[p])
        /\ UNCHANGED sent
     \/ /\ p # 0 /\ d \in readers[p] /\ sent[p] > 0
        /\ sent' = [sent EXCEPT ![p] = @ - 1]
     \/ /\ p # 0 /\ d \in readers[p] /\ sent[p] = 0 /\ writers[p] = {}
        /\ UNCHANGED sent
  /\ readers' = Close(readers, p, d)
  /\ child' = [child EXCEPT ![d].pc = "dump"]

\* The child is gone, and with it its descriptors and its leave to trace.
ChildExits(d, how) ==
  /\ child' = [child EXCEPT ![d] = IF alive THEN [@ EXCEPT !.pc = how] ELSE NoChild]
  /\ readers' = [e \in Dumps |-> readers[e] \ {d}]
  /\ writers' = [e \in Dumps |-> writers[e] \ {d}]
  /\ ptracer' = IF ptracer = d THEN 0 ELSE ptracer

\* O_EXCL: a path that exists is not written again. Of a parent that is gone
\* there is nothing to write.
DoDump(d) ==
  LET file == <<child[d].h, child[d].path>> IN
  /\ child[d].pc = "dump"
  /\ \/ /\ alive /\ file \notin files
        /\ files' = files \cup {file} /\ ChildExits(d, "ok")
     \/ /\ \/ UNCHANGED files
           \/ file \notin files /\ files' = files \cup {file}
        /\ ChildExits(d, "failed")

childStep(d) ==
  /\ \/ childStarts(d) /\ UNCHANGED <<readers, sent, ptracer, files>>
     \/ WaitForContinueSignal(d) /\ UNCHANGED <<writers, ptracer, files>>
     \/ DoDump(d) /\ UNCHANGED sent
  /\ UNCHANGED <<procVars, disposition, mutex, regVars, fdes, path,
                 thr, context, boundVars, dumped>>

\* The system kills the child, or the process.
killChild(d) ==
  /\ child[d].pc \in {"start", "read", "dump"}
  /\ ChildExits(d, "killed")
  /\ UNCHANGED <<globalVars, fdes, sent, thr>>

kill == Die("kill")

-----------------------------------------------------------------------------
threadStep(t) ==
  \/ constructed(t) \/ destroyed(t) \/ lockStack(t) \/ resetSiginfo(t)
  \/ enterLoop(t) \/ tryHandler(t) \/ RequestDump(t) \/ allocFails(t)
  \/ makePipe(t) \/ cloneChild(t) \/ allowTrace(t)
  \/ SendContinueSignalToChild(t) \/ waitChild(t) \/ afterLoop(t)
  \/ rethrow(t) \/ repeat(t)

program(t) ==
  \/ \E h \in Handlers : \/ construct(t, h) \/ destroy(t, h)
                         \/ SimulateSignalDelivery(t, h) \/ WriteMinidump(t, h)
                         \/ getcontextFails(t, h)
  \/ crash(t) \/ firstChance(t)

Next ==
  \/ /\ alive
     /\ (\E t \in Threads : threadStep(t) \/ program(t)) \/ loseSiginfo \/ kill
  \/ \E d \in Dumps : childStep(d) \/ killChild(d)

Spec == Init /\ [][Next]_vars

\* Threads and children run; the mutex is granted to a thread that keeps
\* asking for it. Nobody is obliged to construct, crash, kill or recover.
Fairness ==
  /\ \A t \in Threads : /\ WF_vars(alive /\ threadStep(t))
                        /\ SF_vars(alive /\ lockStack(t))
  /\ \A d \in Dumps : WF_vars(childStep(d))

FairSpec == Spec /\ Fairness

-----------------------------------------------------------------------------
TypeOK ==
  /\ alive \in BOOLEAN /\ endedBy \in Ends
  /\ disposition \in [Signals -> Dispositions]
  /\ oldHandlers \in [Signals -> {"old", "default"}]
  /\ ptracer \in Procs /\ stack \in Seq(Handlers)
  /\ altStack \in [Threads -> Int] /\ stackInstalled \in BOOLEAN
  /\ oldStack \in Int /\ newStack \in Nat /\ freed \subseteq Nat
  /\ mutex \in Threads \cup {None} /\ installed \in BOOLEAN
  /\ remote \subseteq Handlers /\ life \in [Handlers -> {"none", "live", "gone"}]
  /\ path \in [Handlers -> Nat] /\ files \subseteq Handlers \X Nat
  /\ fdes \in [Handlers -> Procs]
  /\ readers \in [Dumps -> SUBSET Procs] /\ writers \in [Dumps -> SUBSET Procs]
  /\ sent \in [Dumps -> Nat] /\ context \in Threads \cup {None}
  /\ \A t \in Threads : thr[t].pc \in Pcs
  /\ \A d \in Dumps : child[d].pc \in {"none", "start", "read", "dump"} \cup Exited
  /\ incidents \in 0..MaxIncidents

\* A handler that SignalHandler's loop is calling is not destroyed under it:
\* the destructor waits for g_handler_stack_mutex_.
HandlerAliveInUse ==
  \A t \in Threads :
    alive /\ thr[t].via = "signal" /\ thr[t].pc \in Dumping \cup {"request"}
      => life[thr[t].h] = "live"

\* The child ptraces only after PR_SET_PTRACER named it: until then the read of
\* the continue byte blocks it. Without a pipe, with a parent that is gone, or
\* when dumps of two threads overlap (only explicit calls can), it may not.
TracedAfterPermission ==
  \A d \in Dumps, t \in Threads :
    alive /\ ~overlapped /\ thr[t].d = d /\ child[d].pc = "dump" /\ child[d].fd # 0
      => ptracer = d

\* A dump describes the thread that asked for it: g_crash_context_ is shared by
\* all handlers and filled anew by each crash.
DumpNamesItsThread ==
  \A d \in Dumps, t \in Threads :
    ~overlapped /\ thr[t].d = d /\ child[d].pc # "none" => child[d].tid = t

\* When no dump is under way the process holds no end of a pipe: every way out
\* of GenerateDump() closes both, unless two dumps of one handler overwrote
\* its fdes.
PipesClosed ==
  alive /\ ~overlapped /\ (\A t \in Threads : thr[t].pc \notin Dumping)
    => \A d \in Dumps : readers[d] = {} /\ writers[d] = {}

\* A process ends in the default action only after some handler took a crash as
\* handled: otherwise the handlers that were there before are put back first.
UnhandledReachesPrevious == endedBy = "default" => dumped # {}

\* The thread that frees the alternate stack has left it (sigaltstack() is per
\* thread; another thread may be left on it, see README).
LeavesFreedStack ==
  [][\A t \in Threads : thr[t].pc = "dtor" /\ thr'[t].pc = "run"
                          => altStack'[t] \notin freed' \ freed]_vars

\* Handlers are destroyed together with their dispositions: when none is left,
\* no signal still calls SignalHandler.
NoHandlerNoDisposition ==
  stack = << >> /\ mutex = None
    => \A s \in Signals : disposition[s] \notin {"breakpad", "plain"}

\* The child always ends, also when its parent is killed before it sent the
\* continue byte: the child closed its own copy of the write end.
ChildEnds ==
  \A d \in Dumps :
    child[d].pc = "start" ~>
      (child[d].pc \notin {"start", "read", "dump"} \/ overlapped)

\* GenerateDump(): the child that dumps a thread may trace it, dumps the thread
\* that asked, and the pipe between them is closed again afterwards.
DumpsSound == TracedAfterPermission /\ DumpNamesItsThread /\ PipesClosed

\* Installing and removing: what the handlers change in the process (signal
\* dispositions, the alternate stack) is put back with the last of them, and
\* the disposition that was there before gets the crashes they leave.
PutBackAtEnd ==
  []UnhandledReachesPrevious /\ []NoHandlerNoDisposition /\ LeavesFreedStack

\* "If an exception occurred and the callback returns true, Breakpad will treat
\* the exception as fully-handled, suppressing any other handlers from being
\* notified" (exception_handler.h).
HandledNotPassedOn ==
  \A t \in Threads :
    alive /\ thr[t].pc = "again" /\ thr[t].ok => disposition[thr[t].sig] # "old"

\* "If [install_handler] is false, minidumps will only be written when
\* WriteMinidump is called" (exception_handler.h).
NotInstalledNotCalled ==
  \A t \in Threads : thr[t].via = "signal" /\ thr[t].pc \in Dumping
                       => thr[t].h \in Installing

\* "at most one at a time can use |g_crash_context_|" (exception_handler.cc).
ContextExclusive ==
  \A t, u \in Threads :
    (/\ thr[t].pc \in Dumping /\ thr[t].via # "write"
     /\ thr[u].pc \in Dumping /\ thr[u].via # "write") => t = u
====
