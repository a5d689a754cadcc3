# HiApp: TLA+ models, model checking and proofs

HiApp is an Android shopping application. What can go wrong in it in ways a test
hardly reaches lives in its libraries: two ways to run start-up tasks in dependency
order, a thread pool that can be paused, an HTTP client with a local cache, and the
crash reporter it carries, Google Breakpad, which must work in a process that is
already broken. This directory holds TLA+ models of them, the TLC configurations
that check them on small instances, and TLAPS proofs for every instance.

`PROJECT.json` lists the runs, the lines each definition models, the mutants that
show that each property can fail, the hazards, the findings and the theorems. This
document explains them.

## 1. The system

Paths are relative to `src/`. `L` is `hi-library/src/main/java/com/hzp/hi/library`,
`B` is `libbreakpad/src/main/cpp/breakpad/src`.

| Part | Sources | Module |
|---|---|---|
| Launch dispatcher | `launchstarter/.../TaskDispatcher.java`, `DispatchRunnable.java`, `Task.java` | `TaskDispatcher` |
| Launch sort | `launchstarter/.../sort/` | `TaskSort` |
| Executor | `L/executor/HiExecutor.kt` | `HiExecutor` |
| Task flow | `L/taskflow/*.kt` | `TaskFlow` |
| HTTP client and cache | `L/restful/*.kt`, `L/cache/*` | `Restful` |
| Linux crash handler | `B/client/linux/handler` | `LinuxCrashHandler` |
| Linux crash server | `B/client/linux/crash_generation` | `CrashGeneration` |
| Minidump file and writer | `B/client/minidump_file_writer*`, `B/client/linux/minidump_writer` | `MinidumpFile`, `MinidumpWriter` |
| Mappings of a process | `B/client/linux/minidump_writer/linux_dumper.cc`, `microdump_writer.cc` | `LinuxMappings` |
| Dictionaries, allocator | `B/common/simple_string_dictionary.h`, `long_string_dictionary.cc`, `memory_allocator.h` | `StringDictionary`, `StringMap`, `LongDictionary`, `PageAllocator` |
| Mac crash handler | `B/client/mac/handler` | `MacExceptionHandler` |
| Windows crash server and client | `B/client/windows/crash_generation` | `WindowsCrashServer` |
| Windows crash handler | `B/client/windows/handler` | `WindowsExceptionHandler` |
| DWARF readers | `B/common/dwarf`, `dwarf_cfi_to_module.cc`, `dwarf_line_to_module.cc`, `dwarf_cu_to_module.cc` | `CallFrameInfo`, `DieReader`, `LineProgram`, `LineAssignment` |
| Symbol module | `B/common/dwarf_cu_to_module.cc`, `module.cc` | `SymbolModule` |
| Other symbol readers | `B/common/stabs_*`, `B/common/linux`, `B/common/mac`, `B/common/windows` | `Stabs`, `ElfSymbols`, `MachSymbols`, `WindowsSymbols` |
| Screens, demos, debug tool, code generation | the rest | not modelled (section 7) |

How they interact. The dispatcher and the task flow are two independent libraries
for the start of an application; a task flow hands its asynchronous tasks to
`HiExecutor`. The HTTP client reads and writes the cache in jobs of `HiExecutor`
and shows results through the main looper. A crash enters Breakpad through a
handler (Linux, Mac or Windows), which writes a minidump itself or asks a crash
server for one; the Linux handler clones a child that runs the minidump writer over
the list of mappings, with memory from the page allocator. The symbol readers work
offline: each turns the debugging information of one format into the records of a
symbol file, with which a minidump is read later.

The behaviours that are hard to test:

* **Threads that meet.** Dependencies finish while a task is being added; a handler
  is destroyed while a signal walks the stack of handlers; a client of the crash
  server dies while it is being registered; threads start and end while a handler
  stops them.
* **Checks and waits that are not atomic.** `beforeExecute` reads the pause flag
  outside the lock; `WriteMinidump()` on the Mac tests a flag two threads can pass.
* **Values read later than they were given.** A request builds its cache key from a
  parameter map the next call has changed; one global crash context serves all
  crashes.
* **Steps that fail in the middle.** `pipe()`, `clone()`, growing the file, sending
  a reply.
* **Everybody waiting.** A bounded pool full of tasks that wait for tasks behind
  them; a destructor that waits for a thread it has told to end.
* **Arithmetic at the edges.** Offsets into pages, mappings that touch, ranges that
  wrap, pieces of moved code.

## 2. The modules

Every module has the variables of the code under the code's names where TLA+ allows
it, one action per handler or atomic step, and separate threads as interleaved
processes. An operation without interference in the middle is one step; one that
others can observe half-way has a program counter. Data is reduced to what the
properties tell apart: a file is a list of ranges, a name a number, a register set
nothing.

### TaskDispatcher

Models `launchstarter`. The UI thread is `mainPc`/`mainIdx`; `status[t]` is the
program counter of the `DispatchRunnable` of `t` on whichever thread runs it:
`new`, `queued`, `waiting` (in `waitToSatisfy`), `running`, then the parts of
`markTaskDone`, then `done`, or `failed` if `run()` threw.

| Actions | Code |
|---|---|
| `addTask`, `collectDepends`, `collectCheck`, `addTaskEnd` | `TaskDispatcher.addTask` with the loop of `collectDepends`; registering a child and testing `mFinishedTasks` are two steps, since pool threads run in between once started |
| `start`, `startThrows`, `sendTask`, `sendEnd`, `executeTaskMainEnd` | `start()`, `sendAndExecuteAsyncTasks`, `sendTaskReal`, `executeTaskMain`; the order of the sorted list is the relation `IsSortResult`, which `TaskSort` justifies |
| `runBegin`, `waitToSatisfy`, `runTask`, `runThrows`, `satisfyRace`, `call` | `DispatchRunnable.run` and the tail callback |
| `markLists`, `countDown`, `decrement` | `markTaskDone`: unsynchronised list changes, the latch, the counter |
| `executeTask`, `cancel`, `runCancelled` | a task executed outside the batch; `Future.cancel(true)` |
| `await`, `awaitLog`, `awaitLogThrows`, `awaitCount`, `awaitLatch`, `awaitTimeout` | `await()`, with its debug loop over the shared list and the time-out |

Assumed of the client: each task is added once, `start()` is called once, the batch
is added before it and `Extra` tasks after; `cancel()` is not called in the middle
of sending; `dependsOn()` names no class twice; `call()` is called at most once.
The internal corruption of a `HashMap` changed by two threads is not modelled.

### TaskSort

Models `TaskSortUtil.getSortResult` and `Graph.topologicalSort`. Each loop
iteration is a step: `scan`/`scanEnd` collect nodes of in-degree zero, `poll`,
`relax` and `relaxEnd` process the queue, `getResultTasks` splits the order into
the tasks others depend on (`sNewTasksHigh`, static and never cleared), those that
want to run soon, and the rest; `cycle` throws. The initial state has any
dependency relation over `Tasks`, and `getSortResult` takes any list of them.

### HiExecutor

Models the pool with `CoreSize` threads (its queue is unbounded, so that it never
grows past them), `pause()`/`resume()` and `Callable`. `pc[w]` separates the test
of `isPaused`, the lock, `pauseCondition.await()` and the return from it. The main
looper is the sequence `mainQueue`. Each job is submitted once; the read of
`isPaused` is atomic; a job that throws ends the process and is left out.

### TaskFlow

Models running a `taskflow` graph. Each thread has a stack of `run()` frames, because
finishing a task starts the tasks behind it by nested calls: `toRunning`, `toFinish`,
`removeBlockTask`, `notifyBehindTasks`, then for each task behind `dependTaskFinished`,
`removeDepend`, `dependTasksEmpty`, `start`/`startAgain`, `toStart`. The main thread
runs `traversalDependencyTreeAndInit`, `startFirst`, and the loops of
`TaskFlowManager.start` (`outerLoop`, `innerLoop`, `runWaitingTasks`, `removeHead`,
`postWaiting`). An unsynchronised `ArrayList.remove` that races another may remove the
entry, lose the removal, or lose another entry (`Removals`). Graphs have no duplicate
edges (`dependOn` called twice with one task would add it twice to `dependTasks`, and is
assumed not to happen); the visibility of plain fields between threads and a second flow
in the process are left out. With any block task the synchronous start task itself goes
to the waiting list, which is why the loop exists.

### Restful

Models one call of an API method from the proxy to the callback. All parameters of
a call are one value. `clearParameters` and `putParameters` are the two halves of
`parseMethodParameters`; `requestParameters(c)` is what the request's reference to
the parser's map shows *now*; `getCacheKey` and `iterate` build the key, with the
fail-fast iterator modelled by `modCount`; `readCache`, `saveCache` are jobs of the
pool; `respond`, `onResponse`, `onCache` are the network and the main looper, where
`onCache` goes to the front of the queue. `OldEntries` is what an earlier process
left in the database. Interceptors see requests and change none of this.

### LinuxCrashHandler and CrashGeneration

`LinuxCrashHandler` has the threads of a process (`thr[t]`: where a thread is in
`SignalHandler`, `WriteMinidump`, the constructor or the destructor), the objects
(`life`), the global stack of handlers under its mutex, the signal dispositions, the
alternate stack, the one crash context, and the dumps under way, each with its
cloned child and pipe. `program(t)` is what the program may do (construct, destroy,
crash, raise, call `WriteMinidump()`), `threadStep(t)` goes on with what was begun,
`childStep(d)` is the child: wait for the byte, trace, dump, exit. `kill` and
`killChild` are allowed at any moment. `CrashGeneration` extends it: a handler with a
client sends its context and the end of a pipe to the server (`clientStep`), whose
thread polls a socket and a control pipe (`serverStep`); `foreign` says that contexts have
another size than the server's; `Start`, `Stop` and
`killServer` are its owner's.

### MinidumpFile, MinidumpWriter

`MinidumpFile` is the writer of the file as a record with operators `Open`,
`Allocate`, `Copy`, `WriteString`, `Close`, which may fail; sizes are those of the
structures, and 32-bit processes compute with 32 bits. `MinidumpWriter` writes a dump
in the stages of `Dump()`: enumerate and suspend threads, header, thread list, module
list, memory, exception, system information, files, destructor. The dumped process
starts and ends threads meanwhile and may be killed.

### LinuxMappings

Reads up to `MaxLines` lines of `/proc/<pid>/maps`, chosen as they are read, and
merges them as the code does; then the post-processing for Android and ChromeOS. The
functions of the list (`GetStackInfo`, `FillThreadStack`, `SanitizeWord`,
`DumpFreeSpace`) are operators, compared with what they are to compute.

### StringDictionary, StringMap, LongDictionary, PageAllocator

`StringDictionary` is the fixed array of entries, with callers that keep an index and
an iterator that is under way while entries change. `StringMap` is what it promises:
a map with room for so many keys; the refinement mapping takes the active entries as
the map. `LongDictionary` stores long values in several entries. `PageAllocator` is
`Alloc` in its two cases and `FreeAll`, with the kernel free to map pages anywhere.

### MacExceptionHandler

The handler thread that waits on a Mach port, the program's threads (crash, abort,
ask for a dump, start, end), and the owner, which constructs and destroys. A thread
stops wherever `thread_suspend()` meets it. The parts of `Setup()`, `task_threads()`,
locking and the restoring of ports may fail (`Prepared`, `enumerateFails`, `lockFails`,
`restoreFails`). Assumed of the system: `task_threads()`
lists the oldest thread first, and a port holds `QueueLimit` messages.

### WindowsCrashServer, WindowsExceptionHandler

`WindowsCrashServer` is the state machine over the named pipe (`machine`), the callbacks
of the thread pool for each client (`callback(c)`), the clients (`clientStep(c)`), and
the destructor (`destruction`); every section under `sync_` is one step, and each call
of `AddClient()` that may fail is an action (`registerFails`). `WindowsExceptionHandler`
has the objects with their stack, the index of the one that is handling a failure, the
registered and the previous handlers, the critical section of the stack (re-entrant,
`owner` and `depth`), a stack of calls for every thread (`frames[t]`, since a handler
that declines calls the next), and for every object its worker thread with two
semaphores. Objects are created and destroyed by one thread, cleanly nested.

### The symbol readers

Each reads its input as it is invented: a step chooses the next entry, opcode,
section or symbol, so that every bounded input is explored. `CallFrameInfo`
interprets call frame instructions and files the changes of rules; `DieReader` walks
the entries of a unit and of its split file and tells handlers that may refuse;
`LineProgram` runs a line number program; `LineAssignment` gives lines to functions
with addresses that wrap; `SymbolModule` names functions and writes the module;
`Stabs`, `ElfSymbols`, `MachSymbols` and `WindowsSymbols` do the same for the other
formats. The property of each says what a reader of the symbol file would find,
computed from the input and not from the state of the reader.

## 3. What the runs check

A run is `tlc -config <run>.cfg <module>`. Five runs (`library`, `fair_scheduling`,
`structures`, `symbols`, `readers`) exercise several components in one instance each: a
variable `part` chooses the component at the start, and only that one moves. State
counts are TLC's distinct states.

| Run | Instance | States | Properties |
|---|---|---|---|
| `library` | `TaskDispatcher` in a secondary process with five tasks, one executed after `start()`, one that may throw, `cancel()`; `TaskFlow` with all arrangements of three tasks, two of them block tasks of the pool; `Restful` with three overlapping calls of three methods | 666,852 | `DependenciesFirst`, `AwaitComplete`, `FlowInOrder`, `AnswersKeptApart` |
| `fair_scheduling` | `HiExecutor` with two threads and four jobs, a diamond for the dispatcher, every relation of three tasks for the sort, a tree, two calls of one method; under fairness | 58,267 | `JobsKept`, `SortCorrect`, `EveryJobRuns`, `LaunchFinishes`, `CallsAnswered` |
| `linux_handler` | two threads, two handlers, one of which installs signals and one of which has a server; one dump, one incident (a killed process or child, a failed call) | 1,171,889 | `HandlerAliveInUse`, `DumpsSound`, `PutBackAtEnd` |
| `linux_live` | handler and server under fairness, two threads, no signal inside the handler; messages of the right size, or of another | 51,467 | `ServerServes`, `CrashesEnd` |
| `minidump_writer` | two threads, four kinds of dump, five sizes at which the device is full | 252,090 | `FileSound`, `StreamsFaithful`, `ThreadsStoppedThenResumed` |
| `structures` | a dictionary of two entries and three keys, long values of up to four pieces, an allocator over five pages of four bytes, three lines of mappings, libraries loaded at three distances from their place | 644,972 | `ImplementsMap`, `LongValueKept`, `AllocatorSound`, `MappingsFaithful`, `StackScansExact` |
| `mac_handler` | two threads, six ways to build a handler, two events, system calls that fail | 425,341 | `SuspensionSound`, `HandlerHandsOver`, `MacAnswers` |
| `windows_server` | a client that registers and asks for a dump, one that uploads; waits that cannot be registered | 151,176 | `ServerObjectsValid`, `ServerGoesOn` |
| `windows_handler` | two threads, two objects, the second in process, out of process or idle; two incidents | 93,720 | `HandlersInTurn`, `HandlerCallsReturn` |
| `symbols` | the DWARF readers and the symbol module, one per behaviour | 3,390,199 | `FramesFaithful`, `DiesDelivered`, `LinesRight`, `SymbolsWritten` |
| `readers` | STABS, ELF, Mach-O and PDB, one per behaviour; images with overlapping and nested pieces | 464,219 | `StabsFaithful`, `ObjectFilesRight`, `PdbSymbolsRight` |
| `restful_alias` | two overlapping calls of one method | - | `EntryBelongsToKey`, violated (section 4) |

What they show, in words:

* **Launching.** A task enters `run()` only after its dependencies have finished,
  whatever the pools do, even with skipped and failing tasks; `await()` that does not
  time out returns after the tasks it is for; a CPU pool smaller than the number of
  waiting tasks cannot deadlock, because tasks are sent in sorted order. The sort
  stays topological although it regroups afterwards, and throws only for a cycle.
  Racing removals of a task flow may start a task twice, but never early.
* **Executor.** No job is lost or run twice; a pause lets through at most one job per
  thread; a job that a missed wake-up leaves behind runs after a later resume.
* **Cache.** Without two calls of one method at once, the cache never mixes up
  requests, and every call is answered.
* **Linux crashes.** The handler that a signal has reached is not destroyed under it;
  the child traces only after it may, dumps the thread that crashed and leaves no
  pipe open; a signal nobody took reaches the disposition found at installation. The
  server answers every request it can read until it is stopped, and the crash that
  asked ends. This is shown without a second signal inside the handler (`Reentrant` is
  FALSE in `linux_live`) and not for a client whose message the server cannot read.
* **The minidump.** Whatever call fails, ranges are disjoint, copies stay inside
  their allocation, the directory names only streams that are there, the exception
  stream names the crashing thread if that was still listed, and no thread stays stopped.
* **Structures.** The array of entries is a map; a stored long value is read back;
  blocks of memory never overlap; the list of mappings keeps every address.
* **Mac and Windows.** While the Mac handler reports, a thread runs only if it started
  after the listing, if the walk over the list met a thread that had ended, or if the
  listing failed; what was stopped for a request runs again unless a listing failed; the
  Windows server's callbacks use only objects that exist, and it goes on serving; of
  nested Windows handlers each is asked in turn, and the system's own return with the
  last object.
* **Symbols.** At every address the records say what the debugging information says,
  for every bounded input, except as section 4 lists.

**Bounds and why they are enough.** Two threads and two objects are the smallest
instance in which one is used while the other is created, destroyed or fails; the
mutexes and flags of the code are each contended by pairs. `MaxIncidents` counts
failures from outside: one suffices to fail between any two steps, two to fail while a
failure is being handled (Windows). `MaxDumps`, `MaxCalls`, `MaxRequests` and
`MaxEvents` bound what clients ask for; a second request after the first is reached
through another thread. Three tasks show every shape of interaction of sort and graphs
(chain, fork, join, cycle); one CPU thread is the hardest pool size for deadlock; two
executor threads and four jobs leave jobs queued while both threads are held. Tables of
two entries, pages of four bytes and two or three mappings put every boundary of the
arithmetic next to another; `MaxLines`, `MaxEntries`, `MaxStabs` and their like bound
how much of a file is invented. In `symbols` six call frame instructions, five addresses
and sizes that wrap at four (`IntSpace`, the code's `int`) reach every rule, a gap
between two entries, and ranges whose sizes add up to zero. The images of `readers` have
pieces that overlap, that hold one another, and headers of two sizes. `NoOverlap` (a
constraint of `linux_handler` and `linux_live`) cuts off states in which a crash and an
explicit `WriteMinidump()` of one handler overwrite each other's pipe (section 4);
`OneForeignClient` (of `linux_live`) lets one client crash at a time when the server
cannot read their messages. Type correctness is part of each inductive invariant of
section 5 and is not listed again in the runs.

`CHECK_DEADLOCK FALSE` is set everywhere: each system comes to rest when its work is
done or the process has ended. Waiting for ever is covered by the liveness properties.

**Fairness.** Weak fairness of the steps of threads that exist and are not blocked:
pool threads, the main looper, the handler and server threads, callbacks of the thread
pool, cloned children, the answer of the network (which may be a failure). Schedulers
guarantee no more and no less. Strong fairness is assumed once, of taking
`g_handler_stack_mutex_`: a thread that keeps asking for a mutex that is freed again
and again gets it. What a client or the environment does (calling, crashing, killing,
constructing, pausing) is never fair, with one exception: the tail callback of a
`needCall` task of the dispatcher is assumed to come, which the task's author
promises. `EveryJobRuns` states its condition (never paused, or paused and resumed
for ever) in the formula.

**Mutants.** For every property of every passing run a changed operator stands next
to the definition it replaces, marked `Mutant` in the modules: a dropped guard, a
missing reset, an offset without the header. With it TLC finds the property violated.
Where a property is a conjunction the mutant breaks one of its conjuncts.

## 4. Where the code does not do what it says

The violated run `restful_alias` checks a sentence of the code: the key under which an
answer is cached is made of the request's URL and parameters (`Scheduler.kt:89`). A
second call of the same method changes the parameter map from which the job of the
first builds its key, and the answer is stored under the second one's key.

The modules keep further statements of comments and documentation as definitions, each
with the sentence in its comment. To see TLC's counterexample, check the definition in
the run of its component, with the change of constants given in brackets where the run's
own instance does not show it.

| Module | Definition | What happens |
|---|---|---|
| `TaskDispatcher` | `DependenciesFirstDespiteCancel` | `cancel()` interrupts the wait, the exception is swallowed, the task runs without its dependencies |
| | `DependenciesFirstWhenAddedLate` | a dependency that finishes while a late task is registered counts it down twice |
| | `AwaitNeverThrows` | the debug loop of `await()` iterates a list that pool threads change |
| `TaskSort` | `OwnTasksOnly` [`MaxCalls` 2], `WaitedBeforeRest` [a task in `NeedWait`] | a static list outlives its dispatcher; the documented third group does not exist |
| `HiExecutor` | `ResumeRestartsAll`, `HeldJobsWaitForResume` | a `resume()` between test and wait is missed; a woken thread runs its job although `pause()` came first |
| | `CompletedDelivered` [two `Callables`] | the end of one removes the pending result of the other |
| `TaskFlow` | `StartedOnce`, `StartSurvives`, `SyncOnMain` [`Async` without `b`]; `ReadyTaskRuns`, `WaitingTasksRun` [the module by itself, under its `FairSpec`, with an asynchronous block task] | two dependencies ending together start a task twice; `removeAt(0)` on an empty list; a plain task runs on the pool; the last task is never started; a waiting task stays |
| `Restful` | `NeverCrashes`, `CacheBeforeNet`, `CacheNeverOlder` [`SamePage`], `CacheFirstAsksToo` [a call in `Sync`] | with two calls of one method the map changes under iteration; the cached answer is shown late; an older answer replaces a newer; `execute()` never asks the network |
| `LinuxCrashHandler` | `HandledNotPassedOn`, `NotInstalledNotCalled` [`Remotes` `{{}}`], `ContextExclusive` | a handled signal reaches other handlers again; an object that installs nothing is called; a simulated signal and a crash of another thread share one context |
| `MinidumpWriter` | `SuccessMeansWritten`, `DataFitsAllocated`, `CrashingStackWhole` | the results of copies are ignored; a surrogate pair needs more than was allocated; the crashing thread's stack is limited after all |
| `LinuxMappings` | `ChunkHoldsPointer`, `ScanEndsAtStack` | the chunk kept of a cut stack may not hold the pointer; the scan of free space goes on |
| `LongDictionary` | `LongSetAllOrNothing` | a long value for which there is no room is stored in part |
| `MacExceptionHandler` | `LockReturns`, `HandlerThreadExits`, `PreviousAliveInException`, `UninstalledWhenWriting`, `AllSuspendedWhileReporting` | the lock "just created" is held by another caller; the thread that is to exit does not; threads started meanwhile run |
| `WindowsCrashServer` | `ListedClientsValid`, `WaitsForCallbacks`, `ErrorStateReached`, `SuccessMeansDump`, `EveryRequestReturns` [`MCTwice`] | a listed client may be deleted; the destructor does not wait for a callback under way, nor always for the error state; success is reported without a dump |
| `WindowsExceptionHandler` | `DeliveredWhileHandling`, `PathFreeForException`, `TypesRespected` and `PutBack` [`MCPartial`] | a failure of the thread that writes finds no handler; the file of an earlier dump is written again; an object gets kinds it did not ask for, and what it did not install stays registered |
| `CallFrameInfo` | `FunctionBaseFresh` | a function base of an earlier entry is used |
| `LineProgram` | `PlaceKept` | `DW_LNE_define_file` (`dwarf2reader.cc:1475`) and the MD5 and directory formats of version 5 (1168) are not passed over: the reader goes on in the middle of them |
| `DieReader` | `MismatchIgnored` | a split file with another identifier is not ignored but read through a null pointer |
| `SymbolModule` | `ForwardNamesFixed` | forward references are looked up in a table nothing is inserted into |
| `Stabs` | `UnitStringsOwn` [`MaxStabUnits` 3], `FallbackOnce` | a unit's string offset is that of another; several functions get the fallback size |
| `ElfSymbols` | `SectionsLoadedOnce`, `SameLoadingAddress` | a section is loaded from both files with a message; a different loading address is only reported |
| `MachSymbols` | `ReadProblemsReported` | a file that cannot be opened has no contents, and is read through a null pointer |
| `WindowsSymbols` | `LinesFollowFunction`, `FilesDeclared` [`MaxOpens` 2, one PDB] | lines of a split function follow its last record; a writer used twice omits the file records |
| | `BlocksOutsidePrinted`, `GapsFilled` | a block that starts where its function ends is taken for a part of it (`>` at `pdb_source_line_writer.cc:488`); behind a piece that holds another, bytes of the outer one are taken for a gap (`omap.cc`, `FillInRemovedLengths`) |

Other places where the code falls short are part of the models, and the properties of the
runs say what holds in spite of them:

* **Linux.** The server leaves the descriptor of a message of another size than a crash
  context open, and its client waits for an answer that does not come. The location of
  the crashing thread's registers (`crashing_thread_context_`) has no initial value:
  with the crashing thread gone from the list, the exception stream refers to an
  arbitrary place. A load bias of more than a page puts mappings out of order, and the
  sum of free space counts covered holes.
* **Mac.** When `task_threads()` fails the walk is skipped silently; when
  `task_set_exception_ports()` fails the exception is forwarded to the thread that forwards
  it. A `Setup()` that fails is not told to the caller.
* **Windows.** When a wait cannot be registered after the reply was sent, the client
  believes it is registered and is not.
* **Symbols.** The sizes of the ranges of a function are added up in an `int`
  (`dwarf_cu_to_module.cc:572`), and a function whose sizes add up to a multiple of 2^32
  is dropped. An abstract origin in another unit is used even where references across
  units are not handled. The root handler of a skeleton unit is begun and ended a second
  time for its split unit. The list of a unit's sections in a version 1 package file may
  run over the end of its table; a unit left without `.debug_info` fails an assertion.
  `mac/dump_syms.cc:621` says that STABS on the Mac "are never "unitized"" and passes
  `true` for `unitized`.

Where a property of a passing run holds only under a condition, the formula or the
instance says so: `CompletedDelivered` holds with one Callable, `DependenciesFirst` for the
tasks added before `start()`, `AwaitComplete` without awaited tasks given to `executeTask`,
`LaunchFinishes` for trees of tasks, `AnswersKeptApart` with distinct methods or a client
that waits, `CrashesEnd` without signals inside the handler, `StreamsFaithful` for dumps
that list the crashing thread, `FramesFaithful` while addresses do not go backwards,
`DiesDelivered` while units end where their entries do, `LinesRight` without
`DW_LNE_define_file` and MD5 sums, `SymbolsWritten` for names that do not refer forward.

## 5. What is proved

TLC checks an instance; the theorems below hold for every value of the constants that
satisfies the named assumptions. Each is proved from an inductive invariant, which TLC
checked on the run's instance first; there is one lemma or case per action.

| Module | Theorem | Says |
|---|---|---|
| `TaskDispatcherProofs` | `TypeCorrect`, `DependenciesFirstHolds` | `Spec => []TypeOK`, `Spec => []DependenciesFirst` |
| | `AwaitCompleteHolds` | `NoLateWait => (Spec => AwaitComplete)` |
| `RestfulProofs` | `AnswersKeptApartHolds` | `MethodsApart => (Spec => []AnswersKeptApart)` |
| `HiExecutorProofs` | `ExecutorInvariant`, `JobsKeptHolds` | `Spec => []IInv`, `Spec => []JobsKept` |
| `BreakpadCommonProofs` | `AllocatorInvariant`, `AllocatorSoundHolds` | `AllocSpec => []AllocInv`, `AllocSpec => []AllocatorSound` |
| | `DictionaryInvariant`, `DictionaryImplementsMap` | with `ShortKeys`: `Spec => []Inv`, `Spec => ImplementsMap` |
| `WindowsExceptionHandlerProofs` | `HandlersInTurnHolds` | `AllOrNothing => (Spec => []HandlersInTurn)` |
| `LinuxCrashHandlerProofs` | `HandlerAliveInUseHolds` | `Spec => []HandlerAliveInUse` |
| | `PutBackAtEndHolds` | `Spec => PutBackAtEnd`: two invariants and an action property |
| | `CrashHandlerInvariant`, `TypeCorrect` | `Spec => []IndInv`, `Spec => []TypeOK` |
| | `DumpsSoundHolds` | `Spec => []DumpsSound` |
| `WindowsCrashServerProofs` | `ServerInvariant`, `ServerObjectsValidHolds` | `Spec => []IInv`, `Spec => []ServerObjectsValid` |
| `MacExceptionHandlerProofs` | `MacInvariant` | `Spec => []IInv` |
| | `SuspensionSoundHolds`, `HandlerHandsOverHolds` | `Spec => []SuspensionSound`, `Spec => []HandlerHandsOver` |

**The dispatcher.** For every finite set of tasks, dependency relation, assignment to
threads and pool size, with failing and late tasks and `cancel()`. Assumptions:
`TasksAssumption`, `AttributesAssumption`, `PoolAssumption`. `DependenciesFirst` is not
inductive: that a latch at zero means that the dependencies have finished is a fact
about counting. `IInv` adds `LatchInv` (the latch of a task that `start()` can send is
at least the number of its unfinished dependencies; an inequality, because
`satisfyRace` may leave children uncounted), `OnceInv` (a task finishes once),
`AddInv` (children are registered under classes they depend on, and before `start()`
nothing has finished) and `SendInv` (the sorted list has no task twice). The step that
lets a task through then finds a set of unfinished dependencies of cardinality zero
(`NoneLeft`); the step that lowers latches removes one element from that set for each
(`OneLess`, `FewerLeft`).

`AwaitComplete` rests on a second count. `CountInv` says that `mNeedWaitCount` is at
least the number of added tasks to wait for that have not passed `markTaskDone()`, and
that from `start()` on the latch is at least the number of those that have not counted
it down; again inequalities, since the latch is made from a counter that is read once.
`MarkInv` says that a task that marks itself done was sent and has run. When `await()`
finds the counter or the latch at zero nothing is left (`NothingLeft`). The premise
`NoLateWait` (tasks executed after `start()` do not ask to be waited for) cannot be
dropped: such a task counts down a latch `start()` did not count it in, and TLC finds
`await()` returning early. The instance of `library` satisfies it.

**The requests.** For every set of calls, methods, parameters, strategies and old cache
entries; nothing is assumed of the constants. `MethodsApart` says that the client waits
for a call and its jobs to end, or calls every method once; without it the property is
false (section 4, `EntryBelongsToKey`). The invariant is `CallInv` (of two calls of one
method one is over, and a call that is not over and past `newRequest` finds its own
parameters in the shared map), `KeyInv` (the key a job computes is that of its call, and
is there when the storage is read or written) and `DataInv` (what is sent, answered,
cached, queued for the main thread and shown fits its call or key).

**The executor.** For every number of workers, every finite set of jobs and priorities
(`ExecutorAssumption`), and any order of `execute`, `pause` and `resume`. `JobsKept`
says that a job is in one place and that a pause lets through at most `CoreSize` jobs.
`HeldInv` ties the program counter of a worker to the job it holds and `PlaceInv` says
where jobs are without counting. The bound on the leak is the part that needs thought:
`LeakInv` says that while the pool is paused the jobs begun since `pause()` plus the
workers past the test of `isPaused` number at most `CoreSize`. A worker that begins a
job leaves that set as the count goes up (`WorkerLeaves`), and while the pool is paused
none enters it, because the test sends workers to the wait.

**The page allocator.** For every page and header size, every set of request sizes and
every choice of the kernel (`AllocatorAssumption`). `AllocInv` says that runs of pages
are apart (`RunsInv`), that each block lies in one run behind its header (`BlocksInv`),
that the free part of the current page is the end of the last page of a run and touches
no block (`FreeInv`), and counts pages (`CountInv`). The arithmetic is in lemmas of its
own: `PagesNeeded` shows that the rounded-up number of pages holds the block, and that
the offset computed with `%` is the first byte behind it; products of two variables are
given to the prover as facts (`PageProduct`, `RunsApartInBytes`).

**The dictionary.** For every capacity and every set of keys and values, as long as the
keys fit an entry (`ShortKeys`; longer ones are cut, and two keys with one beginning
would be one). `Inv` is `TypeOK`, `KeyAppearsOnce`, `HeldIndexNamesKey` (an index a
caller keeps names its key until that is removed) and `WalkComplete` (an iterator
returns every key present since it was made exactly once). `DictionaryImplementsMap`
maps initial states to initial states and every step to a step of `StringMap` or a
stutter; `CountFacts` relates active entries to the keys of the map, so that the store
fails exactly when the map is full.

**The Windows handler.** For every finite set of threads and objects, and any number of
failures and dump requests. The proof goes from facts about sequences and the creation
and destruction of objects to how a call begins, changes and ends, and then to the
remaining actions. `AllOrNothing` is a premise: every object installs all handlers or
none. It is needed: with an object that installs some of them, leaving a handler
registers what it did not install (`PutBack` of section 4). The inductive invariant says:

* `LifeInv`, `StackInv`: at most one object is being created or destroyed; the stack
  holds the live objects that install handlers, once each, the one being destroyed last.
* `RegisteredInv`: Breakpad is registered exactly while there is an object below those
  that are handling a failure (`index < Len(stack)`), and what an object found
  registered before it is Breakpad exactly if there is an object below it.
* `LockInv`: the owner of the critical section has entered it `index` times, nobody else
  has. This makes the shared index the depth of one thread's calls.
* `FramesInv`: a thread is in one `WriteMinidump()`, or in a chain of calls all but the
  last of which have declined, and their objects are those of the stack from its end.
* `BusyInv`: the thread that waits for an object is the one whose request its worker
  has, and at most one of the two semaphores is raised for it.

`HandlerFound` (the index names an object on the stack), `RefusedByAll`,
`WrittenForRequester` and `UninstalledWhenEmpty` follow. The step that matters is
`AutoExceptionHandler`, which raises the index: from `RegisteredInv` a thread that was
called at all finds `index < Len(stack)`, unless an object went away between the call
and the lock (`raced`), which the property exempts as the code's window.

**The Linux handler.** For every finite set of threads and handlers, any number of dumps
at once and of incidents, any alternate stacks the program has, and with `Reentrant`
TRUE or FALSE (`HandlerAssumption`). The constraint `NoOverlap` of the run is not a premise
here: behaviours in which dumps overlap are covered by the theorems, and `DumpsSound`
itself claims nothing of them. TLC checked `IndInv` first with two threads, two handlers,
two dumps, one incident, re-entrant signals and no constraint (8.6 million states).

* `ThreadInv` (`Shape`): the fields of a thread's position fit the place it is at; a
  thread has a dump number exactly between `sys_pipe()` and the return of `waitpid()`.
* `SectionInv`: whoever is in a constructor, a destructor, the loop of `SignalHandler` or
  a dump called from it holds `g_handler_stack_mutex_`; the stack holds the live handlers
  once each, and the index of the loop is in it. `HandlerAliveInUse` is this and the fact
  that only the holder of the mutex changes the stack. That each handler is there once is
  what `std::find()` and `erase()` rely on (`EraseOne`).
* `SignalInv`: with no handler nothing is installed, and what is not installed is the
  disposition of the program or the default action; the latter only after a handled
  crash. The previous dispositions are kept only while `handlers_installed` is set, so the
  same is said of `old_handlers`.
* `AltInv`: the stack that is put back is not the buffer that is freed. It makes
  `LeavesFreedStack`, a property of steps, follow.
* `PipeTypes`, `OneDump`, `DumpInv`: as long as no two dumps overlapped, one thread at
  most is dumping, the crash context is its own, and every pipe and child but its own is
  unused. `Stage` says who holds the ends of that pipe and what it carries at each place
  between `sys_pipe()` and `waitpid()`. The step it is for is the child's `read`: a byte in
  the pipe means that the parent is past `PR_SET_PTRACER`, and the end of the file cannot
  be seen while the parent lives, which keeps its writing end until `waitpid()` returns.

The proof goes in three rounds. `StepsOrderly` shows once, for every step, what it
may do to the position of its thread and to the others'; the lemmas on the mutex
(`SectionStep`), on signals and stacks (`SignalStep`, `AltStep`) and on dumps
(`PipeTypesStep`, `OneDumpStep`, `DumpInvStep`) then look only at the steps that touch
their variables (`StepKinds`, `EndKinds`, `CallKinds`, `DumpFrame`).

**The Windows crash server.** For every set of clients (`ServerAssumption`), with
failing I/O, clients that stop anywhere, and a destructor that runs at any time. The
objects of the server are shared by the state machine of the pipe, two kinds of
callbacks, the destructor and the clients, and no lock covers more than the list
`clients_`. TLC checked `IInv` first on the instance of `windows_server`.

* `MachineInv`: a step of the state machine works for the state it was called in; its
  wait on the pipe is there while it runs, except at the end of `HandleErrorState()`; past
  its first part the destructor has taken that wait down and no I/O is pending.
* `PipeInv`: a client is on the pipe before the server knows it and not again after: a
  peer whose request has not been read has no `ClientInfo`, one that was answered has one.
  So `AddClient()` meets every client once.
* `InfoInv`: a wait is armed and a callback runs only while the `ClientInfo` is valid,
  and the exit callback runs only for a client that has ended.
* `AddingInv`: which waits each step of `AddClient()` finds registered for its client. The
  exit callback may run before `AddClient()` stores the handle of its wait: that is the
  window `early`, which the property exempts.
* `GoneInv`: a client that is known, not listed and not being added has no callback left;
  with `FreedInv` (the destructor has emptied the list) this gives `FreedServerUnused`.
* `ServedInv`: a known, living client is listened to unless the server shuts down or one
  of its waits could not be registered; with
  `PipeInv` (a client has handles only after an answer) this gives `RegisteredIsServed`.

`StepKinds` sorts the steps into those of the state machine, of `AddClient()`, of one
client's callbacks or destruction, and the rest; each conjunct is then shown for the
kinds that touch it (`ClientStep`, `MachineStep`, `PipeStep`, `FreedStep`).

**The Mac handler.** For every set of threads, every order in which `task_threads()`
lists the threads there are at first, every way to build the handler, and any number of
calls, crashes, aborts and queued messages, with a `Setup()`, `task_threads()` or restoring
of ports that fails (`ThreadsAssumption`: the handler thread is
not one of the program's, and no thread is listed twice). TLC checked `IInv` first, with
two threads and all builds and with three threads and one.

* `SuspendInv`: along `task_threads()` suspend counts never increase (`Falling`). Both
  walks give up at the first thread that has ended, each on a list of its own; they undo
  each other because what one walk has not reached is, in that order, not suspended at
  all. While a walk is under way its copy keeps the order of the list that changes
  (`InOrder`), and a thread is either passed, and its count changed by one, or not. Between
  the walks every count is one more than before or zero both times (`Held`). That new
  threads are listed last is what keeps the order, and `SuspensionSound` rests on it.
* `LiveInv`, `RaisedInv`: a thread that is not listed has not started or has ended; a
  thread whose exception is queued or worked on waits for its one answer, and the
  handler thread is in the part of its loop that fits its message.
* `LockInv`: the mutex is one token, held by the thread that is about to send, then by
  the request in the queue or at work, then by the thread that returns. `UnlocksLocked`
  is its case for the handler thread.
* `InstallInv`: what is installed is what the object remembers to have installed, and
  only the constructor installs, before there is a handler thread. So after the three
  steps of `UninstallHandler(true)` nothing is installed when an exception is forwarded,
  whatever the owner's destructor does meanwhile, except ports whose restoring failed.
* `AbortInv` (`AbortInstalled`, `AbortStopped`): the handler thread clears
  `gProtectedData.handler` only after it has suspended every other thread, and a dump on
  request that was queued before resumes none of them, since each was suspended once more
  than the request undoes. So no thread runs into `SignalHandler()` after that, unless
  threads started or ended while the handler thread worked, or could not be listed
  (`churn`, `Steady`).

Lemmas of the form `...Moves` and `...Places` say once for all steps which of them touch
a variable or lead to a place; the step lemma of each conjunct then looks only at those.

## 6. What is only model-checked

* All liveness properties (`EveryJobRuns`, `LaunchFinishes`, `CallsAnswered`,
  `ServerServes`, `CrashesEnd`, `MacAnswers`, `ServerGoesOn`, `HandlerCallsReturn`): the
  prover has no support for fairness and `ENABLED`.
* What recursive definitions and folds compute: the symbol readers, `LinuxMappings` and
  the values of `LongDictionary`. That would need induction over data with an operator
  as the induction hypothesis, which the installed provers cannot instantiate. So would
  the claim that the loops of the sort end in a topological order of every input.
* Safety of the components without a proof so far: `SortCorrect`, `FlowInOrder`,
  the Linux handler composed with its crash server, and the minidump file and writer
  (sizes of which are those of one platform).

## 7. What is not modelled, and why

* Layout and drawing: tabs, navigation bar, banner, refresh header, item decoration;
  the screens of `app`, which bind views to data, and its demos.
* The log, the data bus, list paging and the account manager of the Kotlin libraries:
  within reach, not modelled so far.
* `hi-debugtool` (a dialog of buttons); `nav-annotation`, `nav-compiler` (a build-time
  generator); `360jiagu`, `dex2jar` (binaries).
* Of Breakpad: the minidump processor and the stack walkers (they run on a server, not
  in the application), the disassembler, the upload of reports over HTTP, the generators of
  Mac and Windows minidumps (whose threads and files are those of the operating
  system's own functions), command-line tools, and tests.
* Inside the modelled parts: logging, the wording of messages and URLs, register
  contents, DWARF expressions, the visibility of plain fields between Java threads.

## 8. Plan

Theorems next: `FlowInOrder` of `TaskFlow`, and the Linux handler composed with its crash
server. Modules next: the log printer, the data bus and the account manager.
