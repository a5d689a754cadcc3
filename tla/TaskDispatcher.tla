--------------------------- MODULE TaskDispatcher ---------------------------
(***************************************************************************)
(* launchstarter: TaskDispatcher.java, DispatchRunnable.java, Task.java,   *)
(* utils/DispatcherExecutor.java.                                          *)
(*                                                                         *)
(* A dispatcher collects start-up tasks (addTask), sorts them and sends    *)
(* them to the main thread, to the bounded CPU pool or to the unbounded    *)
(* IO pool (start), and lets the UI thread wait for some of them (await).  *)
(* Every task blocks on a CountDownLatch until the tasks it depends on     *)
(* have counted it down.                                                   *)
(*                                                                         *)
(* The UI thread is the process mainPc/mainIdx; status[t] is the program   *)
(* counter of the DispatchRunnable of task t, whichever thread runs it.    *)
(***************************************************************************)
EXTENDS Integers, Sequences, FiniteSets

CONSTANTS
  Tasks,              \* the task classes; one instance of each
  Extra,              \* tasks handed to executeTask, outside the sorted batch
  DependsOn,          \* dependsOn() of each task
  RunOnMain,          \* tasks with runOnMainThread()
  OnCpu,              \* tasks whose runOn() is the CPU pool (else the IO pool)
  NeedWait,           \* tasks with needWait()
  NeedCall,           \* tasks with needCall()
  OnlyInMainProcess,  \* tasks with onlyInMainProcess()
  IsMainProcess,      \* sIsMainProcess
  MayFail,            \* tasks whose run() may throw
  Debug,              \* DispatcherLog.isDebug(); TRUE unless setDebug() is called
  MayCancel,          \* may the client call cancel()?
  PoolSize,           \* CORE_POOL_SIZE = MAXIMUM_POOL_SIZE
  Null                \* the null reference

ASSUME TasksAssumption ==
  /\ IsFiniteSet(Tasks)
  /\ Extra \subseteq Tasks
  /\ DependsOn \in [Tasks -> SUBSET Tasks]

ASSUME AttributesAssumption ==
  /\ RunOnMain \subseteq Tasks
  /\ OnCpu \subseteq Tasks \ RunOnMain
  /\ NeedWait \subseteq Tasks
  /\ NeedCall \subseteq Tasks
  /\ OnlyInMainProcess \subseteq Tasks
  /\ MayFail \subseteq Tasks
  /\ Extra \cap RunOnMain = {}
  /\ IsMainProcess \in BOOLEAN
  /\ MayCancel \in BOOLEAN
  /\ Debug \in BOOLEAN

ASSUME PoolAssumption ==
  /\ PoolSize \in Nat \ {0}
  /\ Null \notin Int
  /\ Null \notin Tasks

VARIABLES
  mainPc,           \* where the UI thread is
  mainIdx,          \* its index in mAllTasks or mMainThreadTasks
  timedOut,         \* did the last await() run into WAITTIME?
  adding,           \* the task of the addTask() call in progress
  todo,             \* the classes collectDepends still has to visit
  cls,              \* the class it is visiting
  mAllTasks,        \* the added tasks; start() replaces them by their sort
  mMainThreadTasks, \* tasks the UI thread runs itself, in order
  mDependedHashMap, \* the children registered for each class
  mFinishedTasks,   \* classes recorded by markTaskDone
  mNeedWaitTasks,   \* tasks await() still has to wait for
  modified,         \* was mNeedWaitTasks changed since await() began to log it?
  mNeedWaitCount,
  mCountDownLatch,
  mDepends,         \* the latch of each task
  status,
  finished,         \* tasks with isFinished()
  interrupted,      \* tasks whose thread cancel() interrupted before they ran
  cpuQueue          \* work queue of the CPU pool

addVars  == <<adding, todo, cls, mDependedHashMap>>
mainVars == <<mainPc, mainIdx, timedOut>>
listVars == <<mAllTasks, mMainThreadTasks>>
waitVars == <<mFinishedTasks, mNeedWaitTasks, modified, mNeedWaitCount,
              mCountDownLatch>>
taskVars == <<mDepends, status, finished, interrupted, cpuQueue>>
vars == <<addVars, mainVars, listVars, waitVars, taskVars>>

-----------------------------------------------------------------------------
Batch == Tasks \ Extra

\* The program counter of a DispatchRunnable: "queued" before run(), "waiting"
\* at waitToSatisfy, "running" in mTask.run(), "ran" when a needCall task of
\* the UI thread has run but call() has not come, then the three steps of
\* markTaskDone, then "done".  "failed": run() threw and the Future keeps the
\* exception.  "cancelled": the Future was cancelled before it ran.
Marking    == {"listing", "counting", "decrementing"}
InProgress == {"waiting", "running"} \cup Marking
Statuses   == {"new", "queued", "ran", "done", "failed", "cancelled"} \cup InProgress

MainPcs == {"client", "collect", "collectCheck", "sending", "mainTasks",
            "awaitLog", "awaitCount", "awaitLatch", "crashed"}

Added == {mAllTasks[i] : i \in DOMAIN mAllTasks}

ifNeedWait(t) == t \notin RunOnMain /\ t \in NeedWait

\* sendAndExecuteAsyncTasks marks these done instead of sending them.
Skipped(t) == t \in OnlyInMainProcess /\ ~IsMainProcess /\ t \notin Extra

BusyCpu == {t \in OnCpu : status[t] \in InProgress /\ ~Skipped(t)}

Started == mCountDownLatch # Null

\* An exception nobody catches ends the process.
Crash == mainPc' = "crashed"

Init ==
  /\ mainPc = "client" /\ mainIdx = 0 /\ timedOut = FALSE
  /\ adding = Null /\ todo = {} /\ cls = Null
  /\ mDependedHashMap = [t \in Tasks |-> {}]
  /\ mAllTasks = <<>> /\ mMainThreadTasks = <<>>
  /\ mFinishedTasks = {} /\ mNeedWaitTasks = {} /\ modified = FALSE
  /\ mNeedWaitCount = 0 /\ mCountDownLatch = Null
  /\ mDepends = [t \in Tasks |-> Cardinality(DependsOn[t])]
  /\ status = [t \in Tasks |-> "new"]
  /\ finished = {} /\ interrupted = {} /\ cpuQueue = <<>>

-----------------------------------------------------------------------------
(* The latches                                                             *)

\* Task.satisfy() on every task of S: CountDownLatch.countDown stops at 0.
satisfy(S) ==
  mDepends' = [t \in Tasks |-> IF t \in S /\ mDepends[t] > 0
                               THEN mDepends[t] - 1 ELSE mDepends[t]]

satisfyChildren(t) == satisfy(mDependedHashMap[t])

-----------------------------------------------------------------------------
(* addTask, a client of the UI thread.  collectDepends visits the classes  *)
(* of dependsOn(); registering the task as a child and looking at          *)
(* mFinishedTasks are two steps, and pool threads run between them once    *)
(* start() was called.  The batch is added before start(), the extra tasks *)
(* (which would never be sent by it) after.                                *)

addTask(t) ==
  /\ mainPc = "client"
  /\ t \notin Added /\ status[t] = "new"
  /\ (t \in Extra) <=> Started
  /\ adding' = t /\ todo' = DependsOn[t]
  /\ mainPc' = "collect"
  /\ UNCHANGED <<cls, mDependedHashMap, mainIdx, timedOut, listVars, waitVars,
                 taskVars>>

collectDepends(d) ==
  /\ mainPc = "collect" /\ d \in todo
  /\ mDependedHashMap' = [mDependedHashMap EXCEPT ![d] = @ \cup {adding}]
  /\ cls' = d /\ mainPc' = "collectCheck"
  /\ UNCHANGED <<adding, todo, mainIdx, timedOut, listVars, waitVars, taskVars>>

collectCheck ==
  /\ mainPc = "collectCheck"
  /\ satisfy(IF cls \in mFinishedTasks THEN {adding} ELSE {})
  /\ todo' = todo \ {cls} /\ cls' = Null /\ mainPc' = "collect"
  /\ UNCHANGED <<adding, mDependedHashMap, mainIdx, timedOut, listVars,
                 waitVars, status, finished, interrupted, cpuQueue>>

addTaskEnd ==
  /\ mainPc = "collect" /\ todo = {}
  /\ mAllTasks' = Append(mAllTasks, adding)
  /\ IF ifNeedWait(adding)
     THEN /\ mNeedWaitTasks' = mNeedWaitTasks \cup {adding}
          /\ mNeedWaitCount' = mNeedWaitCount + 1
     ELSE UNCHANGED <<mNeedWaitTasks, mNeedWaitCount>>
  /\ adding' = Null /\ mainPc' = "client"
  /\ UNCHANGED <<todo, cls, mDependedHashMap, mainIdx, timedOut,
                 mMainThreadTasks, mFinishedTasks, modified, mCountDownLatch,
                 taskVars>>

-----------------------------------------------------------------------------
(* start, on the UI thread                                                 *)

\* Mutant: the tasks are sent in any order.
IsSortResultUnsorted(s) == \A i, j \in DOMAIN s : i # j => s[i] # s[j]

\* What TaskSortUtil.getSortResult returns the first time it is called (module
\* TaskSort): the added tasks, each after the tasks it depends on.
IsSortResult(s) ==
  /\ \A i, j \in DOMAIN s : i # j => s[i] # s[j]
  /\ \A i \in DOMAIN s : \A d \in DependsOn[s[i]] : \E j \in 1..(i - 1) : s[j] = d

SortResults ==
  {s \in [DOMAIN mAllTasks -> Added] : IsSortResult(s)}

start(s) ==
  /\ mainPc = "client" /\ ~Started /\ mAllTasks # <<>>
  /\ s \in SortResults
  /\ mAllTasks' = s
  /\ mCountDownLatch' = mNeedWaitCount
  /\ mainPc' = "sending" /\ mainIdx' = 1
  /\ UNCHANGED <<addVars, timedOut, mMainThreadTasks, mFinishedTasks,
                 mNeedWaitTasks, modified, mNeedWaitCount, taskVars>>

\* A dependency that was not added, or a cycle: getSortResult throws.
startThrows ==
  /\ mainPc = "client" /\ ~Started /\ mAllTasks # <<>>
  /\ SortResults = {}
  /\ Crash
  /\ UNCHANGED <<addVars, mainIdx, timedOut, listVars, waitVars, taskVars>>

\* One iteration of sendAndExecuteAsyncTasks.  A skipped task is marked done on
\* the UI thread, which goes on when markTaskDone has returned.
sendTask ==
  /\ mainPc = "sending" /\ mainIdx <= Len(mAllTasks)
  /\ \A t \in Tasks : Skipped(t) => status[t] \notin Marking
  /\ LET t == mAllTasks[mainIdx] IN
     /\ status' = [status EXCEPT ![t] = IF ~Skipped(t) THEN "queued"
                                        ELSE IF ifNeedWait(t) THEN "listing"
                                        ELSE "done"]
     /\ mMainThreadTasks' = IF t \in RunOnMain /\ ~Skipped(t)
                            THEN Append(mMainThreadTasks, t) ELSE mMainThreadTasks
     /\ cpuQueue' = IF t \in OnCpu /\ ~Skipped(t)
                    THEN Append(cpuQueue, t) ELSE cpuQueue
  /\ mainIdx' = mainIdx + 1
  /\ UNCHANGED <<addVars, mainPc, timedOut, mAllTasks, waitVars, mDepends,
                 finished, interrupted>>

sendEnd ==
  /\ mainPc = "sending" /\ mainIdx > Len(mAllTasks)
  /\ \A t \in Tasks : Skipped(t) => status[t] \notin Marking
  /\ mainPc' = "mainTasks" /\ mainIdx' = 1
  /\ UNCHANGED <<addVars, timedOut, listVars, waitVars, taskVars>>

executeTaskMainEnd ==
  /\ mainPc = "mainTasks" /\ mainIdx > Len(mMainThreadTasks)
  /\ mainPc' = "client" /\ mainIdx' = 0
  /\ UNCHANGED <<addVars, timedOut, listVars, waitVars, taskVars>>

-----------------------------------------------------------------------------
(* DispatchRunnable.run of task t                                          *)

\* The UI thread runs its tasks in order, the CPU pool hands out its queue in
\* order to at most PoolSize threads, the IO pool has a thread for every task.
HasThread(t) ==
  IF t \in RunOnMain
  THEN /\ mainPc = "mainTasks" /\ mainIdx <= Len(mMainThreadTasks)
       /\ mMainThreadTasks[mainIdx] = t
  ELSE t \in OnCpu => /\ cpuQueue # <<>> /\ Head(cpuQueue) = t
                      /\ Cardinality(BusyCpu) < PoolSize

runBegin(t) ==
  /\ mainPc # "crashed" /\ status[t] = "queued" /\ HasThread(t)
  /\ status' = [status EXCEPT ![t] = "waiting"]
  /\ cpuQueue' = IF t \in OnCpu THEN Tail(cpuQueue) ELSE cpuQueue
  /\ UNCHANGED <<addVars, mainVars, listVars, waitVars, mDepends, finished,
                 interrupted>>

\* Mutant: the latch opens one dependency early.
waitToSatisfyEarly(t) ==
  /\ mainPc # "crashed" /\ status[t] = "waiting"
  /\ mDepends[t] <= 1 \/ t \in interrupted
  /\ status' = [status EXCEPT ![t] = "running"]
  /\ UNCHANGED <<addVars, mainVars, listVars, waitVars, mDepends, finished,
                 interrupted, cpuQueue>>

\* An interrupted waitToSatisfy() returns at once: the exception is printed.
waitToSatisfy(t) ==
  /\ mainPc # "crashed" /\ status[t] = "waiting"
  /\ mDepends[t] = 0 \/ t \in interrupted
  /\ status' = [status EXCEPT ![t] = "running"]
  /\ UNCHANGED <<addVars, mainVars, listVars, waitVars, mDepends, finished,
                 interrupted, cpuQueue>>

\* The UI thread goes on to its next task.
MainReturns(t) ==
  mainIdx' = IF t \in RunOnMain THEN mainIdx + 1 ELSE mainIdx

runTask(t) ==
  /\ mainPc # "crashed" /\ status[t] = "running"
  /\ MainReturns(t)
  /\ IF t \in NeedCall /\ t \in RunOnMain
     THEN /\ status' = [status EXCEPT ![t] = "ran"]
          /\ UNCHANGED <<finished, mDepends>>
     ELSE /\ status' = [status EXCEPT ![t] = IF ifNeedWait(t) THEN "listing" ELSE "done"]
          /\ finished' = finished \cup {t}
          /\ satisfyChildren(t)
  /\ UNCHANGED <<addVars, mainPc, timedOut, listVars, waitVars, interrupted,
                 cpuQueue>>

\* run() throws: a Future swallows it; executeTask() and the UI thread do not.
runThrows(t) ==
  /\ mainPc # "crashed" /\ status[t] = "running" /\ t \in MayFail
  /\ status' = [status EXCEPT ![t] = "failed"]
  /\ IF t \in RunOnMain \cup Extra THEN Crash ELSE UNCHANGED mainPc
  /\ UNCHANGED <<addVars, mainIdx, timedOut, listVars, waitVars, mDepends,
                 finished, interrupted, cpuQueue>>

\* addTask() registers another child while satisfyChildren() iterates over the
\* children: the iterator throws when some of them have been satisfied.
satisfyRace(t) ==
  /\ mainPc = "collect" /\ t \in todo /\ mDependedHashMap[t] # {}
  /\ status[t] = "running"
  /\ finished' = finished \cup {t}
  /\ \E S \in SUBSET mDependedHashMap[t] : satisfy(S)
  /\ status' = [status EXCEPT ![t] = "failed"]
  /\ IF t \in Extra THEN Crash ELSE UNCHANGED mainPc
  /\ UNCHANGED <<addVars, mainIdx, timedOut, listVars, waitVars, interrupted,
                 cpuQueue>>

\* TaskCallBack.call() of a needCall task that ran on the UI thread.
call(t) ==
  /\ mainPc # "crashed" /\ status[t] = "ran"
  /\ status' = [status EXCEPT ![t] = "done"]
  /\ finished' = finished \cup {t}
  /\ satisfyChildren(t)
  /\ UNCHANGED <<addVars, mainVars, listVars, waitVars, interrupted, cpuQueue>>

-----------------------------------------------------------------------------
(* markTaskDone of a task with ifNeedWait: the two lists, the latch and    *)
(* the counter are three steps of the thread that ends the task.  The      *)
(* lists are plain ArrayLists: when two threads are in this step an add    *)
(* can be lost, and a remove can be lost or hit a neighbour.               *)

MarkersBesides(t) == {u \in Tasks \ {t} : status[u] = "listing"}

markLists(t) ==
  /\ mainPc # "crashed" /\ status[t] = "listing"
  /\ status' = [status EXCEPT ![t] = "counting"]
  /\ mFinishedTasks' \in {mFinishedTasks \cup {t}} \cup
                         (IF MarkersBesides(t) = {} THEN {} ELSE {mFinishedTasks})
  /\ mNeedWaitTasks' \in {mNeedWaitTasks \ {t}} \cup
       (IF MarkersBesides(t) = {} THEN {}
        ELSE {mNeedWaitTasks} \cup {mNeedWaitTasks \ {u} : u \in Tasks})
  /\ modified' = (modified \/ (mainPc = "awaitLog" /\ mNeedWaitTasks # {}))
  /\ UNCHANGED <<addVars, mainVars, listVars, mNeedWaitCount, mCountDownLatch,
                 mDepends, finished, interrupted, cpuQueue>>

\* A task of executeTask() may end before start() has made the latch.
countDown(t) ==
  /\ mainPc # "crashed" /\ status[t] = "counting"
  /\ status' = [status EXCEPT ![t] = "decrementing"]
  /\ IF Started
     THEN /\ mCountDownLatch' = IF mCountDownLatch > 0 THEN mCountDownLatch - 1 ELSE 0
          /\ UNCHANGED mainPc
     ELSE Crash /\ UNCHANGED mCountDownLatch
  /\ UNCHANGED <<addVars, mainIdx, timedOut, listVars, mFinishedTasks,
                 mNeedWaitTasks, modified, mNeedWaitCount, mDepends, finished,
                 interrupted, cpuQueue>>

decrement(t) ==
  /\ mainPc # "crashed" /\ status[t] = "decrementing"
  /\ status' = [status EXCEPT ![t] = "done"]
  /\ mNeedWaitCount' = mNeedWaitCount - 1
  /\ UNCHANGED <<addVars, mainVars, listVars, mFinishedTasks, mNeedWaitTasks,
                 modified, mCountDownLatch, mDepends, finished, interrupted,
                 cpuQueue>>

-----------------------------------------------------------------------------
(* executeTask and cancel may be called by any thread.                     *)

executeTask(t) ==
  /\ mainPc # "crashed" /\ t \in Extra /\ status[t] = "new" /\ t # adding
  /\ mNeedWaitCount' = mNeedWaitCount + (IF ifNeedWait(t) THEN 1 ELSE 0)
  /\ status' = [status EXCEPT ![t] = "queued"]
  /\ cpuQueue' = IF t \in OnCpu THEN Append(cpuQueue, t) ELSE cpuQueue
  /\ UNCHANGED <<addVars, mainVars, listVars, mFinishedTasks, mNeedWaitTasks,
                 modified, mCountDownLatch, mDepends, finished, interrupted>>

\* The tasks with a Future that has not run to its end.
Futures(S) == {t \in Batch \ RunOnMain : status[t] \in S}

\* future.cancel(true) for every Future: one that waits in a queue never runs,
\* the thread of one that waits for its dependencies is interrupted.
cancel ==
  /\ MayCancel /\ mainPc \notin {"crashed", "sending"}
  /\ Futures({"queued", "waiting"}) # {}
  /\ status' = [t \in Tasks |-> IF t \in Futures({"queued"}) THEN "cancelled"
                                ELSE status[t]]
  /\ interrupted' = interrupted \cup Futures({"waiting"})
  /\ UNCHANGED <<addVars, mainVars, listVars, waitVars, mDepends, finished,
                 cpuQueue>>

\* A pool thread takes a cancelled Future, which returns at once.
runCancelled(t) ==
  /\ mainPc # "crashed" /\ status[t] = "cancelled"
  /\ t \in OnCpu /\ HasThread(t)
  /\ cpuQueue' = Tail(cpuQueue)
  /\ UNCHANGED <<addVars, mainVars, listVars, waitVars, mDepends, status,
                 finished, interrupted>>

-----------------------------------------------------------------------------
(* await, on the UI thread                                                 *)

await ==
  /\ mainPc = "client"
  /\ mainPc' = IF Debug THEN "awaitLog" ELSE "awaitCount"
  /\ timedOut' = FALSE
  /\ UNCHANGED <<addVars, mainIdx, listVars, waitVars, taskVars>>

awaitLog ==
  /\ mainPc = "awaitLog"
  /\ mainPc' = "awaitCount" /\ modified' = FALSE
  /\ UNCHANGED <<addVars, mainIdx, timedOut, listVars, mFinishedTasks,
                 mNeedWaitTasks, mNeedWaitCount, mCountDownLatch, taskVars>>

\* The debug log iterates over mNeedWaitTasks: a pool thread that removed one
\* meanwhile makes the iterator throw.
awaitLogThrows ==
  /\ mainPc = "awaitLog" /\ modified
  /\ Crash
  /\ UNCHANGED <<addVars, mainIdx, timedOut, listVars, waitVars, taskVars>>

\* Mutant: await() does not wait for the last task.
awaitCountLast ==
  /\ mainPc = "awaitCount"
  /\ mainPc' = IF mNeedWaitCount <= 1 THEN "client"
               ELSE IF Started THEN "awaitLatch" ELSE "crashed"
  /\ UNCHANGED <<addVars, mainIdx, timedOut, listVars, waitVars, taskVars>>

awaitCount ==
  /\ mainPc = "awaitCount"
  /\ mainPc' = IF mNeedWaitCount <= 0 THEN "client"
               ELSE IF Started THEN "awaitLatch" ELSE "crashed"
  /\ UNCHANGED <<addVars, mainIdx, timedOut, listVars, waitVars, taskVars>>

awaitLatch ==
  /\ mainPc = "awaitLatch" /\ mCountDownLatch = 0
  /\ mainPc' = "client"
  /\ UNCHANGED <<addVars, mainIdx, timedOut, listVars, waitVars, taskVars>>

\* WAITTIME has passed.
awaitTimeout ==
  /\ mainPc = "awaitLatch" /\ mCountDownLatch > 0
  /\ mainPc' = "client" /\ timedOut' = TRUE
  /\ UNCHANGED <<addVars, mainIdx, listVars, waitVars, taskVars>>

-----------------------------------------------------------------------------
\* The steps of the threads that run task t.
TaskStep(t) ==
  \/ runBegin(t) \/ waitToSatisfy(t) \/ runTask(t) \/ runThrows(t)
  \/ satisfyRace(t) \/ call(t) \/ markLists(t) \/ countDown(t) \/ decrement(t)
  \/ runCancelled(t)

\* The steps of the UI thread inside a call of the dispatcher.
MainStep ==
  \/ \E d \in Tasks : collectDepends(d)
  \/ collectCheck \/ addTaskEnd \/ sendTask \/ sendEnd \/ executeTaskMainEnd
  \/ awaitLog \/ awaitLogThrows \/ awaitCount \/ awaitLatch \/ awaitTimeout

\* The calls clients make.  (~Started, a guard of start too, spares TLC the
\* enumeration of SortResults in later states.)
ClientStep ==
  \/ \E t \in Tasks : addTask(t) \/ executeTask(t)
  \/ ~Started /\ \E s \in SortResults : start(s)
  \/ startThrows \/ cancel \/ await

Next == MainStep \/ ClientStep \/ \E t \in Tasks : TaskStep(t)

Spec == Init /\ [][Next]_vars

\* Threads do not stop between two steps, and call() comes.
Fairness == WF_vars(MainStep) /\ \A t \in Tasks : WF_vars(TaskStep(t))
FairSpec == Spec /\ Fairness

-----------------------------------------------------------------------------
(* Properties                                                              *)

TypeOK ==
  /\ mainPc \in MainPcs /\ mainIdx \in Nat /\ timedOut \in BOOLEAN
  /\ mainPc \in {"sending", "mainTasks"} => mainIdx > 0
  /\ adding \in Tasks \cup {Null} /\ todo \subseteq Tasks
  /\ mainPc \in {"collect", "collectCheck"} => adding \in Tasks
  /\ cls \in Tasks \cup {Null}
  /\ mDependedHashMap \in [Tasks -> SUBSET Tasks]
  /\ mAllTasks \in Seq(Tasks) /\ mMainThreadTasks \in Seq(Tasks)
  /\ mFinishedTasks \subseteq Tasks /\ mNeedWaitTasks \subseteq Tasks
  /\ modified \in BOOLEAN
  /\ mNeedWaitCount \in Int /\ mCountDownLatch \in Nat \cup {Null}
  /\ mDepends \in [Tasks -> Nat]
  /\ status \in [Tasks -> Statuses]
  /\ finished \subseteq Tasks /\ interrupted \subseteq Tasks
  /\ cpuQueue \in Seq(Tasks)

\* The body of t has been entered.
Ran(t) ==
  /\ status[t] \in {"running", "ran", "done", "failed"} \cup Marking
  /\ ~Skipped(t)

\* A task of the batch that was not interrupted runs only when every task it
\* depends on has finished, whatever threads the tasks run on and whatever
\* their latches were counted down by.
DependenciesFirst ==
  \A t \in Batch \ interrupted : Ran(t) => DependsOn[t] \subseteq finished

\* The tasks await() is there for.
Awaited == {t \in Added \cap Batch : ifNeedWait(t) /\ ~Skipped(t)}

\* When await() returns before WAITTIME is over, every task of the batch with
\* needWait() that does not run on the UI thread has finished.
AwaitComplete ==
  [][(/\ mainPc \in {"awaitCount", "awaitLatch"}
      /\ mainPc' = "client" /\ ~timedOut') => Awaited \subseteq finished]_vars

\* Every task that was sent finishes, although the CPU pool is bounded and its
\* threads block in waitToSatisfy: the pool never fills up with tasks that wait
\* for tasks behind them in its queue or in the list of the UI thread.
\* (A task is sent once, so that again and again there is none in between.)
SentTasksFinish == []<>(\A t \in Tasks : status[t] \in {"new", "done"})

\* start() hands the UI thread back.
StartReturns == mainPc = "sending" ~> mainPc = "client"

(* What the comments of the code say, and the code does not keep.          *)

\* Task.java: a task waits until the tasks it depends on have finished.
DependenciesFirstDespiteCancel ==
  \A t \in Batch : Ran(t) => DependsOn[t] \subseteq finished

\* The same for the tasks that are added and executed after start().
DependenciesFirstWhenAddedLate ==
  \A t \in Tasks \ interrupted : Ran(t) => DependsOn[t] \subseteq finished

\* await() hands the UI thread back.
AwaitNeverThrows == mainPc = "crashed" => ~modified
====
