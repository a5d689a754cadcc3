------------------------------ MODULE TaskFlow ------------------------------
(***************************************************************************)
(* hi-library: taskflow/Task.kt, TaskRuntime.kt, TaskFlowManager.kt.       *)
(*                                                                         *)
(* Start-up tasks with dependencies.  A task that ends notifies the tasks  *)
(* behind it; the one that removes the last dependency of a task starts    *)
(* it: on the pool if it is asynchronous, else at once in the same thread, *)
(* or later through the list of waiting tasks.  TaskFlowManager.start()    *)
(* keeps the main thread until the block tasks have finished.              *)
(*                                                                         *)
(* Calls nest: every thread has a stack of the tasks whose run() it is in. *)
(* Priority queues and sorts order by priority; the order of equals is     *)
(* left open.                                                              *)
(***************************************************************************)
EXTENDS Integers, Sequences, FiniteSets

CONSTANTS
  Tasks,
  Graphs,      \* the behindTasks, in the order they were added, to start with
  StartTask,   \* the task given to start(), or the start of the Project
  Critical,    \* the start and end tasks of Projects
  Async,       \* tasks with isAsyncTask
  Delayed,     \* tasks with delayMills > 0
  Block,       \* the ids given to addBlockTask()
  Priority,    \* priority of each task
  Main, Pool   \* the main thread and the threads of HiExecutor

VARIABLES
  graph,         \* the behindTasks when start() was called
  mainPc,        \* where TaskFlowManager.start() is
  stack,         \* the frames of each thread, the innermost last
  queued,        \* how often each task is queued in HiExecutor
  posted,        \* how often each task is with MainHandler.postDelay
  state,         \* of each task
  dependTasks,
  behindTasks,
  blockTaskId,
  waitingTasks,
  starts         \* how often start() of each task got past its check

lists == <<dependTasks, behindTasks>>
runtime == <<queued, posted, waitingTasks>>
vars == <<graph, mainPc, stack, runtime, state, lists, blockTaskId, starts>>

Threads == {Main} \cup Pool
MainPcs == {"init", "starting", "outer", "inner", "runWaiting", "removeHead",
            "returned", "crashed"}

\* A frame is inside run() of task; left are the tasks behind it that are still
\* to be notified, cur the one that is being notified.
FramePcs == {"toRunning", "run", "removeBlock", "notify", "loop", "remove",
             "isEmpty", "start", "toStart", "recycle"}
Frames == [task : Tasks, pc : FramePcs, left : SUBSET Tasks, cur : Tasks]
Frame(t) == [task |-> t, pc |-> "toRunning", left |-> {}, cur |-> t]

ElementsOf(s) == {s[i] : i \in DOMAIN s}
Behind(t) == ElementsOf(graph[t])
Before(t) == {d \in Tasks : t \in Behind(d)}

Init ==
  /\ graph \in Graphs
  /\ mainPc = "init"
  /\ stack = [th \in Threads |-> <<>>]
  /\ queued = [t \in Tasks |-> 0]
  /\ posted = [t \in Tasks |-> 0]
  /\ waitingTasks = {}
  /\ state = [t \in Tasks |-> "IDLE"]
  /\ dependTasks = [t \in Tasks |-> Before(t)]
  /\ behindTasks = [t \in Tasks |-> Behind(t)]
  /\ blockTaskId = Block
  /\ starts = [t \in Tasks |-> 0]

-----------------------------------------------------------------------------
(* The tree of tasks                                                       *)

\* What can be reached from task t in one step or more.
Reach(t) ==
  {x \in Tasks : \A S \in SUBSET Tasks :
     (Behind(t) \subseteq S /\ \A s \in S : Behind(s) \subseteq S) => x \in S}

\* The tasks of the tree, and whether the path to one comes back to it.
Tree == {StartTask} \cup Reach(StartTask)
Loopback == \E t \in Tree : t \in Reach(t)

\* A block task and all it depends on are raised to the highest priority.
Raised(t) == \E b \in Block : b = t \/ b \in Reach(t)
Precedes(t, o) == Raised(t) \/ (~Raised(o) /\ Priority[t] >= Priority[o])
Foremost(S) == {t \in S : \A o \in S : Precedes(t, o)}

\* hasBlockBehindTask: the first task behind decides, at every level; n bounds
\* the depth.
BlockBehind[n \in Nat] ==
  [t \in Tasks |->
     /\ n > 0 /\ t \notin Critical /\ graph[t] # <<>>
     /\ \/ graph[t][1] \in Block
        \/ BlockBehind[n - 1][graph[t][1]]]
hasBlockBehindTask(t) == BlockBehind[Cardinality(Tasks)][t]

-----------------------------------------------------------------------------
(* The threads                                                             *)

Alive == mainPc # "crashed"

\* Mutant: the last block task is not waited for.
hasBlockTasksSeveral == Cardinality(blockTaskId) > 1

hasBlockTasks == blockTaskId # {}

Idle(th) == stack[th] = <<>>
Top(th) == stack[th][Len(stack[th])]
Below(th) == SubSeq(stack[th], 1, Len(stack[th]) - 1)
At(th, p) == Alive /\ ~Idle(th) /\ Top(th).pc = p

\* Thread th calls or returns: its frames become s.
SetStack(th, s) == stack' = [stack EXCEPT ![th] = s]
Goto(th, frame) == SetStack(th, Append(Below(th), frame))
Jump(th, p) == Goto(th, [Top(th) EXCEPT !.pc = p])

\* An exception nobody catches ends the process, on any thread.
Crash == mainPc' = "crashed" /\ UNCHANGED <<graph, stack, runtime, state, lists,
                                            blockTaskId, starts>>

\* remove(x) on a plain ArrayList: when other threads are removing theirs too,
\* the removal may be lost or hit a neighbour.
Removals(S, x, others) ==
  {S \ {x}} \cup (IF x \in S /\ others \cap S # {} THEN {S} \cup {S \ {y} : y \in S}
                 ELSE {})

-----------------------------------------------------------------------------
(* TaskRuntime                                                             *)

\* TaskRuntime.executeTask in thread th, whose frames are s when it returns.
\* The list of waiting tasks is a plain ArrayList too: an add that meets the
\* main thread's removeAt may be lost.
executeTask(th, t, s) ==
  \/ /\ t \in Async
     /\ queued' = [queued EXCEPT ![t] = @ + 1]
     /\ SetStack(th, s) /\ UNCHANGED <<posted, waitingTasks>>
  \/ /\ t \notin Async /\ t \in Delayed /\ ~hasBlockBehindTask(t)
     /\ posted' = [posted EXCEPT ![t] = @ + 1]
     /\ SetStack(th, s) /\ UNCHANGED <<queued, waitingTasks>>
  \/ /\ t \notin Async /\ (t \in Delayed => hasBlockBehindTask(t))
     /\ ~hasBlockTasks \/ t \in Block
     /\ SetStack(th, Append(s, Frame(t)))
     /\ UNCHANGED runtime
  \/ /\ t \notin Async /\ (t \in Delayed => hasBlockBehindTask(t))
     /\ hasBlockTasks /\ t \notin Block
     /\ \/ waitingTasks' = waitingTasks \cup {t}
        \/ th # Main /\ mainPc = "removeHead" /\ UNCHANGED waitingTasks
     /\ SetStack(th, s) /\ UNCHANGED <<queued, posted>>

\* start() checks the tree and raises priorities before anything runs: a loop
\* or a block task outside the tree is an exception.
traversalDependencyTreeAndInit ==
  /\ mainPc = "init"
  /\ IF Loopback \/ ~(Block \subseteq Tree)
     THEN Crash
     ELSE /\ mainPc' = "starting"
          /\ UNCHANGED <<graph, stack, runtime, state, lists, blockTaskId, starts>>

startFirst ==
  /\ mainPc = "starting"
  /\ mainPc' = "outer"
  /\ state' = [state EXCEPT ![StartTask] = "START"]
  /\ starts' = [starts EXCEPT ![StartTask] = @ + 1]
  /\ executeTask(Main, StartTask, <<>>)
  /\ UNCHANGED <<graph, lists, blockTaskId>>

MainAt(p) == mainPc = p /\ Idle(Main)
MainGoto(p) ==
  /\ mainPc' = p
  /\ UNCHANGED <<graph, state, lists, blockTaskId, starts>>

\* while (hasBlockTasks()) { sleep; while (hasBlockTasks()) runWaitingTasks() }
outerLoop ==
  /\ MainAt("outer")
  /\ MainGoto(IF hasBlockTasks THEN "inner" ELSE "returned")
  /\ UNCHANGED <<stack, runtime>>

innerLoop ==
  /\ MainAt("inner")
  /\ MainGoto(IF hasBlockTasks THEN "runWaiting" ELSE "outer")
  /\ UNCHANGED <<stack, runtime>>

\* runWaitingTasks reads the block tasks twice: pool threads may finish the
\* last one before either.  removeAt(0) throws on an empty list.
runWaitingTasks ==
  /\ MainAt("runWaiting")
  /\ MainGoto(IF hasBlockTasks THEN "removeHead" ELSE "inner")
  /\ UNCHANGED <<stack, runtime>>

removeHead ==
  /\ MainAt("removeHead") /\ hasBlockTasks /\ waitingTasks # {}
  /\ \E head \in Foremost(waitingTasks) :
       /\ waitingTasks' = waitingTasks \ {head}
       /\ SetStack(Main, <<Frame(head)>>)
  /\ MainGoto("inner")
  /\ UNCHANGED <<queued, posted>>

removeHeadOfNone ==
  MainAt("removeHead") /\ hasBlockTasks /\ waitingTasks = {} /\ Crash

postWaiting ==
  /\ MainAt("removeHead") /\ ~hasBlockTasks
  /\ posted' = [t \in Tasks |-> IF t \in waitingTasks THEN posted[t] + 1 ELSE posted[t]]
  /\ waitingTasks' = {}
  /\ MainGoto("inner")
  /\ UNCHANGED <<stack, queued>>

-----------------------------------------------------------------------------
(* Task.run(), one frame of thread th                                      *)

\* A thread of the pool takes a queued task; the main looper runs a posted one
\* once start() has returned.
take(th, t) ==
  /\ Alive /\ th \in Pool /\ Idle(th) /\ queued[t] > 0
  /\ queued' = [queued EXCEPT ![t] = @ - 1]
  /\ SetStack(th, <<Frame(t)>>)
  /\ UNCHANGED <<graph, mainPc, posted, waitingTasks, state, lists, blockTaskId, starts>>

dispatchMessage(t) ==
  /\ MainAt("returned") /\ posted[t] > 0
  /\ posted' = [posted EXCEPT ![t] = @ - 1]
  /\ SetStack(Main, <<Frame(t)>>)
  /\ UNCHANGED <<graph, mainPc, queued, waitingTasks, state, lists, blockTaskId, starts>>

toRunning(th) ==
  /\ At(th, "toRunning")
  /\ state' = [state EXCEPT ![Top(th).task] = "RUNNING"]
  /\ Jump(th, "run")
  /\ UNCHANGED <<graph, mainPc, runtime, lists, blockTaskId, starts>>

\* run(id) returns and toFinish() follows, removeBlockTask last.
toFinish(th) ==
  /\ At(th, "run")
  /\ state' = [state EXCEPT ![Top(th).task] = "FINISHED"]
  /\ Jump(th, "removeBlock")
  /\ UNCHANGED <<graph, mainPc, runtime, lists, blockTaskId, starts>>

removeBlockTask(th) ==
  /\ At(th, "removeBlock")
  /\ LET others == {Top(o).task : o \in {o \in Threads \ {th} : At(o, "removeBlock")}}
     IN blockTaskId' \in Removals(blockTaskId, Top(th).task, others)
  /\ Jump(th, "notify")
  /\ UNCHANGED <<graph, mainPc, runtime, state, lists, starts>>

notifyBehindTasks(th) ==
  /\ At(th, "notify")
  /\ LET t == Top(th).task IN
     Goto(th, [Top(th) EXCEPT !.pc = IF behindTasks[t] = {} THEN "recycle" ELSE "loop",
                              !.left = behindTasks[t]])
  /\ UNCHANGED <<graph, mainPc, runtime, state, lists, blockTaskId, starts>>

\* The next task behind, and the early return of dependTaskFinished for a task
\* that has none behind itself.
dependTaskFinished(th) ==
  /\ At(th, "loop") /\ Top(th).left # {}
  /\ behindTasks[Top(th).task] # {}
  /\ \E b \in Foremost(Top(th).left) :
       Goto(th, [Top(th) EXCEPT !.pc = IF behindTasks[b] = {} THEN "loop" ELSE "remove",
                                !.left = @ \ {b}, !.cur = b])
  /\ UNCHANGED <<graph, mainPc, runtime, state, lists, blockTaskId, starts>>

loopEnd(th) ==
  /\ At(th, "loop") /\ Top(th).left = {}
  /\ behindTasks[Top(th).task] # {}
  /\ Jump(th, "recycle")
  /\ UNCHANGED <<graph, mainPc, runtime, state, lists, blockTaskId, starts>>

\* A second run() of the same task has cleared the list under the iterator.
concurrentModification(th) ==
  At(th, "loop") /\ behindTasks[Top(th).task] = {} /\ Crash

removeDepend(th) ==
  /\ At(th, "remove")
  /\ LET b == Top(th).cur
         others == {Top(o).task :
                      o \in {o \in Threads \ {th} : At(o, "remove") /\ Top(o).cur = b}}
     IN \E S \in Removals(dependTasks[b], Top(th).task, others) :
          dependTasks' = [dependTasks EXCEPT ![b] = S]
  /\ Jump(th, "isEmpty")
  /\ UNCHANGED <<graph, mainPc, runtime, state, behindTasks, blockTaskId, starts>>

dependTasksEmpty(th) ==
  /\ At(th, "isEmpty")
  /\ Jump(th, IF dependTasks[Top(th).cur] = {} THEN "start" ELSE "loop")
  /\ UNCHANGED <<graph, mainPc, runtime, state, lists, blockTaskId, starts>>

\* start() throws when the task has left IDLE.
start(th) ==
  /\ At(th, "start") /\ state[Top(th).cur] = "IDLE"
  /\ Jump(th, "toStart")
  /\ UNCHANGED <<graph, mainPc, runtime, state, lists, blockTaskId, starts>>

startAgain(th) == At(th, "start") /\ state[Top(th).cur] # "IDLE" /\ Crash

toStart(th) ==
  /\ At(th, "toStart")
  /\ state' = [state EXCEPT ![Top(th).cur] = "START"]
  /\ starts' = [starts EXCEPT ![Top(th).cur] = @ + 1]
  /\ executeTask(th, Top(th).cur, Append(Below(th), [Top(th) EXCEPT !.pc = "loop"]))
  /\ UNCHANGED <<graph, mainPc, lists, blockTaskId>>

recycle(th) ==
  /\ At(th, "recycle")
  /\ dependTasks' = [dependTasks EXCEPT ![Top(th).task] = {}]
  /\ behindTasks' = [behindTasks EXCEPT ![Top(th).task] = {}]
  /\ SetStack(th, Below(th))
  /\ UNCHANGED <<graph, mainPc, runtime, state, blockTaskId, starts>>

-----------------------------------------------------------------------------
StartStep ==
  \/ traversalDependencyTreeAndInit \/ startFirst
  \/ outerLoop \/ innerLoop \/ runWaitingTasks
  \/ removeHead \/ removeHeadOfNone \/ postWaiting
  \/ \E t \in Tasks : dispatchMessage(t)

ThreadStep(th) ==
  \/ \E t \in Tasks : take(th, t)
  \/ toRunning(th) \/ toFinish(th) \/ removeBlockTask(th)
  \/ notifyBehindTasks(th) \/ dependTaskFinished(th) \/ loopEnd(th)
  \/ concurrentModification(th)
  \/ removeDepend(th) \/ dependTasksEmpty(th)
  \/ start(th) \/ startAgain(th) \/ toStart(th)
  \/ recycle(th)

Next == StartStep \/ \E th \in Threads : ThreadStep(th)

Spec == Init /\ [][Next]_vars

\* Every thread goes on, and run(id) of every task returns.
FairSpec ==
  /\ Spec
  /\ WF_vars(StartStep)
  /\ \A th \in Threads : WF_vars(ThreadStep(th))

-----------------------------------------------------------------------------
(* Properties                                                              *)

\* Types: counters, sets of tasks and well-formed frames on every stack.
TypeOK ==
  /\ graph \in Graphs /\ mainPc \in MainPcs
  /\ DOMAIN stack = Threads
  /\ \A th \in Threads : \A i \in DOMAIN stack[th] : stack[th][i] \in Frames
  /\ queued \in [Tasks -> Nat] /\ posted \in [Tasks -> Nat]
  /\ waitingTasks \subseteq Tasks
  /\ state \in [Tasks -> {"IDLE", "START", "RUNNING", "FINISHED"}]
  /\ dependTasks \in [Tasks -> SUBSET Tasks]
  /\ behindTasks \in [Tasks -> SUBSET Tasks]
  /\ blockTaskId \subseteq Block
  /\ starts \in [Tasks -> Nat]

\* No task is started twice.  Task.start() refuses a task that has been started:
\* "cannot run task $id again" (Task.kt:58).
StartedOnce == \A t \in Tasks : starts[t] <= 1

\* A task is started only after everything it depends on has finished, even when
\* the unsynchronised removals of two dependencies on different threads spoil
\* each other.  (A second start puts a finished task back to START, so this
\* holds as long as there was none.)
DependenciesFirst ==
  StartedOnce => \A t \in Tasks \ {StartTask} :
    state[t] # "IDLE" => \A d \in Before(t) : state[d] = "FINISHED"

\* TaskFlowManager.start() lets the main thread go only when every block task
\* has finished, although pool threads take them off blockTaskId unsynchronised.
BlockDoneBeforeReturn ==
  StartedOnce /\ mainPc = "returned" => \A b \in Block : state[b] = "FINISHED"

\* An accepted tree in which each task has one dependency runs to the end:
\* every task with a task behind it finishes, on whatever threads they are, and
\* start() returns.
TreeFinishes ==
  mainPc = "starting" ~>
    mainPc = "returned" /\ \A t \in Tree : Behind(t) # {} => state[t] = "FINISHED"

\* start() never dies on its list of waiting tasks: it sleeps so that the
\* asynchronous tasks get their chance (TaskFlowManager.kt:34).
StartSurvives == ~(MainAt("removeHead") /\ hasBlockTasks /\ waitingTasks = {})

\* A task whose dependencies have all finished is executed (Task.kt:30-31),
\* when no exception ends the process.
ReadyTaskRuns ==
  \A t \in Tasks :
    (t \in Tree /\ Before(t) # {} /\ \A d \in Before(t) : state[d] = "FINISHED")
      ~> (state[t] = "FINISHED" \/ ~Alive)

\* What is put into the list of waiting tasks is run when the main thread wakes
\* up (TaskFlowManager.kt:39-40), or at the latest posted.
WaitingTasksRun ==
  \A t \in Tasks : t \in waitingTasks ~> (t \notin waitingTasks \/ ~Alive)

\* What is not asynchronous runs on the main thread (TaskRuntime.kt:86).
SyncOnMain ==
  \A th \in Pool : \A i \in DOMAIN stack[th] : stack[th][i].task \in Async
====
