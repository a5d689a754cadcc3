-------------------------- MODULE MCFairScheduling --------------------------
(***************************************************************************)
(* The Kotlin and Java components under fair scheduling, in instances      *)
(* where everything that was begun must end.  Each behaviour exercises one *)
(* of them:                                                                *)
(*   "executor"    HiExecutor, with the constants of the configuration;    *)
(*   "dispatcher"  TaskDispatcher: b depends on a, d joins b and c;        *)
(*   "sort"        TaskSortUtil: every dependency relation of three tasks; *)
(*   "flow"        TaskFlow: a tree with a block task;                     *)
(*   "restful"     Restful: two calls of one method for two pages.         *)
(***************************************************************************)
EXTENDS HiExecutor, Sequences, TLC

CONSTANTS Null, Empty, Failed, NoData

VARIABLES
  part,
  mainPc, mainIdx, timedOut, adding, todo, cls, mAllTasks, mMainThreadTasks,
  mDependedHashMap, mFinishedTasks, mNeedWaitTasks, modified, mNeedWaitCount,
  mCountDownLatch, mDepends, status, finished, interrupted, cpuQueue,
  dependsOn, sortPc, calls, originTasks, indegree, queue, topOrder, u, node,
  sNewTasksHigh, newTasksAll,
  graph, flowPc, stack, queued, posted, state, dependTasks, behindTasks,
  blockTaskId, waitingTasks, starts,
  parameters, modCount, callPc, cacheKey, jobPc, jobSeen, asked, reply, clock,
  front, shown, db, crashed

Ranked == [j \in Jobs |-> CASE j = "a" -> 0 [] j = "b" -> 5 [] OTHER -> 10]

LaunchTasks == {"a", "b", "c", "d"}
Diamond ==
  [t \in LaunchTasks |-> CASE t = "b" -> {"a"} [] t = "d" -> {"b", "c"} [] OTHER -> {}]
Launch == INSTANCE TaskDispatcher WITH
  Tasks <- LaunchTasks, Extra <- {}, DependsOn <- Diamond,
  RunOnMain <- {"b", "c"}, OnCpu <- {"a", "d"}, NeedWait <- {"a", "d"},
  NeedCall <- {"c"}, OnlyInMainProcess <- LaunchTasks, IsMainProcess <- TRUE,
  MayFail <- {}, MayCancel <- FALSE, Debug <- FALSE, PoolSize <- 1

Sort == INSTANCE TaskSort WITH
  Tasks <- {"a", "b", "c"}, RunAsSoon <- {"b"}, NeedWait <- {}, MaxCalls <- 1,
  pc <- sortPc

FlowTasks == {"s", "a", "b", "c", "d", "e", "k"}
Tree1 == {[s |-> <<"a">>, a |-> <<"k">>, k |-> <<"c", "b">>, b |-> <<"e">>,
           c |-> <<"d">>, d |-> <<"e">>, e |-> <<>>]}
Flow == INSTANCE TaskFlow WITH
  Tasks <- FlowTasks, Graphs <- Tree1, StartTask <- "s", Critical <- {"s", "e"},
  Async <- {"c"}, Delayed <- {"d"}, Block <- {"k"},
  Priority <- [t \in FlowTasks |-> 0], Main <- "main", Pool <- {"p", "q"},
  mainPc <- flowPc

TwoPages == [a |-> 1, b |-> 2]
Rest == INSTANCE Restful WITH
  Calls <- {"a", "b"}, Method <- [x \in {"a", "b"} |-> "list"], Param <- TwoPages,
  Strategy <- [x \in {"a", "b"} |-> "CACHE_FIRST"], Sync <- {"b"},
  Serializable <- {"list"}, Overlap <- FALSE, OldEntries <- {"list"} \X {1, 2}

launchVars ==
  <<mainPc, mainIdx, timedOut, adding, todo, cls, mAllTasks, mMainThreadTasks,
    mDependedHashMap, mFinishedTasks, mNeedWaitTasks, modified, mNeedWaitCount,
    mCountDownLatch, mDepends, status, finished, interrupted, cpuQueue>>
sortVars ==
  <<dependsOn, sortPc, calls, originTasks, indegree, queue, topOrder, u, node,
    sNewTasksHigh, newTasksAll>>
flowVars ==
  <<graph, flowPc, stack, queued, posted, state, dependTasks, behindTasks,
    blockTaskId, waitingTasks, starts>>
restVars ==
  <<parameters, modCount, callPc, cacheKey, jobPc, jobSeen, asked, reply, clock,
    front, shown, db, crashed>>
allVars == <<part, vars, launchVars, sortVars, flowVars, restVars>>

\* A component that is not exercised stays in one of its initial states.
AllInit ==
  /\ part \in {"executor", "dispatcher", "sort", "flow", "restful"}
  /\ Init /\ Launch!Init /\ Sort!Init /\ Flow!Init /\ Rest!Init
  /\ part # "sort" => \A t \in DOMAIN dependsOn : dependsOn[t] = {}
  /\ part # "restful" => \A k \in DOMAIN db : db[k] = Null

AllNext ==
  /\ UNCHANGED part
  /\ \/ part = "executor" /\ Next
        /\ UNCHANGED <<launchVars, sortVars, flowVars, restVars>>
     \/ part = "dispatcher" /\ Launch!Next
        /\ UNCHANGED <<vars, sortVars, flowVars, restVars>>
     \/ part = "sort" /\ Sort!Next
        /\ UNCHANGED <<vars, launchVars, flowVars, restVars>>
     \/ part = "flow" /\ Flow!Next
        /\ UNCHANGED <<vars, launchVars, sortVars, restVars>>
     \/ part = "restful" /\ Rest!Next
        /\ UNCHANGED <<vars, launchVars, sortVars, flowVars>>

\* A component that is not exercised has no fair step to take, except for
\* TaskFlow, whose start() is pending in its initial state.
AllFairness ==
  /\ Fairness /\ Launch!Fairness /\ Sort!Fairness /\ Rest!Fairness
  /\ WF_flowVars(part = "flow" /\ Flow!StartStep)
  /\ \A th \in {"main", "p", "q"} : WF_flowVars(part = "flow" /\ Flow!ThreadStep(th))

AllSpec == AllInit /\ [][AllNext]_allVars /\ AllFairness

-----------------------------------------------------------------------------
(* The properties of the components; JobsKept and EveryJobRuns are those   *)
(* of HiExecutor.                                                          *)

\* TaskSortUtil: the order is topological, it throws only for a cycle, tasks
\* others wait for and tasks to run as soon as possible come first.
SortCorrect ==
  part = "sort" => /\ Sort!TopOrderSound /\ Sort!ResultSorted
                   /\ Sort!ThrowsOnlyIfUnsortable /\ Sort!GroupsInOrder

\* TaskSortUtil, TaskDispatcher and TaskFlow: the sort ends, every task that was
\* sent finishes and start() returns, with a pool smaller than the blocked tasks;
\* an accepted tree runs to its end.
LaunchFinishes ==
  Sort!SortEnds /\ Launch!SentTasksFinish /\ Launch!StartReturns /\ Flow!TreeFinishes

\* Restful: one page after the other, every call is answered, and the answer of
\* the network reaches the cache.
CallsAnswered == Rest!CallAnswered /\ Rest!AnswerCached
====
