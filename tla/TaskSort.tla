------------------------------ MODULE TaskSort ------------------------------
(***************************************************************************)
(* launchstarter: sort/TaskSortUtil.java and sort/Graph.java.              *)
(*                                                                         *)
(* getSortResult orders the tasks of a dispatcher: a topological sort of   *)
(* their indices (the queue of nodes with no incoming edge left), then a   *)
(* partition into the tasks others depend on, the tasks that want to run   *)
(* soon, and the rest.  The first two groups go through a static list.     *)
(*                                                                         *)
(* Every loop iteration is a step; the method is synchronized, so that no  *)
(* other call comes between two of them.                                   *)
(***************************************************************************)
EXTENDS Integers, Sequences, FiniteSets

CONSTANTS
  Tasks,       \* the task classes; one instance of each
  RunAsSoon,   \* tasks with needRunAsSoon()
  NeedWait,    \* tasks with needWait()
  MaxCalls     \* bound: dispatchers that are started, one after the other

VARIABLES
  dependsOn,      \* dependsOn() of each task, fixed
  pc,             \* "idle", "scan", "sort", "thrown"
  calls,          \* dispatchers started so far
  originTasks,    \* the argument of the call
  indegree,
  queue,
  topOrder,
  u,              \* the node just polled, 0 between two iterations
  node,           \* the index the inner or the scanning loop has reached
  sNewTasksHigh,  \* static
  newTasksAll     \* the last result

vars == <<dependsOn, pc, calls, originTasks, indegree, queue, topOrder, u, node,
          sNewTasksHigh, newTasksAll>>

mVerticalCount == Len(originTasks)
Nodes == 1..mVerticalCount

\* addEdge(from, to): the task at `to' depends on the task at `from'.
Edge(from, to) == originTasks[from] \in dependsOn[originTasks[to]]
Preds(v) == {w \in Nodes : Edge(w, v)}

Init ==
  /\ dependsOn \in [Tasks -> SUBSET Tasks]
  /\ pc = "idle" /\ calls = 0
  /\ originTasks = <<>> /\ indegree = <<>>
  /\ queue = <<>> /\ topOrder = <<>> /\ u = 0 /\ node = 1
  /\ sNewTasksHigh = <<>> /\ newTasksAll = <<>>

-----------------------------------------------------------------------------
IsRange(s, S) == \A t \in S : \E i \in DOMAIN s : s[i] = t

\* The graph of the added tasks, unless a dependency is not among them.
getSortResult(tasks) ==
  /\ pc = "idle" /\ calls < MaxCalls
  /\ tasks # <<>>
  /\ originTasks' = tasks /\ calls' = calls + 1
  /\ IF \A i \in DOMAIN tasks : IsRange(tasks, dependsOn[tasks[i]])
     THEN /\ pc' = "scan"
          /\ indegree' = [v \in DOMAIN tasks |->
               Cardinality({w \in DOMAIN tasks : tasks[w] \in dependsOn[tasks[v]]})]
     ELSE pc' = "thrown" /\ UNCHANGED indegree
  /\ queue' = <<>> /\ topOrder' = <<>> /\ u' = 0 /\ node' = 1
  /\ UNCHANGED <<dependsOn, sNewTasksHigh, newTasksAll>>

\* The loop that collects the nodes without incoming edges.
scan ==
  /\ pc = "scan" /\ node \in Nodes
  /\ queue' = IF indegree[node] = 0 THEN Append(queue, node) ELSE queue
  /\ node' = node + 1
  /\ UNCHANGED <<dependsOn, pc, calls, originTasks, indegree, topOrder, u,
                 sNewTasksHigh, newTasksAll>>

scanEnd ==
  /\ pc = "scan" /\ node \notin Nodes
  /\ pc' = "sort"
  /\ UNCHANGED <<dependsOn, calls, originTasks, indegree, queue, topOrder, u,
                 node, sNewTasksHigh, newTasksAll>>

poll ==
  /\ pc = "sort" /\ u = 0 /\ queue # <<>>
  /\ u' = Head(queue) /\ queue' = Tail(queue)
  /\ topOrder' = Append(topOrder, Head(queue)) /\ node' = 1
  /\ UNCHANGED <<dependsOn, pc, calls, originTasks, indegree, sNewTasksHigh,
                 newTasksAll>>

\* Mutant: the in-degree is compared before it is decremented.
relaxPostDecrement ==
  /\ pc = "sort" /\ u # 0 /\ node \in Nodes
  /\ IF Edge(u, node)
     THEN /\ indegree' = [indegree EXCEPT ![node] = @ - 1]
          /\ queue' = IF indegree[node] = 0 THEN Append(queue, node) ELSE queue
     ELSE UNCHANGED <<indegree, queue>>
  /\ node' = node + 1
  /\ UNCHANGED <<dependsOn, pc, calls, originTasks, topOrder, u, sNewTasksHigh,
                 newTasksAll>>

\* One iteration of the inner loop, over the edges that leave u.
relax ==
  /\ pc = "sort" /\ u # 0 /\ node \in Nodes
  /\ IF Edge(u, node)
     THEN /\ indegree' = [indegree EXCEPT ![node] = @ - 1]
          /\ queue' = IF indegree[node] = 1 THEN Append(queue, node) ELSE queue
     ELSE UNCHANGED <<indegree, queue>>
  /\ node' = node + 1
  /\ UNCHANGED <<dependsOn, pc, calls, originTasks, topOrder, u, sNewTasksHigh,
                 newTasksAll>>

relaxEnd ==
  /\ pc = "sort" /\ u # 0 /\ node \notin Nodes
  /\ u' = 0
  /\ UNCHANGED <<dependsOn, pc, calls, originTasks, indegree, queue, topOrder,
                 node, sNewTasksHigh, newTasksAll>>

-----------------------------------------------------------------------------
\* The indices some task depends on.
dependSet == {w \in Nodes : \E v \in Nodes : Edge(w, v)}

TasksAt(indices) == [i \in DOMAIN indices |-> originTasks[indices[i]]]

\* The tasks others depend on, then the ones that want to run soon.
High ==
  LET depended(i) == i \in dependSet
      soon(i) == i \notin dependSet /\ originTasks[i] \in RunAsSoon
  IN  TasksAt(SelectSeq(topOrder, depended)) \o TasksAt(SelectSeq(topOrder, soon))

WithOutDepend ==
  LET rest(i) == i \notin dependSet /\ originTasks[i] \notin RunAsSoon
  IN  TasksAt(SelectSeq(topOrder, rest))

getResultTasks ==
  /\ pc = "sort" /\ u = 0 /\ queue = <<>> /\ Len(topOrder) = mVerticalCount
  /\ sNewTasksHigh' = sNewTasksHigh \o High
  /\ newTasksAll' = sNewTasksHigh' \o WithOutDepend
  /\ pc' = "idle"
  /\ UNCHANGED <<dependsOn, calls, originTasks, indegree, queue, topOrder, u, node>>

cycle ==
  /\ pc = "sort" /\ u = 0 /\ queue = <<>> /\ Len(topOrder) # mVerticalCount
  /\ pc' = "thrown"
  /\ UNCHANGED <<dependsOn, calls, originTasks, indegree, queue, topOrder, u,
                 node, sNewTasksHigh, newTasksAll>>

\* A dispatcher is filled with tasks that were never started.
Lists == UNION {[1..n -> Tasks] : n \in 1..Cardinality(Tasks)}
Fresh(s) ==
  /\ \A i, j \in DOMAIN s : i # j => s[i] # s[j]
  /\ \A i \in DOMAIN s, j \in DOMAIN newTasksAll : s[i] # newTasksAll[j]

Next ==
  \/ \E s \in Lists : Fresh(s) /\ getSortResult(s)
  \/ scan \/ scanEnd \/ poll \/ relax \/ relaxEnd \/ getResultTasks \/ cycle

Spec == Init /\ [][Next]_vars
Fairness == WF_vars(scan \/ scanEnd \/ poll \/ relax \/ relaxEnd
                    \/ getResultTasks \/ cycle)
FairSpec == Spec /\ Fairness

-----------------------------------------------------------------------------
(* Properties                                                              *)

TypeOK ==
  /\ dependsOn \in [Tasks -> SUBSET Tasks]
  /\ pc \in {"idle", "scan", "sort", "thrown"} /\ calls \in Nat
  /\ originTasks \in Seq(Tasks)
  /\ pc \in {"scan", "sort"} => indegree \in [Nodes -> Nat]
  /\ queue \in Seq(Nodes) /\ topOrder \in Seq(Nodes)
  /\ u \in Nodes \cup {0} /\ node \in Nat \ {0}
  /\ sNewTasksHigh \in Seq(Tasks) /\ newTasksAll \in Seq(Tasks)

\* A node is taken from the queue once, after every node with an edge to it:
\* no decrement is lost or counted twice on the way to zero.
TopOrderSound ==
  \A i \in DOMAIN topOrder :
    /\ \A j \in DOMAIN topOrder : topOrder[j] = topOrder[i] => j = i
    /\ \A w \in Preds(topOrder[i]) : \E j \in 1..(i - 1) : topOrder[j] = w

FirstResult == pc = "idle" /\ calls = 1

\* s has the tasks of originTasks, each once and after those it depends on.
IsSorted(s) ==
  /\ Len(s) = mVerticalCount
  /\ IsRange(s, {originTasks[i] : i \in Nodes})
  /\ \A i \in DOMAIN s : \A d \in dependsOn[s[i]] : \E j \in 1..(i - 1) : s[j] = d

\* What the first dispatcher gets is a topological order of its tasks, although
\* the partition into three groups moves tasks past each other.
ResultSorted == FirstResult => IsSorted(newTasksAll)

\* getSortResult throws only when no order exists.
ThrowsOnlyIfUnsortable ==
  pc = "thrown" => ~\E s \in [Nodes -> Tasks] : IsSorted(s)

\* The tasks others depend on come first, then the ones that want to run soon.
Group(t) ==
  IF \E v \in Nodes : t \in dependsOn[originTasks[v]] THEN 1
  ELSE IF t \in RunAsSoon THEN 2 ELSE 3
GroupsInOrder ==
  FirstResult => \A i, j \in DOMAIN newTasksAll :
                   i < j => Group(newTasksAll[i]) <= Group(newTasksAll[j])

\* The loops end, on graphs with cycles too.
SortEnds == pc = "scan" ~> pc \in {"idle", "thrown"}

(* What the comments of the code say, and the code does not keep.          *)

\* Every dispatcher is a new object, with nothing of an earlier one in it.
OwnTasksOnly ==
  pc = "idle" => \A i \in DOMAIN newTasksAll :
                   \E j \in Nodes : originTasks[j] = newTasksAll[i]

\* Tasks await() waits for come before the other tasks nobody depends on.
WaitedBeforeRest ==
  FirstResult => \A i, j \in DOMAIN newTasksAll :
    /\ Group(newTasksAll[i]) = 3 /\ newTasksAll[i] \notin NeedWait
    /\ Group(newTasksAll[j]) = 3 /\ newTasksAll[j] \in NeedWait
    => j < i
====
