------------------------ MODULE TaskDispatcherProofs ------------------------
(***************************************************************************)
(* For every set of tasks, every dependency relation, every assignment of  *)
(* the tasks to threads and every pool size, a task of the batch runs only *)
(* after the tasks it depends on (theorem DependenciesFirstHolds), and     *)
(* await() returns only when the tasks it waits for are done (theorem      *)
(* AwaitCompleteHolds).                                                    *)
(***************************************************************************)
EXTENDS TaskDispatcher, FiniteSetTheorems, TLAPS

\* The tasks that start() can send: their dependencies are in the batch too.
Sendable == {t \in Batch : DependsOn[t] \subseteq Batch}

\* addTask() never runs while start() does: the batch is complete when the
\* latch of await() exists, and only extra tasks are added afterwards.
AddInv ==
  /\ mainPc \in {"collect", "collectCheck"} =>
       /\ adding \in Tasks /\ (adding \in Extra <=> Started)
       /\ todo \subseteq DependsOn[adding]
  /\ mainPc = "collectCheck" => cls \in DependsOn[adding]
  /\ \A d \in Tasks : \A t \in mDependedHashMap[d] : d \in DependsOn[t]
  /\ ~Started => Added \subseteq Batch
  /\ mainPc = "sending" => Started /\ Added \subseteq Sendable

\* Nothing of the batch moves before start(), what moves can be sent, and the
\* sending loop sends every task once.
SendInv ==
  /\ \A t \in Batch : status[t] # "new" => Started /\ t \in Sendable
  /\ mainPc = "sending" =>
       /\ \A i, j \in DOMAIN mAllTasks : i # j => mAllTasks[i] # mAllTasks[j]
       /\ \A i \in DOMAIN mAllTasks : i >= mainIdx => status[mAllTasks[i]] = "new"

\* A task that is still to count its children down is not finished, so that it
\* does so once; mFinishedTasks only records tasks past that point.
OnceInv ==
  /\ \A t \in finished : status[t] \in {"done", "failed"} \cup Marking
  /\ \A t \in mFinishedTasks : status[t] \in {"counting", "decrementing", "done"}

\* The latch of a task never promises more than its dependencies have done.
LatchInv ==
  \A t \in Sendable : mDepends[t] >= Cardinality(DependsOn[t] \ finished)

\* The inductive invariant.
IInv == TypeOK /\ AddInv /\ SendInv /\ OnceInv /\ LatchInv /\ DependenciesFirst

-----------------------------------------------------------------------------
\* The dependencies of a task are finitely many.
LEMMA DependsFinite ==
  ASSUME NEW t \in Tasks, NEW F
  PROVE  /\ IsFiniteSet(DependsOn[t] \ F)
         /\ Cardinality(DependsOn[t] \ F) \in Nat
<1> USE Zenon
<1>1. DependsOn[t] \ F \subseteq Tasks
  BY TasksAssumption
<1>2. IsFiniteSet(DependsOn[t] \ F)
  BY <1>1, TasksAssumption, FS_Subset
<1>. QED
  BY <1>2, FS_CardinalityType

\* A finished task takes one unit off the dependencies that are left of the
\* tasks that depend on it, and nothing off the others.
LEMMA OneLess ==
  ASSUME NEW t \in Tasks, NEW F, NEW d \in DependsOn[t] \ F
  PROVE  Cardinality(DependsOn[t] \ (F \cup {d})) = Cardinality(DependsOn[t] \ F) - 1
<1> USE Zenon
<1>1. PICK S : S = DependsOn[t] \ F
  OBVIOUS
<1>2. DependsOn[t] \ (F \cup {d}) = S \ {d} /\ d \in S
  BY <1>1
<1>3. IsFiniteSet(S)
  BY <1>1, DependsFinite
<1>4. Cardinality(S \ {d}) = Cardinality(S) - 1
  BY <1>2, <1>3, FS_RemoveElement
<1>. QED
  BY <1>1, <1>2, <1>4

\* More finished tasks, fewer dependencies left.
LEMMA FewerLeft ==
  ASSUME NEW t \in Tasks, NEW F, NEW G, F \subseteq G
  PROVE  Cardinality(DependsOn[t] \ G) <= Cardinality(DependsOn[t] \ F)
<1> USE Zenon
<1>1. DependsOn[t] \ G \subseteq DependsOn[t] \ F
  OBVIOUS
<1>. QED
  BY <1>1, DependsFinite, FS_Subset

\* An open latch means that no dependency is left.
LEMMA NoneLeft ==
  ASSUME NEW t \in Tasks, NEW F, Cardinality(DependsOn[t] \ F) <= 0
  PROVE  DependsOn[t] \subseteq F
<1> USE Zenon
<1>1. Cardinality(DependsOn[t] \ F) = 0
  BY SMT, DependsFinite
<1>. QED
  BY SMT, <1>1, DependsFinite, FS_EmptySet

-----------------------------------------------------------------------------
\* Every action keeps the types.
LEMMA TypeStep == TypeOK /\ [Next]_vars => TypeOK'
<1> USE Zenon
<1> SUFFICES ASSUME TypeOK, [Next]_vars PROVE TypeOK'
  OBVIOUS
<1> USE TasksAssumption, PoolAssumption
    DEF TypeOK, MainPcs, Statuses, InProgress, Marking,
        addVars, mainVars, listVars, waitVars, taskVars
<1>1. ASSUME NEW t \in Tasks, addTask(t) PROVE TypeOK'
  BY <1>1 DEF addTask
<1>2. ASSUME NEW t \in Tasks, executeTask(t) PROVE TypeOK'
  BY SMT, <1>2 DEF executeTask
<1>3. ASSUME NEW t \in Tasks, collectDepends(t) PROVE TypeOK'
  BY <1>3 DEF collectDepends
<1>4. ASSUME NEW t \in Tasks, runBegin(t) PROVE TypeOK'
  BY SMT, <1>4, AttributesAssumption DEF runBegin, HasThread
<1>5. ASSUME NEW t \in Tasks, waitToSatisfy(t) PROVE TypeOK'
  BY SMT, <1>5 DEF waitToSatisfy
<1>6. ASSUME NEW t \in Tasks, runTask(t) PROVE TypeOK'
  <2>1. mDepends' \in [Tasks -> Nat]
    BY SMT, <1>6 DEF runTask, satisfyChildren, satisfy
  <2>4. status' \in [Tasks -> Statuses]
    BY <1>6 DEF runTask, ifNeedWait
  <2>2. mainIdx' \in Nat /\ mainIdx' >= mainIdx /\ mainPc' = mainPc
    BY SMT, <1>6 DEF runTask, MainReturns
  <2>3. finished' \subseteq Tasks
    BY <1>6 DEF runTask
  <2>. QED
    BY SMT, <1>6, <2>1, <2>2, <2>3, <2>4 DEF runTask
<1>7. ASSUME NEW t \in Tasks, runThrows(t) PROVE TypeOK'
  BY <1>7 DEF runThrows, Crash
<1>8. ASSUME NEW t \in Tasks, satisfyRace(t) PROVE TypeOK'
  BY SMT, <1>8 DEF satisfyRace, satisfy, Crash
<1>9. ASSUME NEW t \in Tasks, call(t) PROVE TypeOK'
  BY SMT, <1>9 DEF call, satisfyChildren, satisfy
<1>10. ASSUME NEW t \in Tasks, markLists(t) PROVE TypeOK'
  BY SMT, <1>10 DEF markLists
<1>11. ASSUME NEW t \in Tasks, countDown(t) PROVE TypeOK'
  BY SMT, <1>11 DEF countDown, Crash, Started
<1>12. ASSUME NEW t \in Tasks, decrement(t) PROVE TypeOK'
  BY SMT, <1>12 DEF decrement
<1>13. ASSUME NEW t \in Tasks, runCancelled(t) PROVE TypeOK'
  BY SMT, <1>13, AttributesAssumption DEF runCancelled, HasThread
<1>14. CASE collectCheck
  BY SMT, <1>14 DEF collectCheck, satisfy
<1>15. CASE addTaskEnd
  BY SMT, <1>15 DEF addTaskEnd
<1>16. CASE sendTask
  <2>1. mAllTasks[mainIdx] \in Tasks /\ mainIdx' \in Nat
    BY SMT, <1>16 DEF sendTask
  <2>2. status' \in [Tasks -> Statuses]
    BY <1>16, <2>1 DEF sendTask, Skipped, ifNeedWait
  <2>3. mMainThreadTasks' \in Seq(Tasks) /\ cpuQueue' \in Seq(Tasks)
    BY SMT, <1>16, <2>1 DEF sendTask
  <2>4. mainIdx' = mainIdx + 1
        /\ UNCHANGED <<addVars, mainPc, timedOut, mAllTasks, waitVars, mDepends, finished,
                       interrupted>>
    BY <1>16 DEF sendTask
  <2>. QED
    BY SMTT(20), <2>1, <2>2, <2>3, <2>4
<1>17. CASE sendEnd
  BY SMT, <1>17 DEF sendEnd
<1>18. CASE executeTaskMainEnd
  BY <1>18 DEF executeTaskMainEnd
<1>19. CASE awaitLog
  BY <1>19 DEF awaitLog
<1>20. CASE awaitLogThrows
  BY <1>20 DEF awaitLogThrows, Crash
<1>21. CASE awaitCount
  BY <1>21 DEF awaitCount
<1>22. CASE awaitLatch
  BY <1>22 DEF awaitLatch
<1>23. CASE awaitTimeout
  BY <1>23 DEF awaitTimeout
<1>24. CASE startThrows
  BY <1>24 DEF startThrows, Crash
<1>25. CASE cancel
  <2>1. status' \in [Tasks -> Statuses]
    BY <1>25 DEF cancel
  <2>2. interrupted' \subseteq Tasks
    BY <1>25 DEF cancel, Futures, Batch
  <2>. QED
    BY <1>25, <2>1, <2>2 DEF cancel
<1>26. CASE await
  BY <1>26 DEF await
<1>27. ASSUME NEW s \in SortResults, start(s) PROVE TypeOK'
  BY SMT, <1>27 DEF start, SortResults, Added, Started
<1>28. CASE UNCHANGED vars
  BY SMT, <1>28 DEF vars
<1>29. QED
  BY ZenonT(30), Zenon, <1>1, <1>2, <1>3, <1>4, <1>5, <1>6, <1>7, <1>8, <1>9, <1>10, <1>11, <1>12, <1>13, <1>14, <1>15, <1>16, <1>17, <1>18, <1>19, <1>20, <1>21, <1>22, <1>23, <1>24, <1>25, <1>26, <1>27, <1>28 DEF Next, MainStep, ClientStep, TaskStep

\* Initially no latch has been counted down and nothing has been sent.
LEMMA InitIInv == Init => IInv
<1> USE Zenon
<1> SUFFICES ASSUME Init PROVE IInv
  OBVIOUS
<1> USE TasksAssumption, PoolAssumption DEF Init
<1>1. \A t \in Tasks : Cardinality(DependsOn[t]) \in Nat /\ DependsOn[t] \ {} = DependsOn[t]
  <2>. TAKE t \in Tasks
  <2>1. DependsOn[t] \ {} = DependsOn[t]
    OBVIOUS
  <2>. QED
    BY <2>1, DependsFinite
<1>2. TypeOK
  <2>1. mDepends \in [Tasks -> Nat] /\ status \in [Tasks -> Statuses]
    BY <1>1 DEF Statuses
  <2>2. mDependedHashMap \in [Tasks -> SUBSET Tasks]
    OBVIOUS
  <2>3. timedOut \in BOOLEAN /\ modified \in BOOLEAN
    OBVIOUS
  <2>4. mainPc \in MainPcs /\ mainIdx \in Nat
    BY DEF MainPcs
  <2>5. mAllTasks \in Seq(Tasks) /\ mMainThreadTasks \in Seq(Tasks) /\ cpuQueue \in Seq(Tasks)
    BY SMT
  <2>. QED
    BY SMT, <2>1, <2>2, <2>3, <2>4, <2>5 DEF TypeOK
<1>3. AddInv
  BY SMT DEF AddInv, Added, Started
<1>4. SendInv /\ OnceInv
  BY DEF SendInv, OnceInv, Batch
<1>5. LatchInv
  BY SMT, <1>1 DEF LatchInv, Sendable, Batch
<1>6. DependenciesFirst
  BY DEF DependenciesFirst, Ran, Batch, Marking
<1>. QED
  BY <1>2, <1>3, <1>4, <1>5, <1>6 DEF IInv

-----------------------------------------------------------------------------
\* Steps that leave addTask() and start() alone.
LEMMA AddKept ==
  ASSUME AddInv,
         UNCHANGED <<adding, todo, cls, mDependedHashMap, mAllTasks>>,
         Started' <=> Started,
         mainPc' = mainPc \/ mainPc' \notin {"collect", "collectCheck", "sending"}
  PROVE  AddInv'
BY DEF AddInv, Added

\* The part of the invariant about addTask() and start().
LEMMA AddStep == IInv /\ [Next]_vars => AddInv'
<1> USE Zenon
<1> SUFFICES ASSUME IInv, [Next]_vars PROVE AddInv'
  OBVIOUS
<1> USE DEF addVars, mainVars, listVars, waitVars, taskVars
<1>0. TypeOK /\ AddInv
  BY DEF IInv
<1>1. ASSUME NEW t \in Tasks, addTask(t) PROVE AddInv'
  BY <1>0, <1>1 DEF AddInv, addTask, Added, Started
<1>2. ASSUME NEW d \in Tasks, collectDepends(d) PROVE AddInv'
  BY <1>0, <1>2 DEF AddInv, collectDepends, Added, Started, TypeOK
<1>3. CASE collectCheck
  BY <1>0, <1>3 DEF AddInv, collectCheck, Added, Started
<1>4. CASE addTaskEnd
  <2>1. adding \in Tasks
    BY <1>0, <1>4 DEF AddInv, addTaskEnd
  <2>2. mAllTasks \in Seq(Tasks) /\ mAllTasks' = Append(mAllTasks, adding)
    BY <1>0, <1>4 DEF addTaskEnd, TypeOK
  <2>3. \A i \in DOMAIN mAllTasks' : mAllTasks'[i] \in Added \cup {adding}
    BY SMT, <2>1, <2>2 DEF Added
  <2>4. Added' \subseteq Added \cup {adding}
    BY <2>3 DEF Added
  <2>. QED
    BY <1>0, <1>4, <2>1, <2>4 DEF AddInv, addTaskEnd, Started, Batch
<1>5. ASSUME NEW s \in SortResults, start(s) PROVE AddInv'
  <2>1. s \in [DOMAIN mAllTasks -> Added] /\ IsSortResult(s) /\ mAllTasks' = s
    BY <1>5 DEF start, SortResults
  <2>2. Added \subseteq Batch
    BY <1>0, <1>5 DEF AddInv, start
  <2>3. Added' = {s[i] : i \in DOMAIN s}
    BY <2>1 DEF Added
  <2>4. \A i \in DOMAIN s : s[i] \in Batch
    BY <2>1, <2>2
  <2>5. \A i \in DOMAIN s : DependsOn[s[i]] \subseteq Batch
    <3>. SUFFICES ASSUME NEW i \in DOMAIN s, NEW d \in DependsOn[s[i]] PROVE d \in Batch
      OBVIOUS
    <3>1. PICK j \in 1..(i - 1) : s[j] = d
      BY <2>1 DEF IsSortResult
    <3>2. j \in DOMAIN s
      BY SMT, <1>0, <2>1, <3>1 DEF TypeOK
    <3>. QED
      BY <2>4, <3>1, <3>2
  <2>6. Added' \subseteq Sendable
    BY <2>3, <2>4, <2>5 DEF Sendable
  <2>7. Started'
    BY <1>0, <1>5, PoolAssumption DEF start, Started, TypeOK
  <2>. QED
    BY <1>0, <1>5, <2>6, <2>7 DEF AddInv, start
<1>6. CASE startThrows \/ sendTask \/ sendEnd \/ executeTaskMainEnd \/ cancel
  BY <1>0, <1>6, AddKept
     DEF startThrows, Crash, sendTask, sendEnd, executeTaskMainEnd, cancel, Started
<1>7. CASE await \/ awaitLog \/ awaitLogThrows \/ awaitCount \/ awaitLatch \/ awaitTimeout
  BY <1>0, <1>7, AddKept
     DEF await, awaitLog, awaitLogThrows, awaitCount, awaitLatch, awaitTimeout,
         Crash, Started
<1>8. ASSUME NEW t \in Tasks, executeTask(t) PROVE AddInv'
  BY <1>0, <1>8, AddKept DEF executeTask, Started
<1>9. ASSUME NEW t \in Tasks, TaskStep(t) PROVE AddInv'
  <2>1. CASE countDown(t)
    <3>1. Started' <=> Started
      BY SMT, <1>0, <2>1, PoolAssumption DEF countDown, Started, TypeOK
    <3>. QED
      BY <1>0, <2>1, <3>1, AddKept DEF countDown, Crash
  <2>2. CASE runBegin(t) \/ waitToSatisfy(t) \/ runTask(t) \/ runThrows(t)
             \/ satisfyRace(t) \/ call(t) \/ markLists(t) \/ decrement(t)
             \/ runCancelled(t)
    BY <1>0, <2>2, AddKept
       DEF runBegin, waitToSatisfy, runTask, runThrows, satisfyRace, call,
           markLists, decrement, runCancelled, Crash, Started
  <2>. QED
    BY <1>9, <2>1, <2>2 DEF TaskStep
<1>10. CASE UNCHANGED vars
  BY <1>0, <1>10, AddKept DEF vars, Started
<1>. QED
  BY Zenon, <1>1, <1>2, <1>3, <1>4, <1>5, <1>6, <1>7, <1>8, <1>9, <1>10
     DEF Next, MainStep, ClientStep

-----------------------------------------------------------------------------
\* Steps that start no task of the batch and leave the sending loop alone.
LEMMA SendKept ==
  ASSUME TypeOK, SendInv,
         \A t \in Batch : status'[t] # "new" => status[t] # "new",
         UNCHANGED mAllTasks, Started => Started',
         mainPc' = "sending" =>
           /\ mainPc = "sending" /\ UNCHANGED mainIdx
           /\ \A i \in DOMAIN mAllTasks :
                status[mAllTasks[i]] = "new" => status'[mAllTasks[i]] = "new"
  PROVE  SendInv'
BY DEF SendInv, Batch, TypeOK

\* The part about what start() has sent.
LEMMA SendStep == IInv /\ [Next]_vars => SendInv'
<1> USE Zenon
<1> SUFFICES ASSUME IInv, [Next]_vars PROVE SendInv'
  OBVIOUS
<1> USE DEF addVars, mainVars, listVars, waitVars, taskVars
<1>0. TypeOK /\ AddInv /\ SendInv
  BY DEF IInv
<1>type. status \in [Tasks -> Statuses]
  BY <1>0 DEF TypeOK
<1>1. CASE (\E t \in Tasks : addTask(t)) \/ (\E d \in Tasks : collectDepends(d))
           \/ collectCheck \/ startThrows \/ sendEnd \/ executeTaskMainEnd
  <2>1. UNCHANGED <<status, mAllTasks, mCountDownLatch>> /\ mainPc' # "sending"
    BY <1>1
       DEF addTask, collectDepends, collectCheck, startThrows, Crash, sendEnd,
           executeTaskMainEnd
  <2>. QED
    BY <1>0, <2>1, SendKept DEF Started
<1>2. CASE addTaskEnd
  BY <1>0, <1>2 DEF addTaskEnd, SendInv, Started
<1>3. ASSUME NEW s \in SortResults, start(s) PROVE SendInv'
  <2>1. s \in [DOMAIN mAllTasks -> Added] /\ IsSortResult(s)
    BY <1>3 DEF SortResults
  <2>2. \A i \in DOMAIN s : s[i] \in Batch
    BY <1>0, <1>3, <2>1 DEF AddInv, start
  <2>3. \A t \in Batch : status[t] = "new"
    BY <1>0, <1>3 DEF SendInv, start
  <2>. QED
    BY <1>3, <2>1, <2>2, <2>3 DEF SendInv, start, IsSortResult
<1>4. CASE sendTask
  <2> DEFINE t == mAllTasks[mainIdx]
  <2>1. mainIdx \in DOMAIN mAllTasks /\ t \in Tasks /\ mAllTasks \in Seq(Tasks)
    BY SMT, <1>0, <1>4 DEF sendTask, TypeOK
  <2>2. Started /\ t \in Sendable
    BY <1>0, <1>4, <2>1 DEF AddInv, sendTask, Added
  <2>3. \A u \in Tasks \ {t} : status'[u] = status[u]
    BY <1>0, <1>4, <2>1 DEF sendTask, TypeOK
  <2>4. \A u \in Batch : status'[u] # "new" => Started' /\ u \in Sendable
    BY <1>0, <1>4, <2>2, <2>3 DEF SendInv, sendTask, Started, Batch
  <2>5. ASSUME NEW i \in DOMAIN mAllTasks, i >= mainIdx + 1
        PROVE  status'[mAllTasks[i]] = "new"
    <3>1. i \in Int /\ mainIdx \in Int /\ mAllTasks[i] \in Tasks
      BY SMT, <2>1, <1>0 DEF TypeOK
    <3>2. mAllTasks[i] # t /\ status[mAllTasks[i]] = "new"
      BY SMT, <1>0, <1>4, <2>1, <2>5, <3>1 DEF SendInv, sendTask
    <3>. QED
      BY <2>3, <3>1, <3>2
  <2>. QED
    BY <1>0, <1>4, <2>4, <2>5 DEF SendInv, sendTask
<1>5. CASE await \/ awaitLog \/ awaitLogThrows \/ awaitCount \/ awaitLatch \/ awaitTimeout
  <2>1. UNCHANGED <<status, mAllTasks, mCountDownLatch>> /\ mainPc' # "sending"
    BY <1>5
       DEF await, awaitLog, awaitLogThrows, awaitCount, awaitLatch,
           awaitTimeout, Crash
  <2>. QED
    BY <1>0, <2>1, SendKept DEF Started
<1>6. ASSUME NEW t \in Tasks, executeTask(t) PROVE SendInv'
  <2>1. \A u \in Batch : status'[u] = status[u]
    BY <1>0, <1>type, <1>6 DEF executeTask, Batch
  <2>2. mainPc = "sending" => \A i \in DOMAIN mAllTasks : mAllTasks[i] \in Batch
    BY <1>0 DEF AddInv, Added, Sendable
  <2>3. UNCHANGED <<mainPc, mainIdx, mAllTasks, mCountDownLatch>>
    BY <1>6 DEF executeTask
  <2>. QED
    BY <1>0, <2>1, <2>2, <2>3, SendKept DEF Started
<1>7. CASE cancel
  <2>1. \A u \in Tasks : status'[u] = "new" <=> status[u] = "new"
    BY <1>0, <1>type, <1>7 DEF cancel, Futures, Batch
  <2>. QED
    BY <1>0, <1>7, <2>1, SendKept DEF cancel, Started, Batch
<1>8. ASSUME NEW t \in Tasks, TaskStep(t) PROVE SendInv'
  <2>1. /\ \A u \in Tasks : status'[u] = "new" <=> status[u] = "new"
        /\ UNCHANGED mAllTasks
    <3>1. CASE runBegin(t) \/ waitToSatisfy(t) \/ runTask(t) \/ runThrows(t)
      BY <1>0, <1>type, <3>1 DEF runBegin, waitToSatisfy, runTask, runThrows
    <3>2. CASE satisfyRace(t) \/ call(t) \/ markLists(t)
      BY <1>0, <1>type, <3>2 DEF satisfyRace, call, markLists
    <3>3. CASE countDown(t) \/ decrement(t) \/ runCancelled(t)
      BY <1>0, <1>type, <3>3 DEF countDown, decrement, runCancelled
    <3>. QED
      BY <1>8, <3>1, <3>2, <3>3 DEF TaskStep
  <2>2. Started => Started'
    <3>1. CASE countDown(t)
      BY SMT, <1>0, <3>1, PoolAssumption DEF countDown, Started, TypeOK
    <3>2. CASE ~countDown(t)
      BY <1>8, <3>2
         DEF TaskStep, runBegin, waitToSatisfy, runTask, runThrows, satisfyRace,
             call, markLists, decrement, runCancelled, Started
    <3>. QED
      BY <3>1, <3>2
  <2>3. \A i \in DOMAIN mAllTasks : mAllTasks[i] \in Tasks
    BY SMT, <1>0 DEF TypeOK
  <2>4. CASE UNCHANGED mainIdx
    <3>1. mainPc' = "sending" => mainPc = "sending"
      BY <1>8
         DEF TaskStep, runBegin, waitToSatisfy, runTask, runThrows, satisfyRace,
             call, markLists, countDown, decrement, runCancelled, Crash
    <3>2. /\ \A u \in Batch : status'[u] # "new" => status[u] # "new"
          /\ \A i \in DOMAIN mAllTasks :
               status[mAllTasks[i]] = "new" => status'[mAllTasks[i]] = "new"
      BY <2>1, <2>3 DEF Batch
    <3>. QED
      BY <1>0, <2>1, <2>2, <2>4, <3>1, <3>2, SendKept
  <2>5. CASE mainIdx' # mainIdx
    <3>1. runTask(t)
      BY <1>8, <2>5
         DEF TaskStep, runBegin, waitToSatisfy, runThrows, satisfyRace, call,
             markLists, countDown, decrement, runCancelled
    <3>2. mainIdx' = mainIdx + 1 /\ mainPc' = mainPc
      BY <2>5, <3>1 DEF runTask, MainReturns
    <3>. QED
      BY SMT, <1>0, <2>1, <2>2, <2>3, <3>2 DEF SendInv, Batch, TypeOK
  <2>. QED
    BY <2>4, <2>5
<1>9. CASE UNCHANGED vars
  BY <1>0, <1>9, SendKept DEF vars, Started
<1>. QED
  BY Zenon, <1>1, <1>2, <1>3, <1>4, <1>5, <1>6, <1>7, <1>8, <1>9
     DEF Next, MainStep, ClientStep

-----------------------------------------------------------------------------
\* The part about finished tasks.
LEMMA OnceStep == IInv /\ [Next]_vars => OnceInv'
<1> USE Zenon
<1> SUFFICES ASSUME IInv, [Next]_vars PROVE OnceInv'
  OBVIOUS
<1> USE DEF addVars, mainVars, listVars, waitVars, taskVars, Marking
<1>0. TypeOK /\ AddInv /\ SendInv /\ OnceInv
  BY DEF IInv
<1>type. /\ status \in [Tasks -> Statuses]
         /\ finished \subseteq Tasks /\ mFinishedTasks \subseteq Tasks
  BY <1>0 DEF TypeOK
<1>1. CASE UNCHANGED <<status, finished, mFinishedTasks>>
  BY <1>0, <1>1 DEF OnceInv
<1>2. ASSUME NEW t \in Tasks, executeTask(t) PROVE OnceInv'
  BY <1>0, <1>type, <1>2 DEF executeTask, OnceInv
<1>3. CASE sendTask
  <2> DEFINE t == mAllTasks[mainIdx]
  <2>1. mainIdx \in DOMAIN mAllTasks /\ t \in Tasks /\ mainIdx \in Nat
    BY SMT, <1>0, <1>3 DEF sendTask, TypeOK
  <2>2. status[t] = "new"
    <3>1. \A i \in DOMAIN mAllTasks : i >= mainIdx => status[mAllTasks[i]] = "new"
      BY <1>0, <1>3 DEF SendInv, sendTask
    <3>. QED
      BY SMT, <2>1, <3>1
  <2>3. t \notin finished /\ t \notin mFinishedTasks
    BY <1>0, <2>2 DEF OnceInv
  <2>4. \A u \in Tasks \ {t} : status'[u] = status[u]
    BY <1>0, <1>3, <2>1 DEF sendTask, TypeOK
  <2>5. finished' = finished /\ mFinishedTasks' = mFinishedTasks
    BY <1>3 DEF sendTask
  <2>. QED
    BY <1>0, <1>type, <2>3, <2>4, <2>5 DEF OnceInv
<1>4. CASE cancel
  BY <1>0, <1>type, <1>4 DEF cancel, Futures, Batch, OnceInv
<1>5. ASSUME NEW t \in Tasks, TaskStep(t) PROVE OnceInv'
  <2>1. CASE runBegin(t)
    BY <1>0, <1>type, <2>1 DEF runBegin, OnceInv
  <2>2. CASE waitToSatisfy(t)
    BY <1>0, <1>type, <2>2 DEF waitToSatisfy, OnceInv
  <2>3. CASE runTask(t)
    BY <1>0, <1>type, <2>3 DEF runTask, OnceInv
  <2>4. CASE runThrows(t)
    BY <1>0, <1>type, <2>4 DEF runThrows, OnceInv
  <2>5. CASE satisfyRace(t)
    BY <1>0, <1>type, <2>5 DEF satisfyRace, OnceInv
  <2>6. CASE call(t)
    BY <1>0, <1>type, <2>6 DEF call, OnceInv
  <2>7. CASE markLists(t)
    BY <1>0, <1>type, <2>7 DEF markLists, OnceInv
  <2>8. CASE countDown(t)
    BY <1>0, <1>type, <2>8 DEF countDown, OnceInv
  <2>9. CASE decrement(t)
    BY <1>0, <1>type, <2>9 DEF decrement, OnceInv
  <2>10. CASE runCancelled(t)
    BY <1>0, <1>type, <2>10 DEF runCancelled, OnceInv
  <2>. QED
    BY <1>5, <2>1, <2>2, <2>3, <2>4, <2>5, <2>6, <2>7, <2>8, <2>9, <2>10 DEF TaskStep
<1>6. CASE UNCHANGED vars
  BY <1>1, <1>6 DEF vars
<1>. QED
  BY ZenonT(30), Zenon, <1>1, <1>2, <1>3, <1>4, <1>5, <1>6
     DEF Next, MainStep, ClientStep, addTask, collectDepends, collectCheck,
         addTaskEnd, start, startThrows, Crash, sendEnd, executeTaskMainEnd,
         await, awaitLog, awaitLogThrows, awaitCount, awaitLatch, awaitTimeout

-----------------------------------------------------------------------------
\* A task that finishes now may count down tasks that depend on it.
LEMMA SatisfyKept ==
  ASSUME TypeOK, LatchInv, NEW d \in Tasks, d \notin finished,
         NEW S \in SUBSET Tasks, \A t \in S : d \in DependsOn[t],
         satisfy(S), finished' = finished \cup {d}
  PROVE  LatchInv'
<1> USE Zenon
<1> SUFFICES ASSUME NEW t \in Sendable
             PROVE  mDepends'[t] >= Cardinality(DependsOn[t] \ finished')
  BY DEF LatchInv
<1>0. t \in Tasks /\ mDepends[t] \in Nat
  BY DEF Sendable, Batch, TypeOK
<1>1. /\ Cardinality(DependsOn[t] \ finished) \in Nat
      /\ mDepends[t] >= Cardinality(DependsOn[t] \ finished)
  BY <1>0, DependsFinite DEF LatchInv
<1>2. CASE t \in S
  <2>1. Cardinality(DependsOn[t] \ finished') = Cardinality(DependsOn[t] \ finished) - 1
    BY <1>0, <1>2, OneLess
  <2>2. mDepends'[t] >= mDepends[t] - 1
    BY SMT, <1>0, <1>2 DEF satisfy
  <2>3. mDepends'[t] \in Int
    BY SMT, <1>0 DEF satisfy
  <2>. QED
    BY SMT, <1>0, <1>1, <2>1, <2>2, <2>3
<1>3. CASE t \notin S
  <2>1. Cardinality(DependsOn[t] \ finished') <= Cardinality(DependsOn[t] \ finished)
    BY <1>0, FewerLeft
  <2>2. mDepends'[t] = mDepends[t]
    BY <1>0, <1>3 DEF satisfy
  <2>3. Cardinality(DependsOn[t] \ finished') \in Nat
    BY <1>0, DependsFinite
  <2>. QED
    BY SMT, <1>0, <1>1, <2>1, <2>2, <2>3
<1>. QED
  BY <1>2, <1>3

\* The part about the latches.
LEMMA LatchStep == IInv /\ [Next]_vars => LatchInv'
<1> USE Zenon
<1> SUFFICES ASSUME IInv, [Next]_vars PROVE LatchInv'
  OBVIOUS
<1> USE DEF addVars, mainVars, listVars, waitVars, taskVars, Marking
<1>0. TypeOK /\ AddInv /\ SendInv /\ OnceInv /\ LatchInv
  BY DEF IInv
<1>1. CASE UNCHANGED <<mDepends, finished>>
  BY <1>0, <1>1 DEF LatchInv
<1>2. CASE collectCheck
  <2>1. ASSUME NEW t \in Sendable PROVE mDepends'[t] = mDepends[t]
    <3>1. t \in Batch /\ t \in Tasks /\ mDepends[t] \in Nat /\ DependsOn[t] \subseteq Batch
      BY <1>0 DEF Sendable, Batch, TypeOK
    <3>2. t = adding => cls \in Batch /\ ~Started
      BY <1>0, <1>2, <3>1 DEF AddInv, collectCheck, Batch
    <3>3. t = adding => status[cls] = "new"
      BY <1>0, <3>2 DEF SendInv
    <3>4. t = adding => cls \notin mFinishedTasks
      BY <1>0, <3>3 DEF OnceInv
    <3>. QED
      BY <1>2, <3>1, <3>4 DEF collectCheck, satisfy
  <2>. QED
    BY <1>0, <1>2, <2>1 DEF LatchInv, collectCheck
<1>3. ASSUME NEW t \in Tasks, TaskStep(t), ~UNCHANGED <<mDepends, finished>>
      PROVE  LatchInv'
  <2>1. mDependedHashMap[t] \in SUBSET Tasks /\ \A u \in mDependedHashMap[t] : t \in DependsOn[u]
    BY <1>0 DEF AddInv, TypeOK
  <2>2. CASE runTask(t)
    <3>1. t \notin finished
      BY <1>0, <2>2 DEF OnceInv, runTask
    <3>2. satisfy(mDependedHashMap[t]) /\ finished' = finished \cup {t}
      BY <1>3, <2>2 DEF runTask, satisfyChildren
    <3>. QED
      BY <1>0, <2>1, <3>1, <3>2, SatisfyKept
  <2>3. CASE call(t)
    <3>1. t \notin finished
      BY <1>0, <2>3 DEF OnceInv, call
    <3>2. satisfy(mDependedHashMap[t]) /\ finished' = finished \cup {t}
      BY <2>3 DEF call, satisfyChildren
    <3>. QED
      BY <1>0, <2>1, <3>1, <3>2, SatisfyKept
  <2>4. CASE satisfyRace(t)
    <3>1. t \notin finished
      BY <1>0, <2>4 DEF OnceInv, satisfyRace
    <3>2. PICK S \in SUBSET mDependedHashMap[t] : satisfy(S)
      BY <2>4 DEF satisfyRace
    <3>3. finished' = finished \cup {t}
      BY <2>4 DEF satisfyRace
    <3>. QED
      BY <1>0, <2>1, <3>1, <3>2, <3>3, SatisfyKept
  <2>. QED
    BY <1>3, <2>2, <2>3, <2>4
       DEF TaskStep, runBegin, waitToSatisfy, runThrows, markLists, countDown,
           decrement, runCancelled
<1>4. CASE UNCHANGED vars
  BY <1>1, <1>4 DEF vars
<1>. QED
  BY Zenon, <1>1, <1>2, <1>3, <1>4
     DEF Next, MainStep, ClientStep, addTask, collectDepends, addTaskEnd, start,
         startThrows, sendTask, sendEnd, executeTaskMainEnd, executeTask,
         cancel, await, awaitLog, awaitLogThrows, awaitCount, awaitLatch,
         awaitTimeout

-----------------------------------------------------------------------------
\* Steps that enter the body of no task.
LEMMA DependenciesKept ==
  ASSUME DependenciesFirst,
         finished \subseteq finished', interrupted \subseteq interrupted',
         \A t \in Batch : Ran(t)' => Ran(t)
  PROVE  DependenciesFirst'
BY DEF DependenciesFirst

\* Only an open latch lets a task into its body.
LEMMA DependenciesStep == IInv /\ [Next]_vars => DependenciesFirst'
<1> USE Zenon
<1> SUFFICES ASSUME IInv, [Next]_vars PROVE DependenciesFirst'
  OBVIOUS
<1> USE DEF addVars, mainVars, listVars, waitVars, taskVars, Marking
<1>0. TypeOK /\ SendInv /\ LatchInv /\ DependenciesFirst
  BY DEF IInv
<1>type. status \in [Tasks -> Statuses]
  BY <1>0 DEF TypeOK
<1>1. CASE UNCHANGED <<status, finished, interrupted>>
  BY <1>0, <1>1, DependenciesKept DEF Ran, Skipped
<1>2. CASE (\E t \in Tasks : executeTask(t)) \/ sendTask
  <2>1. \A u \in Batch : Ran(u)' => Ran(u)
    <3>1. CASE sendTask
      <4>1. mAllTasks[mainIdx] \in Tasks
        BY SMT, <1>0, <3>1 DEF sendTask, TypeOK
      <4>. QED
        BY <1>0, <1>type, <3>1, <4>1 DEF sendTask, Ran, Skipped, Batch
    <3>2. ASSUME NEW t \in Tasks, executeTask(t) PROVE \A u \in Batch : Ran(u)' => Ran(u)
      BY <1>0, <1>type, <3>2 DEF executeTask, Ran, Skipped, Batch
    <3>. QED
      BY <1>2, <3>1, <3>2
  <2>. QED
    BY <1>0, <1>2, <2>1, DependenciesKept DEF executeTask, sendTask
<1>3. CASE cancel
  <2>1. \A u \in Batch : Ran(u)' => Ran(u)
    BY <1>0, <1>type, <1>3 DEF cancel, Ran, Skipped, Batch
  <2>. QED
    BY <1>0, <1>3, <2>1, DependenciesKept DEF cancel
<1>4. ASSUME NEW t \in Tasks, TaskStep(t) PROVE DependenciesFirst'
  <2>1. CASE waitToSatisfy(t)
    <3>1. /\ finished' = finished /\ interrupted' = interrupted
          /\ \A u \in Batch \ {t} : Ran(u)' => Ran(u)
      BY <1>0, <1>type, <2>1 DEF waitToSatisfy, Ran, Skipped, Batch
    <3>2. ASSUME t \in Batch \ interrupted PROVE DependsOn[t] \subseteq finished
      <4>0. t \in Batch /\ status[t] # "new"
        BY <2>1, <3>2 DEF waitToSatisfy
      <4>1. t \in Sendable
        BY <1>0, <4>0 DEF SendInv
      <4>2. mDepends[t] = 0
        BY <2>1, <3>2 DEF waitToSatisfy
      <4>3. Cardinality(DependsOn[t] \ finished) <= 0
        BY <1>0, <4>1, <4>2, DependsFinite DEF LatchInv
      <4>. QED
        BY <4>3, NoneLeft
    <3>. QED
      BY <1>0, <3>1, <3>2 DEF DependenciesFirst
  <2>2. CASE runBegin(t) \/ runTask(t) \/ runThrows(t) \/ satisfyRace(t)
    <3>1. \A u \in Batch : Ran(u)' => Ran(u)
      <4>1. CASE runBegin(t)
        BY <1>type, <4>1 DEF runBegin, Ran, Skipped, Batch
      <4>2. CASE runTask(t)
        BY <1>type, <4>2 DEF runTask, Ran, Skipped, Batch
      <4>3. CASE runThrows(t) \/ satisfyRace(t)
        BY <1>type, <4>3 DEF runThrows, satisfyRace, Ran, Skipped, Batch
      <4>. QED
        BY <2>2, <4>1, <4>2, <4>3
    <3>2. finished \subseteq finished' /\ interrupted' = interrupted
      BY <2>2 DEF runBegin, runTask, runThrows, satisfyRace
    <3>. QED
      BY <1>0, <3>1, <3>2, DependenciesKept
  <2>3. CASE call(t) \/ markLists(t) \/ countDown(t) \/ decrement(t) \/ runCancelled(t)
    <3>1. \A u \in Batch : Ran(u)' => Ran(u)
      BY <1>0, <1>type, <2>3
         DEF call, markLists, countDown, decrement, runCancelled, Ran, Skipped,
             Batch
    <3>2. finished \subseteq finished' /\ interrupted' = interrupted
      BY <2>3 DEF call, markLists, countDown, decrement, runCancelled
    <3>. QED
      BY <1>0, <3>1, <3>2, DependenciesKept
  <2>. QED
    BY <1>4, <2>1, <2>2, <2>3 DEF TaskStep
<1>5. CASE UNCHANGED vars
  BY <1>1, <1>5 DEF vars
<1>. QED
  BY ZenonT(30), Zenon, <1>1, <1>2, <1>3, <1>4, <1>5
     DEF Next, MainStep, ClientStep, addTask, collectDepends, collectCheck,
         addTaskEnd, start, startThrows, Crash, sendEnd, executeTaskMainEnd,
         await, awaitLog, awaitLogThrows, awaitCount, awaitLatch, awaitTimeout

-----------------------------------------------------------------------------
\* The invariant holds in every reachable state.
THEOREM Invariance == Spec => []IInv
<1>1. IInv /\ [Next]_vars => IInv'
  BY TypeStep, AddStep, SendStep, OnceStep, LatchStep, DependenciesStep DEF IInv
<1>. QED
  BY InitIInv, <1>1, PTL DEF Spec

\* The dispatcher's state keeps its types: no latch is counted below zero and
\* no index of the sending loop leaves its list.
THEOREM TypeCorrect == Spec => []TypeOK
<1>1. IInv => TypeOK
  BY DEF IInv
<1>. QED
  BY Invariance, <1>1, PTL

\* No interleaving of the UI thread, the pools, late addTask() calls,
\* executeTask(), call(), cancel() and failing tasks lets a task of the batch
\* that was not interrupted pass waitToSatisfy() before its dependencies.
THEOREM DependenciesFirstHolds == Spec => []DependenciesFirst
<1>1. IInv => DependenciesFirst
  BY DEF IInv
<1>. QED
  BY Invariance, <1>1, PTL

-----------------------------------------------------------------------------
(* await(): the counter and the latch                                      *)

\* The tasks await() waits for are all of the batch.
NoLateWait == Extra \cap NeedWait = {}

\* The tasks added that await() waits for, but for those whose thread is at one
\* of the places S.
Left(S) == {t \in Added : ifNeedWait(t) /\ status[t] \notin S}

\* Who marks himself done has been sent by start() and has run.
MarkInv ==
  /\ \A t \in Batch : status[t] # "new" => t \in Added
  /\ \A t \in Tasks : status[t] \in Marking => ifNeedWait(t)
  /\ \A t \in Tasks :
       ~Skipped(t) /\ status[t] \in Marking \cup {"done"} => t \in finished

\* The counter and the latch never promise less than there is to wait for.
CountInv ==
  /\ mNeedWaitCount >= Cardinality(Left({"done"}))
  /\ Started => mCountDownLatch >= Cardinality(Left({"decrementing", "done"}))

AInv == IInv /\ MarkInv /\ CountInv

-----------------------------------------------------------------------------
\* Sets of tasks can be counted.
LEMMA TasksFinite ==
  ASSUME NEW A \in SUBSET Tasks
  PROVE  IsFiniteSet(A) /\ Cardinality(A) \in Nat
BY Zenon, TasksAssumption, FS_Subset, FS_CardinalityType

\* Fewer tasks, a smaller count.
LEMMA FewerTasks ==
  ASSUME NEW A \in SUBSET Tasks, NEW B \in SUBSET A
  PROVE  Cardinality(B) <= Cardinality(A)
BY Zenon, TasksFinite, FS_Subset

\* One task more counts for at most one.
LEMMA OneMore ==
  ASSUME NEW A \in SUBSET Tasks, NEW B \in SUBSET Tasks, NEW t, B \subseteq A \cup {t}
  PROVE  Cardinality(B) <= Cardinality(A) + 1
<1> USE Zenon
<1>1. IsFiniteSet(A) /\ Cardinality(A) \in Nat /\ Cardinality(B) \in Nat
  BY TasksFinite
<1>2. IsFiniteSet(A \cup {t})
  BY <1>1, FS_AddElement
<1>3. Cardinality(B) <= Cardinality(A \cup {t})
  BY <1>2, FS_Subset
<1>4. Cardinality(A \cup {t}) = IF t \in A THEN Cardinality(A) ELSE Cardinality(A) + 1
  BY <1>1, FS_AddElement
<1>. QED
  BY SMT, <1>1, <1>3, <1>4

\* A task that leaves takes one off the count.
LEMMA OneTaskLess ==
  ASSUME NEW A \in SUBSET Tasks, NEW t \in A, NEW B \in SUBSET (A \ {t})
  PROVE  Cardinality(B) <= Cardinality(A) - 1
<1> USE Zenon
<1>1. IsFiniteSet(A)
  BY TasksFinite
<1>2. Cardinality(A \ {t}) = Cardinality(A) - 1
  BY <1>1, FS_RemoveElement
<1>3. A \ {t} \in SUBSET Tasks
  OBVIOUS
<1>4. Cardinality(B) <= Cardinality(A \ {t})
  BY <1>3, FewerTasks
<1>. QED
  BY <1>2, <1>4

\* What was added is a set of tasks.
LEMMA AddedTasks == TypeOK => Added \subseteq Tasks
BY SMT DEF TypeOK, Added

\* So is what is left to wait for.
LEMMA LeftTasks ==
  ASSUME TypeOK, NEW S
  PROVE  Left(S) \in SUBSET Tasks
BY Zenon, AddedTasks DEF Left

-----------------------------------------------------------------------------
\* Steps that neither count nor begin to mark.
LEMMA CountKept ==
  ASSUME TypeOK, CountInv, TypeOK',
         mNeedWaitCount' >= mNeedWaitCount, mCountDownLatch' = mCountDownLatch,
         Added' \subseteq Added \cup {t \in Tasks : ~ifNeedWait(t)},
         \A t \in Tasks : ifNeedWait(t) =>
           /\ status[t] = "done" => status'[t] = "done"
           /\ status[t] = "decrementing" => status'[t] = "decrementing"
  PROVE  CountInv'
<1> USE Zenon
<1> DEFINE D == {"done"}
           E == {"decrementing", "done"}
<1>0. Left(D) \in SUBSET Tasks /\ Left(E) \in SUBSET Tasks
  BY LeftTasks
<1>1. Left(D)' \subseteq Left(D) /\ Left(E)' \subseteq Left(E)
  <2>1. ASSUME NEW t \in Added', ifNeedWait(t)
        PROVE  /\ t \in Added
               /\ status[t] = "done" => status'[t] = "done"
               /\ status[t] = "decrementing" => status'[t] = "decrementing"
    <3>1. t \in Added
      BY <2>1
    <3>2. t \in Tasks
      BY <3>1, AddedTasks
    <3>. QED
      BY <2>1, <3>1, <3>2
  <2>. QED
    BY <2>1 DEF Left, ifNeedWait
<1>2. PICK A, B : A = Left(D)' /\ B = Left(E)'
  OBVIOUS
<1>3. /\ Cardinality(A) <= Cardinality(Left(D)) /\ Cardinality(B) <= Cardinality(Left(E))
      /\ Cardinality(A) \in Nat /\ Cardinality(B) \in Nat
      /\ Cardinality(Left(D)) \in Nat /\ Cardinality(Left(E)) \in Nat
  BY <1>0, <1>1, <1>2, FewerTasks, TasksFinite
<1>4. mNeedWaitCount >= Cardinality(Left(D)) /\ mNeedWaitCount \in Int
      /\ mNeedWaitCount' \in Int
  BY DEF CountInv, TypeOK
<1>5. mNeedWaitCount' >= Cardinality(A)
  BY SMT, <1>3, <1>4
<1>6. ASSUME Started' PROVE mCountDownLatch' >= Cardinality(B)
  <2>1. mCountDownLatch \in Nat /\ mCountDownLatch >= Cardinality(Left(E))
    BY <1>6 DEF Started, CountInv, TypeOK
  <2>. QED
    BY SMT, <2>1, <1>3
<1>. QED
  BY <1>2, <1>5, <1>6 DEF CountInv

-----------------------------------------------------------------------------
\* What addTask() has added stays; start() only sorts it.
LEMMA AddedStep ==
  ASSUME TypeOK, TypeOK', [Next]_vars
  PROVE  \/ Added' = Added
         \/ addTaskEnd /\ Added' = Added \cup {adding}
         \/ Added' \subseteq Added /\ \E s \in SortResults : start(s)
<1> USE Zenon
<1> USE DEF addVars, mainVars, listVars, waitVars, taskVars
<1>1. CASE UNCHANGED mAllTasks
  BY <1>1 DEF Added
<1>2. CASE addTaskEnd
  <2>1. adding \in Tasks /\ mAllTasks \in Seq(Tasks)
    BY <1>2 DEF addTaskEnd, TypeOK
  <2>2. mAllTasks' = Append(mAllTasks, adding)
    BY <1>2 DEF addTaskEnd
  <2>3. /\ \A i \in DOMAIN mAllTasks' : mAllTasks'[i] \in Added \cup {adding}
        /\ \A i \in DOMAIN mAllTasks : i \in DOMAIN mAllTasks' /\ mAllTasks'[i] = mAllTasks[i]
        /\ \E i \in DOMAIN mAllTasks' : mAllTasks'[i] = adding
    BY SMT, <2>1, <2>2 DEF Added
  <2>. QED
    BY <1>2, <2>3 DEF Added
<1>3. ASSUME NEW s \in SortResults, start(s)
      PROVE  Added' \subseteq Added /\ \E r \in SortResults : start(r)
  <2>1. mAllTasks' = s /\ s \in [DOMAIN mAllTasks -> Added]
    BY <1>3 DEF start, SortResults
  <2>. QED
    BY <1>3, <2>1 DEF Added
<1>4. CASE UNCHANGED vars
  BY <1>1, <1>4 DEF vars
<1>5. ASSUME NEW t \in Tasks, TaskStep(t) PROVE UNCHANGED mAllTasks
  BY <1>5 DEF TaskStep, runBegin, waitToSatisfy, runTask, runThrows, satisfyRace, call,
              markLists, countDown, decrement, runCancelled
<1>. QED
  BY ZenonT(30), <1>1, <1>2, <1>3, <1>4, <1>5
     DEF Next, MainStep, ClientStep, addTask, collectDepends, collectCheck, startThrows,
         sendTask, sendEnd, executeTaskMainEnd, executeTask, cancel, await, awaitLog,
         awaitLogThrows, awaitCount, awaitLatch, awaitTimeout

\* How a step may move the thread of a task.
LEMMA StatusStep ==
  ASSUME IInv, IInv', [Next]_vars
  PROVE  \/ UNCHANGED <<status, finished>>
         \/ sendTask \/ cancel
         \/ \E t \in Tasks :
              /\ executeTask(t) \/ TaskStep(t)
              /\ \A u \in Tasks \ {t} : status'[u] = status[u]
              /\ finished \subseteq finished'
<1> USE Zenon
<1> USE DEF addVars, mainVars, listVars, waitVars, taskVars
<1>1. CASE UNCHANGED <<status, finished>>
  BY <1>1
<1>2. status \in [Tasks -> Statuses]
  BY DEF IInv, TypeOK
<1>3. ASSUME NEW t \in Tasks, executeTask(t) \/ TaskStep(t)
      PROVE  (\A u \in Tasks \ {t} : status'[u] = status[u]) /\ finished \subseteq finished'
  BY <1>2, <1>3
     DEF executeTask, TaskStep, runBegin, waitToSatisfy, runTask, runThrows, satisfyRace,
         call, markLists, countDown, decrement, runCancelled
<1>4. CASE UNCHANGED vars
  BY <1>1, <1>4 DEF vars
<1>. QED
  BY ZenonT(30), <1>1, <1>3, <1>4
     DEF Next, MainStep, ClientStep, addTask, collectDepends, collectCheck, addTaskEnd,
         start, startThrows, sendEnd, executeTaskMainEnd, await, awaitLog,
         awaitLogThrows, awaitCount, awaitLatch, awaitTimeout

-----------------------------------------------------------------------------
\* A task that marks itself done was sent and, unless it was skipped, has run.
LEMMA MarkStep ==
  ASSUME IInv, IInv', MarkInv, [Next]_vars
  PROVE  MarkInv'
<1> USE Zenon
<1> USE DEF addVars, mainVars, listVars, waitVars, taskVars, Marking
<1>0. TypeOK /\ TypeOK' /\ SendInv
  BY DEF IInv
<1>type. status \in [Tasks -> Statuses] /\ finished \subseteq Tasks
  BY <1>0 DEF TypeOK
<1>1. ASSUME NEW s \in SortResults, start(s) PROVE MarkInv'
  <2>1. \A t \in Batch : status[t] = "new"
    BY <1>0, <1>1 DEF SendInv, start
  <2>. QED
    BY <1>1, <2>1 DEF start, MarkInv, Skipped, ifNeedWait
<1>2. Added \subseteq Added' \/ \E s \in SortResults : start(s)
  BY <1>0, AddedStep
<1>3. SUFFICES ASSUME Added \subseteq Added' PROVE MarkInv'
  BY <1>1, <1>2
<1>4. CASE UNCHANGED <<status, finished>>
  BY <1>3, <1>4 DEF MarkInv, Skipped, ifNeedWait
<1>5. CASE sendTask
  <2> DEFINE t == mAllTasks[mainIdx]
  <2>1. mainIdx \in DOMAIN mAllTasks /\ t \in Tasks
    BY SMT, <1>0, <1>5 DEF sendTask, TypeOK
  <2>2. t \in Added
    BY <2>1 DEF Added
  <2>3. \A u \in Tasks \ {t} : status'[u] = status[u]
    BY <1>type, <1>5, <2>1 DEF sendTask
  <2>4. /\ status'[t] = IF ~Skipped(t) THEN "queued"
                        ELSE IF ifNeedWait(t) THEN "listing" ELSE "done"
        /\ finished' = finished
    BY <1>type, <1>5, <2>1 DEF sendTask
  <2> HIDE DEF t
  <2>. QED
    BY <1>3, <2>1, <2>2, <2>3, <2>4 DEF MarkInv, Skipped, ifNeedWait, Batch
<1>6. CASE cancel
  <2>1. /\ \A t \in Tasks : status'[t] = status[t]
                            \/ (status[t] = "queued" /\ status'[t] = "cancelled")
        /\ finished' = finished
    BY <1>6 DEF cancel, Futures
  <2>. QED
    BY <1>3, <2>1 DEF MarkInv, Skipped, ifNeedWait, Batch
<1>7. ASSUME NEW t \in Tasks, executeTask(t) \/ TaskStep(t),
             \A u \in Tasks \ {t} : status'[u] = status[u], finished \subseteq finished'
      PROVE  MarkInv'
  <2>1. t \in Batch /\ status'[t] # "new" => status[t] # "new"
    BY <1>type, <1>7
       DEF executeTask, Batch, TaskStep, runBegin, waitToSatisfy, runTask, runThrows,
           satisfyRace, call, markLists, countDown, decrement, runCancelled
  <2>2. status'[t] \in Marking => status[t] \in Marking \/ ifNeedWait(t)
    BY <1>type, <1>7
       DEF executeTask, TaskStep, runBegin, waitToSatisfy, runTask, runThrows,
           satisfyRace, call, markLists, countDown, decrement, runCancelled
  <2>3. status'[t] \in Marking \cup {"done"} =>
          status[t] \in Marking \cup {"done"} \/ t \in finished'
    BY <1>type, <1>7
       DEF executeTask, TaskStep, runBegin, waitToSatisfy, runTask, runThrows,
           satisfyRace, call, markLists, countDown, decrement, runCancelled
  <2>. QED
    BY <1>3, <1>7, <2>1, <2>2, <2>3 DEF MarkInv, Skipped, ifNeedWait, Batch
<1>. QED
  BY <1>4, <1>5, <1>6, <1>7, StatusStep

-----------------------------------------------------------------------------
\* The counter and the latch of await().
LEMMA CountStep ==
  ASSUME NoLateWait, IInv, IInv', MarkInv, CountInv, [Next]_vars
  PROVE  CountInv'
<1> USE Zenon
<1> USE DEF addVars, mainVars, listVars, waitVars, taskVars
<1> DEFINE D == {"done"}
           E == {"decrementing", "done"}
<1>0. TypeOK /\ TypeOK' /\ AddInv
  BY DEF IInv
<1>type. /\ status \in [Tasks -> Statuses] /\ finished \subseteq Tasks
         /\ mNeedWaitCount \in Int /\ mNeedWaitCount' \in Int
         /\ mCountDownLatch \in Nat \cup {Null} /\ mCountDownLatch' \in Nat \cup {Null}
  BY <1>0 DEF TypeOK
<1>left. Left(D) \in SUBSET Tasks /\ Left(E) \in SUBSET Tasks
  BY <1>0, LeftTasks
<1>left2. Left(D)' \in SUBSET Tasks /\ Left(E)' \in SUBSET Tasks
  <2>1. Added' \subseteq Tasks
    BY SMT, <1>0 DEF TypeOK, Added
  <2>. QED
    BY <2>1 DEF Left
<1>1. PICK A, B : A = Left(D)' /\ B = Left(E)'
  OBVIOUS
<1>nat. /\ Cardinality(A) \in Nat /\ Cardinality(B) \in Nat
        /\ Cardinality(Left(D)) \in Nat /\ Cardinality(Left(E)) \in Nat
  BY <1>left, <1>left2, <1>1, TasksFinite
<1>inv. /\ mNeedWaitCount >= Cardinality(Left(D))
        /\ Started => mCountDownLatch \in Nat /\ mCountDownLatch >= Cardinality(Left(E))
  BY <1>type DEF CountInv, Started
<1>end. ASSUME mNeedWaitCount' >= Cardinality(A),
               Started' => mCountDownLatch' >= Cardinality(B)
        PROVE  CountInv'
  BY <1>1, <1>end DEF CountInv
<1> HIDE DEF D, E
<1>2. CASE addTaskEnd
  <2>1. Added' \subseteq Added \cup {adding}
    BY <1>0, <1>2, AddedStep
  <2>2. UNCHANGED <<status, mCountDownLatch>> /\ adding \in Tasks
    BY <1>0, <1>2 DEF addTaskEnd, TypeOK
  <2>3. CASE ifNeedWait(adding)
    <3>1. ~Started'
      BY <1>0, <1>2, <2>2, <2>3 DEF addTaskEnd, AddInv, ifNeedWait, NoLateWait, Started
    <3>2. mNeedWaitCount' = mNeedWaitCount + 1
      BY <1>2, <2>3 DEF addTaskEnd
    <3>3. A \in SUBSET Tasks /\ A \subseteq Left(D) \cup {adding}
      BY <1>1, <1>left2, <2>1, <2>2 DEF Left
    <3>4. Cardinality(A) <= Cardinality(Left(D)) + 1
      BY <1>left, <3>3, OneMore
    <3>5. mNeedWaitCount' >= Cardinality(A)
      BY SMT, <1>nat, <1>type, <1>inv, <3>2, <3>4
    <3>. QED
      BY <1>end, <3>1, <3>5
  <2>4. CASE ~ifNeedWait(adding)
    <3>1. mNeedWaitCount' = mNeedWaitCount
      BY <1>2, <2>4 DEF addTaskEnd
    <3>2. mNeedWaitCount' >= mNeedWaitCount
      BY SMT, <1>type, <3>1
    <3>. QED
      BY <1>0, <2>1, <2>2, <2>4, <3>2, CountKept
  <2>. QED
    BY <2>3, <2>4
<1>3. ASSUME NEW s \in SortResults, start(s) PROVE CountInv'
  <2>1. /\ UNCHANGED <<status, mNeedWaitCount>>
        /\ mCountDownLatch' = mNeedWaitCount
    BY <1>3 DEF start
  <2>2. mAllTasks' = s /\ s \in [DOMAIN mAllTasks -> Added]
    BY <1>3 DEF start, SortResults
  <2>3. Added' \subseteq Added
    BY <2>2 DEF Added
  <2>4. A \subseteq Left(D) /\ B \subseteq Left(D)
    BY <1>1, <2>1, <2>3 DEF Left, D, E
  <2>5. Cardinality(A) <= Cardinality(Left(D)) /\ Cardinality(B) <= Cardinality(Left(D))
    BY <1>left, <2>4, FewerTasks
  <2>6. mNeedWaitCount' >= Cardinality(A) /\ mCountDownLatch' >= Cardinality(B)
    BY SMT, <1>nat, <1>type, <1>inv, <2>1, <2>5
  <2>. QED
    BY <1>end, <2>6
<1>4. ASSUME NEW t \in Tasks, countDown(t), Added' = Added PROVE CountInv'
  <2>1. /\ status[t] = "counting" /\ status' = [status EXCEPT ![t] = "decrementing"]
        /\ mNeedWaitCount' = mNeedWaitCount
    BY <1>4 DEF countDown
  <2>2. ifNeedWait(t) /\ t \in Added
    BY <2>1 DEF MarkInv, Marking, ifNeedWait, NoLateWait, Batch
  <2>3. A \subseteq Left(D) /\ B \subseteq Left(E) \ {t} /\ t \in Left(E)
    BY <1>0, <1>1, <1>4, <1>type, <2>1, <2>2, AddedTasks DEF Left, D, E
  <2>4. Cardinality(A) <= Cardinality(Left(D)) /\ Cardinality(B) <= Cardinality(Left(E)) - 1
    BY <1>left, <2>3, FewerTasks, OneTaskLess
  <2>5. mNeedWaitCount' >= Cardinality(A)
    BY SMT, <1>nat, <1>type, <1>inv, <2>1, <2>4
  <2>6. Started' => mCountDownLatch' >= Cardinality(B)
    <3>1. CASE Started
      <4>1. mCountDownLatch' = IF mCountDownLatch > 0 THEN mCountDownLatch - 1 ELSE 0
        BY <1>4, <3>1 DEF countDown
      <4>. QED
        BY SMT, <1>nat, <1>inv, <2>4, <3>1, <4>1
    <3>2. CASE ~Started
      BY <1>4, <3>2 DEF countDown, Started
    <3>. QED
      BY <3>1, <3>2
  <2>. QED
    BY <1>end, <2>5, <2>6
<1>5. ASSUME NEW t \in Tasks, decrement(t), Added' = Added PROVE CountInv'
  <2>1. /\ status[t] = "decrementing" /\ status' = [status EXCEPT ![t] = "done"]
        /\ mNeedWaitCount' = mNeedWaitCount - 1 /\ mCountDownLatch' = mCountDownLatch
    BY <1>5 DEF decrement
  <2>2. ifNeedWait(t) /\ t \in Added
    BY <2>1 DEF MarkInv, Marking, ifNeedWait, NoLateWait, Batch
  <2>3. A \subseteq Left(D) \ {t} /\ B \subseteq Left(E) /\ t \in Left(D)
    BY <1>0, <1>1, <1>5, <1>type, <2>1, <2>2, AddedTasks DEF Left, D, E
  <2>4. Cardinality(A) <= Cardinality(Left(D)) - 1 /\ Cardinality(B) <= Cardinality(Left(E))
    BY <1>left, <2>3, FewerTasks, OneTaskLess
  <2>5. mNeedWaitCount' >= Cardinality(A)
    BY SMT, <1>nat, <1>type, <1>inv, <2>1, <2>4
  <2>6. Started' => mCountDownLatch' >= Cardinality(B)
    <3>1. Started' => Started
      BY <2>1 DEF Started
    <3>. QED
      BY SMT, <1>nat, <1>inv, <2>1, <2>4, <3>1
  <2>. QED
    BY <1>end, <2>5, <2>6
<1>6. ASSUME Added' = Added, mNeedWaitCount' >= mNeedWaitCount,
             mCountDownLatch' = mCountDownLatch,
             \A t \in Tasks : ifNeedWait(t) =>
               /\ status[t] = "done" => status'[t] = "done"
               /\ status[t] = "decrementing" => status'[t] = "decrementing"
      PROVE  CountInv'
  BY <1>0, <1>6, CountKept
<1>7. CASE UNCHANGED <<mAllTasks, mNeedWaitCount, mCountDownLatch, status>>
  <2>1. Added' = Added /\ mNeedWaitCount' >= mNeedWaitCount
    BY SMT, <1>7, <1>type DEF Added
  <2>. QED
    BY <1>6, <1>7, <2>1
<1>8. CASE sendTask
  <2> DEFINE t == mAllTasks[mainIdx]
  <2>1. mainIdx \in DOMAIN mAllTasks /\ t \in Tasks /\ mainIdx >= mainIdx
    BY SMT, <1>0, <1>8 DEF sendTask, TypeOK
  <2>2. status[t] = "new"
    BY <1>8, <2>1 DEF IInv, SendInv, sendTask
  <2>3. \A u \in Tasks \ {t} : status'[u] = status[u]
    BY <1>type, <1>8, <2>1 DEF sendTask
  <2>4. Added' = Added /\ UNCHANGED <<mNeedWaitCount, mCountDownLatch>>
    BY <1>8 DEF sendTask, Added
  <2>5. mNeedWaitCount' >= mNeedWaitCount
    BY SMT, <1>type, <2>4
  <2> HIDE DEF t
  <2>. QED
    BY <1>6, <2>2, <2>3, <2>4, <2>5
<1>9. CASE cancel
  <2>1. \A t \in Tasks : status'[t] = status[t] \/ status[t] = "queued"
    BY <1>9 DEF cancel, Futures
  <2>2. Added' = Added /\ UNCHANGED <<mNeedWaitCount, mCountDownLatch>>
    BY <1>9 DEF cancel, Added
  <2>3. mNeedWaitCount' >= mNeedWaitCount
    BY SMT, <1>type, <2>2
  <2>. QED
    BY <1>6, <2>1, <2>2, <2>3
<1>10. ASSUME NEW t \in Tasks, executeTask(t) PROVE CountInv'
  <2>1. Added' = Added /\ mCountDownLatch' = mCountDownLatch /\ status[t] = "new"
    BY <1>10 DEF executeTask, Added
  <2>2. \A u \in Tasks \ {t} : status'[u] = status[u]
    BY <1>type, <1>10 DEF executeTask
  <2>3. mNeedWaitCount' >= mNeedWaitCount
    BY SMT, <1>type, <1>10 DEF executeTask
  <2>. QED
    BY <1>6, <2>1, <2>2, <2>3
<1>11. ASSUME NEW t \in Tasks, TaskStep(t) PROVE CountInv'
  <2>1. Added' = Added
    BY <1>11
       DEF Added, TaskStep, runBegin, waitToSatisfy, runTask, runThrows, satisfyRace, call,
           markLists, countDown, decrement, runCancelled
  <2>2. SUFFICES ASSUME ~countDown(t), ~decrement(t) PROVE CountInv'
    BY <1>4, <1>5, <2>1
  <2>3. UNCHANGED <<mNeedWaitCount, mCountDownLatch>>
    BY <1>11, <2>2
       DEF TaskStep, runBegin, waitToSatisfy, runTask, runThrows, satisfyRace, call,
           markLists, runCancelled
  <2>4. status[t] \in {"done", "decrementing"} => status' = status
    BY <1>11, <2>2
       DEF TaskStep, runBegin, waitToSatisfy, runTask, runThrows, satisfyRace, call,
           markLists, runCancelled
  <2>5. \A u \in Tasks \ {t} : status'[u] = status[u]
    BY <1>type, <1>11
       DEF TaskStep, runBegin, waitToSatisfy, runTask, runThrows, satisfyRace, call,
           markLists, countDown, decrement, runCancelled
  <2>6. mNeedWaitCount' >= mNeedWaitCount
    BY SMT, <1>type, <2>3
  <2>. QED
    BY <1>6, <2>1, <2>3, <2>4, <2>5, <2>6
<1>12. CASE UNCHANGED vars
  BY <1>7, <1>12 DEF vars
<1>. QED
  BY ZenonT(30), <1>2, <1>3, <1>7, <1>8, <1>9, <1>10, <1>11, <1>12
     DEF Next, MainStep, ClientStep, addTask, collectDepends, collectCheck, startThrows,
         sendEnd, executeTaskMainEnd, await, awaitLog, awaitLogThrows, awaitCount,
         awaitLatch, awaitTimeout

-----------------------------------------------------------------------------
\* Nothing is added at first.
LEMMA AwaitInit == Init => MarkInv /\ CountInv
<1> USE Zenon
<1> SUFFICES ASSUME Init PROVE MarkInv /\ CountInv
  OBVIOUS
<1>1. Added = {} /\ mCountDownLatch = Null /\ mNeedWaitCount = 0
  BY SMT DEF Init, Added
<1>2. Left({"done"}) = {}
  BY <1>1 DEF Left
<1>3. mNeedWaitCount >= Cardinality(Left({"done"}))
  BY SMT, <1>1, <1>2, FS_EmptySet
<1>4. CountInv
  BY <1>1, <1>3 DEF CountInv, Started
<1>5. \A t \in Tasks : status[t] = "new"
  BY DEF Init
<1>6. MarkInv
  BY <1>5 DEF MarkInv, Marking, Batch
<1>. QED
  BY <1>4, <1>6

\* A count of zero leaves nothing to wait for.
LEMMA NothingLeft ==
  ASSUME TypeOK, NEW S, Cardinality(Left(S)) <= 0
  PROVE  \A t \in Added : ifNeedWait(t) => status[t] \in S
<1> USE Zenon
<1>1. PICK L : L = Left(S)
  OBVIOUS
<1>2. L \in SUBSET Tasks /\ Cardinality(L) <= 0
  BY <1>1, LeftTasks
<1>3. IsFiniteSet(L) /\ Cardinality(L) \in Nat
  BY <1>2, TasksFinite
<1>4. Cardinality(L) = 0
  BY SMT, <1>2, <1>3
<1>5. L = {}
  BY <1>3, <1>4, FS_EmptySet
<1>. QED
  BY <1>1, <1>5 DEF Left

\* Where await() returns, what it is there for has finished.
LEMMA ReturnStep ==
  ASSUME AInv, [Next]_vars, mainPc \in {"awaitCount", "awaitLatch"}, mainPc' = "client",
         ~timedOut'
  PROVE  Awaited \subseteq finished
<1> USE Zenon
<1> USE DEF addVars, mainVars, listVars, waitVars, taskVars
<1>0. TypeOK /\ MarkInv /\ CountInv
  BY DEF AInv, IInv
<1>type. /\ mNeedWaitCount \in Int /\ mCountDownLatch \in Nat \cup {Null}
         /\ Added \subseteq Tasks
  BY <1>0, AddedTasks DEF TypeOK
<1>1. ASSUME \A t \in Added : ifNeedWait(t) => status[t] \in {"decrementing", "done"}
      PROVE  Awaited \subseteq finished
  BY <1>0, <1>1, <1>type DEF Awaited, MarkInv, Marking
<1>2. ASSUME awaitCount PROVE Awaited \subseteq finished
  <2>1. mNeedWaitCount <= 0
    BY <1>2 DEF awaitCount
  <2>2. Cardinality(Left({"done"})) \in Nat
    BY <1>0, LeftTasks, TasksFinite
  <2>3. Cardinality(Left({"done"})) <= 0
    BY SMT, <1>0, <1>type, <2>1, <2>2 DEF CountInv
  <2>. QED
    BY <1>0, <1>1, <2>3, NothingLeft
<1>3. ASSUME awaitLatch PROVE Awaited \subseteq finished
  <2>1. mCountDownLatch = 0
    BY <1>3 DEF awaitLatch
  <2>2. Started
    BY SMT, <2>1, PoolAssumption DEF Started
  <2>3. Cardinality(Left({"decrementing", "done"})) \in Nat
    BY <1>0, LeftTasks, TasksFinite
  <2>4. mCountDownLatch >= Cardinality(Left({"decrementing", "done"}))
    BY <1>0, <2>2 DEF CountInv
  <2>5. Cardinality(Left({"decrementing", "done"})) <= 0
    BY SMT, <2>1, <2>3, <2>4
  <2>. QED
    BY <1>0, <1>1, <2>5, NothingLeft
<1>4. ASSUME NEW t \in Tasks, TaskStep(t) PROVE mainPc' # "client"
  BY <1>4
     DEF TaskStep, runBegin, waitToSatisfy, runTask, runThrows, satisfyRace, call,
         markLists, countDown, decrement, runCancelled, Crash
<1>. QED
  BY ZenonT(30), <1>2, <1>3, <1>4
     DEF Next, MainStep, ClientStep, addTask, collectDepends, collectCheck, addTaskEnd,
         start, startThrows, Crash, sendTask, sendEnd, executeTaskMainEnd, executeTask,
         cancel, await, awaitLog, awaitLogThrows, awaitTimeout, vars

\* If the tasks with needWait() are all added before start(), await() returns
\* before WAITTIME only when each of them that was not skipped has finished:
\* whatever fails, is cancelled, loses an update of the two lists or is added
\* and executed meanwhile.
THEOREM AwaitCompleteHolds == NoLateWait => (Spec => AwaitComplete)
<1> SUFFICES ASSUME NoLateWait PROVE Spec => AwaitComplete
  OBVIOUS
<1>1. Init => AInv
  BY InitIInv, AwaitInit DEF AInv
<1>2. AInv /\ [Next]_vars => AInv'
  <2> SUFFICES ASSUME AInv, [Next]_vars PROVE AInv'
    OBVIOUS
  <2>1. IInv /\ MarkInv /\ CountInv
    BY DEF AInv
  <2>2. IInv'
    BY <2>1, TypeStep, AddStep, SendStep, OnceStep, LatchStep, DependenciesStep DEF IInv
  <2>. QED
    BY <2>1, <2>2, MarkStep, CountStep DEF AInv
<1>3. AInv /\ [Next]_vars =>
        [(/\ mainPc \in {"awaitCount", "awaitLatch"}
          /\ mainPc' = "client" /\ ~timedOut') => Awaited \subseteq finished]_vars
  BY ReturnStep
<1>. QED
  BY <1>1, <1>2, <1>3, PTL DEF Spec, AwaitComplete
====
