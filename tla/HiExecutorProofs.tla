-------------------------- MODULE HiExecutorProofs --------------------------
(***************************************************************************)
(* For every set of jobs, every priorities and every number of workers, a  *)
(* job is never lost or run twice, and a pause lets at most one job per    *)
(* worker begin (theorem JobsKeptHolds).                                   *)
(***************************************************************************)
EXTENDS HiExecutor, FiniteSetTheorems, TLAPS

\* A worker holds a job exactly while it is between take() and the end of run(), and
\* only a Callable is run in steps.
HeldInv ==
  \A w \in Workers :
    /\ held[w] = None <=> pc[w] \in {"none", "take"}
    /\ pc[w] \in {"background", "remove", "post"} => held[w] \in Callables

\* The job of a worker is that worker's alone, and is neither queued nor done; the
\* jobs that are neither queued nor done are held; the queue holds no done job.
PlaceInv ==
  /\ \A w \in Workers : held[w] # None => held[w] \in submitted \ (blockingQueue \cup done)
  /\ \A v, w \in Workers : held[v] # None /\ held[v] = held[w] => v = w
  /\ \A j \in submitted \ (blockingQueue \cup done) : \E w \in Workers : held[w] = j
  /\ blockingQueue \cap done = {}

\* The workers that are past the test of isPaused, or past the wait, and have not
\* begun their job.
PastTest == {w \in Workers : pc[w] \in {"signalled", "ready"}}

\* While the pool is paused nobody comes past the test, so that each job that begins
\* uses up one of the workers that were past it when pause() was called.
LeakInv ==
  IF isPaused THEN leaked + Cardinality(PastTest) <= CoreSize ELSE leaked = 0

\* The inductive invariant.
IInv == TypeOK /\ HeldInv /\ PlaceInv /\ LeakInv

-----------------------------------------------------------------------------
\* The workers of a set are at most CoreSize.
LEMMA WorkersFinite ==
  ASSUME NEW S \in SUBSET Workers
  PROVE  IsFiniteSet(S) /\ Cardinality(S) \in Nat /\ Cardinality(S) <= CoreSize
<1> USE Zenon
<1>1. IsFiniteSet(Workers) /\ Cardinality(Workers) = CoreSize
  BY SMT, FS_Interval, ExecutorAssumption DEF Workers
<1>. QED
  BY <1>1, FS_Subset, FS_CardinalityType

\* A worker that leaves a set of workers takes one off its size.
LEMMA WorkerLeaves ==
  ASSUME NEW S \in SUBSET Workers, NEW w \in S
  PROVE  Cardinality(S \ {w}) = Cardinality(S) - 1
BY WorkersFinite, FS_RemoveElement

\* Fewer workers, smaller count.
LEMMA WorkersFewer ==
  ASSUME NEW S \in SUBSET Workers, NEW T \in SUBSET S
  PROVE  Cardinality(T) <= Cardinality(S)
BY WorkersFinite, FS_Subset

\* The Handler's queue is empty at first, and after removeCallbacksAndMessages().
LEMMA EmptyQueue == ASSUME NEW S PROVE <<>> \in Seq(S)
OBVIOUS

\* Every action keeps the types.
LEMMA TypeStep == TypeOK /\ HeldInv /\ PlaceInv /\ [Next]_vars => TypeOK'
<1> USE Zenon
<1> SUFFICES ASSUME TypeOK, HeldInv, PlaceInv, [Next]_vars PROVE TypeOK'
  OBVIOUS
<1> USE ExecutorAssumption DEF TypeOK, Pcs, mainVars, poolVars
<1>1. ASSUME NEW j \in Jobs, execute(j) PROVE TypeOK'
  BY SMT, <1>1 DEF execute
<1>2. CASE pause
  BY <1>2 DEF pause
<1>3. CASE resume
  BY <1>3 DEF resume
<1>4. CASE dispatchMessage
  BY SMT, <1>4 DEF dispatchMessage
<1>5. ASSUME NEW w \in Workers, take(w) PROVE TypeOK'
  BY <1>5 DEF take, First
<1>6. ASSUME NEW w \in Workers, beforeExecute(w) \/ pauseAwait(w) \/ pauseAwaitReturns(w)
      PROVE  TypeOK'
  BY <1>6 DEF beforeExecute, pauseAwait, pauseAwaitReturns
<1>7. ASSUME NEW w \in Workers, run(w) PROVE TypeOK'
  BY SMT, <1>7 DEF run, runEnds, Begins, HeldInv, PlaceInv
<1>8. ASSUME NEW w \in Workers, postPrepare(w) PROVE TypeOK'
  BY SMT, <1>8 DEF postPrepare, Begins, HeldInv, Message
<1>9. ASSUME NEW w \in Workers, onBackground(w) \/ removeCallbacksAndMessages(w) PROVE TypeOK'
  <2>1. mainQueue' \in Seq([kind : {"onPrepare", "onCompleted"}, job : Callables])
    <3>1. mainQueue' = mainQueue \/ mainQueue' = <<>>
      BY <1>9 DEF onBackground, removeCallbacksAndMessages
    <3>2. <<>> \in Seq([kind : {"onPrepare", "onCompleted"}, job : Callables])
      BY EmptyQueue
    <3>. QED
      BY <3>1, <3>2
  <2>2. pc' \in [Workers -> Pcs]
    BY <1>9 DEF onBackground, removeCallbacksAndMessages
  <2>. QED
    BY <1>9, <2>1, <2>2 DEF onBackground, removeCallbacksAndMessages
<1>10. ASSUME NEW w \in Workers, postCompleted(w) PROVE TypeOK'
  BY SMT, <1>10 DEF postCompleted, runEnds, HeldInv, PlaceInv, Message
<1>11. CASE UNCHANGED vars
  BY <1>11 DEF vars
<1>. QED
  BY <1>1, <1>2, <1>3, <1>4, <1>5, <1>6, <1>7, <1>8, <1>9, <1>10, <1>11 DEF Next, WorkerStep

\* Every action keeps what a worker holds in step with where it is.
LEMMA HeldStep == TypeOK /\ HeldInv /\ [Next]_vars => HeldInv'
<1> USE Zenon
<1> SUFFICES ASSUME TypeOK, HeldInv, [Next]_vars PROVE HeldInv'
  OBVIOUS
<1> USE ExecutorAssumption DEF TypeOK, HeldInv, mainVars, poolVars
<1>1. ASSUME NEW j \in Jobs, execute(j) PROVE HeldInv'
  BY <1>1 DEF execute
<1>2. CASE pause \/ dispatchMessage \/ UNCHANGED vars
  BY <1>2 DEF pause, dispatchMessage, vars
<1>3. CASE resume
  BY <1>3 DEF resume
<1>4. ASSUME NEW w \in Workers, take(w) PROVE HeldInv'
  BY <1>4 DEF take, First
<1>5. ASSUME NEW w \in Workers, beforeExecute(w) \/ pauseAwait(w) \/ pauseAwaitReturns(w)
      PROVE  HeldInv'
  BY <1>5 DEF beforeExecute, pauseAwait, pauseAwaitReturns
<1>6. ASSUME NEW w \in Workers, run(w) \/ postCompleted(w) PROVE HeldInv'
  BY <1>6 DEF run, postCompleted, runEnds
<1>7. ASSUME NEW w \in Workers,
             postPrepare(w) \/ onBackground(w) \/ removeCallbacksAndMessages(w)
      PROVE  HeldInv'
  BY <1>7 DEF postPrepare, onBackground, removeCallbacksAndMessages
<1>. QED
  BY <1>1, <1>2, <1>3, <1>4, <1>5, <1>6, <1>7 DEF Next, WorkerStep

\* Every action leaves every job in one place: execute() gives a new one to a worker
\* or to the queue, take() moves the head of the queue to a worker that holds
\* nothing, and the end of run() moves it on to the jobs that are done.
LEMMA PlaceStep == TypeOK /\ HeldInv /\ PlaceInv /\ [Next]_vars => PlaceInv'
<1> USE Zenon
<1> SUFFICES ASSUME TypeOK, HeldInv, PlaceInv, [Next]_vars PROVE PlaceInv'
  OBVIOUS
<1> USE ExecutorAssumption DEF TypeOK, HeldInv, PlaceInv, mainVars, poolVars
<1>1. ASSUME NEW j \in Jobs, execute(j) PROVE PlaceInv'
  <2>1. CASE UNCHANGED blockingQueue
    <3>1. PICK w \in Workers : /\ pc[w] = "none"
                               /\ held' = [held EXCEPT ![w] = j]
      BY <1>1, <2>1 DEF execute
    <3>2. held[w] = None /\ held'[w] = j /\ \A v \in Workers \ {w} : held'[v] = held[v]
      BY <3>1
    <3>3. submitted' = submitted \cup {j} /\ j \notin submitted /\ done' = done
      BY <1>1 DEF execute
    <3>4. j \notin blockingQueue \cup done /\ j # None
      BY <3>3
    <3>. QED
      BY SMT, <2>1, <3>2, <3>3, <3>4
  <2>2. CASE blockingQueue' = blockingQueue \cup {j} /\ UNCHANGED held
    BY SMT, <1>1, <2>2 DEF execute
  <2>. QED
    BY <1>1, <2>1, <2>2 DEF execute
<1>2. CASE pause \/ resume \/ dispatchMessage \/ UNCHANGED vars
  BY <1>2 DEF pause, resume, dispatchMessage, vars
<1>3. ASSUME NEW w \in Workers, take(w) PROVE PlaceInv'
  <2>1. PICK j \in blockingQueue : /\ blockingQueue' = blockingQueue \ {j}
                                   /\ held' = [held EXCEPT ![w] = j]
    BY <1>3 DEF take, First
  <2>2. held[w] = None /\ held'[w] = j /\ \A v \in Workers \ {w} : held'[v] = held[v]
    BY SMT, <1>3, <2>1 DEF take
  <2>. QED
    BY SMT, <1>3, <2>1, <2>2 DEF take
<1>4. ASSUME NEW w \in Workers, run(w) \/ postCompleted(w) PROVE PlaceInv'
  <2>1. held[w] # None /\ held'[w] = None /\ \A v \in Workers \ {w} : held'[v] = held[v]
    BY SMT, <1>4 DEF run, postCompleted, runEnds
  <2>2. done' = done \cup {held[w]} /\ UNCHANGED <<submitted, blockingQueue>>
    BY <1>4 DEF run, postCompleted, runEnds
  <2>. QED
    BY SMT, <2>1, <2>2
<1>5. ASSUME NEW w \in Workers,
             \/ beforeExecute(w) \/ pauseAwait(w) \/ pauseAwaitReturns(w)
             \/ postPrepare(w) \/ onBackground(w) \/ removeCallbacksAndMessages(w)
      PROVE  PlaceInv'
  BY SMT, <1>5 DEF beforeExecute, pauseAwait, pauseAwaitReturns, postPrepare, onBackground,
              removeCallbacksAndMessages
<1>. QED
  BY <1>1, <1>2, <1>3, <1>4, <1>5 DEF Next, WorkerStep

\* Every action keeps the number of jobs that began since pause() within the number of
\* workers that were past the test then: only run() and the first step of a
\* Callable begin a job, and their worker has to come past the test again.
LEMMA LeakStep == TypeOK /\ LeakInv /\ [Next]_vars => LeakInv'
<1> USE Zenon
<1> SUFFICES ASSUME TypeOK, LeakInv, [Next]_vars PROVE LeakInv'
  OBVIOUS
<1>. PastTest \in SUBSET Workers /\ PastTest' \in SUBSET Workers
  BY DEF PastTest, Workers
<1>. leaked \in Nat /\ CoreSize \in Nat /\ Cardinality(PastTest) \in Nat
     /\ Cardinality(PastTest') \in Nat /\ Cardinality(PastTest') <= CoreSize
  BY WorkersFinite, ExecutorAssumption DEF TypeOK
<1>1. CASE pause
  BY SMT, <1>1 DEF pause, LeakInv
<1>2. CASE resume
  BY <1>2 DEF resume, LeakInv
<1>3. ASSUME NEW w \in Workers, run(w) \/ postPrepare(w) PROVE LeakInv'
  <2>1. w \in PastTest /\ PastTest' = PastTest \ {w}
    BY <1>3 DEF run, runEnds, postPrepare, PastTest, TypeOK
  <2>2. Cardinality(PastTest') = Cardinality(PastTest) - 1
    BY <2>1, WorkerLeaves
  <2>3. isPaused' = isPaused /\ leaked' = IF isPaused THEN leaked + 1 ELSE leaked
    BY <1>3 DEF run, postPrepare, Begins
  <2>. QED
    BY SMT, <2>2, <2>3 DEF LeakInv
<1>4. ASSUME isPaused' = isPaused, leaked' = leaked,
             isPaused => PastTest' \subseteq PastTest
      PROVE  LeakInv'
  BY SMT, <1>4, WorkersFewer DEF LeakInv
<1>5. ASSUME NEW j \in Jobs, execute(j) PROVE LeakInv'
  BY <1>4, <1>5 DEF execute, PastTest, TypeOK
<1>6. ASSUME NEW w \in Workers,
             \/ take(w) \/ beforeExecute(w) \/ pauseAwait(w) \/ pauseAwaitReturns(w)
             \/ onBackground(w) \/ removeCallbacksAndMessages(w) \/ postCompleted(w)
      PROVE  LeakInv'
  <2>1. isPaused' = isPaused /\ leaked' = leaked
    BY <1>6 DEF take, beforeExecute, pauseAwait, pauseAwaitReturns, onBackground,
                removeCallbacksAndMessages, postCompleted
  <2>2. isPaused => PastTest' \subseteq PastTest
    BY <1>6 DEF take, beforeExecute, pauseAwait, pauseAwaitReturns, onBackground,
                removeCallbacksAndMessages, postCompleted, runEnds, PastTest, TypeOK
  <2>. QED
    BY <1>4, <2>1, <2>2
<1>7. CASE dispatchMessage \/ UNCHANGED vars
  BY <1>4, <1>7 DEF dispatchMessage, vars, poolVars, PastTest
<1>. QED
  BY <1>1, <1>2, <1>3, <1>5, <1>6, <1>7 DEF Next, WorkerStep

-----------------------------------------------------------------------------
\* The invariant says that a job is in one place, and bounds what a pause lets through.
LEMMA KeptByInv == IInv => JobsKept
<1> USE Zenon
<1> SUFFICES ASSUME IInv PROVE JobsKept
  OBVIOUS
<1> USE DEF IInv
<1>1. JobInOnePlace
  <2> SUFFICES ASSUME NEW j \in submitted
               PROVE  LET holders == {w \in Workers : held[w] = j}
                      IN IF j \in blockingQueue \cup done
                         THEN holders = {} /\ ~(j \in blockingQueue /\ j \in done)
                         ELSE Cardinality(holders) = 1
    BY DEF JobInOnePlace
  <2> DEFINE holders == {w \in Workers : held[w] = j}
  <2>1. j # None
    BY ExecutorAssumption DEF TypeOK
  <2>2. CASE j \in blockingQueue \cup done
    BY <2>1, <2>2 DEF PlaceInv
  <2>3. CASE j \notin blockingQueue \cup done
    <3>1. PICK w \in Workers : held[w] = j
      BY <2>3 DEF PlaceInv
    <3>2. holders = {w}
      BY <2>1, <3>1 DEF PlaceInv
    <3>. QED
      BY <2>3, <3>2, FS_Singleton
  <2>. QED
    BY <2>2, <2>3
<1>2. PauseLeaksOnePerWorker
  <2>1. Cardinality(PastTest) \in Nat /\ leaked \in Nat /\ CoreSize \in Nat
    BY WorkersFinite, ExecutorAssumption DEF PastTest, TypeOK
  <2>. QED
    BY SMT, <2>1 DEF LeakInv, PauseLeaksOnePerWorker
<1>. QED
  BY <1>1, <1>2 DEF JobsKept

\* No job is submitted and no worker runs when the pool is created.
LEMMA InitInv == Init => IInv
<1> USE Zenon
<1> SUFFICES ASSUME Init PROVE IInv
  OBVIOUS
<1> USE ExecutorAssumption DEF Init
<1>1. TypeOK
  BY EmptyQueue DEF TypeOK, Pcs
<1>2. HeldInv /\ PlaceInv /\ LeakInv
  BY DEF HeldInv, PlaceInv, LeakInv
<1>. QED
  BY <1>1, <1>2 DEF IInv

\* The inductive invariant holds in every reachable state of the pool.
THEOREM ExecutorInvariant == Spec => []IInv
<1>1. IInv /\ [Next]_vars => IInv'
  BY TypeStep, HeldStep, PlaceStep, LeakStep DEF IInv
<1>. QED
  BY <1>1, InitInv, PTL DEF Spec

\* HiExecutor: whatever the number of workers, the priorities and the interleaving of
\* execute(), pause(), resume() and the workers, a submitted job is queued, held by
\* one worker or done, and after a pause() each worker begins at most one more job,
\* although beforeExecute() reads isPaused outside of the lock.
THEOREM JobsKeptHolds == Spec => []JobsKept
<1>1. IInv => JobsKept
  BY KeptByInv
<1>. QED
  BY <1>1, ExecutorInvariant, PTL
=============================================================================
