----------------------------- MODULE HiExecutor -----------------------------
(***************************************************************************)
(* hi-library: executor/HiExecutor.kt.                                     *)
(*                                                                         *)
(* A ThreadPoolExecutor over a priority queue that can be paused, and the  *)
(* Callable whose callbacks go to the main thread through one Handler.     *)
(* The queue is unbounded, so that the pool never grows past its core      *)
(* threads; beforeExecute reads isPaused without the lock.                 *)
(***************************************************************************)
EXTENDS Integers, Sequences, FiniteSets

CONSTANTS
  Jobs,        \* the Runnables handed to execute(), each once
  Priority,    \* their priorities
  Callables,   \* the ones that are Callables
  CoreSize,    \* corePoolSize
  None

ASSUME ExecutorAssumption ==
  /\ IsFiniteSet(Jobs) /\ None \notin Jobs
  /\ Priority \in [Jobs -> 0..10]
  /\ Callables \subseteq Jobs
  /\ CoreSize \in Nat \ {0}

VARIABLES
  isPaused,
  submitted,      \* jobs given to execute()
  blockingQueue,  \* jobs in the priority queue
  pc,             \* of each worker
  held,           \* the job of each worker
  done,           \* jobs whose run() has returned
  mainQueue,      \* pending messages of mainHandler
  completed,      \* Callables whose onCompleted() ran
  leaked          \* jobs whose run() began since pause(), while still paused

poolVars == <<submitted, blockingQueue, pc, held, done, leaked>>
mainVars == <<mainQueue, completed>>
vars == <<isPaused, poolVars, mainVars>>

Workers == 1..CoreSize

\* "none": no thread yet; "take": between two jobs; "before": at the test of
\* isPaused; "lock": saw it true; "waiting": in pauseCondition.await();
\* "signalled": woken, to take the lock again; "ready": before run(); then the
\* steps of Callable.run().
Pcs == {"none", "take", "before", "lock", "waiting", "signalled", "ready",
        "background", "remove", "post"}

Message(kind, j) == [kind |-> kind, job |-> j]

Init ==
  /\ isPaused = FALSE /\ submitted = {} /\ blockingQueue = {}
  /\ pc = [w \in Workers |-> "none"] /\ held = [w \in Workers |-> None]
  /\ done = {} /\ mainQueue = <<>> /\ completed = {} /\ leaked = 0

-----------------------------------------------------------------------------
(* The pool                                                                *)

\* Below corePoolSize a job comes with a thread of its own.
execute(j) ==
  /\ j \notin submitted
  /\ submitted' = submitted \cup {j}
  /\ \/ \E w \in Workers :
          /\ pc[w] = "none" /\ \A v \in 1..(w - 1) : pc[v] # "none"
          /\ pc' = [pc EXCEPT ![w] = "before"]
          /\ held' = [held EXCEPT ![w] = j]
          /\ UNCHANGED blockingQueue
     \/ /\ \A w \in Workers : pc[w] # "none"
        /\ blockingQueue' = blockingQueue \cup {j}
        /\ UNCHANGED <<pc, held>>
  /\ UNCHANGED <<isPaused, done, leaked, mainVars>>

\* compareTo(): the head of the queue has the highest priority; ties are open.
First(S) == {j \in S : \A k \in S : Priority[j] >= Priority[k]}

take(w) ==
  /\ pc[w] = "take"
  /\ \E j \in First(blockingQueue) :
       /\ blockingQueue' = blockingQueue \ {j}
       /\ held' = [held EXCEPT ![w] = j]
  /\ pc' = [pc EXCEPT ![w] = "before"]
  /\ UNCHANGED <<isPaused, submitted, done, leaked, mainVars>>

\* Mutant: beforeExecute() is not overridden.
beforeExecuteEmpty(w) ==
  /\ pc[w] = "before"
  /\ pc' = [pc EXCEPT ![w] = "ready"]
  /\ UNCHANGED <<isPaused, submitted, blockingQueue, held, done, leaked, mainVars>>

beforeExecute(w) ==
  /\ pc[w] = "before"
  /\ pc' = [pc EXCEPT ![w] = IF isPaused THEN "lock" ELSE "ready"]
  /\ UNCHANGED <<isPaused, submitted, blockingQueue, held, done, leaked, mainVars>>

\* lock() and await(): isPaused is not read again.
pauseAwait(w) ==
  /\ pc[w] = "lock"
  /\ pc' = [pc EXCEPT ![w] = "waiting"]
  /\ UNCHANGED <<isPaused, submitted, blockingQueue, held, done, leaked, mainVars>>

\* await() returns; there is no loop around it.
pauseAwaitReturns(w) ==
  /\ pc[w] = "signalled"
  /\ pc' = [pc EXCEPT ![w] = "ready"]
  /\ UNCHANGED <<isPaused, submitted, blockingQueue, held, done, leaked, mainVars>>

-----------------------------------------------------------------------------
(* pause() and resume(), each in the lock                                  *)

pause ==
  /\ ~isPaused
  /\ isPaused' = TRUE /\ leaked' = 0
  /\ UNCHANGED <<submitted, blockingQueue, pc, held, done, mainVars>>

\* Mutant: nobody is signalled.
resumeSilent ==
  /\ isPaused
  /\ isPaused' = FALSE /\ leaked' = 0
  /\ UNCHANGED <<submitted, blockingQueue, pc, held, done, mainVars>>

resume ==
  /\ isPaused
  /\ isPaused' = FALSE /\ leaked' = 0
  /\ pc' = [w \in Workers |-> IF pc[w] = "waiting" THEN "signalled" ELSE pc[w]]
  /\ UNCHANGED <<submitted, blockingQueue, held, done, mainVars>>

-----------------------------------------------------------------------------
(* run()                                                                   *)

Begins == leaked' = IF isPaused THEN leaked + 1 ELSE leaked

runEnds(w) ==
  /\ pc' = [pc EXCEPT ![w] = "take"]
  /\ held' = [held EXCEPT ![w] = None]
  /\ done' = done \cup {held[w]}

run(w) ==
  /\ pc[w] = "ready" /\ held[w] \notin Callables
  /\ Begins /\ runEnds(w)
  /\ UNCHANGED <<isPaused, submitted, blockingQueue, mainVars>>

\* Callable.run(), four steps: post onPrepare ...
postPrepare(w) ==
  /\ pc[w] = "ready" /\ held[w] \in Callables
  /\ Begins
  /\ mainQueue' = Append(mainQueue, Message("onPrepare", held[w]))
  /\ pc' = [pc EXCEPT ![w] = "background"]
  /\ UNCHANGED <<isPaused, submitted, blockingQueue, held, done, completed>>

onBackground(w) ==
  /\ pc[w] = "background"
  /\ pc' = [pc EXCEPT ![w] = "remove"]
  /\ UNCHANGED <<isPaused, submitted, blockingQueue, held, done, leaked, mainVars>>

\* ... clear the Handler, whoever posted the messages ...
removeCallbacksAndMessages(w) ==
  /\ pc[w] = "remove"
  /\ mainQueue' = <<>>
  /\ pc' = [pc EXCEPT ![w] = "post"]
  /\ UNCHANGED <<isPaused, submitted, blockingQueue, held, done, leaked, completed>>

\* ... and post onCompleted.
postCompleted(w) ==
  /\ pc[w] = "post"
  /\ mainQueue' = Append(mainQueue, Message("onCompleted", held[w]))
  /\ runEnds(w)
  /\ UNCHANGED <<isPaused, submitted, blockingQueue, leaked, completed>>

\* The main looper handles the next message.
dispatchMessage ==
  /\ mainQueue # <<>>
  /\ mainQueue' = Tail(mainQueue)
  /\ completed' = completed \cup
       {j \in Callables : Head(mainQueue) = Message("onCompleted", j)}
  /\ UNCHANGED <<isPaused, poolVars>>

-----------------------------------------------------------------------------
WorkerStep(w) ==
  \/ take(w) \/ beforeExecute(w) \/ pauseAwait(w) \/ pauseAwaitReturns(w)
  \/ run(w) \/ postPrepare(w) \/ onBackground(w)
  \/ removeCallbacksAndMessages(w) \/ postCompleted(w)

Next ==
  \/ \E j \in Jobs : execute(j)
  \/ pause \/ resume
  \/ \E w \in Workers : WorkerStep(w)
  \/ dispatchMessage

Spec == Init /\ [][Next]_vars

\* Threads keep running, the main looper included; clients may stop.
Fairness == WF_vars(dispatchMessage) /\ \A w \in Workers : WF_vars(WorkerStep(w))
FairSpec == Spec /\ Fairness

-----------------------------------------------------------------------------
(* Properties                                                              *)

TypeOK ==
  /\ isPaused \in BOOLEAN /\ leaked \in Nat
  /\ submitted \subseteq Jobs /\ blockingQueue \subseteq submitted
  /\ done \subseteq submitted /\ completed \subseteq Callables
  /\ pc \in [Workers -> Pcs] /\ held \in [Workers -> Jobs \cup {None}]
  /\ mainQueue \in Seq([kind : {"onPrepare", "onCompleted"}, job : Callables])

\* A submitted job is in the queue, with one worker, or done: never lost and
\* never run twice, whatever pause() and resume() do meanwhile.
JobInOnePlace ==
  \A j \in submitted :
    LET holders == {w \in Workers : held[w] = j} IN
    IF j \in blockingQueue \cup done
    THEN holders = {} /\ ~(j \in blockingQueue /\ j \in done)
    ELSE Cardinality(holders) = 1

\* After pause() every worker begins at most one more job: the one that was
\* past the test of isPaused, or past the wait.
PauseLeaksOnePerWorker == leaked <= CoreSize

\* A job is in one place, whoever pauses, resumes and takes; and a pause lets at
\* most one job per worker slip through.
JobsKept == JobInOnePlace /\ PauseLeaksOnePerWorker

\* If the pool is never paused, or is resumed again and again, every job runs:
\* a wake-up that a worker misses is made up for by the next one.
EveryJobRuns ==
  ([]~isPaused \/ ([]<>isPaused /\ []<>~isPaused))
    => []<>(submitted = done)

\* The result of a Callable that has run reaches the main thread.
CompletedDelivered == \A j \in Callables : j \in done ~> j \in completed

(* What the comments of the code say, and the code does not keep.          *)

\* Resuming the pool resumes the jobs pause() held back.
ResumeRestartsAll ==
  <>[]~isPaused => \A j \in Jobs : j \in submitted ~> j \in done

\* A job that pause() held back does not begin while the pool is paused.
HeldJobsWaitForResume ==
  [][\A w \in Workers : isPaused /\ pc[w] = "signalled" => pc'[w] = "signalled"]_vars
====
