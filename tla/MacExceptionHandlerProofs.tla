--------------------- MODULE MacExceptionHandlerProofs ---------------------
(***************************************************************************)
(* Proofs about MacExceptionHandler, for every set of threads, any number  *)
(* of calls of WriteMinidump(), crashes and aborts, and every order in     *)
(* which task_threads() lists the threads there are at first.              *)
(*                                                                         *)
(* SuspendThreads() and ResumeThreads() work on copies of a list that      *)
(* changes, and give up at the first failure.  That they undo each other   *)
(* rests on an order: along task_threads() suspend counts never increase.  *)
(***************************************************************************)
EXTENDS MacExceptionHandler, TLAPS

\* The places of the constructor, of the destructor, and of the handler thread
\* in a message's work.
Constructing == {"installGlobal", "installPorts", "startThread"}
Destructing == {"uninstall", "restore", "clear", "shutdown", "nullPort", "free"}
Report == {"dump", "writing", "callback", "request"}
Release == {"resume", "resuming", "unlock"}

\* Where a thread of the program or the handler thread can be.
Places ==
  Constructing \cup Destructing \cup Report \cup Release \cup
    {"none", "idle", "setUse", "lock", "send", "wait", "finish", "abort", "abortReturns",
     "raised", "ended", "top", "receive", "suspend", "suspending", "server", "itself",
     "spins", "gone"}

\* What mach_msg() can bring to the handler's port.
Messages ==
  [id : {"none", "exception", "write", "writeWithException", "shutdown"},
   thread : All, own : BOOLEAN]

\* An exception of a thread of this task; a request of WriteMinidump().
Raise(m) == m.id = "exception" /\ m.own
Request(m) == m.id \in {"write", "writeWithException"}

\* The fields of ExceptionHandler.
Fields ==
  [mutex : BOOLEAN, port : BOOLEAN, previous : {"null", "here", "freed"},
   installed : BOOLEAN, old_handler : BOOLEAN, use_mutex : BOOLEAN, last : BOOLEAN, path : Nat]

\* What each variable can be.
Types ==
  /\ pc \in [All -> Places] /\ eh \in Fields /\ result \in [All -> BOOLEAN]
  /\ obj \in {"none", "alive", "freed"} /\ locked \in BOOLEAN /\ churn \in BOOLEAN
  /\ gHandler \in {"null", "this", "other"}
  /\ sigabrt \in {"old", "ours"} /\ ports \in {"host", "own"}
  /\ queue \in Seq(Messages) /\ msg \in Messages
  /\ live \in Seq(Threads)
  /\ suspended \in [Threads -> Nat] /\ before \in [Threads -> Nat]
  /\ list \in [threads : Seq(Threads), at : Nat \ {0}, whole : BOOLEAN]
  /\ failed \subseteq {"list", "restore"}

\* Each thread of the task is in task_threads() once; one that is not there has
\* not started or has ended, and is not suspended.
LiveInv ==
  /\ \A i, j \in DOMAIN live : live[i] = live[j] => i = j
  /\ \A t \in Threads \ Living : suspended[t] = 0 /\ pc[t] \in {"idle", "ended"}
  /\ \A t \in Living : pc[t] # "ended"

\* A thread whose exception is queued or worked on waits for the answer, and
\* has no other.  The handler thread is in the part of its loop that fits msg.
RaisedInv ==
  /\ \A i \in DOMAIN queue : Raise(queue[i]) => pc[queue[i].thread] = "raised"
  /\ \A i, j \in DOMAIN queue :
       Raise(queue[i]) /\ Raise(queue[j]) /\ queue[i].thread = queue[j].thread => i = j
  /\ Raise(msg) => /\ pc[msg.thread] = "raised"
                   /\ \A i \in DOMAIN queue :
                        Raise(queue[i]) => queue[i].thread # msg.thread
  /\ \A i \in DOMAIN queue : queue[i].id # "none"
  /\ pc[Handler] \in {"suspend", "suspending"} \cup Report => Raise(msg) \/ Request(msg)
  /\ pc[Handler] \in {"uninstall", "restore", "clear"} => Raise(msg)
  /\ pc[Handler] = "server" => Raise(msg) \/ ~msg.own
  /\ pc[Handler] \in Release => Request(msg)

\* minidump_write_mutex_ is held by one thread before its message is sent, for
\* the message until the handler thread unlocks it, or by one that returns.
Holds(t) == pc[t] \in {"send", "finish"}

\* There is one holder, and no other message that would unlock.
LockInv ==
  /\ (\E t \in Threads : Holds(t)) \/ Request(msg) => locked
  /\ \A i \in DOMAIN queue : Request(queue[i]) => locked /\ ~Request(msg)
  /\ \A i, j \in DOMAIN queue : Request(queue[i]) /\ Request(queue[j]) => i = j
  /\ \A t \in Threads : Holds(t) =>
       /\ ~Request(msg) /\ \A i \in DOMAIN queue : ~Request(queue[i])
       /\ \A u \in Threads : Holds(u) => u = t

----------------------------------------------------------------------------
\* Along sequence s the counts c never increase.
Falling(s, c) == \A i, j \in DOMAIN s : i < j => c[s[i]] >= c[s[j]]

\* The order of task_threads() is that of the copy: what is in both comes in one
\* order, and what started since is behind.
InOrder(s, copy) ==
  \A i, j \in DOMAIN s : \A b \in DOMAIN copy :
    i < j /\ s[j] = copy[b] => \E a \in DOMAIN copy : a < b /\ s[i] = copy[a]

\* t is in the copy of task_threads(); the walk has passed t.
Listed(t) == \E i \in DOMAIN list.threads : list.threads[i] = t
Walked(t) == \E i \in DOMAIN list.threads : i < list.at /\ list.threads[i] = t

\* The copy that is walked.
ListInv ==
  /\ \A i, j \in DOMAIN list.threads : list.threads[i] = list.threads[j] => i = j
  /\ Falling(list.threads, before) /\ InOrder(live, list.threads)
  /\ list.at <= Len(list.threads) + 1
  /\ \A t \in Threads : ~Listed(t) => before[t] = 0 /\ suspended[t] = 0
  /\ \A i \in DOMAIN list.threads :
       list.threads[i] \in Living \/ pc[list.threads[i]] = "ended"

\* SuspendThreads() has met t, or t was not suspended before and is not now.
Held(t) ==
  suspended[t] = before[t] + 1 \/ (suspended[t] = 0 /\ before[t] = 0)

\* The suspend counts at each place of the handler thread.
SuspendInv ==
  /\ pc[Handler] \notin {"suspending", "resuming"} => Falling(live, suspended)
  /\ pc[Handler] \in {"suspending", "resuming"} => ListInv
  /\ pc[Handler] = "suspending" =>
       \A t \in Threads : suspended[t] = IF Walked(t) THEN before[t] + 1 ELSE before[t]
  /\ pc[Handler] \in Report \cup {"resume"} => \A t \in Threads : Held(t)
  /\ pc[Handler] = "resuming" =>
       /\ \A t \in Threads : IF Walked(t) THEN suspended[t] = before[t] ELSE Held(t)
       /\ \A i, j \in DOMAIN list.threads :
            list.at <= i /\ i < j =>
              suspended[list.threads[i]] >= suspended[list.threads[j]]
  /\ pc[Handler] = "unlock" /\ list.whole => \A t \in Threads : suspended[t] = before[t]
  /\ pc[Handler] \in Report /\ list.whole =>
       \/ \A i \in DOMAIN list.threads : suspended[list.threads[i]] > 0
       \/ \E i \in DOMAIN list.threads : pc[list.threads[i]] = "ended"

----------------------------------------------------------------------------
\* What is installed is what eh remembers to have installed, and only the
\* constructor installs, before there is a handler thread.
InstallInv ==
  /\ obj = "none" => pc[Owner] \notin Constructing \cup Destructing
  /\ obj = "none" => sigabrt = "old" /\ gHandler # "this"
  /\ obj = "none" \/ pc[Owner] \in Constructing => pc[Handler] = "none"
  /\ pc[Owner] \in Constructing => obj = "alive"
  /\ ports = "own" => eh.installed
  /\ sigabrt = "ours" \/ gHandler = "this" \/ pc[Owner] = "installGlobal"
       => eh.old_handler
  /\ pc[Owner] = "clear" \/ pc[Handler] = "clear" => ports = "host"
  /\ pc[Handler] \in {"restore", "clear"} \/ (pc[Handler] = "server" /\ msg.own)
       => ~eh.old_handler
  /\ pc[Handler] = "server" /\ msg.own => ~eh.installed \/ "restore" \in failed

\* The handler takes SIGABRT.
Aborts == build.install /\ build.mode # "remote" /\ ~build.taken

\* No thread has come or gone in the handler thread's work, and it always had a
\* list of them.
Steady == ~churn /\ "list" \notin failed

\* The handler thread has taken gProtectedData.handler away from a program that
\* has not destroyed it.
Cleared ==
  Aborts /\ Usable /\ gHandler = "null" /\ pc[Handler] # "none" /\ Steady

\* No thread but the handler thread runs.
AllSuspended == \A t \in Living : suspended[t] > 0

\* SIGABRT is taken only with gProtectedData.handler, which the constructor sets
\* before there is a handler thread; without one no SIGABRT finds it missing.
AbortInstalled ==
  /\ obj = "none" => (gHandler = "null" <=> ~build.taken)
  /\ sigabrt = "ours" \/ (\E t \in Threads : pc[t] = "abort") => Aborts
  /\ pc[Owner] = "installGlobal" => Aborts
  /\ Aborts /\ pc[Owner] \in {"installPorts", "startThread"} => gHandler = "this"
  /\ pc[Handler] = "none" /\ gHandler # "this" /\ obj # "freed"
       /\ pc[Owner] \notin Destructing \cup {"installGlobal"} =>
       sigabrt = "old" /\ \A t \in Threads : pc[t] # "abort"

\* The handler thread has stopped every other thread before it takes
\* gProtectedData.handler away, and no later request wakes one of them.
AbortStopped ==
  /\ pc[Handler] = "suspending" /\ Steady => \A t \in Living : Listed(t)
  /\ pc[Handler] = "suspending" /\ Steady =>
       \A i \in DOMAIN list.threads : list.threads[i] \in Living
  /\ Steady /\ (pc[Handler] \in Report \cup {"uninstall"}) => AllSuspended
  /\ Cleared => AllSuspended
  /\ Cleared /\ pc[Handler] \in {"suspending", "resume", "resuming"} \cup Report
       /\ Request(msg) => \A t \in Living : before[t] > 0

\* What SignalHandler() rests on.
AbortInv == AbortInstalled /\ AbortStopped

\* The inductive invariant.
IInv ==
  /\ Types /\ LiveInv /\ RaisedInv /\ LockInv /\ SuspendInv /\ InstallInv /\ AbortInv

----------------------------------------------------------------------------
(* Types                                                                   *)

\* A message made by this process is a message.
LEMMA MessageType ==
  ASSUME NEW t \in All
  PROVE  /\ Exception(t) \in Messages /\ ChildException \in Messages
         /\ NoMessage \in Messages
         /\ \A id \in {"write", "writeWithException", "shutdown"} :
              Message(id, t) \in Messages
BY Zenon, ThreadsAssumption
   DEF Exception, ChildException, NoMessage, Message, Messages, All

\* A step inside WriteMinidump() or SignalHandler() moves its thread only, and
\* touches nothing but the mutex, the queue, the files and fields of eh that
\* say nothing of what is installed.
Inside ==
  {"setUse", "lock", "send", "wait", "finish", "abort", "dump", "writing", "callback",
   "abortReturns"}

\* What steps of WriteMinidump() and SignalHandler() can change.
LEMMA ThreadMoves ==
  ASSUME Types, NEW t \in Threads, threadStep(t)
  PROVE  /\ Running(t) /\ pc[t] \in Inside
         /\ pc'[t] \in (Inside \ {"setUse", "abort"}) \cup {"idle", "request"} \/ pc' = pc
         /\ \A u \in All \ {t} : pc'[u] = pc[u]
         /\ UNCHANGED <<build, obj, gHandler, sigabrt, ports, live, suspended, msg, list,
                        before, failed, churn>>
         /\ eh'.installed = eh.installed /\ eh'.old_handler = eh.old_handler
<1> USE Zenon
<1> USE ThreadsAssumption DEF object, process, handlerLocals, counts, Goto, At, Inside, Set,
       Fields
<1>0. pc \in [All -> Places] /\ eh \in Fields /\ t \in All /\ t # Handler
  BY DEF Types, All
<1>1. ASSUME NEW r, Returns(t, r)
      PROVE  pc' = [pc EXCEPT ![t] = "abortReturns"] /\ UNCHANGED eh
  BY <1>0, <1>1 DEF Returns
<1>2. CASE setUse(t)
  BY <1>0, <1>2 DEF setUse
<1>3. CASE lock(t)
  BY <1>0, <1>3 DEF lock
<1>4. CASE send(t)
  BY <1>0, <1>4 DEF send
<1>5. CASE wait(t)
  BY <1>0, <1>5 DEF wait
<1>6. CASE finish(t)
  BY <1>0, <1>6 DEF finish
<1>7. CASE SignalHandler(t)
  BY <1>0, <1>7 DEF SignalHandler
<1>8. CASE dump(t)
  BY ZenonT(60), <1>0, <1>1, <1>8 DEF dump, Claims, Refuses
<1>9. CASE written(t)
  BY <1>0, <1>9 DEF written
<1>10. CASE callback(t)
  BY <1>0, <1>1, <1>10 DEF callback, Claims
<1>11. CASE abortReturns(t)
  BY <1>0, <1>11 DEF abortReturns
<1>12. CASE lockFails(t)
  BY <1>0, <1>12 DEF lockFails
<1>. QED
  BY <1>2, <1>3, <1>4, <1>5, <1>6, <1>7, <1>8, <1>9, <1>10, <1>11, <1>12 DEF threadStep

\* A step of the handler thread while it reports leaves everything alone but
\* the files and the result of the dump, and goes on as the message asks.
LEMMA ReportMoves ==
  ASSUME Types,
         dump(Handler) \/ RequestDumpForException(Handler) \/ written(Handler)
           \/ callback(Handler)
  PROVE  /\ pc[Handler] \in Report
         /\ \/ pc' = pc \/ pc'[Handler] \in Report
            \/ pc'[Handler] = "uninstall" /\ IsExc
            \/ pc'[Handler] = "resume" /\ ~IsExc
         /\ \A u \in Threads : pc'[u] = pc[u]
         /\ UNCHANGED <<build, obj, gHandler, sigabrt, ports, locked, queue, live,
                        suspended, msg, list, before, failed, churn>>
         /\ eh'.installed = eh.installed /\ eh'.old_handler = eh.old_handler
<1> USE Zenon
<1> USE ThreadsAssumption DEF object, process, handlerLocals, counts, Goto, At, Report, Set
<1>0. /\ pc \in [All -> Places] /\ eh \in Fields /\ Handler \in All
      /\ \A u \in Threads : u \in All /\ u # Handler
  BY DEF Types, All
<1>1. ASSUME NEW r, Returns(Handler, r)
      PROVE  /\ \/ IsExc /\ pc' = [pc EXCEPT ![Handler] = "uninstall"]
                \/ ~IsExc /\ pc' = [pc EXCEPT ![Handler] = "resume"]
             /\ eh'.installed = eh.installed /\ eh'.old_handler = eh.old_handler
  BY <1>0, <1>1 DEF Returns, Fields
<1>2. CASE dump(Handler)
  BY <1>0, <1>1, <1>2 DEF dump, Claims, Refuses
<1>3. CASE RequestDumpForException(Handler)
  BY <1>0, <1>1, <1>3 DEF RequestDumpForException
<1>4. CASE written(Handler)
  BY <1>0, <1>4 DEF written
<1>5. CASE callback(Handler)
  BY <1>0, <1>1, <1>5 DEF callback, Claims
<1>. QED
  BY <1>2, <1>3, <1>4, <1>5

\* Every thread is at a place the model knows.
LEMMA PlacesStep == Types /\ [Next]_vars => pc' \in [All -> Places]
<1> USE Zenon
<1> SUFFICES ASSUME Types, [Next]_vars PROVE pc' \in [All -> Places]
  OBVIOUS
<1> USE ThreadsAssumption
    DEF Goto, Places, Report, Release, Constructing, Destructing, All
<1>0. pc \in [All -> Places] /\ Handler \in All /\ Owner \in All /\ Threads \subseteq All
  BY DEF Types
<1>1. ASSUME NEW t \in All, NEW r, Returns(t, r) PROVE pc' \in [All -> Places]
  BY <1>0, <1>1 DEF Returns
<1>2. ASSUME NEW t \in Threads, setUse(t) PROVE pc' \in [All -> Places]
  BY <1>0, <1>2 DEF setUse
<1>3. ASSUME NEW t \in Threads, lock(t) PROVE pc' \in [All -> Places]
  BY <1>0, <1>3 DEF lock
<1>4. ASSUME NEW t \in Threads, send(t) PROVE pc' \in [All -> Places]
  BY <1>0, <1>4 DEF send
<1>5. ASSUME NEW t \in Threads, wait(t) PROVE pc' \in [All -> Places]
  BY <1>0, <1>5 DEF wait
<1>6. ASSUME NEW t \in Threads, finish(t) PROVE pc' \in [All -> Places]
  BY <1>0, <1>6 DEF finish
<1>7. ASSUME NEW t \in Threads, SignalHandler(t) PROVE pc' \in [All -> Places]
  BY <1>0, <1>7 DEF SignalHandler
<1>8. ASSUME NEW t \in Threads, abortReturns(t) PROVE pc' \in [All -> Places]
  BY <1>0, <1>8 DEF abortReturns
<1>9. ASSUME NEW t \in Threads, WriteMinidump(t) PROVE pc' \in [All -> Places]
  BY <1>0, <1>9 DEF WriteMinidump
<1>10. ASSUME NEW t \in Threads, crash(t) PROVE pc' \in [All -> Places]
  BY <1>0, <1>10 DEF crash
<1>11. ASSUME NEW t \in Threads, abort(t) PROVE pc' \in [All -> Places]
  BY <1>0, <1>11 DEF abort
<1>12. ASSUME NEW t \in Threads, threadEnds(t) PROVE pc' \in [All -> Places]
  BY <1>0, <1>12 DEF threadEnds
<1>13. ASSUME NEW t \in All, dump(t) PROVE pc' \in [All -> Places]
  BY <1>0, <1>1, <1>13 DEF dump, Claims, Refuses
<1>14. ASSUME NEW t \in All, RequestDumpForException(t) PROVE pc' \in [All -> Places]
  BY <1>0, <1>1, <1>14 DEF RequestDumpForException
<1>15. ASSUME NEW t \in All, written(t) PROVE pc' \in [All -> Places]
  BY <1>0, <1>1, <1>15 DEF written
<1>16. ASSUME NEW t \in All, callback(t) PROVE pc' \in [All -> Places]
  BY <1>0, <1>1, <1>16 DEF callback, Claims
<1>17. ASSUME NEW t \in All, uninstallSignal(t) PROVE pc' \in [All -> Places]
  BY <1>0, <1>1, <1>17 DEF uninstallSignal
<1>18. ASSUME NEW t \in All, restorePorts(t) PROVE pc' \in [All -> Places]
  BY <1>0, <1>1, <1>18 DEF restorePorts
<1>19. ASSUME NEW t \in All, clearPrevious(t) PROVE pc' \in [All -> Places]
  BY <1>0, <1>1, <1>19 DEF clearPrevious
<1>20. CASE setup
  BY ZenonT(60), <1>0, <1>20 DEF setup
<1>21. CASE installGlobal
  BY <1>0, <1>21 DEF installGlobal
<1>22. CASE installPorts
  BY <1>0, <1>22 DEF installPorts
<1>23. CASE startThread
  BY <1>0, <1>23 DEF startThread
<1>24. CASE top
  BY <1>0, <1>24 DEF top
<1>25. CASE receive
  BY <1>0, <1>25 DEF receive
<1>26. CASE unlock
  BY <1>0, <1>26 DEF unlock
<1>27. CASE server
  BY ZenonT(60), <1>0, <1>27 DEF server
<1>28. CASE SuspendThreads
  BY <1>0, <1>28 DEF SuspendThreads
<1>29. CASE ResumeThreads
  BY <1>0, <1>29 DEF ResumeThreads
<1>30. CASE dumpCrashes
  BY <1>0, <1>30 DEF dumpCrashes
<1>31. CASE destroy
  BY <1>0, <1>31 DEF destroy
<1>32. CASE shutdown
  BY <1>0, <1>32 DEF shutdown
<1>33. CASE nullPort
  BY <1>0, <1>33 DEF nullPort
<1>34. CASE free
  BY <1>0, <1>34 DEF free
<1>35. CASE enumerate("suspend", "suspending") \/ enumerate("resume", "resuming")
  BY <1>0, <1>35 DEF enumerate
<1>42. CASE enumerateFails("suspend", "dump") \/ enumerateFails("resume", "unlock")
  BY <1>0, <1>42 DEF enumerateFails
<1>43. ASSUME NEW t \in All, restoreFails(t) PROVE pc' \in [All -> Places]
  BY <1>0, <1>43 DEF restoreFails
<1>44. CASE forwardsToItself
  BY <1>0, <1>44 DEF forwardsToItself
<1>45. ASSUME NEW t \in Threads, lockFails(t) PROVE pc' \in [All -> Places]
  BY <1>0, <1>45 DEF lockFails
<1>36. CASE UNCHANGED pc
  BY <1>0, <1>36
<1>37. ASSUME NEW t \in Threads, threadStep(t) PROVE pc' \in [All -> Places]
  BY <1>2, <1>3, <1>4, <1>5, <1>6, <1>7, <1>8, <1>13, <1>15, <1>16, <1>36, <1>45, <1>0,
     <1>37
     DEF threadStep
<1>38. CASE handlerThread
  BY <1>13, <1>14, <1>15, <1>16, <1>17, <1>18, <1>19, <1>24, <1>25, <1>26, <1>27, <1>28,
     <1>29, <1>35, <1>36, <1>42, <1>43, <1>44, <1>0, <1>38
     DEF handlerThread
<1>39. CASE ownerStep
  BY <1>17, <1>18, <1>19, <1>21, <1>22, <1>23, <1>32, <1>33, <1>34, <1>36, <1>43, <1>0,
     <1>39
     DEF ownerStep
<1>40. CASE program
  BY <1>9, <1>10, <1>11, <1>12, <1>20, <1>30, <1>31, <1>36, <1>0, <1>40
     DEF program, childCrashes, refused, threadStarts, vars
<1>41. CASE UNCHANGED vars
  BY <1>36, <1>41 DEF vars
<1>. QED
  BY <1>37, <1>38, <1>39, <1>40, <1>41 DEF Next

\* The fields of the object and the results keep their types.
LEMMA FieldsStep == Types /\ [Next]_vars => eh' \in Fields /\ result' \in [All -> BOOLEAN]
<1> USE Zenon
<1> SUFFICES ASSUME Types, [Next]_vars PROVE eh' \in Fields /\ result' \in [All -> BOOLEAN]
  OBVIOUS
<1> USE ThreadsAssumption 
<1>0. /\ eh \in Fields /\ result \in [All -> BOOLEAN] /\ eh.path + 1 \in Nat
      /\ Handler \in All /\ Owner \in All /\ Threads \subseteq All
  <2>1. eh \in Fields /\ result \in [All -> BOOLEAN]
    BY DEF Types
  <2>2. eh.path \in Nat
    BY <2>1 DEF Fields
  <2>3. eh.path + 1 \in Nat
    BY SMT, <2>2
  <2>. QED
    BY <2>1, <2>3 DEF All
<1>1. ASSUME NEW t \in All, NEW r \in BOOLEAN, Returns(t, r)
      PROVE  eh' \in Fields /\ result' \in [All -> BOOLEAN]
  BY ZenonT(60), <1>0, <1>1 DEF Returns, Set, Fields
<1>2. ASSUME NEW t \in Threads, setUse(t) PROVE eh' \in Fields /\ result' \in [All -> BOOLEAN]
  BY <1>0, <1>2 DEF Set, Fields, object, setUse
<1>3. ASSUME NEW t \in Threads, finish(t) PROVE eh' \in Fields /\ result' \in [All -> BOOLEAN]
  BY <1>0, <1>3 DEF Set, Fields, object, finish
<1>4. ASSUME NEW t \in All, dump(t)
      PROVE  eh' \in Fields /\ result' \in [All -> BOOLEAN]
  BY <1>0, <1>1, <1>4 DEF Set, Fields, object, dump, Claims, Refuses
<1>5. ASSUME NEW t \in All, RequestDumpForException(t)
      PROVE  eh' \in Fields /\ result' \in [All -> BOOLEAN]
  BY <1>0, <1>1, <1>5 DEF Set, Fields, object, RequestDumpForException
<1>6. ASSUME NEW t \in All, written(t)
      PROVE  eh' \in Fields /\ result' \in [All -> BOOLEAN]
  BY <1>0, <1>1, <1>6 DEF Set, Fields, object, written
<1>7. ASSUME NEW t \in All, callback(t)
      PROVE  eh' \in Fields /\ result' \in [All -> BOOLEAN]
  BY ZenonT(60), <1>0, <1>1, <1>7 DEF Set, Fields, object, callback, Claims
<1>8. ASSUME NEW t \in All, uninstallSignal(t)
      PROVE  eh' \in Fields /\ result' \in [All -> BOOLEAN]
  BY ZenonT(60), <1>0, <1>1, <1>8 DEF Set, Fields, object, uninstallSignal
<1>9. ASSUME NEW t \in All, restorePorts(t)
      PROVE  eh' \in Fields /\ result' \in [All -> BOOLEAN]
  BY ZenonT(60), <1>0, <1>1, <1>9 DEF Set, Fields, object, restorePorts
<1>10. ASSUME NEW t \in All, clearPrevious(t)
      PROVE  eh' \in Fields /\ result' \in [All -> BOOLEAN]
  BY <1>0, <1>1, <1>10 DEF Set, Fields, object, clearPrevious
<1>11. CASE setup
  <2>1. \A p \in Prepared : p.mutex \in BOOLEAN /\ p.port \in BOOLEAN
    <3> SUFFICES ASSUME NEW p \in Prepared PROVE p.mutex \in BOOLEAN /\ p.port \in BOOLEAN
      OBVIOUS
    <3>1. PICK m \in BOOLEAN, q \in BOOLEAN : p = [mutex |-> m, port |-> q]
      BY DEF Prepared
    <3>2. p.mutex = m /\ p.port = q
      BY <3>1
    <3>. QED
      BY <3>2
  <2>2. PICK p \in Prepared, signalled \in BOOLEAN :
          eh' = [eh EXCEPT !.mutex = p.mutex, !.port = p.port, !.old_handler = signalled]
    BY <1>11 DEF setup
  <2>3. UNCHANGED result
    BY <1>11 DEF setup
  <2>. QED
    BY ZenonT(60), <1>0, <2>1, <2>2, <2>3 DEF Fields
<1>12. CASE installPorts
  BY <1>0, <1>12 DEF Set, Fields, object, installPorts
<1>13. CASE nullPort
  BY <1>0, <1>13 DEF Set, Fields, object, nullPort
<1>20. ASSUME NEW t \in Threads, lockFails(t)
       PROVE  eh' \in Fields /\ result' \in [All -> BOOLEAN]
  BY <1>0, <1>20 DEF Set, Fields, object, lockFails
<1>14. CASE UNCHANGED <<eh, result>>
  BY <1>0, <1>14
<1>15. ASSUME NEW t \in Threads, threadStep(t) PROVE eh' \in Fields /\ result' \in [All -> BOOLEAN]
  BY <1>2, <1>3, <1>4, <1>6, <1>7, <1>14, <1>20, <1>0, <1>15
     DEF threadStep, lock, send, wait, SignalHandler, abortReturns, object, process,
         handlerLocals, counts
<1>16. CASE handlerThread
  BY <1>4, <1>5, <1>6, <1>7, <1>8, <1>9, <1>10, <1>14, <1>0, <1>16
     DEF handlerThread, top, receive, unlock, server, enumerate, SuspendThreads,
         ResumeThreads, enumerateFails, restoreFails, forwardsToItself, object, process,
         handlerLocals, counts
<1>17. CASE ownerStep
  BY <1>8, <1>9, <1>10, <1>12, <1>13, <1>14, <1>0, <1>17
     DEF ownerStep, installGlobal, startThread, restoreFails, shutdown, free, object,
         process, handlerLocals, counts
<1>18. CASE program
  BY <1>11, <1>14, <1>0, <1>18
     DEF program, destroy, childCrashes, dumpCrashes, WriteMinidump, refused, crash,
         abort, threadStarts, threadEnds, object, process, handlerLocals, counts, vars
<1>19. CASE UNCHANGED vars
  BY <1>14, <1>19 DEF vars
<1>. QED
  BY <1>15, <1>16, <1>17, <1>18, <1>19 DEF Next

\* Variables with few values.
SwitchTypes ==
  /\ obj \in {"none", "alive", "freed"} /\ locked \in BOOLEAN /\ churn \in BOOLEAN
  /\ gHandler \in {"null", "this", "other"}
  /\ sigabrt \in {"old", "ours"} /\ ports \in {"host", "own"}

\* They keep to these values.
LEMMA SwitchesStep == Types /\ [Next]_vars => SwitchTypes'
<1> USE Zenon
<1> SUFFICES ASSUME Types, [Next]_vars PROVE SwitchTypes'
  OBVIOUS
<1> USE ThreadsAssumption
<1>0. SwitchTypes /\ Owner \in All /\ Handler \in All
  BY DEF Types, SwitchTypes, All
<1>1. ASSUME NEW t \in Threads, lock(t) PROVE SwitchTypes'
  BY <1>0, <1>1 DEF SwitchTypes, lock, process
<1>2. ASSUME NEW t \in Threads, send(t) PROVE SwitchTypes'
  BY <1>0, <1>2 DEF SwitchTypes, send, process
<1>3. ASSUME NEW t \in Threads, wait(t) PROVE SwitchTypes'
  BY <1>0, <1>3 DEF SwitchTypes, wait, process
<1>4. CASE unlock
  BY <1>0, <1>4 DEF SwitchTypes, unlock, process
<1>5. CASE installGlobal
  BY <1>0, <1>5 DEF SwitchTypes, installGlobal, object
<1>6. CASE installPorts
  BY <1>0, <1>6 DEF SwitchTypes, installPorts
<1>7. CASE setup
  BY <1>0, <1>7 DEF SwitchTypes, setup
<1>8. ASSUME NEW t \in All, uninstallSignal(t) PROVE SwitchTypes'
  BY <1>0, <1>8 DEF SwitchTypes, uninstallSignal
<1>9. ASSUME NEW t \in All, restorePorts(t) PROVE SwitchTypes'
  BY <1>0, <1>9 DEF SwitchTypes, restorePorts
<1>19. ASSUME NEW t \in All, restoreFails(t) PROVE SwitchTypes'
  BY <1>0, <1>19 DEF SwitchTypes, restoreFails, object
<1>10. CASE free
  BY <1>0, <1>10 DEF SwitchTypes, free, process
<1>11. ASSUME NEW t \in Threads, threadStarts(t) PROVE SwitchTypes'
  BY <1>0, <1>11 DEF SwitchTypes, threadStarts, Churns, object
<1>12. ASSUME NEW t \in Threads, threadEnds(t) PROVE SwitchTypes'
  BY <1>0, <1>12 DEF SwitchTypes, threadEnds, Churns, object
<1>13. CASE UNCHANGED <<obj, locked, churn, gHandler, sigabrt, ports>>
  BY <1>0, <1>13 DEF SwitchTypes
<1>14. ASSUME NEW t \in Threads, threadStep(t) PROVE SwitchTypes'
  BY <1>1, <1>2, <1>3, <1>13, <1>0, <1>14
     DEF threadStep, setUse, lockFails, finish, SignalHandler, dump, written, callback,
         abortReturns, object, process, handlerLocals, counts
<1>15. CASE handlerThread
  BY <1>4, <1>8, <1>9, <1>13, <1>19, <1>0, <1>15
     DEF handlerThread, top, receive, server, enumerate, SuspendThreads, ResumeThreads,
         enumerateFails, forwardsToItself, dump, RequestDumpForException, written,
         callback, clearPrevious, object, process, handlerLocals, counts
<1>16. CASE ownerStep
  BY <1>5, <1>6, <1>8, <1>9, <1>10, <1>13, <1>19, <1>0, <1>16
     DEF ownerStep, startThread, clearPrevious, shutdown, nullPort, object, process,
         handlerLocals, counts
<1>17. CASE program
  BY <1>7, <1>11, <1>12, <1>13, <1>0, <1>17
     DEF program, destroy, childCrashes, dumpCrashes, WriteMinidump, refused, crash,
         abort, object, process, handlerLocals, counts, vars
<1>18. CASE UNCHANGED vars
  BY <1>13, <1>18 DEF vars
<1>. QED
  BY <1>14, <1>15, <1>16, <1>17, <1>18 DEF Next

\* What Append() and Tail() do to a queue.
LEMMA AppendFacts ==
  ASSUME NEW S, NEW s \in Seq(S), NEW e \in S
  PROVE  /\ Append(s, e) \in Seq(S) /\ Append(s, e) # s
         /\ \A i \in DOMAIN s :
              i \in DOMAIN Append(s, e) /\ Append(s, e)[i] = s[i] /\ i < Len(s) + 1
         /\ \A i \in DOMAIN Append(s, e) :
              i \in DOMAIN s \/ (i = Len(s) + 1 /\ Append(s, e)[i] = e)
         /\ Len(s) + 1 \in DOMAIN Append(s, e) /\ Append(s, e)[Len(s) + 1] = e
BY SMT

\* What Tail does to the elements of a sequence.
LEMMA TailFacts ==
  ASSUME NEW S, NEW s \in Seq(S), s # << >>
  PROVE  /\ Tail(s) \in Seq(S) /\ 1 \in DOMAIN s /\ Head(s) = s[1] /\ Head(s) \in S
         /\ \A i \in DOMAIN Tail(s) :
              /\ i + 1 \in DOMAIN s /\ Tail(s)[i] = s[i + 1] /\ i + 1 # 1
              /\ \A j \in DOMAIN Tail(s) : i + 1 = j + 1 => i = j
BY SMT

\* How the queue and msg change: a message is put in, or the handler thread takes
\* the first, or has done with it.
Puts(m) == queue' = Append(queue, m) /\ UNCHANGED msg

\* The handler thread takes the first message, or is done with the one it has.
Takes == queue # << >> /\ msg' = Head(queue) /\ queue' = Tail(queue)
Done == UNCHANGED queue /\ msg' = NoMessage

\* Which step does what to the queue.
LEMMA QueueMoves ==
  ASSUME Types, [Next]_vars
  PROVE  \/ UNCHANGED <<queue, msg>>
         \/ Takes /\ receive
         \/ Done /\ (unlock \/ server)
         \/ \E t \in Threads : crash(t) /\ Puts(Exception(t))
         \/ childCrashes /\ Puts(ChildException)
         \/ dumpCrashes /\ Puts(Exception(Handler))
         \/ shutdown /\ Puts(Message("shutdown", Owner))
         \/ \E t \in Threads : \E id \in {"write", "writeWithException"} :
              send(t) /\ Puts(Message(id, t))
<1> USE Zenon
<1>1. CASE receive
  BY <1>1 DEF receive, Takes
<1>2. CASE unlock
  BY <1>2 DEF unlock, Done
<1>3. CASE server
  BY <1>3 DEF server, Done
<1>4. ASSUME NEW t \in Threads, crash(t) PROVE Puts(Exception(t))
  BY <1>4 DEF crash, Puts, handlerLocals
<1>5. CASE childCrashes
  BY <1>5 DEF childCrashes, Puts, handlerLocals
<1>6. CASE dumpCrashes
  BY <1>6 DEF dumpCrashes, Puts, handlerLocals
<1>7. CASE shutdown
  BY <1>7 DEF shutdown, Puts, handlerLocals, SendMessageToHandlerThread
<1>8. ASSUME NEW t \in Threads, send(t)
      PROVE  \/ UNCHANGED <<queue, msg>>
             \/ \E id \in {"write", "writeWithException"} : Puts(Message(id, t))
  BY <1>8 DEF send, Puts, handlerLocals, SendMessageToHandlerThread
<1>9. ASSUME NEW t \in Threads, threadStep(t)
      PROVE  UNCHANGED <<queue, msg>> \/ send(t)
  BY <1>9
     DEF threadStep, setUse, lock, lockFails, wait, finish, SignalHandler, dump, written,
         callback, abortReturns, handlerLocals
<1>10. ASSUME handlerThread
       PROVE  UNCHANGED <<queue, msg>> \/ receive \/ unlock \/ server
  BY <1>10
     DEF handlerThread, top, enumerate, enumerateFails, SuspendThreads, ResumeThreads,
         forwardsToItself, dump, RequestDumpForException, written, callback,
         uninstallSignal, restorePorts, restoreFails, clearPrevious, handlerLocals
<1>11. ASSUME ownerStep PROVE UNCHANGED <<queue, msg>> \/ shutdown
  BY <1>11
     DEF ownerStep, installGlobal, installPorts, startThread, uninstallSignal,
         restorePorts, restoreFails, clearPrevious, nullPort, free, handlerLocals
<1>12. ASSUME program
       PROVE  \/ UNCHANGED <<queue, msg>> \/ childCrashes \/ dumpCrashes
              \/ \E t \in Threads : crash(t)
  BY <1>12
     DEF program, setup, destroy, WriteMinidump, refused, abort, threadStarts,
         threadEnds, handlerLocals, vars
<1>13. CASE UNCHANGED vars
  BY <1>13 DEF vars
<1>. QED
  BY <1>1, <1>2, <1>3, <1>4, <1>5, <1>6, <1>7, <1>8, <1>9, <1>10, <1>11, <1>12, <1>13
     DEF Next

\* The queue and msg hold messages.
LEMMA QueueStep ==
  ASSUME Types, [Next]_vars PROVE queue' \in Seq(Messages) /\ msg' \in Messages
<1> USE Zenon
<1>0. queue \in Seq(Messages) /\ msg \in Messages /\ Owner \in All /\ Handler \in All
  BY ThreadsAssumption DEF Types, All
<1>1. ASSUME NEW m \in Messages, Puts(m) PROVE queue' \in Seq(Messages) /\ msg' \in Messages
  BY <1>0, <1>1, AppendFacts DEF Puts
<1>2. CASE Takes
  BY <1>0, <1>2, TailFacts DEF Takes
<1>3. CASE Done
  BY <1>0, <1>3, MessageType DEF Done
<1>4. /\ ChildException \in Messages /\ Message("shutdown", Owner) \in Messages
      /\ \A t \in All : Exception(t) \in Messages
      /\ \A t \in Threads : \A id \in {"write", "writeWithException"} :
           Message(id, t) \in Messages
  BY <1>0, MessageType DEF All
<1>. QED
  BY <1>0, <1>1, <1>2, <1>3, <1>4, QueueMoves DEF All

\* Without() takes out one element of a sequence and keeps the order of the rest.
LEMMA WithoutIndex ==
  ASSUME NEW s \in Seq(Threads), NEW n \in DOMAIN s, NEW w, w = Without(s, n)
  PROVE  /\ w \in Seq(Threads) /\ DOMAIN s \subseteq Int /\ DOMAIN w \subseteq Int
         /\ \A i \in DOMAIN w :
              LET a == IF i < n THEN i ELSE i + 1
              IN  a \in DOMAIN s /\ a # n /\ w[i] = s[a]
         /\ \A a \in DOMAIN s : a < n => a \in DOMAIN w /\ w[a] = s[a]
         /\ \A a \in DOMAIN s : a > n => a - 1 \in DOMAIN w /\ w[a - 1] = s[a]
<1> USE Zenon
<1>1. /\ Len(s) \in Nat /\ Len(s) >= 1 /\ n \in 1 .. Len(s) /\ DOMAIN s = 1 .. Len(s)
      /\ \A i \in 1 .. Len(s) : s[i] \in Threads
  BY SMT
<1>2. /\ w \in Seq(Threads) /\ Len(w) = Len(s) - 1 /\ DOMAIN w = 1 .. Len(s) - 1
  BY SMT, <1>1 DEF Without
<1>3. \A i \in DOMAIN w : w[i] = IF i < n THEN s[i] ELSE s[i + 1]
  BY <1>2 DEF Without
<1>4. ASSUME NEW i \in DOMAIN w, NEW a, a = IF i < n THEN i ELSE i + 1
      PROVE  a \in DOMAIN s /\ a # n /\ w[i] = s[a]
  <2>1. CASE i < n
    BY SMT, <1>1, <1>2, <1>3, <1>4, <2>1
  <2>2. CASE ~(i < n)
    BY SMT, <1>1, <1>2, <1>3, <1>4, <2>2
  <2>. QED
    BY <2>1, <2>2
<1>5. ASSUME NEW a \in DOMAIN s, a < n PROVE a \in DOMAIN w /\ w[a] = s[a]
  <2>1. a \in DOMAIN w
    BY SMT, <1>1, <1>2, <1>5
  <2>. QED
    BY <1>3, <1>5, <2>1
<1>6. ASSUME NEW a \in DOMAIN s, a > n PROVE a - 1 \in DOMAIN w /\ w[a - 1] = s[a]
  <2>1. a - 1 \in DOMAIN w /\ ~(a - 1 < n) /\ (a - 1) + 1 = a
    BY SMT, <1>1, <1>2, <1>6
  <2>. QED
    BY <1>3, <2>1
<1>7. DOMAIN s \subseteq Int /\ DOMAIN w \subseteq Int
  BY SMT, <1>1, <1>2
<1>. QED
  BY <1>2, <1>4, <1>5, <1>6, <1>7

\* Only the two walks and threads that come and go touch task_threads(), the
\* suspend counts and the copy.
LEMMA WalkMoves ==
  ASSUME Types, [Next]_vars
  PROVE  \/ UNCHANGED <<live, suspended, list, before, churn>>
         \/ enumerate("suspend", "suspending") \/ enumerate("resume", "resuming")
         \/ enumerateFails("suspend", "dump") \/ enumerateFails("resume", "unlock")
         \/ SuspendThreads \/ ResumeThreads
         \/ \E t \in Threads : threadStarts(t) \/ threadEnds(t)
<1> USE Zenon
<1> USE DEF process, handlerLocals
<1>1. ASSUME NEW t \in Threads, threadStep(t)
      PROVE  UNCHANGED <<live, suspended, list, before, churn>>
  BY <1>1, ThreadMoves
<1>2. CASE handlerThread
  BY <1>2
     DEF handlerThread, top, receive, unlock, server, dump, RequestDumpForException,
         written, callback, uninstallSignal, restorePorts, restoreFails, clearPrevious,
         forwardsToItself
<1>3. ASSUME ownerStep
      PROVE  UNCHANGED <<live, suspended, list, before, churn>>
  BY <1>3
     DEF ownerStep, installGlobal, installPorts, startThread, uninstallSignal,
         restorePorts, restoreFails, clearPrevious, shutdown, nullPort, free
<1>4. CASE program
  BY <1>4
     DEF program, setup, destroy, childCrashes, dumpCrashes, WriteMinidump, refused, crash,
         abort, vars
<1>5. CASE UNCHANGED vars
  BY <1>5 DEF vars
<1>. QED
  BY <1>1, <1>2, <1>3, <1>4, <1>5 DEF Next

\* The thread a walk is at.
LEMMA TargetFacts ==
  ASSUME Types, ~(list.at > Len(list.threads))
  PROVE  /\ list.at \in DOMAIN list.threads /\ Target \in Threads
         /\ suspended[Target] \in Nat /\ suspended[Target] + 1 \in Nat
         /\ suspended[Target] # 0 => suspended[Target] - 1 \in Nat
         /\ list.at + 1 \in Nat \ {0}
<1> USE Zenon
<1>1. /\ list.threads \in Seq(Threads) /\ list.at \in Nat \ {0}
      /\ suspended \in [Threads -> Nat]
  BY DEF Types
<1>2. list.at \in DOMAIN list.threads /\ list.threads[list.at] \in Threads
  BY SMT, <1>1
<1>3. suspended[Target] \in Nat
  BY <1>1, <1>2 DEF Target
<1>. QED
  BY SMTT(30), <1>1, <1>2, <1>3 DEF Target

\* task_threads(), the copy and the suspend counts keep their types.
LEMMA WalkStep ==
  ASSUME Types, [Next]_vars
  PROVE  /\ live' \in Seq(Threads)
         /\ suspended' \in [Threads -> Nat] /\ before' \in [Threads -> Nat]
         /\ list' \in [threads : Seq(Threads), at : Nat \ {0}, whole : BOOLEAN]
<1> USE Zenon
<1>0. /\ live \in Seq(Threads)
      /\ suspended \in [Threads -> Nat] /\ before \in [Threads -> Nat]
      /\ list \in [threads : Seq(Threads), at : Nat \ {0}, whole : BOOLEAN]
  BY DEF Types
<1>one. 1 \in Nat \ {0}
  BY SMT
<1>1. ASSUME NEW from, NEW to, enumerate(from, to)
      PROVE  /\ UNCHANGED <<live, suspended>> /\ before' \in {suspended, before}
             /\ \E w \in BOOLEAN : list' = [threads |-> live, at |-> 1, whole |-> w]
  BY <1>1 DEF enumerate, process
<1>2. CASE SuspendThreads
  BY <1>0, <1>2, TargetFacts DEF SuspendThreads
<1>3. CASE ResumeThreads
  BY <1>0, <1>3, TargetFacts DEF ResumeThreads
<1>4. ASSUME NEW t \in Threads, threadStarts(t)
      PROVE  live' \in Seq(Threads) /\ UNCHANGED <<suspended, before, list>>
  BY <1>0, <1>4, AppendFacts DEF threadStarts, handlerLocals
<1>5. ASSUME NEW t \in Threads, threadEnds(t)
      PROVE  live' \in Seq(Threads) /\ UNCHANGED <<suspended, before, list>>
  <2>1. PICK n \in DOMAIN live : live' = Without(live, n)
    BY <1>5 DEF threadEnds
  <2>2. Without(live, n) \in Seq(Threads)
    BY <1>0, WithoutIndex
  <2>. QED
    BY <1>5, <2>1, <2>2 DEF threadEnds, handlerLocals
<1>6. CASE enumerate("suspend", "suspending") \/ enumerate("resume", "resuming")
  <2>1. /\ UNCHANGED <<live, suspended>> /\ before' \in {suspended, before}
        /\ \E w \in BOOLEAN : list' = [threads |-> live, at |-> 1, whole |-> w]
    BY <1>1, <1>6
  <2>2. \A w \in BOOLEAN : [threads |-> live, at |-> 1, whole |-> w]
          \in [threads : Seq(Threads), at : Nat \ {0}, whole : BOOLEAN]
    BY <1>0, <1>one
  <2>. QED
    BY <1>0, <2>1, <2>2
<1>8. CASE enumerateFails("suspend", "dump") \/ enumerateFails("resume", "unlock")
  <2>1. \A n \in Nat : n # 0 => n - 1 \in Nat
    BY SMT
  <2>2. 0 \in Nat /\ << >> \in Seq(Threads)
    BY SMT
  <2>5. \A t \in Threads : (IF suspended[t] = 0 THEN 0 ELSE suspended[t] - 1) \in Nat
    BY <1>0, <2>1, <2>2
  <2>6. \/ before' = before
        \/ before' = [t \in Threads |-> IF suspended[t] = 0 THEN 0 ELSE suspended[t] - 1]
    BY <1>8 DEF enumerateFails
  <2>7. UNCHANGED <<live, suspended>>
    BY <1>8 DEF enumerateFails, process
  <2>3. before' \in [Threads -> Nat] /\ UNCHANGED <<live, suspended>>
    BY ZenonT(60), <1>0, <2>5, <2>6, <2>7
  <2>4. list' = [threads |-> << >>, at |-> 1, whole |-> FALSE]
    BY <1>8 DEF enumerateFails
  <2>. QED
    BY <1>0, <1>one, <2>2, <2>3, <2>4
<1>7. CASE UNCHANGED <<live, suspended, list, before, churn>>
  BY <1>0, <1>7
<1>. QED
  BY <1>0, <1>2, <1>3, <1>4, <1>5, <1>6, <1>7, <1>8, WalkMoves

\* What has failed is remembered, and by whom.
LEMMA FailedMoves ==
  ASSUME Types, [Next]_vars
  PROVE  \/ UNCHANGED failed
         \/ /\ enumerateFails("suspend", "dump") \/ enumerateFails("resume", "unlock")
            /\ failed' = failed \cup {"list"}
         \/ /\ restoreFails(Handler) \/ restoreFails(Owner)
            /\ failed' = failed \cup {"restore"}
<1> USE Zenon
<1> USE DEF handlerLocals
<1>1. ASSUME NEW t \in Threads, threadStep(t) PROVE UNCHANGED failed
  BY <1>1, ThreadMoves
<1>2. CASE handlerThread
  BY <1>2
     DEF handlerThread, top, receive, unlock, server, dump, RequestDumpForException,
         written, callback, uninstallSignal, restorePorts, restoreFails, clearPrevious,
         forwardsToItself, enumerate, enumerateFails, SuspendThreads, ResumeThreads
<1>3. CASE ownerStep
  BY <1>3
     DEF ownerStep, installGlobal, installPorts, startThread, uninstallSignal,
         restorePorts, restoreFails, clearPrevious, shutdown, nullPort, free
<1>4. CASE program
  BY <1>4
     DEF program, setup, destroy, childCrashes, dumpCrashes, WriteMinidump, refused, crash,
         abort, threadStarts, threadEnds, vars
<1>5. CASE UNCHANGED vars
  BY <1>5 DEF vars
<1>. QED
  BY <1>1, <1>2, <1>3, <1>4, <1>5 DEF Next

\* Every step keeps the types.
LEMMA TypesStep == ASSUME Types, [Next]_vars PROVE Types'
<1>1. Types => failed \subseteq {"list", "restore"}
  BY Zenon DEF Types
<1>2. failed' \subseteq {"list", "restore"}
  BY Zenon, <1>1, FailedMoves
<1>. QED
  BY Zenon, <1>2, PlacesStep, FieldsStep, SwitchesStep, QueueStep, WalkStep
     DEF Types, SwitchTypes

----------------------------------------------------------------------------
(* Who moves, and which thread is in task_threads()                        *)

\* A thread moves by a step of its own, or when its exception is answered.
LEMMA ThreadPlaces ==
  ASSUME Types, [Next]_vars, NEW u \in Threads
  PROVE  \/ pc'[u] = pc[u]
         \/ /\ threadStep(u) /\ pc[u] \in Inside
            /\ pc'[u] \in (Inside \ {"setUse", "abort"}) \cup {"idle", "request"}
         \/ /\ Running(u) /\ pc[u] = "idle"
            /\ \/ WriteMinidump(u) /\ pc'[u] = "setUse"
               \/ crash(u) /\ pc'[u] = "raised"
               \/ abort(u) /\ pc'[u] = "abort"
               \/ threadEnds(u) /\ pc'[u] = "ended"
         \/ /\ u = Owner /\ Running(u) /\ (ownerStep \/ setup \/ destroy)
            /\ pc[u] \in {"idle"} \cup Constructing \cup Destructing
            /\ pc'[u] \in {"idle"} \cup Constructing \cup Destructing
         \/ server /\ msg.own /\ msg.thread = u /\ pc'[u] = "idle"
<1> USE Zenon
<1> USE DEF Goto, At
<1>0. /\ pc \in [All -> Places] /\ Handler \in All /\ Owner \in Threads
      /\ \A t \in Threads : t \in All /\ t # Handler
  BY ThreadsAssumption DEF Types, All
<1>1. ASSUME NEW t \in Threads, threadStep(t)
      PROVE  \/ pc'[u] = pc[u]
             \/ /\ u = t /\ pc[u] \in Inside
                /\ pc'[u] \in (Inside \ {"setUse", "abort"}) \cup {"idle", "request"}
  BY <1>0, <1>1, ThreadMoves
<1>2. CASE server
  BY <1>0, <1>2 DEF server
<1>3. ASSUME top \/ receive \/ unlock \/ SuspendThreads \/ ResumeThreads
               \/ enumerate("suspend", "suspending") \/ enumerate("resume", "resuming")
      PROVE  pc'[u] = pc[u]
  BY <1>0, <1>3 DEF top, receive, unlock, SuspendThreads, ResumeThreads, enumerate
<1>4. ASSUME \/ uninstallSignal(Handler) \/ restorePorts(Handler) \/ clearPrevious(Handler)
             \/ restoreFails(Handler) \/ forwardsToItself
             \/ enumerateFails("suspend", "dump") \/ enumerateFails("resume", "unlock")
      PROVE  pc'[u] = pc[u]
  BY <1>0, <1>4
     DEF uninstallSignal, restorePorts, clearPrevious, restoreFails, forwardsToItself,
         enumerateFails
<1>5. CASE handlerThread
  BY <1>2, <1>3, <1>4, <1>5, ReportMoves DEF handlerThread
<1>6. ASSUME ownerStep
      PROVE  \/ pc'[u] = pc[u]
             \/ /\ u = Owner /\ Running(Owner)
                /\ pc[Owner] \in {"idle"} \cup Constructing \cup Destructing
                /\ pc'[Owner] \in {"idle"} \cup Constructing \cup Destructing
  <2>1. ASSUME \/ uninstallSignal(Owner) \/ restorePorts(Owner) \/ clearPrevious(Owner)
               \/ restoreFails(Owner)
        PROVE  /\ Running(Owner) /\ pc[Owner] \in Destructing
               /\ \E p \in Destructing : pc' = [pc EXCEPT ![Owner] = p]
    BY <1>0, <2>1 DEF uninstallSignal, restorePorts, restoreFails, clearPrevious, Destructing
  <2>2. CASE startThread
    BY <1>0, <2>2 DEF startThread, Constructing
  <2>3. ASSUME installGlobal \/ installPorts \/ shutdown \/ nullPort \/ free
        PROVE  /\ Running(Owner) /\ pc[Owner] \in Constructing \cup Destructing
               /\ \E p \in {"idle"} \cup Constructing \cup Destructing :
                    pc' = [pc EXCEPT ![Owner] = p]
    BY <1>0, <2>3
       DEF installGlobal, installPorts, shutdown, nullPort, free, Constructing, Destructing
  <2>. QED
    BY <1>0, <1>6, <2>1, <2>2, <2>3 DEF ownerStep
<1>7. ASSUME setup
      PROVE  \/ pc' = pc
             \/ /\ Running(Owner) /\ pc[Owner] = "idle"
                /\ \E p \in {"idle"} \cup Constructing : pc' = [pc EXCEPT ![Owner] = p]
  BY <1>0, <1>7 DEF setup, Constructing
<1>8. ASSUME destroy
      PROVE  /\ Running(Owner) /\ pc[Owner] = "idle"
             /\ \E p \in Destructing : pc' = [pc EXCEPT ![Owner] = p]
  BY <1>0, <1>8 DEF destroy, Destructing
<1>9. ASSUME childCrashes \/ dumpCrashes \/ \E t \in Threads : refused(t) \/ threadStarts(t)
      PROVE  pc'[u] = pc[u]
  BY <1>0, <1>9 DEF childCrashes, dumpCrashes, refused, threadStarts, vars
<1>10. ASSUME NEW t \in Threads, WriteMinidump(t) \/ crash(t) \/ abort(t) \/ threadEnds(t)
       PROVE  \/ pc'[u] = pc[u]
              \/ /\ u = t /\ Running(u) /\ pc[u] = "idle"
                 /\ \/ WriteMinidump(u) /\ pc'[u] = "setUse"
                    \/ crash(u) /\ pc'[u] = "raised"
                    \/ abort(u) /\ pc'[u] = "abort"
                    \/ threadEnds(u) /\ pc'[u] = "ended"
  BY ZenonT(60), <1>0, <1>10 DEF WriteMinidump, crash, abort, threadEnds
<1>11. CASE program
  BY <1>0, <1>7, <1>8, <1>9, <1>10, <1>11 DEF program
<1>12. CASE UNCHANGED vars
  BY <1>12 DEF vars
<1>. QED
  BY <1>1, <1>5, <1>6, <1>11, <1>12 DEF Next

\* The handler thread's loop.
Reports ==
  /\ dump(Handler) \/ RequestDumpForException(Handler) \/ written(Handler)
       \/ callback(Handler)
  /\ pc[Handler] \in Report
  /\ \/ pc'[Handler] \in Report
     \/ pc'[Handler] = "uninstall" /\ IsExc
     \/ pc'[Handler] = "resume" /\ ~IsExc

\* Where the handler thread comes from: its loop, and the step that started it.
LEMMA HandlerPlaces ==
  ASSUME Types, [Next]_vars
  PROVE  \/ pc'[Handler] = pc[Handler]
         \/ startThread /\ pc'[Handler] \in {"none", "top"}
         \/ dumpCrashes /\ pc[Handler] \in Report /\ pc'[Handler] = "raised"
         \/ top /\ pc[Handler] = "top" /\ pc'[Handler] \in {"receive", "spins"}
         \/ /\ receive /\ pc[Handler] = "receive"
            /\ pc'[Handler] = IF msg'.id = "shutdown" THEN "gone"
                              ELSE IF msg'.own THEN "suspend" ELSE "server"
         \/ unlock /\ pc[Handler] = "unlock" /\ pc'[Handler] = "top"
         \/ server /\ pc[Handler] = "server" /\ pc'[Handler] = "top"
         \/ forwardsToItself /\ pc[Handler] = "server" /\ pc'[Handler] = "itself"
         \/ /\ enumerateFails("suspend", "dump")
            /\ pc[Handler] = "suspend" /\ pc'[Handler] = "dump"
         \/ /\ enumerateFails("resume", "unlock")
            /\ pc[Handler] = "resume" /\ pc'[Handler] = "unlock"
         \/ /\ enumerate("suspend", "suspending")
            /\ pc[Handler] = "suspend" /\ pc'[Handler] = "suspending"
         \/ SuspendThreads /\ pc[Handler] = "suspending" /\ pc'[Handler] = "dump"
         \/ Reports
         \/ /\ enumerate("resume", "resuming")
            /\ pc[Handler] = "resume" /\ pc'[Handler] = "resuming"
         \/ ResumeThreads /\ pc[Handler] = "resuming" /\ pc'[Handler] = "unlock"
         \/ /\ uninstallSignal(Handler) /\ pc[Handler] = "uninstall"
            /\ pc'[Handler] = IF eh.installed THEN "restore" ELSE "server"
         \/ restorePorts(Handler) /\ pc[Handler] = "restore" /\ pc'[Handler] = "clear"
         \/ restoreFails(Handler) /\ pc[Handler] = "restore" /\ pc'[Handler] = "server"
         \/ clearPrevious(Handler) /\ pc[Handler] = "clear" /\ pc'[Handler] = "server"
<1> USE Zenon
<1> USE DEF Goto, At
<1>0. /\ pc \in [All -> Places] /\ Handler \in All /\ Owner \in Threads
      /\ \A t \in Threads : t \in All /\ t # Handler
  BY ThreadsAssumption DEF Types, All
<1>1. ASSUME NEW t \in Threads, threadStep(t) PROVE pc'[Handler] = pc[Handler]
  BY <1>0, <1>1, ThreadMoves
<1>2. CASE top \/ receive \/ unlock \/ server
  BY ZenonT(60), <1>0, <1>2 DEF top, receive, unlock, server
<1>3. CASE enumerate("suspend", "suspending") \/ enumerate("resume", "resuming")
  BY <1>0, <1>3 DEF enumerate
<1>11. CASE enumerateFails("suspend", "dump") \/ enumerateFails("resume", "unlock")
  BY <1>0, <1>11 DEF enumerateFails
<1>12. CASE forwardsToItself
  BY <1>0, <1>12 DEF forwardsToItself
<1>4. CASE SuspendThreads \/ ResumeThreads
  BY <1>0, <1>4 DEF SuspendThreads, ResumeThreads
<1>5. CASE dump(Handler) \/ RequestDumpForException(Handler) \/ written(Handler)
             \/ callback(Handler)
  BY <1>0, <1>5, ReportMoves DEF Reports
<1>6. CASE \/ uninstallSignal(Handler) \/ restorePorts(Handler) \/ clearPrevious(Handler)
           \/ restoreFails(Handler)
  BY ZenonT(60), <1>0, <1>6 DEF uninstallSignal, restorePorts, restoreFails, clearPrevious
<1>7. CASE handlerThread
  BY <1>2, <1>3, <1>4, <1>5, <1>6, <1>7, <1>11, <1>12 DEF handlerThread
<1>8. ASSUME ownerStep
      PROVE  pc'[Handler] = pc[Handler] \/ (startThread /\ pc'[Handler] \in {"none", "top"})
  BY <1>0, <1>8
     DEF ownerStep, installGlobal, installPorts, startThread, uninstallSignal,
         restorePorts, restoreFails, clearPrevious, shutdown, nullPort, free
<1>9. ASSUME program
      PROVE  \/ pc'[Handler] = pc[Handler]
             \/ dumpCrashes /\ pc[Handler] \in Report /\ pc'[Handler] = "raised"
  BY <1>0, <1>9
     DEF program, setup, destroy, childCrashes, dumpCrashes, WriteMinidump, refused, crash,
         abort, threadStarts, threadEnds, vars, Report
<1>10. CASE UNCHANGED vars
  BY <1>10 DEF vars
<1>. QED
  BY <1>1, <1>7, <1>8, <1>9, <1>10 DEF Next

\* What a thread that comes, or goes, does to task_threads().
LEMMA StartFacts ==
  ASSUME Types, LiveInv, NEW t \in Threads, threadStarts(t)
  PROVE  /\ \A i, j \in DOMAIN live' : live'[i] = live'[j] => i = j
         /\ Living' = Living \cup {t} /\ t \notin Living /\ pc[t] = "idle" /\ suspended[t] = 0
         /\ \A i, j \in DOMAIN live' : i < j =>
              i \in DOMAIN live /\ live'[i] = live[i]
                /\ ((j \in DOMAIN live /\ live'[j] = live[j]) \/ live'[j] = t)
         /\ \A i \in DOMAIN live : i \in DOMAIN live' /\ live'[i] = live[i]
         /\ UNCHANGED <<pc, suspended, list, before, msg, queue>> /\ churn' = Churns
<1> USE Zenon
<1>0. /\ live \in Seq(Threads) /\ live' = Append(live, t) /\ t \notin Living /\ pc[t] = "idle"
      /\ UNCHANGED <<pc, suspended, list, before, msg, queue>> /\ churn' = Churns
  BY DEF threadStarts, Types, handlerLocals
<1>1. suspended[t] = 0
  BY <1>0 DEF LiveInv
<1>2. PICK s : s = live'
  OBVIOUS
<1>s. s = Append(live, t) /\ live \in Seq(Threads)
  BY <1>0, <1>2
<1>old. \A i \in DOMAIN live : i \in DOMAIN s /\ s[i] = live[i] /\ i < Len(live) + 1
  BY SMT, <1>s
<1>new. \A i \in DOMAIN s : i \in DOMAIN live \/ (i = Len(live) + 1 /\ s[i] = t)
  BY SMT, <1>s
<1>last. Len(live) + 1 \in DOMAIN s /\ s[Len(live) + 1] = t
  BY SMT, <1>s
<1>3. /\ \A i \in DOMAIN live : i \in DOMAIN s /\ s[i] = live[i] /\ i < Len(live) + 1
      /\ \A i \in DOMAIN s : i \in DOMAIN live \/ (i = Len(live) + 1 /\ s[i] = t)
      /\ Len(live) + 1 \in DOMAIN s /\ s[Len(live) + 1] = t
  BY <1>old, <1>new, <1>last
<1>4. \A i, j \in DOMAIN s : i < j => i \in DOMAIN live
  <2>1. Len(live) \in Nat /\ DOMAIN live = 1 .. Len(live)
    BY SMT, <1>0
  <2>. QED
    BY SMT, <1>3, <2>1
<1>5. \A i, j \in DOMAIN s : s[i] = s[j] => i = j
  <2>1. \A i \in DOMAIN live : live[i] # t
    BY <1>0 DEF Living
  <2>2. \A i, j \in DOMAIN live : live[i] = live[j] => i = j
    BY DEF LiveInv
  <2>. QED
    BY <1>3, <2>1, <2>2
<1>6. Living' = {s[i] : i \in DOMAIN s}
  BY <1>2 DEF Living
<1>7. Living' = Living \cup {t}
  BY <1>3, <1>6 DEF Living
<1>. QED
  BY <1>0, <1>1, <1>2, <1>3, <1>4, <1>5, <1>7

\* A thread that ends leaves task_threads(), and the order of the others is kept.
LEMMA EndFacts ==
  ASSUME Types, LiveInv, NEW t \in Threads, threadEnds(t)
  PROVE  /\ \A i, j \in DOMAIN live' : live'[i] = live'[j] => i = j
         /\ Living' = Living \ {t} /\ t \in Living /\ pc[t] = "idle" /\ suspended[t] = 0
         /\ t # Owner /\ pc' = [pc EXCEPT ![t] = "ended"]
         /\ \A i, j \in DOMAIN live' : i < j =>
              \E a, b \in DOMAIN live : a < b /\ live'[i] = live[a] /\ live'[j] = live[b]
         /\ UNCHANGED <<suspended, list, before, msg, queue>> /\ churn' = Churns
<1> USE Zenon
<1>0. /\ live \in Seq(Threads) /\ t \in Living /\ pc[t] = "idle" /\ suspended[t] = 0
      /\ t # Owner /\ pc' = [pc EXCEPT ![t] = "ended"]
      /\ UNCHANGED <<suspended, list, before, msg, queue>> /\ churn' = Churns
  BY ThreadsAssumption DEF threadEnds, Types, handlerLocals, At, Running, Goto
<1>1. PICK n \in DOMAIN live : live[n] = t /\ live' = Without(live, n)
  BY DEF threadEnds
<1>2. PICK s : s = live'
  OBVIOUS
<1>3. s = Without(live, n) /\ live \in Seq(Threads)
  BY <1>0, <1>1, <1>2
<1>w. /\ s \in Seq(Threads) /\ DOMAIN live \subseteq Int /\ DOMAIN s \subseteq Int
      /\ \A i \in DOMAIN s :
           LET a == IF i < n THEN i ELSE i + 1
           IN  a \in DOMAIN live /\ a # n /\ s[i] = live[a]
      /\ \A a \in DOMAIN live : a < n => a \in DOMAIN s /\ s[a] = live[a]
      /\ \A a \in DOMAIN live : a > n => a - 1 \in DOMAIN s /\ s[a - 1] = live[a]
  BY SMT, <1>3, WithoutIndex
<1>type. s \in Seq(Threads) /\ DOMAIN live \subseteq Int /\ DOMAIN s \subseteq Int
  BY <1>w
<1>index. \A i \in DOMAIN s :
            LET a == IF i < n THEN i ELSE i + 1
            IN  a \in DOMAIN live /\ a # n /\ s[i] = live[a]
  BY <1>w
<1>low. \A a \in DOMAIN live : a < n => a \in DOMAIN s /\ s[a] = live[a]
  BY <1>w
<1>high. \A a \in DOMAIN live : a > n => a - 1 \in DOMAIN s /\ s[a - 1] = live[a]
  BY <1>w
<1>from. \A i \in DOMAIN s : \E a \in DOMAIN live : a # n /\ s[i] = live[a]
  BY <1>index
<1>into. \A a \in DOMAIN live : a # n => \E i \in DOMAIN s : s[i] = live[a]
  <2> SUFFICES ASSUME NEW a \in DOMAIN live, a # n PROVE \E i \in DOMAIN s : s[i] = live[a]
    OBVIOUS
  <2>1. a < n \/ a > n
    BY SMT, <1>type
  <2>. QED
    BY <1>low, <1>high, <2>1
<1>order. \A i, j \in DOMAIN s : i < j =>
            \E a, b \in DOMAIN live : a < b /\ s[i] = live[a] /\ s[j] = live[b]
  <2> SUFFICES ASSUME NEW i \in DOMAIN s, NEW j \in DOMAIN s, i < j
               PROVE  \E a, b \in DOMAIN live : a < b /\ s[i] = live[a] /\ s[j] = live[b]
    OBVIOUS
  <2>1. PICK a : a = IF i < n THEN i ELSE i + 1
    OBVIOUS
  <2>2. PICK b : b = IF j < n THEN j ELSE j + 1
    OBVIOUS
  <2>3. a < b
    BY SMT, <1>type, <2>1, <2>2
  <2>4. a \in DOMAIN live /\ s[i] = live[a] /\ b \in DOMAIN live /\ s[j] = live[b]
    BY <1>index, <2>1, <2>2
  <2>. QED
    BY <2>3, <2>4
<1>4. \A a, b \in DOMAIN live : live[a] = live[b] => a = b
  BY DEF LiveInv
<1>5. ASSUME NEW i \in DOMAIN s, NEW j \in DOMAIN s, s[i] = s[j] PROVE i = j
  <2>1. DOMAIN s \subseteq Int /\ DOMAIN live \subseteq Int
    <3>1. s \in Seq(Threads) /\ live \in Seq(Threads)
      BY <1>0, <1>type
    <3>. QED
      BY SMT, <3>1
  <2>2. \A x, y \in DOMAIN s : x < y => s[x] # s[y]
    <3>1. \A a, b \in DOMAIN live : a < b => a # b
      BY SMT, <2>1
    <3> SUFFICES ASSUME NEW x \in DOMAIN s, NEW y \in DOMAIN s, x < y PROVE s[x] # s[y]
      OBVIOUS
    <3>2. PICK a \in DOMAIN live, b \in DOMAIN live : a < b /\ s[x] = live[a] /\ s[y] = live[b]
      BY <1>order
    <3>. QED
      BY <1>4, <3>1, <3>2
  <2>3. i < j \/ j < i \/ i = j
    BY SMT, <2>1
  <2>. QED
    BY <1>5, <2>2, <2>3
<1>6. Living' = {s[i] : i \in DOMAIN s}
  BY <1>2 DEF Living
<1>7. Living' = Living \ {t}
  <2>1. ASSUME NEW x \in Living' PROVE x \in Living \ {t}
    <3>1. PICK i \in DOMAIN s : x = s[i]
      BY <1>6, <2>1
    <3>2. PICK a \in DOMAIN live : a # n /\ x = live[a]
      BY <1>from, <3>1
    <3>. QED
      BY <1>1, <1>4, <3>2 DEF Living
  <2>2. ASSUME NEW x \in Living \ {t} PROVE x \in Living'
    <3>1. PICK a \in DOMAIN live : live[a] = x /\ a # n
      BY <1>1, <2>2 DEF Living
    <3>. QED
      BY <1>into, <1>6, <3>1
  <2>. QED
    BY <2>1, <2>2
<1>. QED
  <2>1. \A i, j \in DOMAIN live' : i < j =>
          \E a, b \in DOMAIN live : a < b /\ live'[i] = live[a] /\ live'[j] = live[b]
    BY ZenonT(60), <1>2, <1>order
  <2>2. \A i, j \in DOMAIN live' : live'[i] = live'[j] => i = j
    BY <1>2, <1>5
  <2>. QED
    BY <1>0, <1>7, <2>1, <2>2

\* A thread that is not there does not move, and ends only by itself.
LEMMA Absent ==
  ASSUME Types, LiveInv, [Next]_vars, NEW u \in Threads
  PROVE  /\ u \notin Living => pc'[u] = pc[u] \/ pc'[u] = "idle"
         /\ pc[u] # "ended" /\ pc'[u] = "ended" => threadEnds(u)
<1> USE Zenon
<1>1. u \in Threads /\ u # Handler
  BY ThreadsAssumption
<1>2. Running(u) => u \in Living
  BY <1>1 DEF Running
<1>3. threadStep(u) => u \in Living
  BY <1>2, ThreadMoves
<1>4. "ended" \notin Inside \cup {"idle", "request"} \cup Constructing \cup Destructing
  BY DEF Inside, Constructing, Destructing
<1>. QED
  BY <1>2, <1>3, <1>4, ThreadPlaces

\* Threads are in task_threads() once, and what is not there is at rest.
LEMMA LiveStep ==
  ASSUME Types, LiveInv, [Next]_vars PROVE LiveInv'
<1> USE Zenon
<1>type. suspended \in [Threads -> Nat] /\ pc \in [All -> Places] /\ Threads \subseteq All
  BY DEF Types, All
<1>0. /\ \A i, j \in DOMAIN live : live[i] = live[j] => i = j
      /\ \A t \in Threads \ Living : suspended[t] = 0 /\ pc[t] \in {"idle", "ended"}
      /\ \A t \in Living : pc[t] # "ended"
      /\ Living \subseteq Threads
  <2>1. live \in Seq(Threads)
    BY DEF Types
  <2>2. \A i \in DOMAIN live : live[i] \in Threads
    BY SMT, <2>1
  <2>. QED
    BY <2>2 DEF LiveInv, Living
<1>1. ASSUME UNCHANGED live, \A t \in Threads \ Living : suspended'[t] = suspended[t]
      PROVE  LiveInv'
  <2>1. Living' = Living
    BY <1>1 DEF Living
  <2>2. ASSUME NEW t \in Living PROVE pc'[t] # "ended"
    <3>1. ~threadEnds(t)
      BY <1>0, <2>1, EndFacts
    <3>. QED
      BY <1>0, <3>1, Absent
  <2>3. \A t \in Threads \ Living : pc'[t] \in {"idle", "ended"}
    BY <1>0, Absent
  <2>. QED
    BY <1>0, <1>1, <2>1, <2>2, <2>3 DEF LiveInv
<1>2. CASE UNCHANGED <<live, suspended, list, before, churn>>
  BY <1>1, <1>2
<1>3. CASE \/ enumerate("suspend", "suspending") \/ enumerate("resume", "resuming")
           \/ enumerateFails("suspend", "dump") \/ enumerateFails("resume", "unlock")
  BY <1>1, <1>3 DEF enumerate, enumerateFails, process
<1>4. CASE SuspendThreads
  <2>1. UNCHANGED live
    BY <1>4 DEF SuspendThreads
  <2>2. \/ UNCHANGED suspended
        \/ Target \in Living /\ suspended' = [suspended EXCEPT ![Target] = @ + 1]
    BY <1>4 DEF SuspendThreads
  <2>. QED
    BY <1>0, <1>1, <1>type, <2>1, <2>2
<1>5. CASE ResumeThreads
  <2>1. UNCHANGED live
    BY <1>5 DEF ResumeThreads
  <2>2. \/ UNCHANGED suspended
        \/ Target \in Living /\ suspended' = [suspended EXCEPT ![Target] = @ - 1]
    BY <1>5 DEF ResumeThreads
  <2>. QED
    BY <1>0, <1>1, <1>type, <2>1, <2>2
<1>6. ASSUME NEW t \in Threads, threadStarts(t) PROVE LiveInv'
  <2>1. \A i, j \in DOMAIN live' : live'[i] = live'[j] => i = j
    BY <1>6, StartFacts
  <2>2. Living' = Living \cup {t} /\ pc[t] = "idle" /\ UNCHANGED <<pc, suspended>>
    BY <1>6, StartFacts
  <2>. QED
    BY <1>0, <2>1, <2>2 DEF LiveInv
<1>7. ASSUME NEW t \in Threads, threadEnds(t) PROVE LiveInv'
  <2>1. /\ \A i, j \in DOMAIN live' : live'[i] = live'[j] => i = j
        /\ Living' = Living \ {t} /\ suspended[t] = 0 /\ pc' = [pc EXCEPT ![t] = "ended"]
        /\ UNCHANGED suspended
    BY <1>7, EndFacts
  <2>. QED
    BY <1>0, <1>type, <2>1 DEF LiveInv
<1>. QED
  BY <1>2, <1>3, <1>4, <1>5, <1>6, <1>7, WalkMoves

----------------------------------------------------------------------------
(* Exceptions and their answers                                            *)

\* There is no handler thread while the constructor works.
LEMMA NotYet ==
  ASSUME Types, InstallInv, startThread PROVE pc[Handler] = "none"
BY Zenon DEF startThread, At, InstallInv, Constructing

\* A thread in an exception waits for the answer.
LEMMA RaisedStays ==
  ASSUME Types, InstallInv, [Next]_vars, NEW u \in All, pc[u] = "raised"
  PROVE  pc'[u] = "raised" \/ (server /\ msg.own /\ msg.thread = u)
<1> USE Zenon
<1>1. CASE u = Handler
  BY <1>1, HandlerPlaces, NotYet DEF Reports, Report
<1>2. CASE u \in Threads
  BY <1>2, ThreadPlaces DEF Inside, Constructing, Destructing
<1>. QED
  BY <1>1, <1>2 DEF All

\* The threads of exceptions that wait have raised them, each one.
LEMMA QueueRaised ==
  ASSUME Types, RaisedInv, InstallInv, [Next]_vars
  PROVE  /\ \A i \in DOMAIN queue' : Raise(queue'[i]) => pc'[queue'[i].thread] = "raised"
         /\ \A i, j \in DOMAIN queue' :
              Raise(queue'[i]) /\ Raise(queue'[j]) /\ queue'[i].thread = queue'[j].thread
                => i = j
         /\ Raise(msg') => /\ pc'[msg'.thread] = "raised"
                           /\ \A i \in DOMAIN queue' :
                                Raise(queue'[i]) => queue'[i].thread # msg'.thread
         /\ \A i \in DOMAIN queue' : queue'[i].id # "none"
<1> USE Zenon
<1> DEFINE Goal(q, m) ==
      /\ \A i \in DOMAIN q : Raise(q[i]) => pc'[q[i].thread] = "raised"
      /\ \A i, j \in DOMAIN q :
           Raise(q[i]) /\ Raise(q[j]) /\ q[i].thread = q[j].thread => i = j
      /\ Raise(m) => /\ pc'[m.thread] = "raised"
                     /\ \A i \in DOMAIN q : Raise(q[i]) => q[i].thread # m.thread
      /\ \A i \in DOMAIN q : q[i].id # "none"
<1>type. /\ queue \in Seq(Messages) /\ \A i \in DOMAIN queue : queue[i] \in Messages
         /\ \A i \in DOMAIN queue : queue[i].thread \in All
         /\ msg.thread \in All
  <2>1. queue \in Seq(Messages) /\ msg \in Messages
    BY DEF Types
  <2>2. \A i \in DOMAIN queue : queue[i] \in Messages
    BY SMT, <2>1
  <2>. QED
    BY <2>1, <2>2 DEF Messages
<1>0. /\ \A i \in DOMAIN queue : Raise(queue[i]) => pc[queue[i].thread] = "raised"
      /\ \A i, j \in DOMAIN queue :
           Raise(queue[i]) /\ Raise(queue[j]) /\ queue[i].thread = queue[j].thread => i = j
      /\ Raise(msg) => /\ pc[msg.thread] = "raised"
                       /\ \A i \in DOMAIN queue :
                            Raise(queue[i]) => queue[i].thread # msg.thread
      /\ \A i \in DOMAIN queue : queue[i].id # "none"
  BY DEF RaisedInv
<1>none. ~Raise(NoMessage)
  BY DEF Raise, NoMessage, Message
<1>1. \A i \in DOMAIN queue : Raise(queue[i]) => pc'[queue[i].thread] = "raised"
  <2> SUFFICES ASSUME NEW i \in DOMAIN queue, Raise(queue[i])
               PROVE  pc'[queue[i].thread] = "raised"
    OBVIOUS
  <2>1. ~(server /\ msg.own /\ msg.thread = queue[i].thread)
    BY <1>0 DEF server, At, RaisedInv
  <2>. QED
    BY <1>0, <1>type, <2>1, RaisedStays
<1>2. CASE UNCHANGED <<queue, msg>>
  <2>1. Raise(msg) => pc'[msg.thread] = "raised" \/ server
    BY <1>0, <1>type, RaisedStays
  <2>2. server /\ UNCHANGED msg => pc' = pc
    <3>1. server => Raise(msg) \/ ~msg.own
      BY DEF server, At, RaisedInv
    <3>own. NoMessage.own
      BY DEF NoMessage, Message
    <3>2. server => msg # NoMessage
      BY <1>none, <3>own, <3>1
    <3>. QED
      BY <3>2 DEF server
  <2>3. Goal(queue, msg)
    BY <1>0, <1>1, <1>2, <2>1, <2>2
  <2>. QED
    BY <1>2, <2>3
<1>3. CASE Done
  <2>1. Goal(queue, NoMessage)
    BY <1>0, <1>1, <1>none
  <2>. QED
    BY <1>3, <2>1 DEF Done
<1>4. CASE Takes
  <2>1. PICK q, m : q = Tail(queue) /\ m = Head(queue)
    OBVIOUS
  <2>2. queue # << >>
    BY <1>4 DEF Takes
  <2>3. /\ m = queue[1] /\ 1 \in DOMAIN queue
        /\ \A i \in DOMAIN q :
             /\ i + 1 \in DOMAIN queue /\ q[i] = queue[i + 1] /\ i + 1 # 1
             /\ \A j \in DOMAIN q : i + 1 = j + 1 => i = j
    BY <1>type, <2>1, <2>2, TailFacts
  <2>4. Goal(q, m)
    <3>one. ASSUME NEW i \in DOMAIN q
            PROVE  \E k \in DOMAIN queue : q[i] = queue[k] /\ k # 1 /\ k = i + 1
      BY <2>3
    <3>1. ASSUME NEW i \in DOMAIN q, Raise(q[i]) PROVE pc'[q[i].thread] = "raised"
      BY ZenonT(60), <1>1, <3>one, <3>1
    <3>2. ASSUME NEW i \in DOMAIN q, NEW j \in DOMAIN q, Raise(q[i]), Raise(q[j]),
                 q[i].thread = q[j].thread
          PROVE  i = j
      <4>1. PICK a \in DOMAIN queue : q[i] = queue[a] /\ a = i + 1
        BY <3>one
      <4>2. PICK b \in DOMAIN queue : q[j] = queue[b] /\ b = j + 1
        BY <3>one
      <4>3. a = b
        BY <1>0, <3>2, <4>1, <4>2
      <4>. QED
        BY <2>3, <4>1, <4>2, <4>3
    <3>3. ASSUME Raise(m), NEW i \in DOMAIN q, Raise(q[i]) PROVE q[i].thread # m.thread
      <4>1. PICK k \in DOMAIN queue : q[i] = queue[k] /\ k # 1
        BY <3>one
      <4>2. m = queue[1] /\ 1 \in DOMAIN queue
        BY <2>3
      <4>. QED
        BY <1>0, <3>3, <4>1, <4>2
    <3>4. ASSUME NEW i \in DOMAIN q PROVE q[i].id # "none"
      BY <1>0, <3>one
    <3>5. Raise(m) => pc'[m.thread] = "raised"
      BY <1>1, <2>3
    <3>. QED
      BY <3>1, <3>2, <3>3, <3>4, <3>5
  <2>. QED
    BY <1>4, <2>1, <2>4 DEF Takes
<1>5. ASSUME NEW m, m \in Messages, m.id # "none", Puts(m),
             Raise(m) => pc'[m.thread] = "raised" /\ pc[m.thread] # "raised",
             Raise(msg) => pc'[msg.thread] = "raised"
      PROVE  Goal(queue', msg')
  <2>1. PICK q : q = Append(queue, m)
    OBVIOUS
  <2>2. \A i \in DOMAIN q :
          (i \in DOMAIN queue /\ q[i] = queue[i]) \/ (i = Len(queue) + 1 /\ q[i] = m)
    BY SMT, <1>5, <1>type, <2>1
  <2>3. Goal(q, msg)
    <3>1. \A i \in DOMAIN q : Raise(q[i]) => pc'[q[i].thread] = "raised"
      BY <1>1, <1>5, <2>2
    <3>2. \A i, j \in DOMAIN q :
            Raise(q[i]) /\ Raise(q[j]) /\ q[i].thread = q[j].thread => i = j
      <4>1. \A i \in DOMAIN queue : Raise(m) /\ Raise(queue[i]) => queue[i].thread # m.thread
        BY <1>0, <1>5
      <4>2. \A i, j \in DOMAIN queue :
              Raise(queue[i]) /\ Raise(queue[j]) /\ queue[i].thread = queue[j].thread => i = j
        BY <1>0
      <4>. QED
        BY <2>2, <4>1, <4>2
    <3>3. Raise(msg) => \A i \in DOMAIN q : Raise(q[i]) => q[i].thread # msg.thread
      BY <1>0, <1>5, <2>2
    <3>4. \A i \in DOMAIN q : q[i].id # "none"
      BY <1>0, <1>5, <2>2
    <3>. QED
      BY <1>5, <3>1, <3>2, <3>3, <3>4
  <2>. QED
    BY <1>5, <2>1, <2>3 DEF Puts
<1>6. ~server => (Raise(msg) => pc'[msg.thread] = "raised")
  BY <1>0, <1>type, RaisedStays
<1>7. \A t \in All : /\ Exception(t) \in Messages /\ Exception(t).id # "none"
                     /\ Exception(t).thread = t
  BY MessageType DEF Exception
<1>8. ASSUME NEW t \in Threads, crash(t), Puts(Exception(t)) PROVE Goal(queue', msg')
  <2>1. pc'[t] = "raised" /\ pc[t] # "raised"
    BY <1>8 DEF crash, At, Goto, Types, All
  <2>2. Raise(msg) => pc'[msg.thread] = "raised"
    BY <1>8, <1>type, <1>0 DEF crash, At, Goto, Types
  <2>. QED
    BY <1>5, <1>7, <1>8, <2>1, <2>2 DEF All
<1>9. CASE dumpCrashes /\ Puts(Exception(Handler))
  <2>1. queue' # queue
    BY <1>9, <1>7, <1>type, AppendFacts DEF Puts, All
  <2>2. pc'[Handler] = "raised" /\ pc[Handler] # "raised"
    BY <1>9, <2>1 DEF dumpCrashes, At, Goto, Types, All
  <2>3. Raise(msg) => pc'[msg.thread] = "raised"
    BY <1>9, <2>1, <1>type, <1>0 DEF dumpCrashes, At, Goto, Types
  <2>. QED
    BY <1>5, <1>7, <1>9, <2>2, <2>3 DEF All
<1>10. CASE childCrashes /\ Puts(ChildException)
  <2>1. Raise(msg) => pc'[msg.thread] = "raised"
    BY <1>0, <1>10 DEF childCrashes
  <2>. QED
    BY <1>5, <1>10, <2>1, MessageType, ThreadsAssumption DEF ChildException, Raise, All
<1>11. CASE shutdown /\ Puts(Message("shutdown", Owner))
  <2>1. Raise(msg) => pc'[msg.thread] = "raised"
    BY <1>0, <1>11, <1>type DEF shutdown, At, Goto, Types
  <2>2. Message("shutdown", Owner) \in Messages
    BY MessageType, ThreadsAssumption DEF All
  <2>. QED
    BY <1>5, <1>11, <2>1, <2>2 DEF Message, Raise
<1>12. ASSUME NEW t \in Threads, NEW id \in {"write", "writeWithException"}, send(t),
              Puts(Message(id, t))
       PROVE  Goal(queue', msg')
  <2>1. Raise(msg) => pc'[msg.thread] = "raised"
    BY <1>0, <1>12, <1>type DEF send, At, Goto, Types
  <2>2. Message(id, t) \in Messages
    BY MessageType DEF All
  <2>. QED
    BY <1>5, <1>12, <2>1, <2>2 DEF Message, Raise
<1>13. Goal(queue', msg')
  BY <1>2, <1>3, <1>4, <1>8, <1>9, <1>10, <1>11, <1>12, QueueMoves
<1>. QED
  BY <1>13

\* The handler thread is where msg sends it.
MsgPlaces ==
  /\ pc[Handler] \in {"suspend", "suspending"} \cup Report => Raise(msg) \/ Request(msg)
  /\ pc[Handler] \in {"uninstall", "restore", "clear"} => Raise(msg)
  /\ pc[Handler] = "server" => Raise(msg) \/ ~msg.own
  /\ pc[Handler] \in Release => Request(msg)

\* Every step keeps the handler thread in the part of its loop that fits msg.
LEMMA MsgPlacesStep ==
  ASSUME Types, RaisedInv, InstallInv, [Next]_vars PROVE MsgPlaces'
<1> USE Zenon
<1>0. MsgPlaces
  BY DEF RaisedInv, MsgPlaces
<1>apart. /\ {"none", "top", "receive", "raised", "spins", "itself", "gone", "idle"} \cap
               ({"suspend", "suspending", "uninstall", "restore", "clear", "server"}
                  \cup Report \cup Release) = {}
          /\ "dump" \in Report /\ {"resume", "resuming", "unlock"} \subseteq Release
          /\ Report \cap ({"suspend", "suspending", "uninstall", "restore", "clear",
                           "server"} \cup Release) = {}
          /\ Release \cap {"suspend", "suspending", "uninstall", "restore", "clear",
                           "server"} = {}
  BY DEF Report, Release
<1>1. CASE receive
  <2>1. msg' = Head(queue) /\ queue # << >>
    BY <1>1 DEF receive
  <2>2. queue \in Seq(Messages)
    BY DEF Types
  <2>3. msg'.id # "none"
    BY ZenonT(60), <2>1, <2>2, TailFacts DEF RaisedInv
  <2>4. msg' \in Messages
    BY QueueStep
  <2>5. msg'.id \in {"exception", "write", "writeWithException", "shutdown"}
    BY <2>3, <2>4 DEF Messages
  <2>6. pc'[Handler] = IF msg'.id = "shutdown" THEN "gone"
                       ELSE IF msg'.own THEN "suspend" ELSE "server"
    BY <1>1, ThreadsAssumption DEF receive, Goto, Types, All
  <2>. QED
    BY <1>apart, <2>5, <2>6 DEF MsgPlaces, Raise, Request
<1>2. ASSUME UNCHANGED msg PROVE MsgPlaces'
  <2> USE DEF MsgPlaces
  <2>1. CASE pc'[Handler] = pc[Handler]
    BY <1>0, <1>2, <2>1
  <2>2. CASE pc'[Handler] \in {"none", "top", "raised", "receive", "spins", "itself", "gone"}
    BY <1>apart, <2>2
  <2>3. CASE receive
    BY <1>1, <2>3
  <2>4. CASE pc[Handler] \in {"suspend", "suspending"} \cup Report
               /\ pc'[Handler] \in {"suspending"} \cup Report
    BY <1>0, <1>2, <1>apart, <2>4
  <2>5. CASE Reports
    BY <1>0, <1>2, <1>apart, <2>4, <2>5 DEF Reports, IsExc, Raise, Request
  <2>6. CASE pc[Handler] \in Release /\ pc'[Handler] \in Release
    BY <1>0, <1>2, <1>apart, <2>6
  <2>7. CASE pc[Handler] \in {"uninstall", "restore", "clear"}
               /\ pc'[Handler] \in {"restore", "clear", "server"}
    BY <1>0, <1>2, <1>apart, <2>7
  <2>. QED
    BY <1>apart, <2>1, <2>2, <2>3, <2>4, <2>5, <2>6, <2>7, HandlerPlaces
<1>3. CASE (unlock \/ server) /\ msg' # msg
  <2>1. pc'[Handler] = "top"
    BY <1>3, ThreadsAssumption DEF unlock, server, Goto, Types, All
  <2>. QED
    BY <1>apart, <2>1 DEF MsgPlaces
<1>. QED
  BY <1>1, <1>2, <1>3, QueueMoves DEF Puts

\* Every step keeps an exception's thread waiting for its one answer.
LEMMA RaisedStep ==
  ASSUME Types, RaisedInv, InstallInv, [Next]_vars PROVE RaisedInv'
<1> USE Zenon
<1>1. MsgPlaces'
  BY MsgPlacesStep
<1>2. /\ \A i \in DOMAIN queue' : Raise(queue'[i]) => pc'[queue'[i].thread] = "raised"
      /\ \A i, j \in DOMAIN queue' :
           Raise(queue'[i]) /\ Raise(queue'[j]) /\ queue'[i].thread = queue'[j].thread
             => i = j
      /\ Raise(msg') => /\ pc'[msg'.thread] = "raised"
                        /\ \A i \in DOMAIN queue' :
                             Raise(queue'[i]) => queue'[i].thread # msg'.thread
      /\ \A i \in DOMAIN queue' : queue'[i].id # "none"
  BY QueueRaised
<1>. QED
  BY <1>1, <1>2 DEF RaisedInv, MsgPlaces, Raise, Request

----------------------------------------------------------------------------
(* minidump_write_mutex_                                                   *)

\* Only WriteMinidump() takes the mutex.
LEMMA HoldsMoves ==
  ASSUME Types, [Next]_vars, NEW u \in Threads, Holds(u)'
  PROVE  (Holds(u) /\ pc'[u] = pc[u]) \/ lock(u) \/ wait(u)
<1> USE Zenon
<1>0. pc'[u] \in {"send", "finish"}
  BY DEF Holds
<1>1. CASE pc'[u] = pc[u]
  BY <1>0, <1>1 DEF Holds
<1>2. CASE threadStep(u)
  <2> USE DEF Goto, At
  <2>0. pc \in [All -> Places] /\ u \in All /\ u # Handler
    BY ThreadsAssumption DEF Types, All
  <2>1. ASSUME NEW r, Returns(u, r) PROVE pc'[u] = "abortReturns"
    BY <2>0, <2>1 DEF Returns
  <2>2. CASE setUse(u) \/ lockFails(u) \/ send(u) \/ finish(u) \/ SignalHandler(u) \/ abortReturns(u)
               \/ written(u)
    BY <1>0, <1>1, <2>0, <2>2 DEF setUse, lockFails, send, finish, SignalHandler, abortReturns, written
  <2>3. CASE dump(u)
    BY <1>0, <1>1, <2>0, <2>1, <2>3 DEF dump, Claims, Refuses
  <2>4. CASE callback(u)
    BY <1>0, <1>1, <2>0, <2>1, <2>4 DEF callback, Claims
  <2>. QED
    BY <1>2, <2>2, <2>3, <2>4 DEF threadStep
<1>. QED
  BY <1>0, <1>1, <1>2, ThreadPlaces DEF Constructing, Destructing

\* Only lock, unlock and the thread that returns touch minidump_write_mutex_.
LEMMA MutexMoves ==
  ASSUME Types, [Next]_vars
  PROVE  UNCHANGED locked \/ unlock \/ \E t \in Threads : lock(t) \/ wait(t) \/ send(t)
<1> USE Zenon
<1> USE DEF object
<1>1. ASSUME NEW t \in Threads, threadStep(t)
      PROVE  UNCHANGED locked \/ lock(t) \/ wait(t) \/ send(t)
  BY <1>1
     DEF threadStep, setUse, lockFails, finish, SignalHandler, dump, written, callback,
         abortReturns
<1>2. CASE handlerThread
  BY <1>2
     DEF handlerThread, top, receive, server, enumerate, SuspendThreads, ResumeThreads,
         enumerateFails, forwardsToItself, dump, RequestDumpForException, written,
         callback, uninstallSignal, restorePorts, restoreFails, clearPrevious
<1>3. CASE ownerStep
  BY <1>3
     DEF ownerStep, installGlobal, installPorts, startThread, uninstallSignal,
         restorePorts, restoreFails, clearPrevious, shutdown, nullPort, free
<1>4. CASE program
  BY <1>4
     DEF program, setup, destroy, childCrashes, dumpCrashes, WriteMinidump, refused, crash,
         abort, threadStarts, threadEnds, vars
<1>5. CASE UNCHANGED vars
  BY <1>5 DEF vars
<1>. QED
  BY <1>1, <1>2, <1>3, <1>4, <1>5 DEF Next

\* The mutex has at most one holder: a thread, a queued request, or the request
\* the handler thread works on.
LEMMA LockStep ==
  ASSUME Types, RaisedInv, LockInv, [Next]_vars PROVE LockInv'
<1> USE Zenon
<1> DEFINE Goal(q, m, l) ==
      /\ (\E t \in Threads : Holds(t)') \/ Request(m) => l
      /\ \A i \in DOMAIN q : Request(q[i]) => l /\ ~Request(m)
      /\ \A i, j \in DOMAIN q : Request(q[i]) /\ Request(q[j]) => i = j
      /\ \A t \in Threads : Holds(t)' =>
           /\ ~Request(m) /\ \A i \in DOMAIN q : ~Request(q[i])
           /\ \A u \in Threads : Holds(u)' => u = t
<1>type. pc \in [All -> Places] /\ queue \in Seq(Messages) /\ Threads \subseteq All
  BY DEF Types, All
<1>0. /\ (\E t \in Threads : Holds(t)) \/ Request(msg) => locked
      /\ \A i \in DOMAIN queue : Request(queue[i]) => locked /\ ~Request(msg)
      /\ \A i, j \in DOMAIN queue : Request(queue[i]) /\ Request(queue[j]) => i = j
      /\ \A t \in Threads : Holds(t) =>
           /\ ~Request(msg) /\ \A i \in DOMAIN queue : ~Request(queue[i])
           /\ \A u \in Threads : Holds(u) => u = t
  BY DEF LockInv
<1>none. ~Request(NoMessage)
  BY DEF Request, NoMessage, Message
<1>1. ASSUME NEW t \in Threads, lock(t) \/ wait(t) PROVE Goal(queue', msg', locked')
  <2>1. /\ UNCHANGED <<queue, msg>> /\ ~locked /\ locked'
        /\ \A u \in Threads : u # t => pc'[u] = pc[u]
    BY <1>1, <1>type DEF lock, wait, handlerLocals, Goto
  <2>2. \A u \in Threads : Holds(u)' => u = t
    BY <1>0, <2>1 DEF Holds
  <2>3. ~Request(msg) /\ \A i \in DOMAIN queue : ~Request(queue[i])
    BY <1>0, <2>1
  <2>4. Goal(queue, msg, locked')
    BY <2>1, <2>2, <2>3
  <2>. QED
    BY <2>1, <2>4
<1>2. ASSUME NEW t \in Threads, send(t) PROVE Goal(queue', msg', locked')
  <2>1. /\ Holds(t) /\ UNCHANGED msg /\ \A u \in Threads : Holds(u)' => FALSE
    <3>1. Holds(t) /\ UNCHANGED msg
      BY <1>2 DEF send, At, Holds, handlerLocals
    <3>2. pc'[t] \in {"wait", "idle"} /\ \A u \in Threads : u # t => pc'[u] = pc[u]
      BY <1>2, <1>type DEF send, Goto
    <3>3. \A u \in Threads : Holds(u) => u = t
      BY <1>0, <3>1
    <3>. QED
      BY <3>1, <3>2, <3>3 DEF Holds
  <2>2. ~Request(msg) /\ locked /\ \A i \in DOMAIN queue : ~Request(queue[i])
    BY <1>0, <2>1
  <2>3. CASE queue' = queue
    <3>1. Goal(queue, msg, locked')
      BY <2>1, <2>2
    <3>. QED
      BY <2>1, <2>3, <3>1
  <2>4. CASE queue' # queue
    <3>1. UNCHANGED locked
      BY <1>2, <2>4 DEF send
    <3>2. PICK id \in {"write", "writeWithException"} : queue' = Append(queue, Message(id, t))
      BY <1>2, <2>4 DEF send, SendMessageToHandlerThread
    <3>3. PICK q : q = Append(queue, Message(id, t))
      OBVIOUS
    <3>4. Message(id, t) \in Messages
      BY MessageType, <1>type
    <3>5. \A i \in DOMAIN q : (i \in DOMAIN queue /\ q[i] = queue[i]) \/ i = Len(queue) + 1
      BY SMT, <1>type, <3>3, <3>4
    <3>6. Goal(q, msg, locked)
      BY <2>1, <2>2, <3>5
    <3>. QED
      BY <2>1, <3>1, <3>2, <3>3, <3>6
  <2>. QED
    BY <2>3, <2>4
<1>3. ASSUME unlock PROVE Goal(queue', msg', locked')
  <2>1. Request(msg)
    BY <1>3 DEF unlock, At, RaisedInv, Release
  <2>2. UNCHANGED queue /\ msg' = NoMessage
    BY <1>3 DEF unlock
  <2>3. \A t \in Threads : pc'[t] = pc[t]
    BY <1>3, <1>type, ThreadsAssumption DEF unlock, Goto
  <2>4. (\A t \in Threads : ~Holds(t)) /\ \A i \in DOMAIN queue : ~Request(queue[i])
    BY <1>0, <2>1
  <2>5. Goal(queue, NoMessage, locked')
    BY <1>none, <2>3, <2>4 DEF Holds
  <2>. QED
    BY <2>2, <2>5
<1>4. ASSUME UNCHANGED locked, \A t \in Threads : ~lock(t) /\ ~wait(t) /\ ~send(t)
      PROVE  Goal(queue', msg', locked')
  <2>0. \A t \in Threads : Holds(t)' => Holds(t)
    BY <1>4, HoldsMoves
  <2>1. CASE UNCHANGED <<queue, msg>>
    <3>1. Goal(queue, msg, locked)
      BY <1>0, <2>0
    <3>. QED
      BY <1>4, <2>1, <3>1
  <2>2. CASE Done
    <3>1. Goal(queue, NoMessage, locked)
      BY <1>0, <1>none, <2>0
    <3>. QED
      BY <1>4, <2>2, <3>1 DEF Done
  <2>3. CASE Takes
    <3>1. PICK q, m : q = Tail(queue) /\ m = Head(queue)
      OBVIOUS
    <3>2. queue # << >>
      BY <2>3 DEF Takes
    <3>3. m = queue[1] /\ 1 \in DOMAIN queue
      BY <1>type, <3>1, <3>2, TailFacts
    <3>4. ASSUME NEW i \in DOMAIN q
          PROVE  \E k \in DOMAIN queue : q[i] = queue[k] /\ k # 1 /\ k = i + 1
      BY <1>type, <3>1, <3>2, TailFacts
    <3>5. ASSUME NEW i \in DOMAIN q, NEW j \in DOMAIN q, Request(q[i]), Request(q[j])
          PROVE  i = j
      <4>1. PICK a \in DOMAIN queue : q[i] = queue[a] /\ a = i + 1
        BY <3>4
      <4>2. PICK b \in DOMAIN queue : q[j] = queue[b] /\ b = j + 1
        BY <3>4
      <4>3. a = b
        BY <1>0, <3>5, <4>1, <4>2
      <4>. QED
        BY ZenonT(60), <1>type, <3>1, <3>2, <4>1, <4>2, <4>3, TailFacts
    <3>6. ASSUME NEW i \in DOMAIN q, Request(q[i]) PROVE locked /\ ~Request(m)
      <4>1. PICK k \in DOMAIN queue : q[i] = queue[k] /\ k # 1
        BY <3>4
      <4>. QED
        BY <1>0, <3>3, <3>6, <4>1
    <3>7. ASSUME NEW t \in Threads, Holds(t)'
          PROVE  /\ locked /\ ~Request(m) /\ \A i \in DOMAIN q : ~Request(q[i])
                 /\ \A u \in Threads : Holds(u)' => u = t
      BY <1>0, <2>0, <3>3, <3>4, <3>7
    <3>8. Request(m) => locked
      BY <1>0, <3>3
    <3>9. Goal(q, m, locked)
      BY <3>5, <3>6, <3>7, <3>8
    <3>. QED
      BY <1>4, <2>3, <3>1, <3>9 DEF Takes
  <2>4. ASSUME NEW m \in Messages, Puts(m), ~Request(m) PROVE Goal(queue', msg', locked')
    <3>1. PICK q : q = Append(queue, m)
      OBVIOUS
    <3>2. \A i \in DOMAIN q : (i \in DOMAIN queue /\ q[i] = queue[i]) \/ q[i] = m
      BY SMT, <1>type, <3>1
    <3>3. Goal(q, msg, locked)
      BY <1>0, <2>0, <2>4, <3>2
    <3>. QED
      BY <1>4, <2>4, <3>1, <3>3 DEF Puts
  <2>5. \A t \in All : Exception(t) \in Messages /\ ~Request(Exception(t))
    BY MessageType DEF Exception, Request
  <2>6. ChildException \in Messages /\ ~Request(ChildException)
    BY <1>type, MessageType, ThreadsAssumption DEF ChildException, Request
  <2>7. Message("shutdown", Owner) \in Messages /\ ~Request(Message("shutdown", Owner))
    <3>1. Message("shutdown", Owner) \in Messages
      BY <1>type, MessageType, ThreadsAssumption
    <3>. QED
      BY <3>1 DEF Message, Request
  <2>. QED
    BY <1>4, <1>type, <2>1, <2>2, <2>3, <2>4, <2>5, <2>6, <2>7, QueueMoves DEF All
<1>5. Goal(queue', msg', locked')
  BY <1>1, <1>2, <1>3, <1>4, MutexMoves
<1>. QED
  BY <1>5 DEF LockInv, Request

----------------------------------------------------------------------------
(* What is installed                                                       *)

\* The constructor and the destructor, step by step.
LEMMA OwnerPlaces ==
  ASSUME Types, RaisedInv, [Next]_vars
  PROVE  \/ pc'[Owner] = pc[Owner]
         \/ /\ pc[Owner] \notin Constructing \cup Destructing
            /\ pc'[Owner] \notin Constructing \cup Destructing
         \/ setup /\ pc[Owner] = "idle" /\ pc'[Owner] \in {"idle"} \cup Constructing
         \/ installGlobal /\ pc[Owner] = "installGlobal" /\ pc'[Owner] = "installPorts"
         \/ /\ installPorts /\ pc[Owner] = "installPorts"
            /\ pc'[Owner] \in {"startThread", "idle"}
         \/ startThread /\ pc[Owner] = "startThread" /\ pc'[Owner] = "idle"
         \/ destroy /\ pc[Owner] = "idle" /\ pc'[Owner] = "uninstall" /\ obj = "alive"
         \/ /\ uninstallSignal(Owner) /\ pc[Owner] = "uninstall"
            /\ pc'[Owner] = IF eh.installed THEN "restore" ELSE "shutdown"
         \/ restorePorts(Owner) /\ pc[Owner] = "restore" /\ pc'[Owner] = "clear"
         \/ restoreFails(Owner) /\ pc[Owner] = "restore" /\ pc'[Owner] = "free"
         \/ clearPrevious(Owner) /\ pc[Owner] = "clear" /\ pc'[Owner] = "shutdown"
         \/ shutdown /\ pc[Owner] = "shutdown" /\ pc'[Owner] \in {"nullPort", "free"}
         \/ nullPort /\ pc[Owner] = "nullPort" /\ pc'[Owner] = "free"
         \/ free /\ pc[Owner] = "free" /\ pc'[Owner] = "idle"
<1> USE Zenon
<1>0. /\ pc \in [All -> Places] /\ Owner \in Threads /\ Owner \in All /\ Owner # Handler
  BY ThreadsAssumption DEF Types, All
<1>1. ASSUME ownerStep \/ setup \/ destroy
      PROVE  \/ pc'[Owner] = pc[Owner]
             \/ setup /\ pc[Owner] = "idle" /\ pc'[Owner] \in {"idle"} \cup Constructing
             \/ installGlobal /\ pc[Owner] = "installGlobal" /\ pc'[Owner] = "installPorts"
             \/ /\ installPorts /\ pc[Owner] = "installPorts"
                /\ pc'[Owner] \in {"startThread", "idle"}
             \/ startThread /\ pc[Owner] = "startThread" /\ pc'[Owner] = "idle"
             \/ destroy /\ pc[Owner] = "idle" /\ pc'[Owner] = "uninstall" /\ obj = "alive"
             \/ /\ uninstallSignal(Owner) /\ pc[Owner] = "uninstall"
                /\ pc'[Owner] = IF eh.installed THEN "restore" ELSE "shutdown"
             \/ restorePorts(Owner) /\ pc[Owner] = "restore" /\ pc'[Owner] = "clear"
             \/ restoreFails(Owner) /\ pc[Owner] = "restore" /\ pc'[Owner] = "free"
             \/ clearPrevious(Owner) /\ pc[Owner] = "clear" /\ pc'[Owner] = "shutdown"
             \/ shutdown /\ pc[Owner] = "shutdown" /\ pc'[Owner] \in {"nullPort", "free"}
             \/ nullPort /\ pc[Owner] = "nullPort" /\ pc'[Owner] = "free"
             \/ free /\ pc[Owner] = "free" /\ pc'[Owner] = "idle"
  <2> USE DEF Goto, At
  <2>1. CASE setup
    BY <1>0, <2>1 DEF setup, Constructing
  <2>2. CASE installGlobal \/ installPorts \/ startThread
    BY <1>0, <2>2 DEF installGlobal, installPorts, startThread
  <2>3. CASE destroy
    BY <1>0, <2>3 DEF destroy
  <2>4. CASE uninstallSignal(Owner)
    BY <1>0, <2>4 DEF uninstallSignal
  <2>5. CASE restorePorts(Owner) \/ restoreFails(Owner) \/ clearPrevious(Owner)
    BY <1>0, <2>5 DEF restorePorts, restoreFails, clearPrevious
  <2>6. CASE shutdown \/ nullPort \/ free
    BY <1>0, <2>6 DEF shutdown, nullPort, free
  <2>. QED
    BY <1>1, <2>1, <2>2, <2>3, <2>4, <2>5, <2>6 DEF ownerStep
<1>2. CASE ownerStep \/ setup \/ destroy
  BY <1>1, <1>2
<1>3. CASE server /\ msg.own /\ msg.thread = Owner /\ pc'[Owner] = "idle"
  <2>1. pc[Owner] = "raised"
    BY <1>3 DEF server, At, RaisedInv
  <2>. QED
    BY <1>3, <2>1 DEF Constructing, Destructing
<1>4. ASSUME pc[Owner] \in Inside \cup {"idle"},
             pc'[Owner] \in Inside \cup {"idle", "request", "setUse", "raised", "abort", "ended"}
      PROVE  /\ pc[Owner] \notin Constructing \cup Destructing
             /\ pc'[Owner] \notin Constructing \cup Destructing
  BY <1>4 DEF Inside, Constructing, Destructing
<1>. QED
  BY <1>0, <1>2, <1>3, <1>4, ThreadPlaces

\* Who touches what is installed.
LEMMA InstallMoves ==
  ASSUME Types, [Next]_vars
  PROVE  \/ /\ UNCHANGED <<obj, gHandler, sigabrt, ports>>
            /\ eh'.installed = eh.installed /\ eh'.old_handler = eh.old_handler
         \/ setup \/ installGlobal \/ installPorts \/ free
         \/ uninstallSignal(Handler) \/ restorePorts(Handler) \/ clearPrevious(Handler)
         \/ uninstallSignal(Owner) \/ restorePorts(Owner) \/ clearPrevious(Owner)
         \/ restoreFails(Handler) \/ restoreFails(Owner)
<1> USE Zenon
<1> USE DEF object, process
<1>1. ASSUME NEW t \in Threads, threadStep(t)
      PROVE  /\ UNCHANGED <<obj, gHandler, sigabrt, ports>>
             /\ eh'.installed = eh.installed /\ eh'.old_handler = eh.old_handler
  BY <1>1, ThreadMoves
<1>2. CASE dump(Handler) \/ RequestDumpForException(Handler) \/ written(Handler)
             \/ callback(Handler)
  BY <1>2, ReportMoves
<1>3. CASE handlerThread
  BY <1>2, <1>3
     DEF handlerThread, top, receive, unlock, server, enumerate, SuspendThreads,
         ResumeThreads, enumerateFails, forwardsToItself
<1>4. CASE nullPort
  BY <1>4 DEF nullPort, Set, Types, Fields
<1>5. CASE ownerStep
  BY <1>4, <1>5 DEF ownerStep, startThread, shutdown
<1>6. CASE program
  BY ZenonT(60), <1>6
     DEF program, destroy, childCrashes, dumpCrashes, WriteMinidump, refused, crash, abort,
         threadStarts, threadEnds, vars
<1>7. CASE UNCHANGED vars
  BY <1>7 DEF vars
<1>. QED
  BY <1>1, <1>3, <1>5, <1>6, <1>7 DEF Next

\* What InstallInv says of the places, for the values that count.
LEMMA InstallStep ==
  ASSUME Types, RaisedInv, InstallInv, [Next]_vars PROVE InstallInv'
<1> USE Zenon
<1>type. /\ pc \in [All -> Places] /\ eh \in Fields /\ Owner \in Threads /\ Owner \in All
         /\ Handler \in All /\ Owner # Handler
  BY ThreadsAssumption DEF Types, All
<1>0. /\ obj = "none" => pc[Owner] \notin Constructing \cup Destructing
      /\ obj = "none" => sigabrt = "old" /\ gHandler # "this"
      /\ obj = "none" \/ pc[Owner] \in Constructing => pc[Handler] = "none"
      /\ pc[Owner] \in Constructing => obj = "alive"
      /\ ports = "own" => eh.installed
      /\ sigabrt = "ours" \/ gHandler = "this" \/ pc[Owner] = "installGlobal"
           => eh.old_handler
      /\ pc[Owner] = "clear" \/ pc[Handler] = "clear" => ports = "host"
      /\ pc[Handler] \in {"restore", "clear"} \/ (pc[Handler] = "server" /\ msg.own)
           => ~eh.old_handler
      /\ pc[Handler] = "server" /\ msg.own => ~eh.installed \/ "restore" \in failed
  BY DEF InstallInv
<1>places. /\ {"installGlobal", "installPorts", "startThread"} \subseteq Constructing
           /\ {"uninstall", "restore", "clear", "shutdown", "nullPort", "free"}
                \subseteq Destructing
           /\ Constructing \cap Destructing = {} /\ "clear" \notin Constructing
           /\ {"idle"} \cap (Constructing \cup Destructing) = {}
  BY DEF Constructing, Destructing
<1>failed. failed \subseteq failed'
  BY FailedMoves
<1>1. ASSUME UNCHANGED <<obj, gHandler, sigabrt, ports>>,
             eh'.installed = eh.installed, eh'.old_handler = eh.old_handler,
             ~uninstallSignal(Handler), ~restorePorts(Handler), ~clearPrevious(Handler),
             ~uninstallSignal(Owner), ~restorePorts(Owner), ~clearPrevious(Owner),
             ~restoreFails(Handler), ~restoreFails(Owner), ~setup, ~installGlobal, ~installPorts, ~free
      PROVE  InstallInv'
  <2>1. /\ pc'[Owner] \in Constructing => pc[Owner] \in Constructing
        /\ pc'[Owner] = "clear" => pc[Owner] = "clear"
        /\ pc'[Owner] = "installGlobal" => pc[Owner] = "installGlobal"
        /\ pc'[Owner] \in Constructing \cup Destructing =>
             pc[Owner] \in Constructing \cup Destructing \/ obj = "alive"
    BY <1>1, <1>places, OwnerPlaces
  <2>2. /\ pc[Handler] = "none" => pc'[Handler] = "none" \/ startThread
        /\ startThread => pc'[Owner] = "idle" /\ pc[Owner] = "startThread"
    <3>1. startThread => pc'[Owner] = "idle" /\ pc[Owner] = "startThread"
      BY <1>type DEF startThread, At
    <3>. QED
      BY <1>1, <3>1, HandlerPlaces DEF Reports, Report
  <2>3. /\ pc'[Handler] = "clear" => pc[Handler] = "clear"
        /\ pc'[Handler] = "restore" => pc[Handler] = "restore"
        /\ pc'[Handler] = "server" /\ msg'.own => pc[Handler] = "server" /\ msg.own
    <3>1. pc'[Handler] \in {"clear", "restore"} => pc'[Handler] = pc[Handler]
      BY <1>1, HandlerPlaces DEF Reports, Report
    <3>2. pc'[Handler] = "server" => pc[Handler] = "server" \/ (receive /\ ~msg'.own)
      BY <1>1, HandlerPlaces DEF Reports, Report
    <3>3. pc[Handler] = "server" /\ pc'[Handler] = "server" => UNCHANGED msg
      <4>1. receive => pc[Handler] = "receive"
        BY DEF receive, At
      <4>2. unlock => pc[Handler] = "unlock"
        BY DEF unlock, At
      <4>3. server /\ pc'[Handler] = "server" => UNCHANGED msg
        BY <1>type DEF server
      <4>. QED
        BY <4>1, <4>2, <4>3, QueueMoves DEF Puts
    <3>. QED
      BY <3>1, <3>2, <3>3
  <2>. QED
    BY <1>0, <1>1, <1>failed, <1>places, <2>1, <2>2, <2>3 DEF InstallInv
<1>2. CASE setup
  <2>1. PICK p \in Prepared, signalled \in BOOLEAN :
          /\ signalled => gHandler = "null"
          /\ eh' = [eh EXCEPT !.mutex = p.mutex, !.port = p.port, !.old_handler = signalled]
          /\ sigabrt' = IF signalled THEN "ours" ELSE sigabrt
          /\ pc'[Owner] = "installGlobal" => signalled
          /\ pc'[Owner] \in {"idle"} \cup Constructing
    BY ZenonT(60), <1>2, <1>type, <1>places DEF setup, Goto
  <2>2. /\ pc'[Handler] = pc[Handler] /\ pc[Handler] = "none" /\ obj' = "alive"
        /\ UNCHANGED <<gHandler, ports, msg>> /\ obj = "none"
    BY <1>0, <1>2, <1>type DEF setup, Goto, handlerLocals
  <2>3. eh'.old_handler = signalled /\ eh'.installed = eh.installed
    BY <1>type, <2>1 DEF Fields
  <2>. QED
    BY ZenonT(60), <1>0, <1>places, <2>1, <2>2, <2>3 DEF InstallInv
<1>3. CASE installGlobal
  BY <1>0, <1>3, <1>type, <1>places
     DEF installGlobal, At, Goto, Set, Fields, InstallInv, handlerLocals, object, process
<1>4. CASE installPorts
  BY ZenonT(60), <1>0, <1>4, <1>type, <1>places
     DEF installPorts, At, Goto, Set, Fields, InstallInv, handlerLocals, object, process
<1>5. CASE free
  BY <1>0, <1>5, <1>type, <1>places
     DEF free, At, Goto, Set, Fields, InstallInv, handlerLocals, object, process
<1>6. CASE uninstallSignal(Handler)
  BY <1>0, <1>6, <1>type, <1>places
     DEF uninstallSignal, At, Goto, Set, Fields, InstallInv, handlerLocals, process
<1>7. CASE restorePorts(Handler)
  BY <1>0, <1>7, <1>type, <1>places
     DEF restorePorts, At, Goto, Set, Fields, InstallInv, handlerLocals, process
<1>8. CASE clearPrevious(Handler)
  BY <1>0, <1>8, <1>type, <1>places
     DEF clearPrevious, At, Goto, Set, Fields, InstallInv, handlerLocals, process
<1>9. CASE uninstallSignal(Owner)
  BY <1>0, <1>9, <1>type, <1>places
     DEF uninstallSignal, At, Goto, Set, Fields, InstallInv, handlerLocals, process
<1>10. CASE restorePorts(Owner)
  BY ZenonT(60), <1>0, <1>10, <1>type, <1>places
     DEF restorePorts, At, Goto, Set, Fields, InstallInv, handlerLocals, process
<1>11. CASE clearPrevious(Owner)
  BY <1>0, <1>11, <1>type, <1>places
     DEF clearPrevious, At, Goto, Set, Fields, InstallInv, handlerLocals, process
<1>12. CASE restoreFails(Handler)
  BY <1>0, <1>12, <1>type, <1>places
     DEF restoreFails, At, Goto, InstallInv, object
<1>13. CASE restoreFails(Owner)
  BY <1>0, <1>13, <1>failed, <1>type, <1>places
     DEF restoreFails, At, Goto, InstallInv, object
<1>. QED
  BY <1>1, <1>2, <1>3, <1>4, <1>5, <1>6, <1>7, <1>8, <1>9, <1>10, <1>11, <1>12, <1>13,
     InstallMoves

----------------------------------------------------------------------------
(* SuspendThreads() and ResumeThreads()                                    *)

\* The types the walks need.
LEMMA WalkTypes ==
  ASSUME Types
  PROVE  /\ live \in Seq(Threads) /\ DOMAIN live \subseteq Int
         /\ \A i \in DOMAIN live : live[i] \in Threads
         /\ list.threads \in Seq(Threads) /\ DOMAIN list.threads \subseteq Int
         /\ \A i \in DOMAIN list.threads :
              list.threads[i] \in Threads /\ i <= Len(list.threads)
         /\ list.at \in Nat /\ Len(list.threads) \in Nat
         /\ \A t \in Threads : suspended[t] \in Nat /\ before[t] \in Nat
<1> USE Zenon
<1>1. /\ live \in Seq(Threads) /\ list.threads \in Seq(Threads) /\ list.at \in Nat \ {0}
      /\ suspended \in [Threads -> Nat] /\ before \in [Threads -> Nat]
  BY DEF Types
<1>2. /\ DOMAIN live \subseteq Int /\ DOMAIN list.threads \subseteq Int
      /\ \A i \in DOMAIN live : live[i] \in Threads
  BY SMT, <1>1
<1>3. /\ \A i \in DOMAIN list.threads :
           list.threads[i] \in Threads /\ i <= Len(list.threads)
      /\ list.at \in Nat /\ Len(list.threads) \in Nat
  BY SMT, <1>1
<1>. QED
  BY <1>1, <1>2, <1>3

\* Counts that fall along the copy, and are 0 for threads that are not in it, fall
\* along task_threads() too.
LEMMA FallingLive ==
  ASSUME Types, InOrder(live, list.threads), NEW c \in [Threads -> Nat], Falling(list.threads, c),
         \A t \in Threads : ~Listed(t) => c[t] = 0
  PROVE  Falling(live, c)
<1> USE Zenon
<1> SUFFICES ASSUME NEW i \in DOMAIN live, NEW j \in DOMAIN live, i < j
             PROVE  c[live[i]] >= c[live[j]]
  BY DEF Falling
<1>1. live[i] \in Threads /\ live[j] \in Threads
  BY WalkTypes
<1>2. c[live[i]] \in Nat /\ c[live[j]] \in Nat
  BY <1>1
<1>3. CASE ~Listed(live[j])
  <2>1. c[live[j]] = 0
    BY <1>1, <1>3
  <2>. QED
    BY SMT, <1>2, <2>1
<1>4. CASE Listed(live[j])
  <2>1. PICK b \in DOMAIN list.threads : live[j] = list.threads[b]
    BY <1>4 DEF Listed
  <2>2. PICK a \in DOMAIN list.threads : a < b /\ live[i] = list.threads[a]
    BY <2>1 DEF InOrder
  <2>. QED
    BY <2>1, <2>2 DEF Falling
<1>. QED
  BY <1>3, <1>4

\* A thread of the copy is walked when the walk is past it.
LEMMA WalkedIndex ==
  ASSUME ListInv, NEW i \in DOMAIN list.threads
  PROVE  Walked(list.threads[i]) <=> i < list.at
BY Zenon DEF ListInv, Walked

\* SuspendThreads() stops: at the end, or at a thread that has ended.
LEMMA SuspendEnds ==
  ASSUME Types, LiveInv, SuspendInv, pc[Handler] = "suspending",
         list.at > Len(list.threads) \/ Target \notin Living
  PROVE  /\ Falling(live, suspended) /\ \A t \in Threads : Held(t)
         /\ \/ \A i \in DOMAIN list.threads : suspended[list.threads[i]] > 0
            \/ \E i \in DOMAIN list.threads : pc[list.threads[i]] = "ended"
<1> USE Zenon
<1>1. /\ ListInv
      /\ \A t \in Threads : suspended[t] = IF Walked(t) THEN before[t] + 1 ELSE before[t]
  BY DEF SuspendInv
<1>type. /\ DOMAIN list.threads \subseteq Int /\ list.at \in Nat /\ Len(list.threads) \in Nat
         /\ \A i \in DOMAIN list.threads :
              list.threads[i] \in Threads /\ i <= Len(list.threads)
         /\ \A t \in Threads : suspended[t] \in Nat /\ before[t] \in Nat
  BY WalkTypes
<1>2. Falling(list.threads, suspended)
  <2> SUFFICES ASSUME NEW i \in DOMAIN list.threads, NEW j \in DOMAIN list.threads, i < j
               PROVE  suspended[list.threads[i]] >= suspended[list.threads[j]]
    BY DEF Falling
  <2>1. PICK u \in Threads, v \in Threads : u = list.threads[i] /\ v = list.threads[j]
    BY <1>type
  <2>2. before[u] >= before[v]
    BY <1>1, <2>1 DEF ListInv, Falling
  <2>3. Walked(v) => Walked(u)
    <3>1. Walked(v) => j < list.at
      BY <1>1, <2>1, WalkedIndex
    <3>2. j < list.at => i < list.at
      BY SMT, <1>type
    <3>. QED
      BY <1>1, <2>1, <3>1, <3>2, WalkedIndex
  <2>4. suspended[u] >= suspended[v]
    BY SMT, <1>1, <1>type, <2>2, <2>3
  <2>. QED
    BY <2>1, <2>4
<1>3. \A t \in Threads : ~Listed(t) => before[t] = 0 /\ suspended[t] = 0
  BY <1>1 DEF ListInv
<1>4. Falling(live, suspended)
  BY ZenonT(60), <1>1, <1>2, <1>3, FallingLive DEF ListInv, Types
<1>5. CASE list.at > Len(list.threads)
  <2>1. \A i \in DOMAIN list.threads : i < list.at
    BY SMT, <1>5, <1>type
  <2>2. \A i \in DOMAIN list.threads :
          suspended[list.threads[i]] = before[list.threads[i]] + 1
    BY <1>1, <1>type, <2>1, WalkedIndex
  <2>3. \A i \in DOMAIN list.threads : suspended[list.threads[i]] > 0
    BY SMT, <1>type, <2>2
  <2>4. \A t \in Threads : Held(t)
    BY <1>3, <2>2 DEF Held, Listed
  <2>. QED
    BY <1>4, <2>3, <2>4
<1>6. CASE ~(list.at > Len(list.threads)) /\ Target \notin Living
  <2>1. list.at \in DOMAIN list.threads /\ Target \in Threads
    BY <1>6, TargetFacts
  <2>2. pc[Target] = "ended" /\ suspended[Target] = 0
    BY <1>1, <1>6, <2>1 DEF ListInv, LiveInv, Target
  <2>3. ~Walked(Target)
    <3>1. ~(list.at < list.at)
      BY SMT, <1>type
    <3>. QED
      BY <1>1, <2>1, <3>1, WalkedIndex DEF Target
  <2>4. before[Target] = 0
    BY <1>1, <2>1, <2>2, <2>3
  <2>5. ASSUME NEW t \in Threads PROVE Held(t)
    <3>1. CASE ~Listed(t)
      BY <1>3, <3>1 DEF Held
    <3>2. CASE Walked(t)
      BY <1>1, <3>2 DEF Held
    <3>3. CASE Listed(t) /\ ~Walked(t)
      <4>1. PICK b \in DOMAIN list.threads : t = list.threads[b]
        BY <3>3 DEF Listed
      <4>2. ~(b < list.at)
        BY <1>1, <3>3, <4>1, WalkedIndex
      <4>3. b = list.at \/ list.at < b
        BY SMT, <1>type, <4>2
      <4>4. before[Target] >= before[t] \/ t = Target
        BY <1>1, <2>1, <4>1, <4>3 DEF ListInv, Falling, Target
      <4>5. before[t] = 0
        BY SMT, <1>type, <2>1, <2>4, <4>4
      <4>6. suspended[t] = before[t]
        BY <1>1, <3>3
      <4>. QED
        BY <4>5, <4>6 DEF Held
    <3>. QED
      BY <3>1, <3>2, <3>3
  <2>. QED
    BY <1>4, <2>1, <2>2, <2>5 DEF Target
<1>. QED
  BY <1>5, <1>6

\* ResumeThreads() stops: at the end, at a thread that has ended, or at one that
\* is not suspended; then no thread is left that should be resumed.
LEMMA ResumeEnds ==
  ASSUME Types, LiveInv, SuspendInv, pc[Handler] = "resuming",
         list.at > Len(list.threads) \/ Target \notin Living \/ suspended[Target] = 0
  PROVE  Falling(live, suspended) /\ \A t \in Threads : suspended[t] = before[t]
<1> USE Zenon
<1>1. /\ ListInv
      /\ \A t \in Threads : IF Walked(t) THEN suspended[t] = before[t] ELSE Held(t)
      /\ \A i, j \in DOMAIN list.threads :
           list.at <= i /\ i < j =>
             suspended[list.threads[i]] >= suspended[list.threads[j]]
  BY DEF SuspendInv
<1>type. /\ DOMAIN list.threads \subseteq Int /\ list.at \in Nat /\ Len(list.threads) \in Nat
         /\ \A i \in DOMAIN list.threads :
              list.threads[i] \in Threads /\ i <= Len(list.threads)
         /\ \A t \in Threads : suspended[t] \in Nat /\ before[t] \in Nat
  BY WalkTypes
<1>3. \A t \in Threads : ~Listed(t) => before[t] = 0 /\ suspended[t] = 0
  BY <1>1 DEF ListInv
<1>4. ASSUME NEW t \in Threads PROVE suspended[t] = before[t]
  <2>1. CASE ~Listed(t)
    BY <1>3, <2>1
  <2>2. CASE Walked(t)
    BY <1>1, <2>2
  <2>3. CASE Listed(t) /\ ~Walked(t)
    <3>1. PICK b \in DOMAIN list.threads : t = list.threads[b]
      BY <2>3 DEF Listed
    <3>2. ~(b < list.at)
      BY <1>1, <2>3, <3>1, WalkedIndex
    <3>3. (b = list.at \/ list.at < b) /\ ~(list.at > Len(list.threads)) /\ list.at <= list.at
      BY SMT, <1>type, <3>2
    <3>4. list.at \in DOMAIN list.threads /\ Target \in Threads
      BY <3>3, TargetFacts
    <3>5. suspended[Target] = 0
      BY <3>3, <3>4 DEF LiveInv
    <3>6. suspended[Target] >= suspended[t] \/ t = Target
      BY <1>1, <3>1, <3>3, <3>4 DEF Target
    <3>7. suspended[t] = 0
      BY SMT, <1>type, <3>4, <3>5, <3>6
    <3>8. suspended[t] # before[t] + 1
      BY SMT, <1>type, <3>7
    <3>. QED
      BY <1>1, <2>3, <3>7, <3>8 DEF Held
  <2>. QED
    BY <2>1, <2>2, <2>3
<1>5. Falling(list.threads, suspended)
  BY <1>1, <1>4, <1>type DEF ListInv, Falling
<1>. QED
  BY ZenonT(60), <1>1, <1>3, <1>4, <1>5, FallingLive DEF ListInv, Types

\* A thread that has ended does not come back.
LEMMA EndedStays ==
  ASSUME Types, RaisedInv, LiveInv, [Next]_vars, NEW u \in Threads, pc[u] = "ended"
  PROVE  pc'[u] = "ended"
<1> USE Zenon
<1>1. ~(server /\ msg.own /\ msg.thread = u)
  BY DEF server, At, RaisedInv
<1>. QED
  BY <1>1, ThreadPlaces DEF Inside, Constructing, Destructing

\* Steps that touch neither the threads nor the copy.
LEMMA SuspendQuiet ==
  ASSUME Types, RaisedInv, LiveInv, InstallInv, SuspendInv, [Next]_vars,
         UNCHANGED <<live, suspended, list, before>>,
         ~SuspendThreads, ~ResumeThreads,
         ~enumerate("suspend", "suspending"), ~enumerate("resume", "resuming"),
         ~enumerateFails("suspend", "dump"), ~enumerateFails("resume", "unlock")
  PROVE  SuspendInv'
<1> USE Zenon
<1>1. Falling(live, suspended) => Falling(live, suspended)'
  BY DEF Falling
<1>2. \A t \in Threads : (Walked(t)' <=> Walked(t)) /\ (Held(t)' <=> Held(t))
  BY DEF Walked, Held
<1>3. Living' = Living /\ \A i \in DOMAIN list.threads : list.threads[i] \in Threads
  BY WalkTypes DEF Living
<1>4. \A i \in DOMAIN list.threads :
        pc[list.threads[i]] = "ended" => pc'[list.threads[i]] = "ended"
  BY <1>3, EndedStays
<1>5. ListInv => ListInv'
  <2> SUFFICES ASSUME ListInv PROVE ListInv'
    OBVIOUS
  <2>1. /\ \A i, j \in DOMAIN list'.threads : list'.threads[i] = list'.threads[j] => i = j
        /\ list'.at <= Len(list'.threads) + 1
    BY DEF ListInv
  <2>2. Falling(list.threads, before)'
    BY DEF ListInv, Falling
  <2>3. InOrder(live', list'.threads)
    BY DEF ListInv
  <2>4. \A t \in Threads : ~Listed(t)' => before'[t] = 0 /\ suspended'[t] = 0
    BY DEF ListInv, Listed
  <2>5. \A i \in DOMAIN list'.threads :
          list'.threads[i] \in Living' \/ pc'[list'.threads[i]] = "ended"
    BY <1>3, <1>4 DEF ListInv
  <2>. QED
    BY <2>1, <2>2, <2>3, <2>4, <2>5 DEF ListInv
<1>6. /\ pc'[Handler] \in {"suspending", "resuming"} => pc'[Handler] = pc[Handler]
      /\ pc'[Handler] \in Report => pc[Handler] \in Report
      /\ pc'[Handler] = "resume" => pc[Handler] \in Report \cup {"resume"}
      /\ pc'[Handler] = "unlock" => pc[Handler] = "unlock"
      /\ pc[Handler] \in {"suspending", "resuming"} => pc'[Handler] = pc[Handler]
  <2>1. startThread => pc[Handler] = "none"
    BY NotYet
  <2>. QED
    BY <2>1, HandlerPlaces DEF Reports, Report
<1>7. pc'[Handler] \notin {"suspending", "resuming"} => Falling(live, suspended)'
  BY <1>1, <1>6 DEF SuspendInv
<1>8. pc'[Handler] \in {"suspending", "resuming"} => ListInv'
  BY <1>5, <1>6 DEF SuspendInv
<1>9. pc'[Handler] = "suspending" =>
        \A t \in Threads :
          suspended'[t] = IF Walked(t)' THEN before'[t] + 1 ELSE before'[t]
  BY <1>2, <1>6 DEF SuspendInv
<1>10. pc'[Handler] \in Report \cup {"resume"} => \A t \in Threads : Held(t)'
  BY <1>2, <1>6 DEF SuspendInv
<1>11. pc'[Handler] = "resuming" =>
         /\ \A t \in Threads : IF Walked(t)' THEN suspended'[t] = before'[t] ELSE Held(t)'
         /\ \A i, j \in DOMAIN list'.threads :
              list'.at <= i /\ i < j =>
                suspended'[list'.threads[i]] >= suspended'[list'.threads[j]]
  BY <1>2, <1>6 DEF SuspendInv
<1>12. pc'[Handler] = "unlock" /\ list'.whole =>
         \A t \in Threads : suspended'[t] = before'[t]
  BY <1>6 DEF SuspendInv
<1>13. pc'[Handler] \in Report /\ list'.whole =>
         \/ \A i \in DOMAIN list'.threads : suspended'[list'.threads[i]] > 0
         \/ \E i \in DOMAIN list'.threads : pc'[list'.threads[i]] = "ended"
  BY <1>4, <1>6 DEF SuspendInv
<1>. QED
  BY <1>7, <1>8, <1>9, <1>10, <1>11, <1>12, <1>13 DEF SuspendInv

\* The places of the walk are none of the others.
LEMMA WalkPlaces ==
  /\ Report \cap {"suspend", "suspending", "resume", "resuming", "unlock"} = {}
  /\ "dump" \in Report
BY Zenon DEF Report

\* A sequence without repetitions has its own order.
LEMMA InOrderSelf ==
  ASSUME NEW s, \A i, j \in DOMAIN s : s[i] = s[j] => i = j PROVE InOrder(s, s)
BY Zenon DEF InOrder

\* SuspendThreads() copies task_threads().
LEMMA SuspendBegins ==
  ASSUME Types, LiveInv, SuspendInv, enumerate("suspend", "suspending")
  PROVE  SuspendInv'
<1> USE Zenon
<1>1. /\ pc[Handler] = "suspend" /\ pc'[Handler] = "suspending" /\ UNCHANGED <<live, suspended>>
      /\ list'.threads = live /\ list'.at = 1 /\ before' = suspended
      /\ \A t \in Threads : pc'[t] = pc[t]
  BY ThreadsAssumption DEF enumerate, At, Goto, process, Types, All
<1>2. Falling(live, suspended)
  BY <1>1 DEF SuspendInv
<1>3. list'.threads = live /\ list'.at = 1
  BY <1>1
<1>type. /\ DOMAIN live \subseteq Int /\ \A i \in DOMAIN live : live[i] \in Threads
         /\ live \in Seq(Threads)
  BY WalkTypes
<1>4. ListInv'
  <2>1. \A i, j \in DOMAIN live : live[i] = live[j] => i = j
    BY DEF LiveInv
  <2>2. Falling(list.threads, before)'
    BY <1>1, <1>2, <1>3 DEF Falling
  <2>3. InOrder(live', list'.threads)
    BY <1>1, <1>3, <2>1, InOrderSelf
  <2>4. 1 <= Len(live) + 1
    BY SMT, <1>type
  <2>5. \A t \in Threads : ~Listed(t)' => before'[t] = 0 /\ suspended'[t] = 0
    <3>1. \A t \in Threads : t \notin Living => suspended[t] = 0
      BY DEF LiveInv
    <3>2. \A t \in Threads : ~Listed(t)' => t \notin Living
      BY <1>3 DEF Listed, Living
    <3>. QED
      BY <1>1, <3>1, <3>2
  <2>6. \A i \in DOMAIN list'.threads : list'.threads[i] \in Living'
    BY <1>1, <1>3 DEF Living
  <2>. QED
    BY <1>3, <2>1, <2>2, <2>3, <2>4, <2>5, <2>6 DEF ListInv
<1>5. \A t \in Threads : ~Walked(t)'
  <2>1. \A i \in DOMAIN live : ~(i < 1)
    BY SMT, <1>type
  <2>. QED
    BY <1>3, <2>1 DEF Walked
<1>. QED
  BY <1>1, <1>4, <1>5, WalkPlaces DEF SuspendInv

\* ResumeThreads() copies it again: in the copy, too, threads that were suspended
\* before come first.
LEMMA ResumeBegins ==
  ASSUME Types, LiveInv, SuspendInv, enumerate("resume", "resuming")
  PROVE  SuspendInv'
<1> USE Zenon
<1>1. /\ pc[Handler] = "resume" /\ pc'[Handler] = "resuming" /\ UNCHANGED <<live, suspended>>
      /\ list'.threads = live /\ list'.at = 1 /\ before' = before
      /\ \A t \in Threads : pc'[t] = pc[t]
  BY ThreadsAssumption DEF enumerate, At, Goto, process, Types, All
<1>2. Falling(live, suspended) /\ \A t \in Threads : Held(t)
  BY <1>1 DEF SuspendInv
<1>3. list'.threads = live /\ list'.at = 1
  BY <1>1
<1>type. /\ DOMAIN live \subseteq Int /\ \A i \in DOMAIN live : live[i] \in Threads
         /\ live \in Seq(Threads)
         /\ \A t \in Threads : suspended[t] \in Nat /\ before[t] \in Nat
  BY WalkTypes
<1>4. Falling(live, before)
  <2> SUFFICES ASSUME NEW i \in DOMAIN live, NEW j \in DOMAIN live, i < j
               PROVE  before[live[i]] >= before[live[j]]
    BY DEF Falling
  <2>1. PICK u \in Threads, v \in Threads : u = live[i] /\ v = live[j]
    BY <1>type
  <2>2. suspended[u] >= suspended[v]
    BY <1>2, <2>1 DEF Falling
  <2>3. /\ suspended[u] = before[u] + 1 \/ (suspended[u] = 0 /\ before[u] = 0)
        /\ suspended[v] = before[v] + 1 \/ (suspended[v] = 0 /\ before[v] = 0)
    BY <1>2 DEF Held
  <2>4. before[u] >= before[v]
    BY SMT, <1>type, <2>2, <2>3
  <2>. QED
    BY <2>1, <2>4
<1>5. \A t \in Threads : t \notin Living => suspended[t] = 0 /\ before[t] = 0
  <2>1. \A t \in Threads : t \notin Living => suspended[t] = 0
    BY DEF LiveInv
  <2>2. \A t \in Threads : suspended[t] = 0 => suspended[t] # before[t] + 1
    BY SMT, <1>type
  <2>. QED
    BY <1>2, <2>1, <2>2 DEF Held
<1>6. ListInv'
  <2>1. \A i, j \in DOMAIN live : live[i] = live[j] => i = j
    BY DEF LiveInv
  <2>2. Falling(list.threads, before)'
    BY <1>1, <1>3, <1>4 DEF Falling
  <2>3. InOrder(live', list'.threads)
    BY <1>1, <1>3, <2>1, InOrderSelf
  <2>4. 1 <= Len(live) + 1
    BY SMT, <1>type
  <2>5. \A t \in Threads : ~Listed(t)' => before'[t] = 0 /\ suspended'[t] = 0
    BY ZenonT(60), <1>1, <1>3, <1>5 DEF Listed, Living
  <2>6. \A i \in DOMAIN list'.threads : list'.threads[i] \in Living'
    BY <1>1, <1>3 DEF Living
  <2>. QED
    BY <1>3, <2>1, <2>2, <2>3, <2>4, <2>5, <2>6 DEF ListInv
<1>7. \A t \in Threads : ~Walked(t)' /\ Held(t)'
  <2>1. \A i \in DOMAIN live : ~(i < 1)
    BY SMT, <1>type
  <2>. QED
    BY <1>1, <1>2, <1>3, <2>1 DEF Walked, Held
<1>8. \A i, j \in DOMAIN list'.threads :
        list'.at <= i /\ i < j =>
          suspended'[list'.threads[i]] >= suspended'[list'.threads[j]]
  BY <1>1, <1>2, <1>3 DEF Falling
<1>. QED
  BY <1>1, <1>6, <1>7, <1>8, WalkPlaces DEF SuspendInv

\* SuspendThreads() gets no list: the report begins with the threads as they are.
LEMMA SuspendFails ==
  ASSUME Types, SuspendInv, enumerateFails("suspend", "dump")
  PROVE  SuspendInv'
<1> USE Zenon
<1>type. /\ suspended \in [Threads -> Nat]
         /\ \A n \in Nat : n = (n - 1) + 1
  <2>1. \A n \in Nat : n = (n - 1) + 1
    BY SMT
  <2>. QED
    BY <2>1 DEF Types
<1>1. /\ pc[Handler] = "suspend" /\ pc'[Handler] = "dump" /\ UNCHANGED <<live, suspended>>
      /\ ~list'.whole
      /\ before' = [t \in Threads |-> IF suspended[t] = 0 THEN 0 ELSE suspended[t] - 1]
  BY ThreadsAssumption DEF enumerateFails, At, Goto, process, Types, All
<1>2. Falling(live', suspended')
  BY <1>1 DEF SuspendInv
<1>3. \A t \in Threads : suspended'[t] = before'[t] + 1 \/ (suspended'[t] = 0 /\ before'[t] = 0)
  BY <1>1, <1>type
<1>. QED
  BY <1>1, <1>2, <1>3, WalkPlaces DEF SuspendInv, Held

\* ResumeThreads() gets no list: the threads stay as they are.
LEMMA ResumeFails ==
  ASSUME Types, SuspendInv, enumerateFails("resume", "unlock")
  PROVE  SuspendInv'
<1> USE Zenon
<1>1. /\ pc[Handler] = "resume" /\ pc'[Handler] = "unlock" /\ UNCHANGED <<live, suspended>>
      /\ ~list'.whole
  BY ThreadsAssumption DEF enumerateFails, At, Goto, process, Types, All
<1>2. Falling(live', suspended')
  BY <1>1 DEF SuspendInv
<1>. QED
  BY <1>1, <1>2, WalkPlaces DEF SuspendInv

\* The walk goes on to the next thread.
LEMMA WalkOn ==
  ASSUME Types, ListInv, NEW c \in [Threads -> Nat],
         ~(list.at > Len(list.threads)), UNCHANGED <<live, before, pc>>,
         list' = [list EXCEPT !.at = @ + 1],
         suspended' = [suspended EXCEPT ![Target] = c[Target]]
  PROVE  /\ ListInv'
         /\ \A t \in Threads : Walked(t)' <=> Walked(t) \/ t = Target
         /\ ~Walked(Target) /\ suspended'[Target] = c[Target]
         /\ \A t \in Threads : t # Target => suspended'[t] = suspended[t]
<1> USE Zenon
<1>type. /\ DOMAIN list.threads \subseteq Int /\ list.at \in Nat /\ Len(list.threads) \in Nat
         /\ \A i \in DOMAIN list.threads : list.threads[i] \in Threads
         /\ suspended \in [Threads -> Nat]
  BY WalkTypes DEF Types
<1>1. list.at \in DOMAIN list.threads /\ Target \in Threads
  BY TargetFacts
<1>2. list'.threads = list.threads /\ list'.at = list.at + 1
  BY DEF Types
<1>3. /\ suspended'[Target] = c[Target]
      /\ \A t \in Threads : t # Target => suspended'[t] = suspended[t]
  BY <1>1, <1>type
<1>4. /\ \A i \in DOMAIN list.threads : i < list.at + 1 <=> i < list.at \/ i = list.at
      /\ ~(list.at < list.at) /\ list.at + 1 <= Len(list.threads) + 1
  BY SMTT(30), <1>type
<1>5. \A t \in Threads : Walked(t)' <=> Walked(t) \/ t = Target
  <2>1. \A t \in Threads :
          Walked(t)' <=> \E i \in DOMAIN list.threads : i < list.at + 1 /\ list.threads[i] = t
    BY <1>2 DEF Walked
  <2>. QED
    BY <1>1, <1>4, <2>1 DEF Walked, Target
<1>6. ~Walked(Target)
  BY <1>1, <1>4, WalkedIndex DEF Target
<1>7. ListInv'
  <2>1. \A i, j \in DOMAIN list'.threads : list'.threads[i] = list'.threads[j] => i = j
    BY <1>2 DEF ListInv
  <2>2. Falling(list'.threads, before')
    BY <1>2 DEF ListInv
  <2>3. InOrder(live', list'.threads)
    BY <1>2 DEF ListInv
  <2>4. list'.at <= Len(list'.threads) + 1
    BY <1>2, <1>4
  <2>5. \A t \in Threads : ~Listed(t)' => before'[t] = 0 /\ suspended'[t] = 0
    <3>1. Listed(Target)
      BY <1>1 DEF Listed, Target
    <3>2. \A t \in Threads : Listed(t)' <=> Listed(t)
      BY <1>2 DEF Listed
    <3>. QED
      BY <1>3, <3>1, <3>2 DEF ListInv
  <2>6. Living' = Living
    BY DEF Living
  <2>7. \A i \in DOMAIN list'.threads :
          list'.threads[i] \in Living' \/ pc'[list'.threads[i]] = "ended"
    <3>1. \A i \in DOMAIN list.threads :
            list.threads[i] \in Living \/ pc[list.threads[i]] = "ended"
      BY DEF ListInv
    <3>2. pc' = pc
      OBVIOUS
    <3>3. \A i \in DOMAIN list.threads :
            list.threads[i] \in Living' \/ pc'[list.threads[i]] = "ended"
      BY <2>6, <3>1, <3>2
    <3>. QED
      BY <1>2, <3>3
  <2>. QED
    BY <2>1, <2>2, <2>3, <2>4, <2>5, <2>7 DEF ListInv
<1>. QED
  BY <1>3, <1>5, <1>6, <1>7

\* SuspendThreads() keeps the suspend counts as SuspendInv says.
LEMMA SuspendWalk ==
  ASSUME Types, LiveInv, SuspendInv, SuspendThreads
  PROVE  SuspendInv'
<1> USE Zenon
<1>0. pc[Handler] = "suspending" /\ pc \in [All -> Places] /\ Handler \in All
  BY DEF SuspendThreads, At, Types, All
<1>1. CASE list.at > Len(list.threads) \/ Target \notin Living
  <2>1. pc'[Handler] = "dump" /\ UNCHANGED <<live, suspended, list, before>>
    BY <1>0, <1>1 DEF SuspendThreads, Goto
  <2>2. \A t \in Threads : pc'[t] = pc[t]
    <3>1. \A t \in Threads : t \in All /\ t # Handler
      BY ThreadsAssumption DEF All
    <3>. QED
      BY <1>0, <1>1, <3>1 DEF SuspendThreads, Goto
  <2>3. /\ Falling(live, suspended) /\ \A t \in Threads : Held(t)
        /\ \/ \A i \in DOMAIN list.threads : suspended[list.threads[i]] > 0
           \/ \E i \in DOMAIN list.threads : pc[list.threads[i]] = "ended"
    BY <1>0, <1>1, SuspendEnds
  <2>4. Falling(live', suspended') /\ \A t \in Threads : Held(t)'
    BY <2>1, <2>3 DEF Held
  <2>5. \/ \A i \in DOMAIN list'.threads : suspended'[list'.threads[i]] > 0
        \/ \E i \in DOMAIN list'.threads : pc'[list'.threads[i]] = "ended"
    BY <2>1, <2>2, <2>3, WalkTypes
  <2>. QED
    BY <2>1, <2>4, <2>5 DEF SuspendInv
<1>2. CASE ~(list.at > Len(list.threads) \/ Target \notin Living)
  <2>1. /\ UNCHANGED <<live, before, pc>> /\ list' = [list EXCEPT !.at = @ + 1]
        /\ suspended' = [suspended EXCEPT ![Target] = suspended[Target] + 1]
    BY <1>2 DEF SuspendThreads
  <2>2. ListInv /\ \A t \in Threads :
          suspended[t] = IF Walked(t) THEN before[t] + 1 ELSE before[t]
    BY <1>0 DEF SuspendInv
  <2>3. PICK c : c = [t \in Threads |-> suspended[t] + 1]
    OBVIOUS
  <2>4. c \in [Threads -> Nat]
    BY SMT, <2>3, WalkTypes
  <2>5. Target \in Threads /\ c[Target] = suspended[Target] + 1
    BY <1>2, <2>3, TargetFacts
  <2>6. /\ ListInv'
        /\ \A t \in Threads : Walked(t)' <=> Walked(t) \/ t = Target
        /\ ~Walked(Target) /\ suspended'[Target] = c[Target]
        /\ \A t \in Threads : t # Target => suspended'[t] = suspended[t]
    BY <1>2, <2>1, <2>2, <2>4, <2>5, WalkOn
  <2>7. \A t \in Threads : suspended'[t] = IF Walked(t)' THEN before'[t] + 1 ELSE before'[t]
    BY <2>1, <2>2, <2>5, <2>6
  <2>. QED
    BY <1>0, <2>1, <2>6, <2>7, WalkPlaces DEF SuspendInv
<1>. QED
  BY <1>1, <1>2

\* ResumeThreads() keeps the suspend counts as SuspendInv says.
LEMMA ResumeWalk ==
  ASSUME Types, LiveInv, SuspendInv, ResumeThreads
  PROVE  SuspendInv'
<1> USE Zenon
<1>0. pc[Handler] = "resuming" /\ pc \in [All -> Places] /\ Handler \in All
  BY DEF ResumeThreads, At, Types, All
<1>1. CASE list.at > Len(list.threads) \/ Target \notin Living \/ suspended[Target] = 0
  <2>1. pc'[Handler] = "unlock" /\ UNCHANGED <<live, suspended, list, before>>
    BY <1>0, <1>1 DEF ResumeThreads, Goto
  <2>2. Falling(live, suspended) /\ \A t \in Threads : suspended[t] = before[t]
    BY <1>0, <1>1, ResumeEnds
  <2>3. Falling(live', suspended') /\ \A t \in Threads : suspended'[t] = before'[t]
    BY <2>1, <2>2
  <2>. QED
    BY <2>1, <2>3, WalkPlaces DEF SuspendInv
<1>2. CASE ~(list.at > Len(list.threads) \/ Target \notin Living \/ suspended[Target] = 0)
  <2>1. /\ UNCHANGED <<live, before, pc>> /\ list' = [list EXCEPT !.at = @ + 1]
        /\ suspended' = [suspended EXCEPT ![Target] = suspended[Target] - 1]
    BY <1>2 DEF ResumeThreads
  <2>2. /\ ListInv
        /\ \A t \in Threads : IF Walked(t) THEN suspended[t] = before[t] ELSE Held(t)
        /\ \A i, j \in DOMAIN list.threads :
             list.at <= i /\ i < j =>
               suspended[list.threads[i]] >= suspended[list.threads[j]]
    BY <1>0 DEF SuspendInv
  <2>3. PICK c : c = [t \in Threads |-> IF t = Target THEN suspended[t] - 1 ELSE 0]
    OBVIOUS
  <2>t. Target \in Threads /\ suspended[Target] \in Nat /\ suspended[Target] # 0
    BY <1>2, TargetFacts
  <2>4. c \in [Threads -> Nat]
    BY SMT, <2>3, <2>t
  <2>5. Target \in Threads /\ c[Target] = suspended[Target] - 1
    BY <2>3, <2>t
  <2>6. /\ ListInv'
        /\ \A t \in Threads : Walked(t)' <=> Walked(t) \/ t = Target
        /\ ~Walked(Target) /\ suspended'[Target] = c[Target]
        /\ \A t \in Threads : t # Target => suspended'[t] = suspended[t]
    BY <1>2, <2>1, <2>2, <2>4, <2>5, WalkOn
  <2>7. suspended'[Target] = before[Target]
    <3>1. suspended[Target] = before[Target] + 1 /\ before[Target] \in Nat
      BY <2>2, <2>6, <2>t, WalkTypes DEF Held
    <3>2. suspended[Target] - 1 = before[Target]
      BY SMT, <3>1
    <3>. QED
      BY <2>5, <2>6, <3>2
  <2>8. \A t \in Threads : IF Walked(t)' THEN suspended'[t] = before'[t] ELSE Held(t)'
    BY <2>1, <2>2, <2>6, <2>7 DEF Held
  <2>9. ASSUME NEW i \in DOMAIN list.threads, NEW j \in DOMAIN list.threads,
               list.at + 1 <= i, i < j
        PROVE  suspended'[list.threads[i]] >= suspended'[list.threads[j]]
    <3>1. /\ list.at \in DOMAIN list.threads /\ list.at \in Nat
          /\ DOMAIN list.threads \subseteq Int
          /\ list.threads[i] \in Threads /\ list.threads[j] \in Threads
      BY <1>2, TargetFacts, WalkTypes
    <3>2. list.at <= i /\ i # list.at /\ j # list.at
      BY SMT, <2>9, <3>1
    <3>3. list.threads[i] # Target /\ list.threads[j] # Target
      BY <2>2, <3>1, <3>2 DEF ListInv, Target
    <3>. QED
      BY <2>2, <2>6, <2>9, <3>1, <3>2, <3>3
  <2>10. list'.threads = list.threads /\ list'.at = list.at + 1
    BY <2>1 DEF Types
  <2>11. \A i, j \in DOMAIN list'.threads :
           list'.at <= i /\ i < j =>
             suspended'[list'.threads[i]] >= suspended'[list'.threads[j]]
    BY <2>9, <2>10
  <2>. QED
    BY <1>0, <2>1, <2>6, <2>8, <2>11, WalkPlaces DEF SuspendInv
<1>. QED
  BY <1>1, <1>2

\* A thread comes or goes.  What it does to an order.
LEMMA SuspendChurn ==
  ASSUME Types, LiveInv, SuspendInv, NEW t \in Threads, threadStarts(t) \/ threadEnds(t)
  PROVE  SuspendInv'
<1> USE Zenon
<1>0. UNCHANGED <<suspended, list, before>> /\ pc'[Handler] = pc[Handler]
  <2>1. CASE threadStarts(t)
    BY <2>1, StartFacts
  <2>2. CASE threadEnds(t)
    BY ZenonT(60), <2>2, EndFacts, ThreadsAssumption DEF Types, All
  <2>. QED
    BY <2>1, <2>2
<1>1. \A u \in Threads : pc[u] = "ended" => pc'[u] = "ended"
  <2>1. CASE threadStarts(t)
    BY <2>1, StartFacts
  <2>2. CASE threadEnds(t)
    BY <2>2, EndFacts DEF Types, All
  <2>. QED
    BY <2>1, <2>2
<1>type. /\ \A i \in DOMAIN list.threads : list.threads[i] \in Threads
         /\ \A i \in DOMAIN live : live[i] \in Threads
         /\ \A u \in Threads : suspended[u] \in Nat
  BY WalkTypes
<1>2. Falling(live, suspended) => Falling(live', suspended')
  <2> SUFFICES ASSUME Falling(live, suspended), NEW i \in DOMAIN live', NEW j \in DOMAIN live',
                      i < j
               PROVE  suspended[live'[i]] >= suspended[live'[j]]
    BY <1>0 DEF Falling
  <2>1. CASE threadEnds(t)
    <3>1. PICK a \in DOMAIN live, b \in DOMAIN live :
            a < b /\ live'[i] = live[a] /\ live'[j] = live[b]
      BY <2>1, EndFacts
    <3>. QED
      BY <3>1 DEF Falling
  <2>2. CASE threadStarts(t)
    <3>1. /\ i \in DOMAIN live /\ live'[i] = live[i]
          /\ (j \in DOMAIN live /\ live'[j] = live[j]) \/ live'[j] = t
          /\ suspended[t] = 0
      <4>1. \A x, y \in DOMAIN live' : x < y =>
              x \in DOMAIN live /\ live'[x] = live[x]
                /\ ((y \in DOMAIN live /\ live'[y] = live[y]) \/ live'[y] = t)
        BY <2>2, StartFacts
      <4>2. suspended[t] = 0
        BY <2>2, StartFacts
      <4>. QED
        BY <4>1, <4>2
    <3>2. CASE live'[j] = t
      <4>1. suspended[live'[i]] \in Nat /\ suspended[live'[j]] = 0
        BY <1>type, <3>1, <3>2
      <4>. QED
        BY SMT, <4>1
    <3>. QED
      BY <3>1, <3>2 DEF Falling
  <2>. QED
    BY <2>1, <2>2
<1>3. ListInv => ListInv'
  <2> SUFFICES ASSUME ListInv PROVE ListInv'
    OBVIOUS
  <2>1. InOrder(live', list.threads)
    <3> SUFFICES ASSUME NEW i \in DOMAIN live', NEW j \in DOMAIN live',
                        NEW b \in DOMAIN list.threads, i < j, live'[j] = list.threads[b]
                 PROVE  \E a \in DOMAIN list.threads : a < b /\ live'[i] = list.threads[a]
      BY DEF InOrder
    <3>1. PICK x \in DOMAIN live, y \in DOMAIN live :
            x < y /\ live'[i] = live[x] /\ live'[j] = live[y]
      <4>1. CASE threadEnds(t)
        BY <4>1, EndFacts
      <4>2. CASE threadStarts(t)
        <5>1. /\ i \in DOMAIN live /\ live'[i] = live[i]
              /\ (j \in DOMAIN live /\ live'[j] = live[j]) \/ live'[j] = t
              /\ t \notin Living /\ pc[t] = "idle"
          <6>1. \A x, y \in DOMAIN live' : x < y =>
                  x \in DOMAIN live /\ live'[x] = live[x]
                    /\ ((y \in DOMAIN live /\ live'[y] = live[y]) \/ live'[y] = t)
            BY <4>2, StartFacts
          <6>2. t \notin Living /\ pc[t] = "idle"
            BY <4>2, StartFacts
          <6>. QED
            BY <6>1, <6>2
        <5>2. live'[j] # t
          BY <5>1 DEF ListInv
        <5>. QED
          BY <5>1, <5>2
      <4>. QED
        BY <4>1, <4>2
    <3>2. InOrder(live, list.threads) /\ live[y] = list.threads[b]
      BY <3>1 DEF ListInv
    <3>3. PICK a \in DOMAIN list.threads : a < b /\ live[x] = list.threads[a]
      BY <3>1, <3>2 DEF InOrder
    <3>. QED
      BY <3>1, <3>3
  <2>2. \A i \in DOMAIN list.threads :
          list.threads[i] \in Living' \/ pc'[list.threads[i]] = "ended"
    <3>1. CASE threadEnds(t)
      <4>1. Living' = Living \ {t} /\ pc'[t] = "ended"
        BY <3>1, EndFacts DEF Types, All
      <4>. QED
        BY <1>1, <1>type, <4>1 DEF ListInv
    <3>2. CASE threadStarts(t)
      <4>1. Living' = Living \cup {t}
        BY <3>2, StartFacts
      <4>. QED
        BY <1>1, <1>type, <4>1 DEF ListInv
    <3>. QED
      BY <3>1, <3>2
  <2>3. \A u \in Threads : ~Listed(u)' => before'[u] = 0 /\ suspended'[u] = 0
    BY <1>0 DEF ListInv, Listed
  <2>4. Falling(list'.threads, before') /\ InOrder(live', list'.threads)
    BY <1>0, <2>1 DEF ListInv
  <2>5. /\ \A i, j \in DOMAIN list'.threads : list'.threads[i] = list'.threads[j] => i = j
        /\ list'.at <= Len(list'.threads) + 1
    BY <1>0 DEF ListInv
  <2>6. \A i \in DOMAIN list'.threads :
          list'.threads[i] \in Living' \/ pc'[list'.threads[i]] = "ended"
    BY <1>0, <2>2
  <2>. QED
    BY <2>3, <2>4, <2>5, <2>6 DEF ListInv
<1>4. \A u \in Threads : (Walked(u)' <=> Walked(u)) /\ (Held(u)' <=> Held(u))
  BY <1>0 DEF Walked, Held
<1>5. pc'[Handler] \in Report /\ list'.whole =>
         \/ \A i \in DOMAIN list'.threads : suspended'[list'.threads[i]] > 0
         \/ \E i \in DOMAIN list'.threads : pc'[list'.threads[i]] = "ended"
  BY <1>0, <1>1, <1>type DEF SuspendInv
<1>6. pc'[Handler] = "resuming" =>
         /\ \A u \in Threads : IF Walked(u)' THEN suspended'[u] = before'[u] ELSE Held(u)'
         /\ \A i, j \in DOMAIN list'.threads :
              list'.at <= i /\ i < j =>
                suspended'[list'.threads[i]] >= suspended'[list'.threads[j]]
  BY <1>0, <1>4 DEF SuspendInv
<1>7. pc'[Handler] = "suspending" =>
        \A u \in Threads :
          suspended'[u] = IF Walked(u)' THEN before'[u] + 1 ELSE before'[u]
  BY <1>0, <1>4 DEF SuspendInv
<1>8. /\ pc'[Handler] \in Report \cup {"resume"} => \A u \in Threads : Held(u)'
      /\ pc'[Handler] = "unlock" /\ list'.whole =>
           \A u \in Threads : suspended'[u] = before'[u]
  BY <1>0, <1>4 DEF SuspendInv
<1>9. /\ pc'[Handler] \notin {"suspending", "resuming"} => Falling(live', suspended')
      /\ pc'[Handler] \in {"suspending", "resuming"} => ListInv'
  BY <1>0, <1>2, <1>3 DEF SuspendInv
<1>. QED
  BY <1>5, <1>6, <1>7, <1>8, <1>9 DEF SuspendInv

\* Every step keeps what SuspendInv says of the suspend counts.
LEMMA SuspendStep ==
  ASSUME Types, RaisedInv, LiveInv, InstallInv, SuspendInv, [Next]_vars
  PROVE  SuspendInv'
BY Zenon, WalkMoves, SuspendQuiet, SuspendBegins, ResumeBegins, SuspendFails, ResumeFails,
   SuspendWalk, ResumeWalk, SuspendChurn

----------------------------------------------------------------------------
(* SIGABRT                                                                 *)

\* The arguments of the constructor stay.
LEMMA BuildStays == ASSUME Types, [Next]_vars PROVE UNCHANGED build
<1> USE Zenon
<1>1. ASSUME NEW t \in Threads, threadStep(t) PROVE UNCHANGED build
  BY <1>1, ThreadMoves
<1>2. CASE handlerThread
  BY <1>2
     DEF handlerThread, top, receive, unlock, server, enumerate, enumerateFails,
         SuspendThreads, ResumeThreads, forwardsToItself, dump, RequestDumpForException,
         written, callback, uninstallSignal, restorePorts, restoreFails, clearPrevious
<1>3. CASE ownerStep
  BY <1>3
     DEF ownerStep, installGlobal, installPorts, startThread, uninstallSignal,
         restorePorts, restoreFails, clearPrevious, shutdown, nullPort, free
<1>4. CASE program
  BY <1>4
     DEF program, setup, destroy, childCrashes, dumpCrashes, WriteMinidump, refused, crash,
         abort, threadStarts, threadEnds, vars
<1>5. CASE UNCHANGED vars
  BY <1>5 DEF vars
<1>. QED
  BY <1>1, <1>2, <1>3, <1>4, <1>5 DEF Next

\* The program may use the object outside the constructor and the destructor.
LEMMA UsableMeans == Usable <=> obj = "alive" /\ pc[Owner] \notin Constructing \cup Destructing
BY Zenon DEF Usable, Constructing, Destructing

\* Every step keeps what AbortInstalled says of the constructor and SIGABRT.
LEMMA AbortInstalledStep ==
  ASSUME Types, RaisedInv, InstallInv, AbortInstalled, [Next]_vars
  PROVE  AbortInstalled'
<1> USE Zenon
<1>type. /\ pc \in [All -> Places] /\ Owner \in Threads /\ Owner \in All /\ Handler \in All
         /\ Owner # Handler
  BY ThreadsAssumption DEF Types, All
<1>0. UNCHANGED build /\ (Aborts' <=> Aborts)
  BY BuildStays DEF Aborts
<1>places. /\ {"installGlobal", "installPorts", "startThread"} \subseteq Constructing
           /\ {"uninstall", "restore", "clear", "shutdown", "nullPort", "free"}
                \subseteq Destructing
           /\ Constructing \cap Destructing = {}
           /\ {"idle"} \cap (Constructing \cup Destructing) = {}
  BY DEF Constructing, Destructing
<1>setup. setup => /\ obj' = "alive" /\ obj = "none" /\ UNCHANGED gHandler
                   /\ \/ Aborts /\ sigabrt' = "ours" /\ pc'[Owner] = "installGlobal"
                      \/ /\ UNCHANGED sigabrt /\ pc'[Owner] # "installGlobal"
                         /\ pc'[Owner] \in {"installPorts", "startThread"} => ~Aborts
  <2> SUFFICES ASSUME setup
               PROVE  /\ obj' = "alive" /\ obj = "none" /\ UNCHANGED gHandler
                      /\ \/ Aborts /\ sigabrt' = "ours" /\ pc'[Owner] = "installGlobal"
                         \/ /\ UNCHANGED sigabrt /\ pc'[Owner] # "installGlobal"
                            /\ pc'[Owner] \in {"installPorts", "startThread"} => ~Aborts
    OBVIOUS
  <2>1. obj' = "alive" /\ obj = "none" /\ UNCHANGED gHandler
    BY DEF setup
  <2>2. gHandler = "null" => ~build.taken
    BY <2>1 DEF AbortInstalled
  <2>3. PICK p \in Prepared, signalled \in BOOLEAN :
          /\ signalled => p.port /\ build.install /\ gHandler = "null"
                            /\ build.mode # "remote"
          /\ sigabrt' = IF signalled THEN "ours" ELSE sigabrt
          /\ pc'[Owner] = IF ~p.port THEN "idle"
                          ELSE IF ~build.install THEN "startThread"
                          ELSE IF signalled THEN "installGlobal"
                          ELSE IF gHandler = "null" /\ build.mode = "remote"
                          THEN "installPorts" ELSE "idle"
    BY <1>type DEF setup, Goto
  <2>4. CASE signalled
    BY <2>1, <2>2, <2>3, <2>4 DEF Aborts
  <2>5. CASE ~signalled
    <3>1. UNCHANGED sigabrt /\ pc'[Owner] # "installGlobal"
      BY <2>3, <2>5
    <3>2. pc'[Owner] = "startThread" => ~build.install
      BY <2>3, <2>5
    <3>3. pc'[Owner] = "installPorts" => build.mode = "remote"
      BY <2>3, <2>5
    <3>. QED
      BY <2>1, <3>1, <3>2, <3>3 DEF Aborts
  <2>. QED
    BY <2>4, <2>5
<1>1. obj' = "none" => (gHandler' = "null" <=> ~build'.taken)
  <2>1. obj' = "none" => obj = "none" /\ ~setup /\ ~free
    BY <1>setup, InstallMoves
       DEF free, installGlobal, installPorts, uninstallSignal, restorePorts, restoreFails,
           clearPrevious, object
  <2>2. obj = "none" => pc[Owner] \notin Constructing \cup Destructing /\ pc[Handler] = "none"
    BY DEF InstallInv
  <2>3. obj = "none" => /\ ~installGlobal /\ ~installPorts
                        /\ ~uninstallSignal(Owner) /\ ~restorePorts(Owner)
                        /\ ~clearPrevious(Owner) /\ ~restoreFails(Owner)
    BY <1>places, <2>2
       DEF installGlobal, installPorts, uninstallSignal, restorePorts, restoreFails,
           clearPrevious, At
  <2>4. obj = "none" => /\ ~uninstallSignal(Handler) /\ ~restorePorts(Handler)
                        /\ ~clearPrevious(Handler) /\ ~restoreFails(Handler)
    BY <2>2 DEF uninstallSignal, restorePorts, restoreFails, clearPrevious, At
  <2>5. obj' = "none" => UNCHANGED gHandler
    BY <2>1, <2>3, <2>4, InstallMoves
  <2>. QED
    BY <1>0, <2>1, <2>5 DEF AbortInstalled
<1>2. sigabrt' = "ours" => Aborts'
  <2>1. sigabrt' = "ours" => sigabrt = "ours" \/ Aborts
    BY <1>setup, InstallMoves
       DEF installGlobal, installPorts, free, uninstallSignal, restorePorts, restoreFails,
           clearPrevious, process
  <2>. QED
    BY <1>0, <2>1 DEF AbortInstalled
<1>3. ASSUME NEW t \in Threads, pc'[t] = "abort" PROVE Aborts'
  <2>1. pc[t] = "abort" \/ abort(t)
    BY <1>3, ThreadPlaces DEF Inside, Constructing, Destructing
  <2>2. pc[t] = "abort" \/ sigabrt = "ours"
    BY <2>1 DEF abort
  <2>. QED
    BY <1>0, <2>2 DEF AbortInstalled
<1>4. pc'[Owner] = "installGlobal" => Aborts'
  <2>1. pc'[Owner] = "installGlobal" => pc[Owner] = "installGlobal" \/ setup
    BY <1>places, OwnerPlaces
  <2>. QED
    BY <1>0, <1>setup, <2>1 DEF AbortInstalled
\* gHandler changes in the constructor and in UninstallHandler() only.
<1>global. \/ UNCHANGED gHandler \/ installGlobal
           \/ uninstallSignal(Owner) \/ uninstallSignal(Handler)
  BY <1>setup, InstallMoves
     DEF installPorts, free, restorePorts, restoreFails, clearPrevious, process
<1>5. ASSUME Aborts', pc'[Owner] \in {"installPorts", "startThread"} PROVE gHandler' = "this"
  <2>1. ~setup /\ (installGlobal \/ pc[Owner] \in {"installPorts", "startThread"})
    BY <1>0, <1>5, <1>setup, <1>places, OwnerPlaces
  <2>2. CASE installGlobal
    BY <2>2 DEF installGlobal
  <2>3. CASE pc[Owner] \in {"installPorts", "startThread"}
    <3>1. gHandler = "this" /\ pc[Handler] = "none"
      BY <1>0, <1>5, <1>places, <2>3 DEF AbortInstalled, InstallInv
    <3>2. ~uninstallSignal(Owner) /\ ~uninstallSignal(Handler) /\ ~installGlobal
      BY <2>3, <3>1 DEF uninstallSignal, installGlobal, At
    <3>. QED
      BY <1>global, <3>1, <3>2
  <2>. QED
    BY <2>1, <2>2, <2>3
<1>6. ASSUME pc'[Handler] = "none", gHandler' # "this", obj' # "freed",
             pc'[Owner] \notin Destructing \cup {"installGlobal"}
      PROVE  sigabrt' = "old" /\ \A t \in Threads : pc'[t] # "abort"
  <2>1. pc[Handler] = "none" /\ ~installGlobal /\ ~free
    <3>1. pc[Handler] = "none"
      BY <1>6, NotYet, HandlerPlaces DEF Reports, Report
    <3>. QED
      BY <1>6, <3>1 DEF installGlobal, free
  <2>2. /\ ~uninstallSignal(Owner) /\ ~restorePorts(Owner) /\ ~clearPrevious(Owner)
        /\ ~restoreFails(Owner) /\ ~uninstallSignal(Handler)
    BY <1>6, <1>places, <1>type, <2>1
       DEF uninstallSignal, restorePorts, restoreFails, clearPrevious, At, Goto
  <2>3. UNCHANGED gHandler
    BY <1>global, <2>1, <2>2
  <2>4. pc[Owner] \notin Destructing \cup {"installGlobal"}
    BY <1>6, <1>places, <2>1, <2>2, OwnerPlaces
  <2>5. obj # "freed"
    <3>1. obj = "freed" => ~setup
      BY DEF setup
    <3>2. obj = "freed" => obj' = "freed"
      BY <2>1, <3>1, InstallMoves
         DEF installGlobal, installPorts, uninstallSignal, restorePorts, restoreFails,
             clearPrevious, object
    <3>. QED
      BY <1>6, <3>2
  <2>6. sigabrt = "old" /\ \A t \in Threads : pc[t] # "abort"
    BY <1>6, <2>1, <2>3, <2>4, <2>5 DEF AbortInstalled
  <2>7. sigabrt' = "old"
    BY <1>6, <1>setup, <2>1, <2>2, <2>6, InstallMoves
       DEF installPorts, restorePorts, restoreFails, clearPrevious, process
  <2>8. ASSUME NEW t \in Threads, pc'[t] = "abort" PROVE FALSE
    <3>1. abort(t)
      BY <2>6, <2>8, ThreadPlaces DEF Inside, Constructing, Destructing
    <3>. QED
      BY <2>6, <3>1 DEF abort
  <2>. QED
    BY <2>7, <2>8
<1>. QED
  BY <1>1, <1>2, <1>3, <1>4, <1>5, <1>6 DEF AbortInstalled

\* What has failed or come and gone is not forgotten.
LEMMA SteadyBefore == ASSUME Types, [Next]_vars, Steady' PROVE Steady
<1> USE Zenon
<1>1. ~churn
  <2>1. \A t \in Threads : threadStarts(t) \/ threadEnds(t) => churn' = Churns
    BY DEF threadStarts, threadEnds
  <2>2. SuspendThreads \/ ResumeThreads \/ enumerate("suspend", "suspending")
          \/ enumerate("resume", "resuming") \/ enumerateFails("suspend", "dump")
          \/ enumerateFails("resume", "unlock") => UNCHANGED churn
    BY DEF SuspendThreads, ResumeThreads, enumerate, enumerateFails
  <2>. QED
    BY <2>1, <2>2, WalkMoves DEF Steady, Churns
<1>2. "list" \notin failed
  BY FailedMoves DEF Steady
<1>. QED
  BY <1>1, <1>2 DEF Steady

\* Only the handler thread takes gProtectedData.handler away from a program that
\* may use it.
LEMMA ClearedBefore ==
  ASSUME Types, RaisedInv, InstallInv, AbortInstalled, [Next]_vars, Cleared'
  PROVE  Cleared \/ (uninstallSignal(Handler) /\ Steady)
<1> USE Zenon
<1>type. /\ pc \in [All -> Places] /\ Owner \in All /\ Handler \in All /\ Owner # Handler
  BY ThreadsAssumption DEF Types, All
<1>places. /\ {"installGlobal", "installPorts", "startThread"} \subseteq Constructing
           /\ {"uninstall", "restore", "clear", "shutdown", "nullPort", "free"}
                \subseteq Destructing
           /\ {"installPorts", "startThread", "idle"}
                \cap (Destructing \cup {"installGlobal"}) = {}
  BY DEF Constructing, Destructing
<1>0. /\ Aborts /\ obj' = "alive" /\ pc'[Owner] \notin Constructing \cup Destructing
      /\ gHandler' = "null" /\ pc'[Handler] # "none" /\ Steady
  <2>1. Aborts
    BY BuildStays DEF Cleared, Aborts
  <2>2. Usable' <=> obj' = "alive" /\ pc'[Owner] \notin Constructing \cup Destructing
    BY DEF Usable, Constructing, Destructing
  <2>. QED
    BY <2>1, <2>2, SteadyBefore DEF Cleared
<1>1. pc[Owner] \in {"installPorts", "startThread"} => gHandler = "this"
  BY <1>0 DEF AbortInstalled
<1>2. ~uninstallSignal(Owner) /\ ~restorePorts(Owner) /\ ~clearPrevious(Owner) /\ ~free
      /\ ~installGlobal /\ ~restoreFails(Owner)
  BY <1>0, <1>places, <1>type
     DEF uninstallSignal, restorePorts, restoreFails, clearPrevious, free, installGlobal, At,
         Goto
<1>3. ~setup
  <2>1. setup => pc'[Handler] = pc[Handler] /\ pc[Handler] = "none"
    BY <1>type DEF setup, At, Goto, InstallInv
  <2>. QED
    BY <1>0, <2>1
<1>4. CASE ~uninstallSignal(Handler)
  <2>1. UNCHANGED <<obj, gHandler>>
    BY <1>2, <1>3, <1>4, InstallMoves
       DEF installPorts, restorePorts, restoreFails, clearPrevious, process, object
  <2>2. pc[Owner] \notin Constructing \cup Destructing
    BY <1>0, <1>1, <1>2, <1>3, <2>1, <1>places, OwnerPlaces
  <2>3. pc[Handler] # "none"
    <3>1. ~startThread
      BY <1>0, <1>1, <2>1 DEF startThread, At
    <3>. QED
      BY <1>0, <3>1, HandlerPlaces DEF Reports, Report
  <2>. QED
    BY <1>0, <2>1, <2>2, <2>3, UsableMeans DEF Cleared
<1>. QED
  BY <1>0, <1>4

\* A program that is stopped starts and ends no thread.
LEMMA StoppedNoChurn ==
  ASSUME Types, AllSuspended, NEW t \in Threads
  PROVE  ~threadStarts(t) /\ ~threadEnds(t)
<1> USE Zenon
<1>1. \A u \in Living : suspended[u] # 0
  <2>1. \A u \in Living : u \in Threads
    BY WalkTypes DEF Living
  <2>2. \A u \in Living : suspended[u] \in Nat /\ suspended[u] > 0
    BY <2>1, WalkTypes DEF AllSuspended
  <2>. QED
    BY SMT, <2>2
<1>. QED
  BY <1>1, ThreadsAssumption DEF threadStarts, threadEnds, At, Running

\* A thread that comes or goes while the handler thread works is noted.
LEMMA ChurnNoted ==
  ASSUME Types, [Next]_vars, Steady'
  PROVE  /\ Steady
         /\ ~enumerateFails("suspend", "dump") /\ ~enumerateFails("resume", "unlock")
         /\ \A t \in Threads : threadStarts(t) \/ threadEnds(t) =>
              /\ pc[Handler] \in {"none", "top", "receive", "gone"}
              /\ pc'[Handler] = pc[Handler]
<1> USE Zenon
<1>1. \A t \in Threads : threadStarts(t) \/ threadEnds(t) => churn' = Churns
  BY DEF threadStarts, threadEnds
<1>2. ~enumerateFails("suspend", "dump") /\ ~enumerateFails("resume", "unlock")
  BY DEF enumerateFails, Steady
<1>3. \A t \in Threads : threadStarts(t) \/ threadEnds(t) => pc'[Handler] = pc[Handler]
  BY ThreadsAssumption DEF threadStarts, threadEnds, Goto, Types, All
<1>4. Steady
  BY SteadyBefore
<1>5. \A t \in Threads : threadStarts(t) \/ threadEnds(t) =>
        pc[Handler] \in {"none", "top", "receive", "gone"}
  BY <1>1 DEF Churns, Steady
<1>. QED
  BY <1>2, <1>3, <1>4, <1>5

\* Every step keeps what AbortStopped says of the suspended threads.
LEMMA StoppedStep ==
  ASSUME Types, RaisedInv, LiveInv, InstallInv, SuspendInv, AbortInstalled, AbortStopped,
         [Next]_vars
  PROVE  AbortStopped'
<1> USE Zenon
<1>type. /\ pc \in [All -> Places] /\ Handler \in All
         /\ \A t \in Living : t \in Threads
         /\ \A i \in DOMAIN list.threads : list.threads[i] \in Threads
         /\ \A t \in Threads : suspended[t] \in Nat /\ before[t] \in Nat
         /\ suspended \in [Threads -> Nat]
  BY ZenonT(60), WalkTypes DEF Types, All, Living
<1>places. /\ Report \cap {"none", "top", "receive", "gone", "suspend", "suspending", "resume",
                           "resuming", "unlock", "uninstall", "restore", "clear", "server",
                           "raised", "spins", "itself"} = {}
           /\ "dump" \in Report /\ {"resume", "resuming", "unlock"} \subseteq Release
  BY DEF Report, Release
<1>none. startThread => pc[Handler] = "none"
  BY NotYet
\* How the threads are stopped, unless a thread comes or goes.
<1>kept. ASSUME \A t \in Threads : ~threadStarts(t) /\ ~threadEnds(t)
         PROVE  Living' = Living /\ UNCHANGED <<live, churn>>
  <2>1. SuspendThreads \/ ResumeThreads \/ enumerate("suspend", "suspending")
          \/ enumerate("resume", "resuming") \/ enumerateFails("suspend", "dump")
          \/ enumerateFails("resume", "unlock") => UNCHANGED <<live, churn>>
    BY DEF SuspendThreads, ResumeThreads, enumerate, enumerateFails, process
  <2>2. UNCHANGED <<live, churn>>
    BY <1>kept, <2>1, WalkMoves
  <2>. QED
    BY <2>2 DEF Living
<1>1. ASSUME pc'[Handler] = "suspending", Steady'
      PROVE  /\ \A t \in Living' : Listed(t)'
             /\ \A i \in DOMAIN list'.threads : list'.threads[i] \in Living'
  <2>1. /\ Steady /\ \A t \in Threads : ~threadStarts(t) /\ ~threadEnds(t)
        /\ ~enumerateFails("suspend", "dump") /\ ~enumerateFails("resume", "unlock")
    BY <1>1, ChurnNoted
  <2>2. Living' = Living
    BY <1>kept, <2>1
  <2>3. CASE enumerate("suspend", "suspending")
    <3>1. list'.threads = live
      BY <2>3 DEF enumerate
    <3>. QED
      BY <2>2, <3>1 DEF Living, Listed
  <2>4. CASE ~enumerate("suspend", "suspending")
    <3>1. pc[Handler] = "suspending"
      BY <1>1, <1>places, <2>4, HandlerPlaces DEF Reports
    <3>2. list'.threads = list.threads
      <4>1. ~enumerate("resume", "resuming") /\ ~ResumeThreads
        BY <3>1 DEF enumerate, ResumeThreads, At
      <4>2. SuspendThreads => list'.threads = list.threads
        BY DEF SuspendThreads, Types
      <4>. QED
        BY <2>1, <2>4, <4>1, <4>2, WalkMoves
    <3>. QED
      BY <2>1, <2>2, <3>1, <3>2 DEF AbortStopped, Listed
  <2>. QED
    BY <2>3, <2>4
<1>2. ASSUME pc'[Handler] \in Report \cup {"uninstall"}, Steady'
      PROVE  AllSuspended'
  <2>1. /\ Steady /\ \A t \in Threads : ~threadStarts(t) /\ ~threadEnds(t)
        /\ ~enumerateFails("suspend", "dump") /\ ~enumerateFails("resume", "unlock")
    BY <1>2, <1>places, ChurnNoted
  <2>2. Living' = Living
    BY <1>kept, <2>1
  <2>3. CASE SuspendThreads
    <3>1. pc[Handler] = "suspending" /\ pc'[Handler] # pc[Handler]
      BY <1>2, <1>places, <2>3 DEF SuspendThreads, At
    <3>2. UNCHANGED suspended /\ (list.at > Len(list.threads) \/ Target \notin Living)
      BY <2>3, <3>1 DEF SuspendThreads
    <3>3. \/ \A i \in DOMAIN list.threads : suspended[list.threads[i]] > 0
          \/ \E i \in DOMAIN list.threads : pc[list.threads[i]] = "ended"
      BY <3>1, <3>2, SuspendEnds
    <3>4. \A i \in DOMAIN list.threads : pc[list.threads[i]] # "ended"
      BY <2>1, <3>1 DEF AbortStopped, LiveInv
    <3>5. \A t \in Living : suspended[t] > 0
      BY <2>1, <3>1, <3>3, <3>4 DEF AbortStopped, Listed
    <3>. QED
      BY <2>2, <3>2, <3>5 DEF AllSuspended
  <2>4. CASE ~SuspendThreads
    <3>1. pc[Handler] \in Report \cup {"uninstall"}
      BY <1>2, <1>places, <2>1, <2>4, HandlerPlaces DEF Reports
    <3>2. ~enumerate("suspend", "suspending") /\ ~enumerate("resume", "resuming")
          /\ ~ResumeThreads
      BY <1>places, <3>1 DEF enumerate, ResumeThreads, At
    <3>3. UNCHANGED suspended
      BY <2>1, <2>4, <3>2, WalkMoves
    <3>. QED
      BY <2>1, <2>2, <3>1, <3>3 DEF AbortStopped, AllSuspended
  <2>. QED
    BY <2>3, <2>4
\* With the handler taken away, every step finds all threads suspended.
<1>3. ASSUME Cleared' PROVE AllSuspended
  BY <1>3, ClearedBefore DEF AbortStopped, uninstallSignal, At
<1>whole. ASSUME Cleared'
          PROVE  ~enumerateFails("suspend", "dump") /\ ~enumerateFails("resume", "unlock")
  BY <1>whole, ChurnNoted DEF Cleared
<1>4. ASSUME Cleared' PROVE Living' = Living /\ \A t \in Threads : ~threadStarts(t) /\ ~threadEnds(t)
  BY <1>3, <1>4, <1>kept, StoppedNoChurn
<1>5. ASSUME Cleared' PROVE AllSuspended'
  <2>1. Living' = Living /\ AllSuspended /\ \A t \in Threads : ~threadStarts(t) /\ ~threadEnds(t)
    BY <1>3, <1>4, <1>5
  <2>2. CASE ~SuspendThreads /\ ~ResumeThreads
    <3>1. UNCHANGED suspended
      BY <2>1, <2>2, WalkMoves DEF enumerate, enumerateFails, process
    <3>. QED
      BY <2>1, <3>1 DEF AllSuspended
  <2>3. CASE SuspendThreads
    <3>1. \/ UNCHANGED suspended
          \/ /\ suspended' = [suspended EXCEPT ![Target] = suspended[Target] + 1]
             /\ Target \in Threads /\ suspended[Target] \in Nat
      BY <2>3, TargetFacts DEF SuspendThreads
    <3>2. \A n \in Nat : n + 1 > 0
      BY SMT
    <3>. QED
      BY <1>type, <2>1, <3>1, <3>2 DEF AllSuspended
  <2>4. CASE ResumeThreads
    <3>0. pc[Handler] = "resuming"
      BY <2>4 DEF ResumeThreads, At
    <3>1. CASE UNCHANGED suspended
      BY <2>1, <3>1 DEF AllSuspended
    <3>2. CASE suspended' # suspended
      <4>1. /\ ~(list.at > Len(list.threads)) /\ Target \in Living
            /\ suspended' = [suspended EXCEPT ![Target] = suspended[Target] - 1]
        BY <2>4, <3>2 DEF ResumeThreads
      <4>2. Target \in Threads /\ suspended[Target] \in Nat /\ before[Target] \in Nat
        BY <1>type, <4>1
      <4>3. ~uninstallSignal(Handler)
        BY <3>0 DEF uninstallSignal, At
      <4>4. Cleared /\ Request(msg)
        BY <1>5, <1>places, <3>0, <4>3, ClearedBefore DEF RaisedInv
      <4>5. before[Target] > 0
        BY <3>0, <4>1, <4>4 DEF AbortStopped
      <4>6. ListInv /\ list.at \in DOMAIN list.threads /\ list.at \in Nat
        BY <3>0, <4>1, TargetFacts, WalkTypes DEF SuspendInv
      <4>7. ~(list.at < list.at)
        BY SMT, <4>6
      <4>8. ~Walked(Target)
        BY <4>6, <4>7, WalkedIndex DEF Target
      <4>9. suspended[Target] = before[Target] + 1 \/ before[Target] = 0
        BY <3>0, <4>2, <4>8 DEF SuspendInv, Held
      <4>10. suspended[Target] - 1 > 0
        BY SMT, <4>2, <4>5, <4>9
      <4>. QED
        BY <1>type, <2>1, <4>1, <4>2, <4>10 DEF AllSuspended
    <3>. QED
      BY <3>1, <3>2
  <2>. QED
    BY <2>2, <2>3, <2>4
<1>6. ASSUME Cleared', pc'[Handler] \in {"suspending", "resume", "resuming"} \cup Report,
             Request(msg)'
      PROVE  \A t \in Living' : before'[t] > 0
  <2>1. Living' = Living /\ AllSuspended /\ \A t \in Threads : ~threadStarts(t) /\ ~threadEnds(t)
    BY <1>3, <1>4, <1>6
  <2>2. CASE enumerate("suspend", "suspending")
    <3>1. before' = suspended
      BY <2>2 DEF enumerate
    <3>. QED
      BY <2>1, <3>1 DEF AllSuspended
  <2>3. CASE ~enumerate("suspend", "suspending")
    <3>1. UNCHANGED before
      BY <1>6, <1>whole, <2>1, <2>3, WalkMoves DEF enumerate, SuspendThreads, ResumeThreads
    <3>2. pc[Handler] \in {"suspending", "resume", "resuming"} \cup Report
      BY <1>6, <1>whole, <1>places, <2>3, HandlerPlaces DEF Reports
    <3>3. ~uninstallSignal(Handler)
      BY <1>places, <3>2 DEF uninstallSignal, At
    <3>4. UNCHANGED msg
      <4>1. ~receive /\ ~unlock /\ ~server
        BY <1>places, <3>2 DEF receive, unlock, server, At
      <4>. QED
        BY <4>1, QueueMoves DEF Puts
    <3>5. Cleared /\ Request(msg)
      BY <1>6, <3>3, <3>4, ClearedBefore DEF Request
    <3>. QED
      BY <2>1, <3>1, <3>2, <3>5 DEF AbortStopped
  <2>. QED
    BY <2>2, <2>3
<1>. QED
  BY <1>1, <1>2, <1>5, <1>6 DEF AbortStopped, AllSuspended

----------------------------------------------------------------------------
(* The theorems                                                            *)

\* A program that has no handler yet, with no thread suspended, satisfies the
\* invariant, in whatever order task_threads() lists its threads.
LEMMA InitInv == Init => IInv
<1> USE Zenon
<1>. SUFFICES ASSUME Init PROVE IInv
  OBVIOUS
<1>1. /\ pc \in [All -> {"none", "idle"}] /\ pc[Handler] = "none"
      /\ \A t \in Threads : pc[t] = "idle"
  BY ThreadsAssumption DEF Init, All
<1>2. /\ live \in Seq(Threads) /\ \A i, j \in DOMAIN live : live[i] = live[j] => i = j
  BY ThreadsAssumption DEF Init
<1>3. \A i \in DOMAIN live : live[i] \in Threads
  BY SMT, <1>2
<1>4. queue \in Seq(Messages) /\ DOMAIN queue = {}
  BY SMT DEF Init
<1>5. list \in [threads : Seq(Threads), at : Nat \ {0}, whole : BOOLEAN]
  BY SMT DEF Init
<1>6. suspended \in [Threads -> Nat] /\ before \in [Threads -> Nat] /\ eh \in Fields
  <2>1. 0 \in Nat
    BY SMT
  <2>. QED
    BY <2>1 DEF Init, Fields
<1>7. Types
  <2>1. \A s \in {"none", "idle"} : s \in Places
    BY DEF Places
  <2>2. pc \in [All -> Places]
    BY <1>1, <2>1
  <2>3. msg \in Messages
    BY ThreadsAssumption, MessageType DEF Init, All
  <2>4. gHandler \in {"null", "this", "other"} /\ result \in [All -> BOOLEAN]
    BY DEF Init
  <2>. QED
    BY <1>2, <1>4, <1>5, <1>6, <2>2, <2>3, <2>4 DEF Init, Types
<1>8. LiveInv
  BY <1>1, <1>2, <1>3 DEF Init, LiveInv, Living
<1>9. ~Raise(msg) /\ ~Request(msg)
  BY DEF Init, NoMessage, Message, Raise, Request
<1>10. RaisedInv
  BY <1>1, <1>4, <1>9 DEF RaisedInv, Report, Release
<1>11. LockInv
  BY <1>1, <1>4, <1>9 DEF LockInv, Holds
<1>12. SuspendInv
  <2>1. \A i \in DOMAIN live : suspended[live[i]] = 0
    BY <1>3 DEF Init
  <2>2. 0 >= 0
    BY SMT
  <2>3. Falling(live, suspended)
    BY <2>1, <2>2 DEF Falling
  <2>. QED
    BY <1>1, <2>3 DEF SuspendInv, Report
<1>13. InstallInv
  BY <1>1, ThreadsAssumption DEF Init, InstallInv, Constructing, Destructing
<1>14. AbortInstalled
  BY <1>1, ThreadsAssumption DEF Init, AbortInstalled
<1>15. AbortStopped
  <2>1. ~Cleared
    BY DEF Init, Cleared, Usable
  <2>. QED
    BY <1>1, <2>1 DEF AbortStopped, Report
<1>. QED
  BY <1>7, <1>8, <1>10, <1>11, <1>12, <1>13, <1>14, <1>15 DEF IInv, AbortInv

\* The inductive invariant of the handler thread, the program's threads and the
\* owner: it holds at first and every step of WaitForMessage(), WriteMinidump(),
\* SignalHandler(), the constructor and the destructor keeps it.
THEOREM MacInvariant == Spec => []IInv
<1>1. IInv /\ [Next]_vars => IInv'
  BY Zenon, TypesStep, LiveStep, RaisedStep, LockStep, SuspendStep, InstallStep,
     AbortInstalledStep, StoppedStep DEF IInv, AbortInv
<1>. QED
  BY InitInv, <1>1, PTL DEF Spec

\* SuspendThreads() and ResumeThreads(): a thread that runs while the handler
\* thread reports started after the list was copied, or the walk met a thread
\* that had ended, or task_threads() failed; and when a dump on request is done,
\* for which both had a list, every suspend count is what it was before.
THEOREM SuspensionSoundHolds == Spec => []SuspensionSound
<1>1. IInv => SuspensionSound
  <2> USE Zenon
  <2>. SUFFICES ASSUME IInv PROVE SuspensionSound
    OBVIOUS
  <2>1. RunningWhileReporting
    <3>1. Reporting => pc[Handler] \in Report
      BY DEF Reporting, Report
    <3>2. \A t \in Threads : pc[t] = "ended" => t \notin Living
      BY DEF IInv, LiveInv
    <3>3. \A i \in DOMAIN list.threads : list.threads[i] \in Threads
      BY WalkTypes DEF IInv
    <3>. QED
      BY <3>1, <3>2, <3>3 DEF IInv, SuspendInv, RunningWhileReporting
  <2>2. RequestReleasesThreads
    <3>1. \A t \in Living : t \in Threads
      BY WalkTypes DEF IInv, Living
    <3>. QED
      BY <3>1 DEF IInv, SuspendInv, RequestReleasesThreads
  <2>. QED
    BY <2>1, <2>2 DEF SuspensionSound
<1>. QED
  BY MacInvariant, <1>1, PTL

\* ForwardException(), SignalHandler() and the unlocking of
\* minidump_write_mutex_: an exception is passed on only with SIGABRT put back,
\* and the ports unless putting them back failed; an abort finds the handler it
\* calls while the program may use it, no thread comes or goes and no
\* task_threads() fails; and only a locked mutex is unlocked.
THEOREM HandlerHandsOverHolds == Spec => []HandlerHandsOver
<1>1. IInv => HandlerHandsOver
  <2> USE Zenon
  <2>. SUFFICES ASSUME IInv PROVE HandlerHandsOver
    OBVIOUS
  <2>1. UninstalledWhenForwarding
    BY DEF IInv, Types, InstallInv, UninstalledWhenForwarding
  <2>2. AbortFindsHandler
    <3>1. SUFFICES ASSUME NEW t \in Threads, At(t, "abort"), gHandler = "null", Usable,
                          Steady
                   PROVE  FALSE
      BY DEF AbortFindsHandler, Steady
    <3>0. pc[Handler] # "none"
      BY <3>1, UsableMeans
         DEF At, IInv, AbortInv, AbortInstalled, Constructing, Destructing
    <3>2. Cleared
      BY <3>0, <3>1 DEF Cleared, At, IInv, AbortInv, AbortInstalled
    <3>3. t \in Living /\ suspended[t] = 0
      BY <3>1, ThreadsAssumption DEF At, Running
    <3>4. suspended[t] > 0
      BY <3>2, <3>3 DEF IInv, AbortInv, AbortStopped, AllSuspended
    <3>. QED
      BY SMT, <3>3, <3>4
  <2>3. UnlocksLocked
    BY DEF IInv, RaisedInv, LockInv, Release, At, UnlocksLocked
  <2>. QED
    BY <2>1, <2>2, <2>3 DEF HandlerHandsOver
<1>. QED
  BY MacInvariant, <1>1, PTL

=============================================================================
