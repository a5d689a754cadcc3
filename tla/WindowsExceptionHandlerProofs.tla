-------------------- MODULE WindowsExceptionHandlerProofs --------------------
(***************************************************************************)
(* For every number of threads and of ExceptionHandler objects that each   *)
(* install all handlers or none, every failure finds its object, goes to   *)
(* the objects in turn and is written for the thread that met it           *)
(* (theorem HandlersInTurnHolds).                                          *)
(***************************************************************************)
EXTENDS WindowsExceptionHandler, TLAPS

\* HANDLER_ALL or HANDLER_NONE; for objects that install some of the handlers PutBack
\* fails, and with it what is proved here.
AllOrNothing == \A s \in Setups, h \in Handlers : s[h].types \in {{}, Kinds}

Calls == [h : Handlers \cup {None}, kind : Kinds \cup {"write"},
          at : {"enter", "ask", "wait", "declined", "continue", "update"}]

\* The types, by the groups of variables that the actions change together.
ObjectTypes ==
  /\ setup \in Setups
  /\ life \in [Handlers -> {"none", "initialized", "live", "destroying",
                            "uninstalled", "shutdown", "gone"}]
StackTypes ==
  /\ registered \in [Kinds -> {"system", "breakpad"}]
  /\ previous \in [Handlers -> [Kinds -> {"system", "breakpad"}]]
  /\ stack \in Seq(Handlers) /\ index \in Nat /\ depth \in Nat
  /\ owner \in Threads \cup {None} /\ raced \in BOOLEAN
CallTypes == frames \in [Threads -> Seq(Calls)]
WorkTypes ==
  /\ worker \in [Handlers -> {"none", "idle", "writing", "dead"}]
  /\ start \in [Handlers -> 0..1] /\ finish \in [Handlers -> 0..1]
  /\ busy \in [Handlers -> Threads \cup {None}]
  /\ request \in [Handlers -> Threads \cup {None}]
TypeInv == ObjectTypes /\ StackTypes /\ CallTypes /\ WorkTypes

\* At most one object is being created or destroyed.
Moving(h) == life[h] \notin {"none", "live", "gone"}
LifeInv == \A g, h \in Handlers : Moving(g) /\ Moving(h) => g = h

\* The stack holds the live objects that install handlers, once each; the one that is
\* destroyed is the last.
StackInv ==
  /\ \A i, j \in DOMAIN stack : stack[i] = stack[j] => i = j
  /\ \A i \in DOMAIN stack : /\ setup[stack[i]].types = Kinds
                             /\ life[stack[i]] \in {"live", "destroying"}
  /\ \A h \in Handlers : life[h] \in {"live", "destroying"} /\ setup[h].types # {} =>
       \E i \in DOMAIN stack : stack[i] = h
  /\ \A h \in Handlers : life[h] = "destroying" /\ setup[h].types # {} => stack[Len(stack)] = h

\* Breakpad is registered as long as there is an object below the ones that are
\* handling a failure, and was registered before an object that has one below it.
RegisteredInv ==
  /\ \A k \in Kinds : registered[k] = "breakpad" <=> index < Len(stack)
  /\ \A i \in DOMAIN stack, k \in Kinds : previous[stack[i]][k] = "breakpad" <=> i > 1

\* The calls of a thread that have entered the critical section of the stack.
Entered(t) ==
  IF frames[t] = <<>> \/ frames[t][1].kind = "write" THEN 0
  ELSE IF frames[t][Len(frames[t])].at = "enter" THEN Len(frames[t]) - 1 ELSE Len(frames[t])

\* The owner of the critical section has entered it index times, nobody else has.
LockInv ==
  /\ depth = index
  /\ owner = None => index = 0
  /\ \A t \in Threads : Entered(t) = IF t = owner THEN index ELSE 0
  /\ owner # None => index > 0

\* A thread is in one call of WriteMinidump() of a live object, or in a chain of
\* failures: all but the last are declined, and the objects are those of the stack,
\* from its end.  A thread that is about to look for its object will find one,
\* unless an object has gone meanwhile.
Chain(t) ==
  /\ \A i \in DOMAIN frames[t] : frames[t][i].kind \in Kinds
  /\ \A i \in 1 .. Len(frames[t]) - 1 : frames[t][i].at = "declined"
  /\ frames[t][Len(frames[t])].at # "update"
  /\ Entered(t) <= Len(stack)
  /\ \A i \in 1 .. Entered(t) : frames[t][i].h = stack[Len(stack) - i + 1]
  /\ ~raced => Len(frames[t]) <= Len(stack)
Writes(t) ==
  /\ Len(frames[t]) = 1 /\ frames[t][1].kind = "write"
  /\ frames[t][1].h \in Handlers /\ life[frames[t][1].h] = "live"
  /\ frames[t][1].at \in {"ask", "wait", "update"}
FramesInv == \A t \in Threads : frames[t] # <<>> => Chain(t) \/ Writes(t)

\* handler_critical_section_ is held by the thread that waits for the object; the
\* request is with the semaphores or with the thread of the object.
BusyInv ==
  \A h \in Handlers :
    /\ busy[h] = None =>
         /\ finish[h] = 0 /\ worker[h] # "writing"
         /\ start[h] = 1 => life[h] = "shutdown"
    /\ busy[h] # None =>
         /\ life[h] \in {"live", "destroying"} /\ request[h] = busy[h]
         /\ frames[busy[h]] # <<>>
         /\ frames[busy[h]][Len(frames[busy[h]])].at = "wait"
         /\ frames[busy[h]][Len(frames[busy[h]])].h = h
         /\ start[h] = 1 => worker[h] # "writing" /\ finish[h] = 0
         /\ finish[h] = 1 => worker[h] # "writing"
    /\ worker[h] = "dead" => life[h] \in {"shutdown", "gone"} /\ start[h] = 0

\* The inductive invariant.
IInv == /\ TypeInv /\ LifeInv /\ StackInv /\ RegisteredInv /\ LockInv /\ FramesInv /\ BusyInv
        /\ HandlerFound /\ RefusedByAll

-----------------------------------------------------------------------------
(* Sequences.                                                              *)

\* The first elements and the last of a sequence.
LEMMA FrontLast ==
  ASSUME NEW S, NEW s \in Seq(S), s # <<>>
  PROVE  /\ Len(s) \in Nat \ {0} /\ Last(s) = s[Len(s)] /\ Last(s) \in S
         /\ Front(s) \in Seq(S) /\ Len(Front(s)) = Len(s) - 1
         /\ \A i \in 1 .. Len(s) - 1 : Front(s)[i] = s[i]
<1> USE Zenon
<1>1. Len(s) \in Nat \ {0} /\ DOMAIN s = 1 .. Len(s)
  BY SMT
<1>2. Last(s) = s[Len(s)] /\ s[Len(s)] \in S
  BY SMT, <1>1 DEF Last
<1>3. Len(Front(s)) = Len(s) - 1 /\ Front(s) \in Seq(S)
  BY SMT, <1>1 DEF Front
<1>4. \A i \in 1 .. Len(s) - 1 : Front(s)[i] = s[i]
  BY SMT, <1>1 DEF Front
<1>. QED
  BY <1>1, <1>2, <1>3, <1>4

\* A sequence of one element.
LEMMA FrontOfOne ==
  ASSUME NEW S, NEW s \in Seq(S), Len(s) = 1
  PROVE  Front(s) = <<>>
<1> USE Zenon
<1>1. s # <<>>
  BY SMT
<1>2. Front(s) \in Seq(S) /\ Len(Front(s)) = 0
  BY SMT, <1>1, FrontLast
<1>. QED
  BY SMT, <1>2

\* A sequence with one element more.
LEMMA OneMore ==
  ASSUME NEW S, NEW s \in Seq(S), NEW f \in S, NEW r, r = Append(s, f)
  PROVE  /\ r \in Seq(S) /\ Len(r) = Len(s) + 1 /\ r # <<>>
         /\ \A i \in 1 .. Len(s) : r[i] = s[i]
         /\ r[Len(s) + 1] = f
OBVIOUS

-----------------------------------------------------------------------------
(* Consequences of the invariant.                                          *)

\* While nobody is in the critical section, no call has entered it: a thread is in
\* WriteMinidump(), or about to enter.
LEMMA NoneEntered ==
  ASSUME IInv, owner = None, NEW t \in Threads, frames[t] # <<>>
  PROVE  \/ Writes(t)
         \/ Chain(t) /\ Len(frames[t]) = 1 /\ frames[t][1].at = "enter"
<1> USE Zenon
<1>1. Entered(t) = 0 /\ Len(frames[t]) \in Nat \ {0}
  BY SMT, HandlersAssumption DEF IInv, LockInv, TypeInv, CallTypes
<1>2. CASE Chain(t)
  <2>1. frames[t][1].kind # "write"
    BY SMT, <1>1, <1>2 DEF Chain, Kinds
  <2>. QED
    BY SMT, <1>1, <1>2, <2>1 DEF Entered
<1>. QED
  BY <1>2 DEF IInv, FramesInv

\* A call of a chain that is past the critical section has an object of the stack: the
\* last call of n calls the n-th from the end.
LEMMA CallOnStack ==
  ASSUME IInv, NEW t \in Threads, frames[t] # <<>>, Chain(t),
         frames[t][Len(frames[t])].at # "enter"
  PROVE  /\ Entered(t) = Len(frames[t])
         /\ Len(stack) - Len(frames[t]) + 1 \in DOMAIN stack
         /\ frames[t][Len(frames[t])].h = stack[Len(stack) - Len(frames[t]) + 1]
<1> USE Zenon
<1> DEFINE n == Len(frames[t])
<1>1. /\ n \in Nat \ {0} /\ stack \in Seq(Handlers)
      /\ Len(stack) \in Nat /\ DOMAIN stack = 1 .. Len(stack)
  BY SMT DEF IInv, TypeInv, CallTypes, StackTypes
<1>2. Entered(t) = n
  BY SMT, <1>1 DEF Chain, Entered, Kinds
<1>3. n <= Len(stack)
  BY <1>2 DEF Chain
<1>4. frames[t][n].h = stack[Len(stack) - n + 1]
  <2>1. n \in 1 .. Entered(t)
    BY SMT, <1>1, <1>2
  <2>2. \A i \in 1 .. Entered(t) : frames[t][i].h = stack[Len(stack) - i + 1]
    BY DEF Chain
  <2> HIDE DEF n
  <2>. QED
    BY <2>1, <2>2
<1> HIDE DEF n
<1>5. Len(stack) - n + 1 \in DOMAIN stack
  BY SMT, <1>1, <1>3
<1>. QED
  BY <1>2, <1>4, <1>5 DEF n

\* The object of a call that is past the critical section is alive.
LEMMA CallAlive ==
  ASSUME IInv, NEW t \in Threads, frames[t] # <<>>, frames[t][Len(frames[t])].at # "enter"
  PROVE  /\ frames[t][Len(frames[t])].h \in Handlers
         /\ life[frames[t][Len(frames[t])].h] \in {"live", "destroying"}
<1> USE Zenon
<1>1. CASE Chain(t)
  <2>1. PICK i \in DOMAIN stack : frames[t][Len(frames[t])].h = stack[i]
    BY <1>1, CallOnStack
  <2>. QED
    BY SMT, <2>1 DEF IInv, TypeInv, StackTypes, StackInv
<1>2. CASE Writes(t)
  BY <1>2 DEF Writes
<1>. QED
  BY <1>1, <1>2 DEF IInv, FramesInv

\* What the calls of a thread say depends on them, the stack and the life of objects.
LEMMA SameCalls ==
  ASSUME NEW t \in Threads, frames'[t] = frames[t], stack' = stack, raced' = raced
  PROVE  /\ Entered(t)' = Entered(t)
         /\ Chain(t) => Chain(t)'
         /\ Writes(t) /\ life'[frames[t][1].h] = "live" => Writes(t)'
<1> USE Zenon
<1>1. Entered(t)' = Entered(t)
  BY DEF Entered
<1>2. Chain(t) => Chain(t)'
  BY SMT, <1>1 DEF Chain
<1>. QED
  BY <1>1, <1>2 DEF Writes

\* A step that leaves the calls, the stack and its index alone, and starts or ends no
\* object that has calls, leaves what is said of them.
LEMMA StaticsKept ==
  ASSUME IInv, UNCHANGED <<frames, statics, raced>>,
         \A t \in Threads : Writes(t) => life'[frames[t][1].h] = "live"
  PROVE  LockInv' /\ FramesInv'
<1> USE Zenon
<1>1. \A t \in Threads : /\ Entered(t)' = Entered(t)
                         /\ frames[t] # <<>> => Chain(t)' \/ Writes(t)'
  BY SameCalls DEF statics, IInv, FramesInv
<1>2. LockInv'
  BY <1>1 DEF IInv, LockInv, statics
<1>3. FramesInv'
  BY <1>1 DEF FramesInv
<1>. QED
  BY <1>2, <1>3

\* A running process has not ended, and stays so.
LEMMA StillRunning ==
  ASSUME Running, ended' = ended
  PROVE  HandlerFound' /\ RefusedByAll'
BY DEF Running, HandlerFound, RefusedByAll

-----------------------------------------------------------------------------
(* The life of the objects.                                                *)

\* An object is created: nothing knows of it yet.
LEMMA InitializeStep ==
  ASSUME AllOrNothing, IInv, NEW h \in Handlers, Initialize(h)
  PROVE  IInv'
<1> USE Zenon
<1>1. TypeInv'
  BY DEF IInv, TypeInv, ObjectTypes, StackTypes, CallTypes, WorkTypes, Initialize,
     statics
<1>2. /\ life[h] = "none" /\ life'[h] = "initialized"
      /\ \A g \in Handlers \ {h} : life'[g] = life[g]
  BY DEF IInv, TypeInv, ObjectTypes, Initialize
<1>3. LifeInv'
  BY <1>2 DEF Initialize, LifeInv, Moving, NoneMoves
<1>4. StackInv' /\ RegisteredInv'
  BY SMT, <1>2 DEF IInv, TypeInv, StackTypes, Initialize, StackInv, RegisteredInv,
     statics
<1>5. LockInv' /\ FramesInv'
  BY <1>2, StaticsKept DEF Initialize, Writes
<1>6. BusyInv'
  BY SMT, <1>2 DEF IInv, TypeInv, WorkTypes, Initialize, BusyInv
<1>. QED
  BY <1>1, <1>3, <1>4, <1>5, <1>6, StillRunning DEF IInv, Initialize

\* The destructor of the last object of the stack begins, while no thread is in its
\* WriteMinidump().
LEMMA destroyStep ==
  ASSUME AllOrNothing, IInv, NEW h \in Handlers, destroy(h)
  PROVE  IInv'
<1> USE Zenon
<1>1. TypeInv'
  BY DEF IInv, TypeInv, ObjectTypes, StackTypes, CallTypes, WorkTypes, destroy,
     statics, work
<1>2. /\ life[h] = "live" /\ life'[h] = "destroying"
      /\ \A g \in Handlers \ {h} : life'[g] = life[g]
  BY DEF IInv, TypeInv, ObjectTypes, destroy
<1>3. LifeInv'
  BY <1>2 DEF destroy, LifeInv, Moving, NoneMoves
<1>4. StackInv'
  <2>1. setup[h].types # {} => stack[Len(stack)] = h
    BY DEF destroy, Last
  <2>2. \A g \in Handlers \ {h} : life'[g] # "destroying"
    BY <1>2 DEF destroy, NoneMoves
  <2>3. \A i \in DOMAIN stack : life'[stack[i]] \in {"live", "destroying"}
    BY SMT, <1>2 DEF IInv, TypeInv, StackTypes, StackInv
  <2>4. UNCHANGED <<setup, stack>>
    BY DEF destroy, statics
  <2>. QED
    BY <1>2, <2>1, <2>2, <2>3, <2>4 DEF IInv, StackInv
<1>5. RegisteredInv'
  BY DEF IInv, destroy, RegisteredInv, statics
<1>6. LockInv' /\ FramesInv'
  <2>1. \A t \in Threads : Writes(t) => life'[frames[t][1].h] = "live"
    <3> SUFFICES ASSUME NEW t \in Threads, Writes(t) PROVE life'[frames[t][1].h] = "live"
      OBVIOUS
    <3>1. 1 \in DOMAIN frames[t] /\ frames[t][1].h \in Handlers
      BY SMT DEF Writes, IInv, TypeInv, CallTypes
    <3>2. frames[t][1].h # h
      BY <3>1 DEF destroy, Writes
    <3>. QED
      BY <1>2, <3>1, <3>2 DEF Writes
  <2>. QED
    BY <2>1, StaticsKept DEF destroy
<1>7. BusyInv'
  BY SMT, <1>2 DEF IInv, TypeInv, WorkTypes, destroy, BusyInv, work
<1>. QED
  BY <1>1, <1>3, <1>4, <1>5, <1>6, <1>7, StillRunning DEF IInv, destroy

\* The thread of an object, and the object, go when the object is not on the stack any
\* more and no thread waits for it.
LEMMA GoneStep ==
  ASSUME AllOrNothing, IInv, NEW h \in Handlers, stopThread(h) \/ threadStopped(h)
  PROVE  IInv'
<1> USE Zenon
<1>1. /\ life[h] \in {"uninstalled", "shutdown"} /\ life'[h] \in {"gone", "shutdown"}
      /\ \A g \in Handlers \ {h} : life'[g] = life[g]
  BY DEF stopThread, threadStopped, IInv, TypeInv, ObjectTypes
<1>2. UNCHANGED <<setup, terminates, statics, frames, finish, busy, request, status, used, raced,
                  incidents, ended>>
  BY DEF stopThread, threadStopped, work
<1>3. TypeInv'
  <2>1. ObjectTypes'
    BY <1>2 DEF stopThread, threadStopped, IInv, TypeInv, ObjectTypes
  <2>2. worker' \in [Handlers -> {"none", "idle", "writing", "dead"}]
    BY DEF stopThread, threadStopped, work, IInv, TypeInv, WorkTypes
  <2>3. start' \in [Handlers -> 0..1]
    BY SMT DEF stopThread, threadStopped, work, IInv, TypeInv, WorkTypes
  <2>. QED
    BY <1>2, <2>1, <2>2, <2>3 DEF IInv, TypeInv, StackTypes, CallTypes, WorkTypes,
       statics
<1>4. LifeInv'
  BY <1>1 DEF IInv, LifeInv, Moving
<1>5. StackInv' /\ RegisteredInv'
  <2>1. \A i \in DOMAIN stack : stack[i] \in Handlers
    BY SMT DEF IInv, TypeInv, StackTypes
  <2>2. \A i \in DOMAIN stack : life'[stack[i]] \in {"live", "destroying"}
    BY <1>1, <2>1 DEF IInv, StackInv
  <2>. QED
    BY SMT, <1>1, <1>2, <2>2 DEF IInv, StackInv, RegisteredInv, statics
<1>6. LockInv' /\ FramesInv'
  BY <1>1, <1>2, StaticsKept DEF Writes
<1>7. BusyInv'
  <2>1. busy[h] = None
    BY <1>1 DEF IInv, BusyInv
  <2>2. CASE stopThread(h)
    <3>1. /\ \A g \in Handlers \ {h} : worker'[g] = worker[g] /\ start'[g] = start[g]
          /\ \/ worker'[h] = worker[h] /\ start'[h] = start[h]
             \/ worker'[h] = "dead" /\ start'[h] = start[h] /\ life'[h] = "gone"
             \/ worker'[h] = worker[h] /\ start'[h] = 1 /\ life'[h] = "shutdown"
      BY <2>2 DEF stopThread, IInv, TypeInv, ObjectTypes, WorkTypes
    <3>2. life[h] = "uninstalled" /\ start[h] \in 0..1 /\ worker[h] # "dead"
      BY <2>2 DEF stopThread, IInv, TypeInv, WorkTypes, BusyInv
    <3>3. start[h] = 0
      BY SMT, <2>1, <3>2 DEF IInv, BusyInv
    <3>. QED
      BY SMT, <1>1, <1>2, <2>1, <3>1, <3>2, <3>3 DEF IInv, BusyInv
  <2>3. CASE threadStopped(h)
    BY SMT, <1>1, <1>2, <2>1, <2>3 DEF IInv, TypeInv, WorkTypes, BusyInv,
       threadStopped, work
  <2>. QED
    BY <2>2, <2>3
<1>. QED
  BY <1>2, <1>3, <1>4, <1>5, <1>6, <1>7, StillRunning DEF IInv, stopThread,
     threadStopped

\* A new object is put on the stack while nobody handles a failure.
LEMMA InstallStep ==
  ASSUME AllOrNothing, IInv, NEW h \in Handlers, Install(h)
  PROVE  IInv'
<1> USE Zenon
<1>1. /\ life[h] = "initialized" /\ life'[h] = "live"
      /\ \A g \in Handlers \ {h} : life'[g] = life[g]
      /\ \A g \in Handlers : life[g] # "destroying"
  BY DEF IInv, TypeInv, ObjectTypes, Install, LifeInv, Moving
<1>2. LifeInv'
  BY <1>1 DEF IInv, LifeInv, Moving
<1>3. BusyInv'
  BY SMT, <1>1 DEF IInv, TypeInv, WorkTypes, Install, BusyInv, work
<1>4. ObjectTypes' /\ CallTypes' /\ WorkTypes'
  BY DEF IInv, TypeInv, ObjectTypes, CallTypes, WorkTypes, Install, work
<1>5. CASE setup[h].types = {}
  <2>1. UNCHANGED <<frames, statics, raced>>
    BY <1>5 DEF Install, statics
  <2>2. StackTypes'
    BY <2>1 DEF IInv, TypeInv, StackTypes, statics
  <2>3. StackInv' /\ RegisteredInv'
    <3>1. UNCHANGED <<setup, stack, registered, previous, index>>
      BY <2>1 DEF Install, statics
    <3>2. \A i \in DOMAIN stack : stack[i] \in Handlers
      BY SMT DEF IInv, TypeInv, StackTypes
    <3>3. \A i \in DOMAIN stack : life'[stack[i]] \in {"live", "destroying"}
      BY <1>1, <3>2 DEF IInv, StackInv
    <3>4. StackInv'
      BY <1>1, <1>5, <3>1, <3>3 DEF IInv, StackInv
    <3>. QED
      BY <3>1, <3>4 DEF IInv, RegisteredInv
  <2>4. LockInv' /\ FramesInv'
    BY <1>1, <2>1, StaticsKept DEF Writes
  <2>. QED
    BY <1>2, <1>3, <1>4, <2>2, <2>3, <2>4, StillRunning DEF IInv, TypeInv, Install
<1>6. CASE setup[h].types # {}
  <2>1. /\ owner = None /\ stack' = Append(stack, h) /\ setup' = setup
        /\ setup[h].types = Kinds
        /\ UNCHANGED <<index, owner, depth, frames, raced>>
    BY <1>6 DEF Install, AllOrNothing, IInv, TypeInv, ObjectTypes
  <2>2. /\ registered \in [Kinds -> {"system", "breakpad"}] /\ index = 0
        /\ previous' = [previous EXCEPT ![h] = [k \in Kinds |-> registered[k]]]
        /\ registered' = [k \in Kinds |-> "breakpad"]
    BY <2>1 DEF Install, IInv, TypeInv, StackTypes, LockInv
  <2>3. /\ stack' \in Seq(Handlers)
        /\ Len(stack) \in Nat /\ DOMAIN stack = 1 .. Len(stack)
        /\ Len(stack') = Len(stack) + 1 /\ DOMAIN stack' = 1 .. Len(stack) + 1
        /\ \A i \in 1 .. Len(stack) : stack'[i] = stack[i] /\ stack[i] \in Handlers
        /\ stack'[Len(stack) + 1] = h
    BY SMT, <2>1, OneMore DEF IInv, TypeInv, StackTypes
  <2>4. \A i \in DOMAIN stack : stack[i] # h
    BY <1>1 DEF IInv, StackInv
  <2>5. StackInv'
    <3>1. \A i, j \in DOMAIN stack' : stack'[i] = stack'[j] => i = j
      BY SMT, <2>3, <2>4 DEF IInv, StackInv
    <3>2. \A i \in DOMAIN stack' : /\ setup'[stack'[i]].types = Kinds
                                   /\ life'[stack'[i]] \in {"live", "destroying"}
      BY SMT, <1>1, <2>1, <2>3, <2>4 DEF IInv, StackInv
    <3>3. \A g \in Handlers : life'[g] \in {"live", "destroying"} /\ setup'[g].types # {} =>
            \E i \in DOMAIN stack' : stack'[i] = g
      BY SMT, <1>1, <2>1, <2>3 DEF IInv, StackInv
    <3>. QED
      BY SMT, <1>1, <3>1, <3>2, <3>3 DEF StackInv
  <2>6. RegisteredInv' /\ StackTypes'
    BY SMT, <2>1, <2>2, <2>3, <2>4 DEF IInv, TypeInv, StackTypes, RegisteredInv
  <2>7. \A t \in Threads : Entered(t)' = Entered(t) /\ Entered(t) = 0
    BY <2>1, HandlersAssumption DEF Entered, IInv, LockInv
  <2>8. LockInv'
    BY <2>1, <2>7 DEF IInv, LockInv
  <2>9. FramesInv'
    <3> SUFFICES ASSUME NEW t \in Threads, frames[t] # <<>> PROVE Chain(t)' \/ Writes(t)'
      BY <2>1 DEF FramesInv
    <3>1. CASE Writes(t)
      BY <1>1, <2>1, <3>1 DEF Writes
    <3>2. CASE Chain(t) /\ Len(frames[t]) = 1 /\ frames[t][1].at = "enter"
      BY SMT, <2>1, <2>3, <2>7, <3>2 DEF Chain
    <3>. QED
      BY <2>1, <3>1, <3>2, NoneEntered
  <2>. QED
    BY <1>2, <1>3, <1>4, <2>5, <2>6, <2>8, <2>9, StillRunning DEF IInv, TypeInv, Install
<1>. QED
  BY <1>5, <1>6

\* An object that is destroyed leaves the stack while nobody handles a failure, and the
\* handlers that were registered before it return.
LEMMA UninstallStep ==
  ASSUME AllOrNothing, IInv, NEW h \in Handlers, Uninstall(h)
  PROVE  IInv'
<1> USE Zenon
<1>1. /\ life[h] = "destroying" /\ life'[h] = "uninstalled"
      /\ \A g \in Handlers \ {h} : life'[g] = life[g]
      /\ \A g \in Handlers \ {h} : life[g] # "destroying"
  BY DEF IInv, TypeInv, ObjectTypes, Uninstall, LifeInv, Moving
<1>2. LifeInv'
  BY <1>1 DEF IInv, LifeInv, Moving
<1>3. ObjectTypes' /\ CallTypes' /\ WorkTypes'
  BY DEF IInv, TypeInv, ObjectTypes, CallTypes, WorkTypes, Uninstall, work
<1>4. UNCHANGED <<setup, previous, index, owner, depth, frames, ended>> /\ Running
  BY DEF Uninstall
<1>5. \A t \in Threads : Writes(t) => Writes(t)'
  BY <1>1, <1>4 DEF Writes
<1>6. \A t \in Threads : Entered(t)' = Entered(t)
  BY <1>4 DEF Entered
<1>7. LockInv'
  BY <1>4, <1>6 DEF IInv, LockInv
<1>8. stack \in Seq(Handlers) /\ Len(stack) \in Nat /\ DOMAIN stack = 1 .. Len(stack)
  BY SMT DEF IInv, TypeInv, StackTypes
<1>9. SUFFICES /\ busy[h] = None
               /\ StackTypes' /\ StackInv' /\ RegisteredInv' /\ FramesInv'
  <2>1. ASSUME busy[h] = None PROVE BusyInv'
    BY SMT, <1>1, <1>4, <2>1 DEF IInv, TypeInv, WorkTypes, BusyInv, Uninstall, work
  <2>. QED
    BY <1>2, <1>3, <1>4, <1>7, <2>1, StillRunning DEF IInv, TypeInv
<1>10. ASSUME busy[h] # None
       PROVE  /\ busy[h] \in Threads /\ Chain(busy[h])
              /\ frames[busy[h]] # <<>> /\ ~Writes(busy[h])
              /\ frames[busy[h]][Len(frames[busy[h]])].at = "wait"
              /\ frames[busy[h]][Len(frames[busy[h]])].h = h
  <2>1. /\ busy[h] \in Threads /\ frames[busy[h]] # <<>>
        /\ frames[busy[h]][Len(frames[busy[h]])].at = "wait"
        /\ frames[busy[h]][Len(frames[busy[h]])].h = h
    BY <1>10 DEF IInv, TypeInv, WorkTypes, BusyInv
  <2>2. ~Writes(busy[h])
    BY <1>1, <2>1 DEF Writes
  <2>. QED
    BY <2>1, <2>2 DEF IInv, FramesInv
<1>11. CASE setup[h].types = {}
  <2>1. UNCHANGED <<stack, registered, raced>>
    BY <1>11 DEF Uninstall
  <2>2. \A i \in DOMAIN stack : stack[i] \in Handlers \ {h}
    <3>1. Kinds # {}
      BY DEF Kinds
    <3>2. \A i \in DOMAIN stack : stack[i] \in Handlers
      BY SMT, <1>8
    <3>3. \A i \in DOMAIN stack : setup[stack[i]].types = Kinds
      BY DEF IInv, StackInv
    <3>. QED
      BY <1>11, <3>1, <3>2, <3>3
  <2>3. StackInv'
    BY SMT, <1>1, <1>4, <1>11, <2>1, <2>2 DEF IInv, StackInv
  <2>4. RegisteredInv' /\ StackTypes'
    BY <1>4, <2>1 DEF IInv, TypeInv, StackTypes, RegisteredInv
  <2>5. FramesInv'
    BY <1>4, <1>5, <2>1, SameCalls DEF IInv, FramesInv
  <2>6. busy[h] = None
    <3> SUFFICES ASSUME busy[h] # None PROVE FALSE
      OBVIOUS
    <3> DEFINE t == busy[h]
    <3>1. t \in Threads /\ Chain(t) /\ frames[t] # <<>>
      BY <1>10
    <3>2. frames[t][Len(frames[t])].h = h /\ frames[t][Len(frames[t])].at # "enter"
      BY <1>10
    <3> HIDE DEF t
    <3>3. \E i \in DOMAIN stack : stack[i] = h
      BY <3>1, <3>2, CallOnStack
    <3>. QED
      BY <2>2, <3>3
  <2>. QED
    BY <2>3, <2>4, <2>5, <2>6
<1>12. CASE setup[h].types # {}
  <2>1. /\ owner = None /\ stack' = Front(stack) /\ raced' \in BOOLEAN
        /\ (\E t \in Threads : At(t, "enter")) => raced'
        /\ raced => raced'
        /\ setup[h].types = Kinds /\ index = 0
    BY <1>12 DEF Uninstall, AllOrNothing, IInv, TypeInv, ObjectTypes, StackTypes,
       LockInv
  <2>2. registered' = [k \in Kinds |-> previous[h][k]]
    BY <1>12, <2>1 DEF Uninstall
  <2>3. stack # <<>> /\ stack[Len(stack)] = h /\ Len(stack) \in Nat \ {0}
    BY SMT, <1>1, <1>8, <1>12 DEF IInv, StackInv
  <2>4. /\ stack' \in Seq(Handlers) /\ Len(stack') = Len(stack) - 1
        /\ DOMAIN stack' = 1 .. Len(stack) - 1
        /\ \A i \in 1 .. Len(stack) - 1 : stack'[i] = stack[i] /\ stack[i] \in Handlers
    <3>1. /\ stack' \in Seq(Handlers) /\ Len(stack') = Len(stack) - 1
          /\ \A i \in 1 .. Len(stack) - 1 : stack'[i] = stack[i]
      BY <1>8, <2>1, <2>3, FrontLast
    <3>2. DOMAIN stack' = 1 .. Len(stack')
      BY SMT, <3>1
    <3>3. \A i \in 1 .. Len(stack) - 1 : stack[i] \in Handlers
      BY SMT, <1>8, <2>3
    <3>. QED
      BY <3>1, <3>2, <3>3
  <2>5. \A i \in 1 .. Len(stack) - 1 : stack[i] # h
    BY SMT, <1>8, <2>3 DEF IInv, StackInv
  <2>6. StackInv'
    <3>1. \A i, j \in DOMAIN stack' : stack'[i] = stack'[j] => i = j
      BY SMT, <1>8, <2>3, <2>4 DEF IInv, StackInv
    <3>2. \A i \in DOMAIN stack' : /\ setup'[stack'[i]].types = Kinds
                                   /\ life'[stack'[i]] \in {"live", "destroying"}
      BY SMT, <1>1, <1>4, <1>8, <2>3, <2>4, <2>5 DEF IInv, StackInv
    <3>3. \A g \in Handlers : life'[g] \in {"live", "destroying"} /\ setup'[g].types # {} =>
            \E i \in DOMAIN stack' : stack'[i] = g
      BY SMT, <1>1, <1>4, <1>8, <2>3, <2>4 DEF IInv, StackInv
    <3>. QED
      BY SMT, <1>1, <3>1, <3>2, <3>3 DEF StackInv
  <2>7. RegisteredInv' /\ StackTypes'
    <3>1. \A k \in Kinds : previous[h][k] = "breakpad" <=> Len(stack) > 1
      BY SMT, <1>8, <2>3 DEF IInv, RegisteredInv
    <3>2. \A i \in DOMAIN stack', k \in Kinds : previous'[stack'[i]][k] = "breakpad" <=> i > 1
      BY SMT, <1>4, <1>8, <2>3, <2>4 DEF IInv, RegisteredInv
    <3>3. RegisteredInv'
      BY SMT, <1>4, <2>1, <2>2, <2>3, <2>4, <3>1, <3>2 DEF RegisteredInv
    <3>4. StackTypes'
      BY SMT, <1>4, <2>1, <2>2, <2>4 DEF IInv, TypeInv, StackTypes
    <3>. QED
      BY <3>3, <3>4
  <2>8. FramesInv'
    <3> SUFFICES ASSUME NEW t \in Threads, frames[t] # <<>> PROVE Chain(t)' \/ Writes(t)'
      BY <1>4 DEF FramesInv
    <3>1. CASE Writes(t)
      BY <1>5, <3>1
    <3>2. CASE Chain(t) /\ Len(frames[t]) = 1 /\ frames[t][1].at = "enter"
      <4>1. raced'
        BY <2>1, <3>2 DEF At, Top, Last
      <4>2. Entered(t)' = 0
        BY <1>6, <2>1, HandlersAssumption DEF IInv, LockInv
      <4>3. Len(stack') >= 0
        BY SMT, <2>3, <2>4
      <4>. QED
        BY SMT, <1>4, <3>2, <4>1, <4>2, <4>3 DEF Chain
    <3>. QED
      BY <2>1, <3>1, <3>2, NoneEntered
  <2>9. busy[h] = None
    <3> SUFFICES ASSUME busy[h] # None PROVE FALSE
      OBVIOUS
    <3>. QED
      BY <1>10, <2>1, NoneEntered
  <2>. QED
    BY <2>6, <2>7, <2>8, <2>9
<1>. QED
  BY <1>11, <1>12

-----------------------------------------------------------------------------
(* How the calls of one thread change.                                     *)

\* What is said of the calls of a thread does not depend on those of another.
LEMMA OtherCalls ==
  ASSUME IInv, NEW t \in Threads, UNCHANGED <<stack, raced, life>>,
         \A u \in Threads \ {t} : frames'[u] = frames[u]
  PROVE  /\ \A u \in Threads \ {t} : Entered(u)' = Entered(u)
         /\ (frames'[t] # <<>> => Chain(t)' \/ Writes(t)') => FramesInv'
<1> USE Zenon
<1>1. \A u \in Threads \ {t} : Entered(u)' = Entered(u)
  BY SameCalls
<1>2. \A u \in Threads \ {t} : frames'[u] # <<>> => Chain(u)' \/ Writes(u)'
  BY SameCalls DEF IInv, FramesInv, Writes
<1>. QED
  BY <1>1, <1>2 DEF FramesInv

\* A thread that does not wait holds no object, whatever becomes of its calls.
LEMMA BusyKept ==
  ASSUME IInv, NEW t \in Threads, UNCHANGED <<work, life>>,
         \A u \in Threads \ {t} : frames'[u] = frames[u],
         frames[t] = <<>> \/ frames[t][Len(frames[t])].at # "wait"
  PROVE  BusyInv' /\ WorkTypes'
<1> USE Zenon
<1>1. \A h \in Handlers : busy[h] # t
  BY HandlersAssumption DEF IInv, BusyInv
<1>2. WorkTypes'
  BY DEF IInv, TypeInv, WorkTypes, work
<1>3. BusyInv'
  BY ZenonT(30), <1>1 DEF IInv, TypeInv, WorkTypes, BusyInv, work
<1>. QED
  BY <1>2, <1>3

\* The calls of a thread with another last call.
LEMMA LastReplaced ==
  ASSUME NEW t \in Threads, frames \in [Threads -> Seq(Calls)], frames[t] # <<>>,
         NEW g \in Calls,
         frames' = [frames EXCEPT ![t] = Append(Front(frames[t]), g)]
  PROVE  /\ frames' \in [Threads -> Seq(Calls)]
         /\ frames'[t] \in Seq(Calls) /\ Len(frames'[t]) = Len(frames[t]) /\ frames'[t] # <<>>
         /\ \A i \in 1 .. Len(frames[t]) - 1 : frames'[t][i] = frames[t][i]
         /\ frames'[t][Len(frames[t])] = g
<1> USE Zenon
<1>1. frames[t] \in Seq(Calls)
  OBVIOUS
<1>2. frames'[t] = Append(Front(frames[t]), g)
  OBVIOUS
<1> DEFINE s == frames[t]
           b == Front(s)
           r == frames'[t]
<1>3. /\ Len(s) \in Nat \ {0} /\ b \in Seq(Calls) /\ Len(b) = Len(s) - 1
      /\ \A i \in 1 .. Len(s) - 1 : b[i] = s[i]
  BY <1>1, FrontLast
<1> HIDE DEF s, b, r
<1>4. /\ r \in Seq(Calls) /\ Len(r) = Len(s) /\ r # <<>>
      /\ \A i \in 1 .. Len(s) - 1 : r[i] = s[i]
      /\ r[Len(s)] = g
  <2>1. r = Append(b, g)
    BY <1>2 DEF r, b, s
  <2>2. r \in Seq(Calls) /\ Len(r) = Len(b) + 1
    BY SMT, <1>3, <2>1
  <2>3. r[Len(b) + 1] = g
    BY SMT, <1>3, <2>1
  <2>4. \A i \in 1 .. Len(b) : r[i] = b[i]
    BY SMT, <1>3, <2>1
  <2>5. r # <<>>
    BY SMT, <1>3, <2>2
  <2>. QED
    BY SMT, <1>3, <2>2, <2>3, <2>4, <2>5
<1>5. frames' \in [Threads -> Seq(Calls)]
  BY <1>4 DEF r
<1>. QED
  BY <1>4, <1>5 DEF r, s

\* The last call of a thread goes on within HandleException() or WriteMinidump(), past
\* the critical section.
LEMMA CallGoesOn ==
  ASSUME IInv, NEW t \in Threads, frames[t] # <<>>,
         NEW f, f = frames[t][Len(frames[t])], f.at \in {"ask", "wait"},
         NEW a \in {"wait", "declined", "update"},
         IF f.kind = "write" THEN a # "declined" ELSE a # "update",
         UNCHANGED <<statics, raced, life>>,
         frames' = [frames EXCEPT ![t] = Append(Front(frames[t]), [f EXCEPT !.at = a])]
  PROVE  /\ CallTypes' /\ LockInv' /\ FramesInv'
         /\ \A u \in Threads \ {t} : frames'[u] = frames[u]
         /\ frames'[t] # <<>> /\ frames'[t][Len(frames'[t])] = [f EXCEPT !.at = a]
<1> USE Zenon
<1> DEFINE n == Len(frames[t])
           g == [f EXCEPT !.at = a]
<1>1. /\ frames \in [Threads -> Seq(Calls)] /\ frames[t] \in Seq(Calls) /\ n \in Nat \ {0}
      /\ n \in DOMAIN frames[t] /\ DOMAIN frames[t] = 1 .. n
  BY SMT DEF IInv, TypeInv, CallTypes
<1>2. f \in Calls
  BY SMT, <1>1
<1>3. g \in Calls /\ g.h = f.h /\ g.kind = f.kind /\ g.at = a
  BY <1>2 DEF Calls
<1> HIDE DEF g
<1>4. \A u \in Threads \ {t} : frames'[u] = frames[u]
  BY <1>1
<1>5. /\ frames' \in [Threads -> Seq(Calls)]
      /\ frames'[t] \in Seq(Calls) /\ Len(frames'[t]) = n /\ frames'[t] # <<>>
      /\ \A i \in 1 .. n - 1 : frames'[t][i] = frames[t][i]
      /\ frames'[t][n] = g
  BY <1>1, <1>3, LastReplaced DEF g
<1>6. DOMAIN frames'[t] = 1 .. n
  BY SMT, <1>5
<1>7. CallTypes'
  BY <1>5 DEF CallTypes
<1>8. \A i \in 1 .. n : frames'[t][i].h = frames[t][i].h /\ frames'[t][i].kind = frames[t][i].kind
  <2>1. frames[t][n] = f
    OBVIOUS
  <2> HIDE DEF n
  <2>2. \A i \in 1 .. n : i = n \/ i \in 1 .. n - 1
    BY SMT, <1>1
  <2>. QED
    BY SMT, <1>3, <1>5, <2>1, <2>2
<1>9. Entered(t)' = Entered(t)
  <2>1. frames'[t][1].kind = frames[t][1].kind
    BY SMT, <1>1, <1>8
  <2>. QED
    BY <1>3, <1>5, <2>1 DEF Entered
<1>10. LockInv'
  BY <1>4, <1>9, OtherCalls DEF IInv, LockInv, statics
<1>11. ASSUME Chain(t) PROVE Chain(t)'
  <2>1. f.kind # "write"
    BY <1>1, <1>11 DEF Chain, Kinds
  <2>2. Entered(t) = n
    BY <1>11, CallOnStack
  <2>3. \A i \in 1 .. n : frames'[t][i].kind \in Kinds
    BY <1>1, <1>8, <1>11 DEF Chain
  <2>4. \A i \in 1 .. n : frames'[t][i].h = stack[Len(stack) - i + 1]
    BY <1>8, <1>11, <2>2 DEF Chain
  <2>5. \A i \in 1 .. n - 1 : frames'[t][i].at = "declined"
    BY <1>5, <1>11 DEF Chain
  <2>6. stack' = stack /\ raced' = raced
    BY DEF statics
  <2>. QED
    BY ZenonT(30), <1>3, <1>5, <1>6, <1>9, <1>11, <2>1, <2>2, <2>3, <2>4, <2>5, <2>6
       DEF Chain
<1>12. ASSUME Writes(t) PROVE Writes(t)'
  <2>1. n = 1 /\ f.kind = "write" /\ f = frames[t][1]
    BY <1>12 DEF Writes
  <2>2. Len(frames'[t]) = 1 /\ frames'[t][1] = g
    BY <1>5, <2>1
  <2>. QED
    BY <1>3, <1>12, <2>1, <2>2 DEF Writes
<1>13. FramesInv'
  <2>1. Chain(t)' \/ Writes(t)'
    BY <1>11, <1>12 DEF IInv, FramesInv
  <2>2. UNCHANGED <<stack, raced, life>>
    BY DEF statics
  <2>. QED
    BY <1>4, <2>1, <2>2, OtherCalls
<1>. QED
  BY <1>4, <1>5, <1>7, <1>10, <1>13 DEF g

\* WriteMinidump() returns.
LEMMA CallReturns ==
  ASSUME IInv, NEW t \in Threads, Writes(t), UNCHANGED <<statics, raced, life>>,
         frames' = [frames EXCEPT ![t] = Front(frames[t])]
  PROVE  /\ CallTypes' /\ LockInv' /\ FramesInv'
         /\ \A u \in Threads \ {t} : frames'[u] = frames[u]
<1> USE Zenon
<1>1. /\ frames \in [Threads -> Seq(Calls)] /\ frames[t] \in Seq(Calls)
      /\ Len(frames[t]) = 1 /\ frames[t] # <<>> /\ frames[t][1].kind = "write"
  <2>1. frames \in [Threads -> Seq(Calls)] /\ frames[t] \in Seq(Calls)
    BY DEF IInv, TypeInv, CallTypes
  <2>2. Len(frames[t]) = 1 /\ frames[t][1].kind = "write"
    BY DEF Writes
  <2>3. frames[t] # <<>>
    BY SMT, <2>2
  <2>. QED
    BY <2>1, <2>2, <2>3
<1>2. Front(frames[t]) = <<>>
  BY <1>1, FrontOfOne
<1>3. frames'[t] = <<>> /\ \A u \in Threads \ {t} : frames'[u] = frames[u]
  BY <1>1, <1>2
<1>4. CallTypes'
  <2>1. <<>> \in Seq(Calls)
    BY <1>1, <1>2, FrontLast
  <2>. QED
    BY <1>1, <1>2, <2>1 DEF CallTypes
<1>5. Entered(t)' = Entered(t)
  BY <1>1, <1>3 DEF Entered
<1>6. UNCHANGED <<stack, raced, life>>
  BY DEF statics
<1>7. LockInv'
  BY <1>3, <1>5, <1>6, OtherCalls DEF IInv, LockInv, statics
<1>8. FramesInv'
  BY <1>3, <1>6, OtherCalls
<1>. QED
  BY <1>3, <1>4, <1>7, <1>8

\* The calls of a thread with one call more.
LEMMA CallAdded ==
  ASSUME NEW t \in Threads, frames \in [Threads -> Seq(Calls)], NEW g \in Calls,
         frames' = [frames EXCEPT ![t] = Append(frames[t], g)]
  PROVE  /\ frames' \in [Threads -> Seq(Calls)]
         /\ frames'[t] \in Seq(Calls) /\ Len(frames'[t]) = Len(frames[t]) + 1
         /\ frames'[t] # <<>> /\ Len(frames[t]) \in Nat
         /\ \A i \in 1 .. Len(frames[t]) : frames'[t][i] = frames[t][i]
         /\ frames'[t][Len(frames[t]) + 1] = g
         /\ \A u \in Threads \ {t} : frames'[u] = frames[u]
<1> USE Zenon
<1> DEFINE s == frames[t]
           r == frames'[t]
<1>1. s \in Seq(Calls) /\ r = Append(s, g)
  OBVIOUS
<1>2. \A u \in Threads \ {t} : frames'[u] = frames[u]
  OBVIOUS
<1> HIDE DEF s, r
<1>3. r \in Seq(Calls) /\ Len(r) = Len(s) + 1 /\ r # <<>>
  BY SMT, <1>1, OneMore
<1>4. r[Len(s) + 1] = g /\ \A i \in 1 .. Len(s) : r[i] = s[i]
  BY SMT, <1>1, OneMore
<1>5. Len(s) \in Nat
  BY SMT, <1>1
<1>7. frames' \in [Threads -> Seq(Calls)]
  BY <1>3 DEF r
<1>. QED
  BY <1>2, <1>3, <1>4, <1>5, <1>7 DEF r, s

\* The system, or a handler that passes a failure on, calls HandleException().
LEMMA NewCall ==
  ASSUME IInv, NEW t \in Threads, NEW kind \in Kinds, UNCHANGED <<statics, raced, life>>,
         frames' = [frames EXCEPT ![t] = Append(frames[t], Frame(None, kind, "enter"))],
         frames[t] = <<>> \/ (Chain(t) /\ frames[t][Len(frames[t])].at = "declined"),
         Len(frames[t]) < Len(stack)
  PROVE  /\ CallTypes' /\ LockInv' /\ FramesInv'
         /\ \A u \in Threads \ {t} : frames'[u] = frames[u]
<1> USE Zenon
<1> DEFINE n == Len(frames[t])
           g == Frame(None, kind, "enter")
<1>1. g \in Calls /\ g.kind = kind /\ g.at = "enter"
  BY DEF Frame, Calls
<1>2. frames \in [Threads -> Seq(Calls)] /\ Len(stack) \in Nat /\ DOMAIN frames[t] = 1 .. n
  BY SMT DEF IInv, TypeInv, CallTypes, StackTypes
<1> HIDE DEF g
<1>3. /\ frames' \in [Threads -> Seq(Calls)]
      /\ frames'[t] \in Seq(Calls) /\ Len(frames'[t]) = n + 1 /\ n \in Nat
      /\ frames'[t] # <<>>
      /\ \A i \in 1 .. n : frames'[t][i] = frames[t][i]
      /\ frames'[t][n + 1] = g
      /\ \A u \in Threads \ {t} : frames'[u] = frames[u]
  <2>1. frames' = [frames EXCEPT ![t] = Append(frames[t], g)]
    BY DEF g
  <2>. QED
    BY <1>1, <1>2, <2>1, CallAdded
<1>4. DOMAIN frames'[t] = 1 .. n + 1
  BY SMT, <1>3
<1>5. Entered(t) = n
  <2>1. CASE frames[t] = <<>>
    BY <2>1 DEF Entered
  <2>2. CASE frames[t] # <<>>
    BY <2>2, CallOnStack
  <2>. QED
    BY <2>1, <2>2
<1>6. \A i \in 1 .. n : frames[t][i].kind \in Kinds /\ frames[t][i].at = "declined"
                        /\ frames[t][i].h = stack[Len(stack) - i + 1]
  <2>1. CASE frames[t] = <<>>
    BY SMT, <2>1
  <2>2. CASE Chain(t) /\ frames[t][n].at = "declined"
    <3>1. \A i \in 1 .. n : frames[t][i].kind \in Kinds
      BY <1>2, <2>2 DEF Chain
    <3>2. \A i \in 1 .. n : frames[t][i].h = stack[Len(stack) - i + 1]
      BY <1>5, <2>2 DEF Chain
    <3>3. \A i \in 1 .. n - 1 : frames[t][i].at = "declined"
      BY <2>2 DEF Chain
    <3> HIDE DEF n
    <3>4. \A i \in 1 .. n : i = n \/ i \in 1 .. n - 1
      BY SMT, <1>3
    <3>. QED
      BY <2>2, <3>1, <3>2, <3>3, <3>4
  <2>. QED
    BY <2>1, <2>2
<1> HIDE DEF n
<1>7. Entered(t)' = n
  <2>1. frames'[t][1].kind # "write"
    <3>1. CASE n = 0
      BY SMT, <1>1, <1>3, <3>1 DEF Kinds
    <3>2. CASE n # 0
      BY SMT, <1>3, <1>6, <3>2 DEF Kinds
    <3>. QED
      BY <3>1, <3>2
  <2>2. frames'[t][Len(frames'[t])].at = "enter"
    BY <1>1, <1>3
  <2>. QED
    BY SMT, <1>3, <2>1, <2>2 DEF Entered
<1>8. UNCHANGED <<stack, raced, life>>
  BY DEF statics
<1>9. Chain(t)'
  <2>1. \A i \in 1 .. n + 1 : frames'[t][i].kind \in Kinds
    <3>1. \A i \in 1 .. n + 1 : i = n + 1 \/ i \in 1 .. n
      BY SMT, <1>3
    <3>. QED
      BY <1>1, <1>3, <1>6, <3>1
  <2>2. \A i \in 1 .. n : frames'[t][i].at = "declined" /\ frames'[t][i].h = stack[Len(stack) - i + 1]
    BY <1>3, <1>6
  <2>3. n < Len(stack)
    BY DEF n
  <2>. QED
    BY SMT, <1>1, <1>2, <1>3, <1>4, <1>7, <1>8, <2>1, <2>2, <2>3 DEF Chain
<1>10. LockInv'
  BY <1>3, <1>5, <1>7, <1>8, OtherCalls DEF IInv, LockInv, statics
<1>11. FramesInv'
  BY <1>3, <1>8, <1>9, OtherCalls
<1>. QED
  BY <1>3, <1>10, <1>11 DEF CallTypes

-----------------------------------------------------------------------------
(* HandleException() and WriteMinidump().                                  *)

\* The objects and their stack stay as they are.
LEMMA ObjectsKept ==
  ASSUME IInv, UNCHANGED <<object, statics, raced>>
  PROVE  ObjectTypes' /\ StackTypes' /\ LifeInv' /\ StackInv' /\ RegisteredInv'
<1> USE Zenon
<1>1. ObjectTypes' /\ StackTypes'
  BY DEF IInv, TypeInv, ObjectTypes, StackTypes, object, statics
<1>2. LifeInv'
  BY DEF IInv, LifeInv, Moving, object
<1>3. StackInv'
  BY DEF IInv, StackInv, object, statics
<1>4. RegisteredInv'
  BY DEF IInv, RegisteredInv, statics
<1>. QED
  BY <1>1, <1>2, <1>3, <1>4

\* The process ends, and nothing else happens.
LEMMA ProcessEnds ==
  ASSUME IInv, UNCHANGED <<object, statics, work, raced, frames>>,
         ended' = "broken" => raced, ended' = "unhandled" => RefusedByAll'
  PROVE  IInv'
<1> USE Zenon
<1>1. ObjectTypes' /\ StackTypes' /\ LifeInv' /\ StackInv' /\ RegisteredInv'
  BY ObjectsKept
<1>2. LockInv' /\ FramesInv'
  <2>1. life' = life
    BY DEF object
  <2>. QED
    BY <2>1, StaticsKept DEF Writes
<1>3. CallTypes' /\ WorkTypes'
  BY DEF IInv, TypeInv, CallTypes, WorkTypes, work
<1>4. BusyInv'
  BY DEF IInv, BusyInv, work, object
<1>5. HandlerFound'
  BY DEF HandlerFound
<1>6. RefusedByAll'
  BY DEF RefusedByAll
<1>. QED
  BY <1>1, <1>2, <1>3, <1>4, <1>5, <1>6 DEF IInv, TypeInv

\* A thread fails: the system ends the process or calls Breakpad, which is registered
\* only while there is an object to find.
LEMMA failsStep ==
  ASSUME IInv, NEW t \in Threads, NEW kind \in Kinds, fails(t, kind)
  PROVE  IInv'
<1> USE Zenon
<1>1. CASE registered[kind] = "system"
  BY <1>1, ProcessEnds DEF fails, Deliver, End
<1>2. CASE registered[kind] # "system"
  <2>1. /\ frames[t] = <<>> /\ UNCHANGED <<object, statics, work, raced, ended>> /\ Running
        /\ frames' = [frames EXCEPT ![t] = Append(frames[t], Frame(None, kind, "enter"))]
    BY <1>2 DEF fails, Deliver
  <2>2. life' = life
    BY <2>1 DEF object
  <2>3. registered[kind] = "breakpad" /\ index \in Nat /\ Len(stack) \in Nat
    BY SMT, <1>2 DEF IInv, TypeInv, StackTypes
  <2>4. Len(frames[t]) < Len(stack)
    <3>1. index < Len(stack)
      BY <2>3 DEF IInv, RegisteredInv
    <3>2. Len(frames[t]) = 0
      BY SMT, <2>1
    <3>. QED
      BY SMT, <2>3, <3>1, <3>2
  <2>5. /\ CallTypes' /\ LockInv' /\ FramesInv'
        /\ \A u \in Threads \ {t} : frames'[u] = frames[u]
    <3>1. UNCHANGED <<statics, raced, life>>
      BY <2>1, <2>2
    <3>2. frames' = [frames EXCEPT ![t] = Append(frames[t], Frame(None, kind, "enter"))]
      BY <2>1
    <3>3. frames[t] = <<>> \/ (Chain(t) /\ frames[t][Len(frames[t])].at = "declined")
      BY <2>1
    <3>. QED
      BY <2>4, <3>1, <3>2, <3>3, NewCall
  <2>6. BusyInv' /\ WorkTypes'
    BY <2>1, <2>2, <2>5, BusyKept
  <2>. QED
    BY <2>1, <2>5, <2>6, ObjectsKept, StillRunning DEF IInv, TypeInv
<1>. QED
  BY <1>1, <1>2

\* A thread calls WriteMinidump() of a live object.
LEMMA WriteMinidumpStep ==
  ASSUME IInv, NEW t \in Threads, NEW h \in Handlers, WriteMinidump(t, h)
  PROVE  IInv'
<1> USE Zenon
<1> DEFINE g == Frame(h, "write", "ask")
<1>1. /\ frames[t] = <<>> /\ UNCHANGED <<object, statics, work, raced, ended>> /\ Running
      /\ frames' = [frames EXCEPT ![t] = <<g>>] /\ life[h] = "live"
  BY DEF WriteMinidump
<1>2. UNCHANGED <<life, stack>>
  BY <1>1 DEF object, statics
<1>3. g \in Calls /\ g.kind = "write" /\ g.h = h /\ g.at = "ask"
  BY DEF Frame, Calls
<1> HIDE DEF g
<1>4. frames \in [Threads -> Seq(Calls)] /\ <<g>> \in Seq(Calls)
  BY SMT, <1>3 DEF IInv, TypeInv, CallTypes
<1>5. /\ CallTypes' /\ frames'[t] = <<g>>
      /\ \A u \in Threads \ {t} : frames'[u] = frames[u]
  BY <1>1, <1>4 DEF CallTypes
<1>6. Entered(t) = 0 /\ Entered(t)' = 0
  BY SMT, <1>1, <1>3, <1>5 DEF Entered
<1>7. Writes(t)'
  BY SMT, <1>1, <1>2, <1>3, <1>5 DEF Writes
<1>8. FramesInv' /\ LockInv'
  BY <1>1, <1>2, <1>5, <1>6, <1>7, OtherCalls DEF IInv, LockInv, statics
<1>9. BusyInv' /\ WorkTypes'
  BY <1>1, <1>2, <1>5, BusyKept
<1>. QED
  BY <1>1, <1>5, <1>8, <1>9, ObjectsKept, StillRunning DEF IInv, TypeInv

\* A thread enters the critical section: its object is the next of the stack, and the
\* handlers that were registered before this object are registered again.
LEMMA AutoExceptionHandlerStep ==
  ASSUME IInv, NEW t \in Threads, AutoExceptionHandler(t)
  PROVE  IInv'
<1> USE Zenon
<1> DEFINE n == Len(frames[t])
           L == Len(stack)
<1>1. /\ frames \in [Threads -> Seq(Calls)] /\ frames[t] \in Seq(Calls)
      /\ stack \in Seq(Handlers) /\ L \in Nat /\ DOMAIN stack = 1 .. L /\ index \in Nat
      /\ depth = index
  BY SMT DEF IInv, TypeInv, CallTypes, StackTypes, LockInv
<1>2. frames[t] # <<>> /\ n \in Nat \ {0} /\ frames[t][n].at = "enter" /\ n \in DOMAIN frames[t]
      /\ DOMAIN frames[t] = 1 .. n /\ Last(frames[t]) = frames[t][n]
  BY SMT, <1>1 DEF AutoExceptionHandler, At, Top, Last
<1>3. Chain(t)
  <2>1. ~Writes(t)
    BY <1>2 DEF Writes
  <2>. QED
    BY <1>2, <2>1 DEF IInv, FramesInv
<1>4. frames[t][1].kind # "write" /\ Entered(t) = n - 1
  BY SMT, <1>2, <1>3 DEF Chain, Kinds, Entered
<1>5. owner \in {None, t} /\ index = n - 1
  <2>1. owner \in {None, t} /\ None # t
    BY HandlersAssumption DEF AutoExceptionHandler
  <2>. QED
    BY <1>4, <2>1 DEF IInv, LockInv
<1>6. CASE index >= L
  <2>1. raced
    BY SMT, <1>1, <1>2, <1>3, <1>5, <1>6 DEF Chain, IInv, TypeInv, StackTypes
  <2>. QED
    BY <1>6, <2>1, ProcessEnds DEF AutoExceptionHandler, End
<1>7. CASE ~(index >= L)
  <2> DEFINE h == stack[L - index]
             g == Frame(h, frames[t][n].kind, "ask")
  <2>1. /\ owner' = t /\ depth' = depth + 1 /\ index' = index + 1 /\ registered' = previous[h]
        /\ frames' = [frames EXCEPT ![t] = Append(Front(frames[t]), g)]
        /\ UNCHANGED <<object, previous, stack, work, raced, incidents, ended>> /\ Running
    BY <1>2, <1>7 DEF AutoExceptionHandler, Step, Top
  <2>2. L - index \in DOMAIN stack /\ L - index = L - n + 1 /\ h \in Handlers /\ n <= L
    BY SMT, <1>1, <1>2, <1>5, <1>7
  <2>3. frames[t][n].kind \in Kinds
    BY <1>2, <1>3 DEF Chain
  <2>4. g \in Calls /\ g.h = h /\ g.kind = frames[t][n].kind /\ g.at = "ask"
    BY <2>2, <2>3 DEF Calls, Frame
  <2>5. life' = life /\ setup' = setup
    BY <2>1 DEF object
  <2>6. RegisteredInv' /\ StackTypes'
    <3>1. \A k \in Kinds : previous[h][k] = "breakpad" <=> L - index > 1
      BY <2>2 DEF IInv, RegisteredInv
    <3>2. RegisteredInv'
      BY SMT, <1>1, <2>1, <3>1 DEF IInv, RegisteredInv
    <3>3. previous[h] \in [Kinds -> {"system", "breakpad"}]
      BY <2>2 DEF IInv, TypeInv, StackTypes
    <3>4. StackTypes'
      BY SMT, <1>1, <2>1, <3>3 DEF IInv, TypeInv, StackTypes
    <3>. QED
      BY <3>2, <3>4
  <2>7. ObjectTypes' /\ LifeInv' /\ StackInv'
    BY <2>1 DEF IInv, TypeInv, ObjectTypes, LifeInv, Moving, StackInv, object
  <2> HIDE DEF g
  <2>8. /\ frames' \in [Threads -> Seq(Calls)]
        /\ frames'[t] \in Seq(Calls) /\ Len(frames'[t]) = n /\ frames'[t] # <<>>
        /\ \A i \in 1 .. n - 1 : frames'[t][i] = frames[t][i]
        /\ frames'[t][n] = g
    BY <1>1, <1>2, <2>1, <2>4, LastReplaced
  <2>9. \A u \in Threads \ {t} : frames'[u] = frames[u]
    BY <1>1, <2>1
  <2>10. DOMAIN frames'[t] = 1 .. n
    BY SMT, <2>8
  <2> HIDE DEF n, L, h
  <2>11. \A i \in 1 .. n : i = n \/ i \in 1 .. n - 1
    BY SMT, <1>2
  <2>12. \A i \in 1 .. n : frames'[t][i].kind \in Kinds
    <3>1. \A i \in 1 .. n : frames[t][i].kind \in Kinds
      BY <1>2, <1>3 DEF Chain
    <3>. QED
      BY <2>4, <2>8, <2>11, <3>1, <2>3
  <2>13. \A i \in 1 .. n : frames'[t][i].h = stack[L - i + 1]
    <3>1. \A i \in 1 .. n - 1 : frames[t][i].h = stack[L - i + 1]
      BY <1>3, <1>4 DEF Chain, L
    <3>2. h = stack[L - n + 1]
      BY <2>2 DEF h
    <3>. QED
      BY <2>4, <2>8, <2>11, <3>1, <3>2
  <2>14. Entered(t)' = n
    <3>1. frames'[t][1].kind # "write"
      BY SMT, <1>2, <2>12 DEF Kinds
    <3>. QED
      BY <2>4, <2>8, <3>1 DEF Entered
  <2>15. Chain(t)'
    <3>1. \A i \in 1 .. n - 1 : frames'[t][i].at = "declined"
      BY <1>3, <2>8 DEF Chain, n
    <3>. QED
      BY <2>1, <2>2, <2>4, <2>8, <2>10, <2>12, <2>13, <2>14, <3>1 DEF Chain, L
  <2>16. FramesInv'
    BY <2>1, <2>5, <2>9, <2>15, OtherCalls
  <2>17. LockInv'
    <3>1. \A u \in Threads \ {t} : Entered(u)' = 0
      <4>1. \A u \in Threads \ {t} : Entered(u)' = Entered(u)
        BY <2>1, <2>5, <2>9, OtherCalls
      <4>. QED
        BY <1>5, <4>1, HandlersAssumption DEF IInv, LockInv
    <3>. QED
      BY SMT, <1>1, <1>2, <1>5, <2>1, <2>14, <3>1, HandlersAssumption DEF LockInv
  <2>18. BusyInv' /\ WorkTypes'
    BY <1>2, <2>1, <2>5, <2>9, BusyKept DEF n
  <2>. QED
    BY <2>1, <2>6, <2>7, <2>8, <2>16, <2>17, <2>18, StillRunning DEF IInv, TypeInv,
       CallTypes
<1>. QED
  BY <1>6, <1>7

-----------------------------------------------------------------------------
(* HandleException() and WriteMinidump() go on and return.                 *)

\* A handler leaves the critical section because the program goes on.
LEMMA continuesStep ==
  ASSUME AllOrNothing, IInv, NEW t \in Threads, continues(t)
  PROVE  IInv'
<1> USE Zenon
<1> DEFINE n == Len(frames[t])
<1>1. /\ frames \in [Threads -> Seq(Calls)] /\ frames[t] \in Seq(Calls)
      /\ stack \in Seq(Handlers) /\ Len(stack) \in Nat /\ index \in Nat /\ depth = index
      /\ n \in Nat /\ DOMAIN frames[t] = 1 .. n
  BY SMT DEF IInv, TypeInv, CallTypes, StackTypes, LockInv
<1>2. /\ frames[t] # <<>> /\ n # 0 /\ Last(frames[t]) = frames[t][n]
      /\ frames[t][n].kind = "exception" /\ frames[t][n].at \in {"ask", "continue"}
  BY SMT, <1>1 DEF continues, Top, Last
<1>3. Chain(t)
  <2>1. ~Writes(t)
    BY <1>2 DEF Writes
  <2>. QED
    BY <1>2, <2>1 DEF IInv, FramesInv
<1>4. Entered(t) = n /\ n <= Len(stack)
  BY <1>2, <1>3, CallOnStack DEF Chain
<1>5. owner = t /\ index = n
  BY <1>2, <1>4 DEF IInv, LockInv
<1>6. /\ registered' = [k \in Kinds |-> "breakpad"]
      /\ index' = n - 1 /\ depth' = n - 1 /\ owner' = IF n = 1 THEN None ELSE t
      /\ UNCHANGED <<object, previous, stack, work, raced, incidents, ended>> /\ Running
  BY <1>1, <1>5 DEF continues, LeaveHandler
<1>7. UNCHANGED <<life, setup>>
  BY <1>6 DEF object
<1>8. ObjectTypes' /\ LifeInv' /\ StackInv'
  BY <1>6 DEF IInv, TypeInv, ObjectTypes, LifeInv, Moving, StackInv, object
<1>9. RegisteredInv' /\ StackTypes'
  <2>1. RegisteredInv'
    BY SMT, <1>1, <1>2, <1>4, <1>6 DEF IInv, RegisteredInv
  <2>2. index' \in Nat /\ depth' \in Nat /\ owner' \in Threads \cup {None}
    BY SMT, <1>1, <1>2, <1>6
  <2>. QED
    BY <1>6, <2>1, <2>2 DEF IInv, TypeInv, StackTypes
<1>10. \A u \in Threads \ {t} : frames'[u] = frames[u]
  BY <1>1 DEF continues
<1>11. BusyInv' /\ WorkTypes'
  BY <1>2, <1>6, <1>7, <1>10, BusyKept
<1>12. \A u \in Threads \ {t} : Entered(u)' = 0
  <2>1. \A u \in Threads \ {t} : Entered(u)' = Entered(u)
    BY <1>6, <1>7, <1>10, OtherCalls
  <2>. QED
    BY <1>5, <2>1 DEF IInv, LockInv
<1>13. SUFFICES /\ CallTypes' /\ Entered(t)' = n - 1
                /\ frames'[t] # <<>> => Chain(t)'
  <2>1. ASSUME Entered(t)' = n - 1 PROVE LockInv'
    <3>1. None # t
      BY HandlersAssumption
    <3>2. \A u \in Threads : Entered(u)' = IF u = owner' THEN n - 1 ELSE 0
      <4>1. CASE n = 1
        BY SMT, <1>6, <1>12, <2>1, <4>1, HandlersAssumption
      <4>2. CASE n # 1
        BY <1>6, <1>12, <2>1, <4>2
      <4>. QED
        BY <4>1, <4>2
    <3> HIDE DEF n
    <3>. QED
      BY SMT, <1>1, <1>2, <1>6, <3>1, <3>2 DEF LockInv
  <2>2. ASSUME frames'[t] # <<>> => Chain(t)' PROVE FramesInv'
    BY <1>6, <1>7, <1>10, <2>2, OtherCalls
  <2>. QED
    BY <1>6, <1>8, <1>9, <1>11, <2>1, <2>2, StillRunning DEF IInv, TypeInv
<1>14. CASE n = 1
  <2>1. Front(frames[t]) = <<>>
    BY <1>1, <1>14, FrontOfOne
  <2>2. frames' = [frames EXCEPT ![t] = <<>>]
    BY <2>1 DEF continues
  <2>3. <<>> \in Seq(Calls)
    BY ZenonT(30), <1>1, <1>2, <2>1, FrontLast
  <2>4. CallTypes' /\ frames'[t] = <<>>
    BY <1>1, <2>2, <2>3 DEF CallTypes
  <2>5. Entered(t)' = 0
    BY <2>4 DEF Entered
  <2>. QED
    BY SMT, <1>14, <2>4, <2>5
<1>15. CASE n # 1
  <2> DEFINE s == Front(frames[t])
             m == n - 1
             g == [s[m] EXCEPT !.at = "continue"]
             b == Front(s)
  <2>1. /\ s \in Seq(Calls) /\ Len(s) = m /\ m \in Nat \ {0}
        /\ \A i \in 1 .. m : s[i] = frames[t][i]
    <3>1. s \in Seq(Calls) /\ Len(s) = n - 1 /\ \A i \in 1 .. n - 1 : s[i] = frames[t][i]
      BY <1>1, <1>2, FrontLast
    <3>2. m \in Nat \ {0}
      BY SMT, <1>1, <1>2, <1>15
    <3> HIDE DEF n, s
    <3>. QED
      BY <3>1, <3>2
  <2>2. s # <<>> /\ DOMAIN s = 1 .. m
    <3> HIDE DEF s, m
    <3>. QED
      BY SMT, <2>1
  <2>3. /\ b \in Seq(Calls) /\ Len(b) = m - 1 /\ Last(s) = s[m]
        /\ \A i \in 1 .. m - 1 : b[i] = s[i]
    BY <2>1, <2>2, FrontLast
  <2>4. frames' = [frames EXCEPT ![t] = Append(b, g)]
    BY <2>2, <2>3 DEF continues
  <2>5. s[m] \in Calls
    BY SMT, <2>1, <2>2
  <2> HIDE DEF s
  <2>6. g \in Calls /\ g.kind = s[m].kind /\ g.h = s[m].h /\ g.at = "continue"
    BY <2>5 DEF Calls
  <2>7. frames'[t] = Append(b, g)
    BY <1>1, <2>4
  <2> DEFINE r == frames'[t]
  <2> HIDE DEF b, g, r, m
  <2>8. r \in Seq(Calls) /\ Len(r) = Len(b) + 1
    BY SMT, <2>3, <2>6, <2>7 DEF r
  <2>9. r[Len(b) + 1] = g
    BY SMT, <2>3, <2>6, <2>7 DEF r
  <2>10. \A i \in 1 .. Len(b) : r[i] = b[i]
    BY SMT, <2>3, <2>6, <2>7 DEF r
  <2>11. /\ Len(r) = m /\ DOMAIN r = 1 .. m /\ r[m] = g
         /\ \A i \in 1 .. m - 1 : r[i] = s[i]
    BY SMT, <2>1, <2>3, <2>8, <2>9, <2>10
  <2>12. \A i \in 1 .. m : r[i].kind = s[i].kind /\ r[i].h = s[i].h
    <3>1. \A i \in 1 .. m : i = m \/ i \in 1 .. m - 1
      BY SMT, <2>1
    <3>. QED
      BY <2>6, <2>11, <3>1
  <2>13. CallTypes'
    BY <1>1, <2>4, <2>7, <2>8 DEF r, CallTypes
  <2>14. \A i \in 1 .. m : r[i].kind \in Kinds /\ r[i].h = stack[Len(stack) - i + 1]
    <3>1. \A i \in 1 .. m : i \in 1 .. n
      BY SMT, <1>1, <2>1 DEF m
    <3>2. \A i \in 1 .. n : frames[t][i].kind \in Kinds
                            /\ frames[t][i].h = stack[Len(stack) - i + 1]
      BY <1>1, <1>3, <1>4 DEF Chain
    <3> HIDE DEF n
    <3>. QED
      BY ZenonT(30), <2>1, <2>12, <3>1, <3>2
  <2>15. r # <<>> /\ 1 \in 1 .. m /\ r[1].kind # "write" /\ r[Len(r)].at = "continue"
    BY SMT, <2>1, <2>6, <2>8, <2>11, <2>14 DEF Kinds
  <2>16. Entered(t)' = m
    BY <2>11, <2>15 DEF Entered, r
  <2>17. \A i \in 1 .. m - 1 : r[i].at = "declined"
    <3>1. \A i \in 1 .. n - 1 : frames[t][i].at = "declined"
      BY <1>3 DEF Chain
    <3>2. \A i \in 1 .. m - 1 : i \in 1 .. m /\ i \in 1 .. n - 1
      BY SMT, <1>1, <2>1 DEF m
    <3> HIDE DEF n
    <3>. QED
      BY <2>1, <2>11, <3>1, <3>2
  <2>18. Chain(t)'
    <3>1. m <= Len(stack)
      BY SMT, <1>1, <1>4 DEF m
    <3>. QED
      BY <1>6, <2>11, <2>14, <2>15, <2>16, <2>17, <3>1 DEF Chain, r
  <2>. QED
    BY <2>13, <2>16, <2>18 DEF m
<1>. QED
  BY <1>14, <1>15

\* The last call of a thread, by the operators of the model.
LEMMA TopCall ==
  ASSUME IInv, NEW t \in Threads, frames[t] # <<>>
  PROVE  /\ Top(t) = frames[t][Len(frames[t])] /\ Top(t) \in Calls
         /\ Top(t).kind = "write" => Writes(t)
<1> USE Zenon
<1>1. frames[t] \in Seq(Calls) /\ Len(frames[t]) \in DOMAIN frames[t]
  BY SMT DEF IInv, TypeInv, CallTypes
<1>2. Top(t) = frames[t][Len(frames[t])] /\ Top(t) \in Calls
  BY SMT, <1>1 DEF Top, Last
<1>3. Chain(t) => Top(t).kind # "write"
  BY <1>1, <1>2 DEF Chain, Kinds
<1>. QED
  BY <1>2, <1>3 DEF IInv, FramesInv

\* A handler has not looked at the failure, or was declined out of process: the last call
\* of the thread is declined and nothing else changes.
LEMMA DeclinedStep ==
  ASSUME IInv, NEW t \in Threads, Running, At(t, "ask"), Top(t).kind # "write",
         Step(t, [Top(t) EXCEPT !.at = "declined"]),
         UNCHANGED <<object, statics, work, raced, ended>>
  PROVE  IInv'
<1> USE Zenon
<1> DEFINE f == Top(t)
<1>1. /\ frames[t] # <<>> /\ f = frames[t][Len(frames[t])] /\ f.at = "ask"
  BY TopCall DEF At
<1>2. frames' = [frames EXCEPT ![t] = Append(Front(frames[t]), [f EXCEPT !.at = "declined"])]
  BY DEF Step
<1>3. f.kind # "write" /\ UNCHANGED <<statics, raced, life>>
  BY DEF object
<1> HIDE DEF f
<1>4. /\ CallTypes' /\ LockInv' /\ FramesInv'
      /\ \A u \in Threads \ {t} : frames'[u] = frames[u]
  BY <1>1, <1>2, <1>3, CallGoesOn
<1>5. BusyInv' /\ WorkTypes'
  BY <1>1, <1>3, <1>4, BusyKept
<1>. QED
  BY <1>4, <1>5, ObjectsKept, StillRunning DEF IInv, TypeInv

\* An exception for the debugger is passed on.
LEMMA ignoresStep ==
  ASSUME IInv, NEW t \in Threads, ignores(t)
  PROVE  IInv'
<1> USE Zenon
<1>1. Top(t).kind # "write"
  BY DEF ignores
<1>. QED
  BY <1>1, DeclinedStep DEF ignores

\* WriteMinidump() of a thread returns, whatever it leaves in the work of its object, as
\* long as no thread waits for that object on its behalf.
LEMMA ReturnStep ==
  ASSUME IInv, NEW t \in Threads, Running, Writes(t), frames[t][1].at # "wait",
         Pop(t), UNCHANGED <<object, statics, raced, ended>>,
         UNCHANGED <<worker, start, finish, busy, request>>
  PROVE  IInv'
<1> USE Zenon
<1>1. frames' = [frames EXCEPT ![t] = Front(frames[t])] /\ UNCHANGED <<statics, raced, life>>
  BY DEF Pop, object
<1>2. /\ CallTypes' /\ LockInv' /\ FramesInv'
      /\ \A u \in Threads \ {t} : frames'[u] = frames[u]
  BY <1>1, CallReturns
<1>3. \A h \in Handlers : busy[h] # t
  BY ZenonT(30), HandlersAssumption DEF IInv, BusyInv, Writes
<1>4. WorkTypes'
  BY DEF IInv, TypeInv, WorkTypes
<1>5. BusyInv'
  BY SMT, <1>1, <1>2, <1>3 DEF IInv, TypeInv, WorkTypes, BusyInv
<1>. QED
  BY <1>2, <1>4, <1>5, ObjectsKept, StillRunning DEF IInv, TypeInv

\* Out of process the dump is requested: the call returns, ends the process or declines.
LEMMA RequestDumpStep ==
  ASSUME IInv, NEW t \in Threads, RequestDump(t)
  PROVE  IInv'
<1> USE Zenon
<1>1. /\ frames[t] # <<>> /\ Top(t) = frames[t][Len(frames[t])] /\ Top(t).at = "ask"
      /\ Top(t).kind = "write" => Writes(t)
  BY TopCall DEF RequestDump, At
<1>2. CASE Top(t).kind = "write"
  <2>1. Writes(t) /\ frames[t][1].at # "wait"
    BY <1>1, <1>2 DEF Writes
  <2>2. UNCHANGED <<worker, start, finish, busy, request>>
    BY DEF RequestDump, work
  <2>. QED
    BY <1>2, <2>1, <2>2, ReturnStep DEF RequestDump
<1>3. CASE Top(t).kind # "write" /\ ended' = "handled" /\ UNCHANGED frames
  BY <1>3, ProcessEnds DEF RequestDump
<1>4. CASE /\ Top(t).kind # "write"
           /\ Step(t, [Top(t) EXCEPT !.at = "declined"]) /\ UNCHANGED ended
  BY <1>4, DeclinedStep DEF RequestDump
<1>. QED
  BY <1>2, <1>3, <1>4 DEF RequestDump

\* WriteMinidump() gives the next file a new name and returns.
LEMMA UpdateNextIDStep ==
  ASSUME IInv, NEW t \in Threads, UpdateNextID(t)
  PROVE  IInv'
<1> USE Zenon
<1>1. /\ frames[t] # <<>> /\ Top(t) = frames[t][Len(frames[t])] /\ Top(t).at = "update"
  BY TopCall DEF UpdateNextID, At
<1>2. Writes(t)
  BY <1>1 DEF IInv, FramesInv, Chain
<1>3. frames[t][1].at # "wait"
  BY <1>1, <1>2 DEF Writes
<1>. QED
  BY <1>2, <1>3, ReturnStep DEF UpdateNextID

\* A handler that declined calls the previous one, which has an object, or leaves the
\* failure to the system when all the objects of the stack have declined.
LEMMA PassOnStep ==
  ASSUME IInv, NEW t \in Threads, NEW kind \in Kinds, PassOn(t, kind)
  PROVE  IInv'
<1> USE Zenon
<1> DEFINE n == Len(frames[t])
           L == Len(stack)
<1>1. /\ frames[t] # <<>> /\ Top(t) = frames[t][n] /\ frames[t][n].at = "declined"
  BY TopCall DEF PassOn, At
<1>2. Chain(t)
  BY <1>1 DEF IInv, FramesInv, Writes
<1>3. /\ Entered(t) = n /\ L - n + 1 \in DOMAIN stack /\ frames[t][n].h = stack[L - n + 1]
  BY <1>1, <1>2, CallOnStack
<1>4. /\ n \in Nat \ {0} /\ DOMAIN frames[t] = 1 .. n /\ L \in Nat
      /\ DOMAIN stack = 1 .. L /\ stack \in Seq(Handlers)
      /\ previous \in [Handlers -> [Kinds -> {"system", "breakpad"}]]
  BY SMT, <1>1 DEF IInv, TypeInv, CallTypes, StackTypes
<1>5. previous[stack[L - n + 1]][kind] = "breakpad" <=> L - n + 1 > 1
  BY <1>3 DEF IInv, RegisteredInv
<1> HIDE DEF n, L
<1>6. CASE previous[Top(t).h][kind] = "system"
  <2>1. n = L
    <3>1. ~(L - n + 1 > 1)
      BY <1>1, <1>3, <1>5, <1>6
    <3>2. L - n + 1 \in 1 .. L
      BY <1>3, <1>4
    <3>. QED
      BY SMT, <1>4, <3>1, <3>2
  <2>2. UNCHANGED <<object, statics, work, raced, frames>> /\ ended' = "unhandled"
    BY <1>6 DEF PassOn, End
  <2>3. n = L /\ \A i \in DOMAIN stack : frames[t][i].h = stack[L - i + 1]
    <3>1. \A i \in 1 .. n : frames[t][i].h = stack[L - i + 1]
      BY <1>2, <1>3 DEF Chain, L
    <3>. QED
      BY <1>4, <2>1, <3>1
  <2>4. At(t, "declined")' /\ stack' = stack
    BY <1>1, <2>2 DEF At, Top, statics
  <2>5. RefusedByAll'
    BY <2>2, <2>3, <2>4 DEF RefusedByAll, n, L
  <2>. QED
    BY <2>2, <2>5, ProcessEnds
<1>7. CASE previous[Top(t).h][kind] # "system"
  <2>1. /\ frames' = [frames EXCEPT ![t] = Append(frames[t], Frame(None, kind, "enter"))]
        /\ UNCHANGED <<object, statics, work, raced, incidents, ended>> /\ Running
    BY <1>7 DEF PassOn
  <2>2. UNCHANGED <<statics, raced, life>>
    BY <2>1 DEF object
  <2>3. n < L
    <3>1. stack[L - n + 1] \in Handlers
      BY SMT, <1>3, <1>4
    <3>2. previous[stack[L - n + 1]][kind] = "breakpad"
      BY SMT, <1>1, <1>3, <1>4, <1>7, <3>1
    <3>. QED
      BY SMT, <1>4, <1>5, <3>2
  <2>4. /\ CallTypes' /\ LockInv' /\ FramesInv'
        /\ \A u \in Threads \ {t} : frames'[u] = frames[u]
    BY <1>1, <1>2, <2>1, <2>2, <2>3, NewCall DEF n, L
  <2>5. BusyInv' /\ WorkTypes'
    BY <1>1, <2>1, <2>2, <2>4, BusyKept DEF n
  <2>. QED
    BY <2>1, <2>4, <2>5, ObjectsKept, StillRunning DEF IInv, TypeInv
<1>. QED
  BY <1>6, <1>7

-----------------------------------------------------------------------------
(* The work of the thread of an object.                                    *)

\* A thread gets handler_critical_section_ and wakes the thread of its object up.
LEMMA WriteMinidumpOnHandlerThreadStep ==
  ASSUME IInv, NEW t \in Threads, WriteMinidumpOnHandlerThread(t)
  PROVE  IInv'
<1> USE Zenon
<1> DEFINE f == Top(t)
           h == f.h
<1>1. frames[t] # <<>> /\ f = frames[t][Len(frames[t])] /\ f.at = "ask"
  BY TopCall DEF WriteMinidumpOnHandlerThread, At
<1>2. h \in Handlers /\ life[h] \in {"live", "destroying"}
  BY <1>1, CallAlive
<1>3. /\ frames' = [frames EXCEPT ![t] = Append(Front(frames[t]), [f EXCEPT !.at = "wait"])]
      /\ UNCHANGED <<object, statics, worker, finish, raced, ended>> /\ Running
      /\ busy[h] = None /\ busy' = [busy EXCEPT ![h] = t]
      /\ request' = [request EXCEPT ![h] = t] /\ start' = [start EXCEPT ![h] = 1]
  BY DEF WriteMinidumpOnHandlerThread, Step
<1>4. f \in Calls /\ UNCHANGED <<statics, raced, life>>
  BY <1>1, <1>3, TopCall DEF object
<1> HIDE DEF f
<1>5. /\ CallTypes' /\ LockInv' /\ FramesInv'
      /\ \A u \in Threads \ {t} : frames'[u] = frames[u]
      /\ frames'[t] # <<>> /\ frames'[t][Len(frames'[t])] = [f EXCEPT !.at = "wait"]
  <2> DEFINE a == "wait"
  <2>1. /\ frames' = [frames EXCEPT ![t] = Append(Front(frames[t]), [f EXCEPT !.at = a])]
    BY <1>3
  <2>2. /\ a \in {"wait", "declined", "update"}
        /\ IF f.kind = "write" THEN a # "declined" ELSE a # "update"
    OBVIOUS
  <2>3. a = "wait"
    OBVIOUS
  <2> HIDE DEF a
  <2>4. frames[t] # <<>> /\ f = frames[t][Len(frames[t])] /\ f.at \in {"ask", "wait"}
    BY <1>1
  <2>5. UNCHANGED <<statics, raced, life>>
    BY <1>4
  <2>6. /\ CallTypes' /\ LockInv' /\ FramesInv'
        /\ \A u \in Threads \ {t} : frames'[u] = frames[u]
    BY <2>1, <2>2, <2>4, <2>5, CallGoesOn
  <2>7. frames'[t] # <<>>
    BY <2>1, <2>2, <2>4, <2>5, CallGoesOn
  <2>8. frames'[t][Len(frames'[t])] = [f EXCEPT !.at = a]
    <3> DEFINE g == [f EXCEPT !.at = a]
    <3>1. g \in Calls
      BY <1>4, <2>2 DEF Calls
    <3>2. frames \in [Threads -> Seq(Calls)]
      BY DEF IInv, TypeInv, CallTypes
    <3>3. frames' = [frames EXCEPT ![t] = Append(Front(frames[t]), g)]
      BY <2>1
    <3> HIDE DEF g
    <3>4. Len(frames'[t]) = Len(frames[t]) /\ frames'[t][Len(frames[t])] = g
      BY <2>4, <3>1, <3>2, <3>3, LastReplaced
    <3>. QED
      BY <3>4 DEF g
  <2>. QED
    BY <2>3, <2>6, <2>7, <2>8
<1>6. frames'[t][Len(frames'[t])].at = "wait" /\ frames'[t][Len(frames'[t])].h = h
  BY <1>4, <1>5 DEF Calls
<1> HIDE DEF h
<1>7. WorkTypes'
  BY SMT, <1>2, <1>3 DEF IInv, TypeInv, WorkTypes
<1>8. BusyInv'
  <2>1. /\ busy'[h] = t /\ request'[h] = t /\ start'[h] = 1
        /\ \A g \in Handlers \ {h} : busy'[g] = busy[g] /\ request'[g] = request[g]
                                     /\ start'[g] = start[g]
    BY <1>2, <1>3 DEF IInv, TypeInv, WorkTypes
  <2>2. finish[h] = 0 /\ worker[h] \notin {"writing", "dead"} /\ t # None
    BY <1>2, <1>3, HandlersAssumption DEF IInv, BusyInv
  <2>3. \A g \in Handlers : busy[g] # t
    BY <1>1, <2>2 DEF IInv, BusyInv
  <2> SUFFICES ASSUME NEW g \in Handlers PROVE BusyInv!(g)'
    BY DEF BusyInv
  <2>4. CASE g = h
    BY SMT, <1>2, <1>3, <1>4, <1>5, <1>6, <2>1, <2>2, <2>4
  <2>5. CASE g # h
    <3>1. busy[g] = None \/ busy[g] \in Threads \ {t}
      BY <2>3 DEF IInv, TypeInv, WorkTypes
    <3>. QED
      BY SMT, <1>3, <1>4, <1>5, <2>1, <2>5, <3>1 DEF IInv, BusyInv
  <2>. QED
    BY <2>4, <2>5
<1>. QED
  BY <1>3, <1>5, <1>7, <1>8, ObjectsKept, StillRunning DEF IInv, TypeInv

\* The thread of the object has finished: the object is free again.
LEMMA finishedStep ==
  ASSUME IInv, NEW t \in Threads, finished(t)
  PROVE  IInv'
<1> USE Zenon
<1> DEFINE f == Top(t)
           h == f.h
<1>1. frames[t] # <<>> /\ f = frames[t][Len(frames[t])] /\ f.at = "wait"
  BY TopCall DEF finished, At
<1>2. h \in Handlers
  BY <1>1, CallAlive
<1>3. /\ UNCHANGED <<object, statics, worker, start, raced>> /\ Running
      /\ finish[h] = 1 /\ finish' = [finish EXCEPT ![h] = 0]
      /\ request' = [request EXCEPT ![h] = None] /\ busy' = [busy EXCEPT ![h] = None]
  BY DEF finished
<1>4. UNCHANGED <<statics, raced, life>>
  BY <1>3 DEF object
<1>5. WorkTypes'
  BY SMT, <1>2, <1>3 DEF IInv, TypeInv, WorkTypes
<1>6. ASSUME \A u \in Threads \ {t} : frames'[u] = frames[u] PROVE BusyInv'
  <2>1. /\ busy'[h] = None /\ finish'[h] = 0
        /\ \A g \in Handlers \ {h} : busy'[g] = busy[g] /\ request'[g] = request[g]
                                     /\ finish'[g] = finish[g]
    BY <1>2, <1>3 DEF IInv, TypeInv, WorkTypes
  <2>2. worker[h] # "writing" /\ start[h] # 1 /\ start[h] \in 0..1
    BY SMT, <1>2, <1>3 DEF IInv, TypeInv, WorkTypes, BusyInv
  <2>3. \A g \in Handlers \ {h} : busy[g] # t
    BY ZenonT(30), <1>1, HandlersAssumption DEF IInv, BusyInv
  <2> SUFFICES ASSUME NEW g \in Handlers PROVE BusyInv!(g)'
    BY DEF BusyInv
  <2>4. CASE g = h
    BY <1>3, <1>4, <2>1, <2>2, <2>4 DEF IInv, BusyInv
  <2>5. CASE g # h
    <3>1. busy[g] = None \/ busy[g] \in Threads \ {t}
      BY <2>3, <2>5 DEF IInv, TypeInv, WorkTypes
    <3>. QED
      BY SMT, <1>3, <1>4, <1>6, <2>1, <2>5, <3>1 DEF IInv, BusyInv
  <2>. QED
    BY <2>4, <2>5
<1>7. CASE ended' = "handled" /\ UNCHANGED frames
  <2>1. LockInv' /\ FramesInv'
    BY <1>4, <1>7, StaticsKept DEF Writes
  <2>2. HandlerFound' /\ RefusedByAll'
    BY <1>7 DEF HandlerFound, RefusedByAll
  <2>3. CallTypes' /\ BusyInv'
    BY <1>6, <1>7 DEF IInv, TypeInv, CallTypes
  <2>. QED
    BY <1>3, <1>5, <2>1, <2>2, <2>3, ObjectsKept DEF IInv, TypeInv
<1>8. CASE /\ UNCHANGED ended
           /\ Step(t, [f EXCEPT !.at = IF f.kind = "write" THEN "update" ELSE "declined"])
  <2> DEFINE a == IF f.kind = "write" THEN "update" ELSE "declined"
  <2>1. /\ frames' = [frames EXCEPT ![t] = Append(Front(frames[t]), [f EXCEPT !.at = a])]
    BY <1>8 DEF Step
  <2>2. /\ a \in {"wait", "declined", "update"}
        /\ IF f.kind = "write" THEN a # "declined" ELSE a # "update"
    OBVIOUS
  <2> HIDE DEF a, f
  <2>3. /\ CallTypes' /\ LockInv' /\ FramesInv'
        /\ \A u \in Threads \ {t} : frames'[u] = frames[u]
    BY <1>1, <1>4, <2>1, <2>2, CallGoesOn
  <2>. QED
    BY <1>3, <1>5, <1>6, <1>8, <2>3, ObjectsKept, StillRunning DEF IInv, TypeInv
<1>. QED
  BY <1>7, <1>8 DEF finished

\* The thread of an object begins to write, or ends with the object, and says when it has
\* written.
LEMMA workerSteps ==
  ASSUME IInv, NEW h \in Handlers, workerStep(h)
  PROVE  IInv'
<1> USE Zenon
<1>1. UNCHANGED <<object, statics, frames, busy, request, raced, ended>> /\ Running
  BY DEF workerStep, ExceptionHandlerThreadMain, WriteMinidumpWithException
<1>2. UNCHANGED life
  BY <1>1 DEF object
<1>3. LockInv' /\ FramesInv'
  BY <1>1, <1>2, StaticsKept DEF Writes
<1>4. CallTypes' /\ WorkTypes'
  <2>1. CallTypes'
    BY <1>1 DEF IInv, TypeInv, CallTypes
  <2>2. CASE ExceptionHandlerThreadMain(h)
    BY SMT, <1>1, <2>1, <2>2 DEF IInv, TypeInv, WorkTypes, ExceptionHandlerThreadMain
  <2>3. CASE WriteMinidumpWithException(h)
    BY SMT, <1>1, <2>1, <2>3 DEF IInv, TypeInv, WorkTypes, WriteMinidumpWithException
  <2>. QED
    BY <2>2, <2>3 DEF workerStep
<1>5. BusyInv'
  <2>1. CASE ExceptionHandlerThreadMain(h)
    BY SMTT(20), <1>1, <1>2, <2>1 DEF IInv, TypeInv, WorkTypes, BusyInv,
       ExceptionHandlerThreadMain
  <2>2. CASE WriteMinidumpWithException(h)
    BY SMT, <1>1, <1>2, <2>2 DEF IInv, TypeInv, WorkTypes, BusyInv,
       WriteMinidumpWithException
  <2>. QED
    BY <2>1, <2>2 DEF workerStep
<1>. QED
  BY <1>1, <1>3, <1>4, <1>5, ObjectsKept, StillRunning DEF IInv, TypeInv

-----------------------------------------------------------------------------
(* The invariant and the property.                                         *)

\* Before an object is created nothing is registered and no thread is in a call.
LEMMA InitInv ==
  ASSUME Init
  PROVE  IInv
<1> USE Zenon
<1>1. <<>> \in Seq(Calls)
  BY SMT
<1>2. <<>> \in Seq(Handlers) /\ Len(<<>>) = 0 /\ DOMAIN <<>> = {}
  BY SMT
<1>3. TypeInv
  <2>1. ObjectTypes
    BY DEF Init, ObjectTypes
  <2>2. StackTypes
    BY <1>2 DEF Init, StackTypes
  <2>3. CallTypes
    BY <1>1 DEF Init, CallTypes
  <2>4. WorkTypes
    BY SMT DEF Init, WorkTypes
  <2>. QED
    BY <2>1, <2>2, <2>3, <2>4 DEF TypeInv
<1>4. LifeInv /\ StackInv /\ RegisteredInv
  BY SMT, <1>2 DEF Init, LifeInv, Moving, StackInv, RegisteredInv
<1>5. \A t \in Threads : frames[t] = <<>>
  BY DEF Init
<1>6. LockInv /\ FramesInv
  BY <1>5 DEF Init, LockInv, Entered, FramesInv
<1>7. BusyInv
  BY SMT DEF Init, BusyInv
<1>8. HandlerFound /\ RefusedByAll
  BY DEF Init, HandlerFound, RefusedByAll
<1>. QED
  BY <1>3, <1>4, <1>6, <1>7, <1>8 DEF IInv

\* Every step of the threads, of the owner and of the objects' threads keeps it.
LEMMA NextInv ==
  ASSUME AllOrNothing, IInv, [Next]_vars
  PROVE  IInv'
<1> USE Zenon
<1>1. ASSUME NEW h \in Handlers,
             \/ Initialize(h) \/ destroy(h) \/ Install(h) \/ Uninstall(h)
             \/ stopThread(h) \/ threadStopped(h)
      PROVE  IInv'
  BY <1>1, InitializeStep, destroyStep, InstallStep, UninstallStep, GoneStep
<1>2. ASSUME NEW t \in Threads, NEW kind \in Kinds, fails(t, kind)
      PROVE  IInv'
  BY <1>2, failsStep
<1>3. ASSUME NEW t \in App, NEW h \in Handlers, WriteMinidump(t, h)
      PROVE  IInv'
  BY <1>3, WriteMinidumpStep DEF Threads
<1>4. ASSUME NEW t \in Threads, threadStep(t)
      PROVE  IInv'
  <2>1. "exception" \in Kinds /\ "purecall" \in Kinds
    BY DEF Kinds
  <2>2. CASE HandleException(t) \/ HandlePureVirtualCall(t)
    BY <2>1, <2>2, PassOnStep DEF HandleException, HandlePureVirtualCall
  <2>3. CASE AutoExceptionHandler(t) \/ continues(t) \/ ignores(t) \/ RequestDump(t)
    BY <2>3, AutoExceptionHandlerStep, continuesStep, ignoresStep, RequestDumpStep
  <2>4. CASE WriteMinidumpOnHandlerThread(t) \/ finished(t) \/ UpdateNextID(t)
    BY <2>4, WriteMinidumpOnHandlerThreadStep, finishedStep, UpdateNextIDStep
  <2>. QED
    BY <1>4, <2>2, <2>3, <2>4 DEF threadStep
<1>5. ASSUME NEW h \in Handlers, workerStep(h)
      PROVE  IInv'
  BY <1>5, workerSteps
<1>6. ASSUME UNCHANGED vars
      PROVE  IInv'
  <2>1. UNCHANGED <<object, statics, frames, work, raced, ended>>
    BY <1>6 DEF vars
  <2>2. ended' = "broken" => raced
    BY <2>1 DEF IInv, HandlerFound
  <2>3. RefusedByAll'
    BY <2>1 DEF IInv, RefusedByAll, At, Top, statics
  <2>. QED
    BY <2>1, <2>2, <2>3, ProcessEnds
<1>. QED
  BY <1>1, <1>2, <1>3, <1>4, <1>5, <1>6 DEF Next, program, ownerStep

\* What is claimed of the handlers follows from it.
LEMMA InvHandlersInTurn ==
  ASSUME IInv
  PROVE  HandlersInTurn
<1> USE Zenon
<1>1. WrittenForRequester
  <2> SUFFICES ASSUME NEW h \in Handlers, worker[h] = "writing"
               PROVE  /\ busy[h] \in Threads /\ request[h] = busy[h]
                      /\ \E i \in DOMAIN frames[busy[h]] :
                           frames[busy[h]][i].h = h /\ frames[busy[h]][i].at = "wait"
    BY DEF WrittenForRequester
  <2>1. busy[h] # None /\ busy[h] \in Threads
    BY DEF IInv, TypeInv, WorkTypes, BusyInv
  <2>2. /\ request[h] = busy[h] /\ frames[busy[h]] # <<>>
        /\ frames[busy[h]][Len(frames[busy[h]])].at = "wait"
        /\ frames[busy[h]][Len(frames[busy[h]])].h = h
    BY <2>1 DEF IInv, BusyInv
  <2>3. Len(frames[busy[h]]) \in DOMAIN frames[busy[h]]
    BY SMT, <2>1, <2>2 DEF IInv, TypeInv, CallTypes
  <2>. QED
    BY <2>1, <2>2, <2>3
<1>2. UninstalledWhenEmpty
  <2> SUFFICES ASSUME stack = <<>>, NEW k \in Kinds PROVE registered[k] = "system"
    BY DEF UninstalledWhenEmpty
  <2>1. index \in Nat /\ registered[k] \in {"system", "breakpad"} /\ Len(stack) = 0
    BY DEF IInv, TypeInv, StackTypes
  <2>. QED
    BY SMT, <2>1 DEF IInv, RegisteredInv
<1>. QED
  BY <1>1, <1>2 DEF IInv, HandlersInTurn

\* For objects that install all handlers or none, and any number of them and of threads:
\* HandleException() finds its object, the objects are asked in turn, a minidump is written
\* for the thread that waits, and the handlers of the system return with the last object.
THEOREM HandlersInTurnHolds == AllOrNothing => (Spec => []HandlersInTurn)
<1> SUFFICES ASSUME AllOrNothing PROVE Spec => []HandlersInTurn
  OBVIOUS
<1>1. Init => IInv
  BY InitInv
<1>2. IInv /\ [Next]_vars => IInv'
  BY NextInv
<1>3. IInv => HandlersInTurn
  BY InvHandlersInTurn
<1>. QED
  BY <1>1, <1>2, <1>3, PTL DEF Spec
====
