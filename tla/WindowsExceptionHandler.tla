---------------------- MODULE WindowsExceptionHandler ----------------------
(***************************************************************************)
(* libbreakpad: client/windows/handler/exception_handler.cc.               *)
(*                                                                         *)
(* Several ExceptionHandler objects share one stack, one index into it and *)
(* the handlers of the process: the unhandled exception filter and the     *)
(* handler of pure virtual calls (that of invalid parameters is treated by *)
(* the code as the latter).  Each object has a thread that writes its      *)
(* minidumps.  Threads fail or ask for minidumps while one thread, the     *)
(* owner, creates objects and destroys them, cleanly nested.               *)
(***************************************************************************)
EXTENDS Integers, Sequences, FiniteSets

CONSTANTS
  App,           \* threads of the program
  Handlers,      \* ExceptionHandler objects; also the names of their threads
  Setups,        \* what they may be: functions from Handlers to records with
                 \* types, a subset of Kinds, and remote (IsOutOfProcess())
  MaxIncidents,  \* bound: failures and calls of WriteMinidump()
  None

Kinds == {"exception", "purecall"}
Threads == App \cup Handlers

ASSUME HandlersAssumption ==
  /\ App \cap Handlers = {} /\ None \notin Threads
  /\ Setups \subseteq [Handlers -> [types : SUBSET Kinds, remote : BOOLEAN]]

VARIABLES
  setup,       \* handler_types_ and crash_generation_client_ of each object
  terminates,  \* build: BREAKPAD_NO_TERMINATE_THREAD is not defined
  life,        \* where each object is in its life
  registered,  \* for each kind, "system" or "breakpad"
  previous,    \* previous_filter_ and previous_pch_
  stack,       \* handler_stack_
  index,       \* handler_stack_index_
  owner,       \* of handler_stack_critical_section_, which is recursive
  depth,
  frames,      \* for each thread, the calls of HandleException() and so on
  worker,      \* the thread of each object
  start,       \* handler_start_semaphore_
  finish,      \* handler_finish_semaphore_
  busy,        \* owner of handler_critical_section_
  request,     \* requesting_thread_id_
  status,      \* handler_return_value_
  used,        \* is there a file at next_minidump_path_?
  raced,       \* an object has gone while a thread was about to look for it
  incidents,
  ended        \* how the process ended: "no" | "handled" | "unhandled" |
               \* "default" (no handler) | "broken" (handler_stack_ has none)

object == <<setup, terminates, life>>
statics == <<registered, previous, stack, index, owner, depth>>
work == <<worker, start, finish, busy, request, status, used>>
vars == <<object, statics, frames, work, raced, incidents, ended>>

Running == ended = "no"

Frame(h, kind, at) == [h |-> h, kind |-> kind, at |-> at]

\* (Here and not from SequencesExt, to keep what the proofs rest on small.)
Last(s) == s[Len(s)]
Front(s) == SubSeq(s, 1, Len(s) - 1)

Top(t) == Last(frames[t])

At(t, at) == frames[t] # <<>> /\ Top(t).at = at

\* The top frame of thread t goes on, and returns.
Step(t, f) == frames' = [frames EXCEPT ![t] = Append(Front(@), f)]
Pop(t) == frames' = [frames EXCEPT ![t] = Front(@)]

Init ==
  /\ setup \in Setups /\ terminates \in BOOLEAN
  /\ life = [h \in Handlers |-> "none"]
  /\ registered = [k \in Kinds |-> "system"]
  /\ previous = [h \in Handlers |-> [k \in Kinds |-> "system"]]
  /\ stack = <<>> /\ index = 0 /\ owner = None /\ depth = 0
  /\ frames = [t \in Threads |-> <<>>]
  /\ worker = [h \in Handlers |-> "none"]
  /\ start = [h \in Handlers |-> 0] /\ finish = [h \in Handlers |-> 0]
  /\ busy = [h \in Handlers |-> None] /\ request = [h \in Handlers |-> None]
  /\ status = [h \in Handlers |-> FALSE] /\ used = [h \in Handlers |-> FALSE]
  /\ raced = FALSE /\ incidents = 0 /\ ended = "no"

----------------------------------------------------------------------------
(* The life of the objects.                                                *)

NoneMoves == \A h \in Handlers : life[h] \in {"none", "live", "gone"}

\* Initialize(), up to the thread.
Initialize(h) ==
  /\ Running /\ NoneMoves /\ life[h] = "none"
  /\ life' = [life EXCEPT ![h] = "initialized"]
  /\ worker' = [worker EXCEPT ![h] = IF setup[h].remote THEN "none" ELSE "idle"]
  /\ UNCHANGED <<setup, terminates, statics, frames, start, finish, busy,
                 request, status, used, raced, incidents, ended>>

\* ... and from EnterCriticalSection() on.
Install(h) ==
  /\ Running /\ life[h] = "initialized"
  /\ life' = [life EXCEPT ![h] = "live"]
  /\ LET types == setup[h].types IN
       IF types = {} THEN UNCHANGED <<stack, previous, registered>>
       ELSE /\ owner = None
            /\ stack' = Append(stack, h)
            /\ previous' = [previous EXCEPT ![h] =
                 [k \in Kinds |-> IF k \in types THEN registered[k]
                                  ELSE "system"]]
            /\ registered' = [k \in Kinds |-> IF k \in types THEN "breakpad"
                                              ELSE registered[k]]
  /\ UNCHANGED <<setup, terminates, index, owner, depth, frames, work, raced,
                 incidents, ended>>

\* ~ExceptionHandler(), first FreeLibrary().  No thread is in WriteMinidump()
\* of an object that is destroyed.
destroy(h) ==
  /\ Running /\ NoneMoves /\ life[h] = "live"
  /\ setup[h].types # {} => Last(stack) = h
  /\ \A t \in Threads : \A i \in DOMAIN frames[t] :
       frames[t][i].h = h => frames[t][i].kind # "write"
  /\ life' = [life EXCEPT ![h] = "destroying"]
  /\ UNCHANGED <<setup, terminates, statics, frames, work, raced, incidents,
                 ended>>

Uninstall(h) ==
  /\ Running /\ life[h] = "destroying"
  /\ life' = [life EXCEPT ![h] = "uninstalled"]
  /\ LET types == setup[h].types IN
       IF types = {} THEN UNCHANGED <<stack, registered, raced>>
       ELSE /\ owner = None
            /\ stack' = Front(stack)
            /\ registered' = [k \in Kinds |-> IF k \in types
                                              THEN previous[h][k]
                                              ELSE registered[k]]
            /\ raced' = (raced \/ \E t \in Threads : At(t, "enter"))
  /\ UNCHANGED <<setup, terminates, previous, index, owner, depth, frames, work,
                 incidents, ended>>

\* (mutant) The thread is not woken up to end.
stopThreadNoToken(h) ==
  /\ Running /\ life[h] = "uninstalled"
  /\ IF setup[h].remote \/ terminates
     THEN /\ worker' = [worker EXCEPT ![h] = IF setup[h].remote THEN @
                                             ELSE "dead"]
          /\ life' = [life EXCEPT ![h] = "gone"]
          /\ UNCHANGED start
     ELSE /\ life' = [life EXCEPT ![h] = "shutdown"]
          /\ UNCHANGED start
          /\ UNCHANGED worker
  /\ UNCHANGED <<setup, terminates, statics, frames, finish, busy, request,
                 status, used, raced, incidents, ended>>

\* The thread is terminated, or asked to go.
stopThread(h) ==
  /\ Running /\ life[h] = "uninstalled"
  /\ IF setup[h].remote \/ terminates
     THEN /\ worker' = [worker EXCEPT ![h] = IF setup[h].remote THEN @
                                             ELSE "dead"]
          /\ life' = [life EXCEPT ![h] = "gone"]
          /\ UNCHANGED start
     ELSE /\ life' = [life EXCEPT ![h] = "shutdown"]
          /\ start' = [start EXCEPT ![h] = 1]
          /\ UNCHANGED worker
  /\ UNCHANGED <<setup, terminates, statics, frames, finish, busy, request,
                 status, used, raced, incidents, ended>>

\* (An idle thread wakes up well within the minute it is given.)
threadStopped(h) ==
  /\ Running /\ life[h] = "shutdown" /\ worker[h] = "dead"
  /\ life' = [life EXCEPT ![h] = "gone"]
  /\ UNCHANGED <<setup, terminates, statics, frames, work, raced, incidents,
                 ended>>

ownerStep ==
  \E h \in Handlers :
    Install(h) \/ Uninstall(h) \/ stopThread(h) \/ threadStopped(h)

----------------------------------------------------------------------------
(* HandleException(), HandlePureVirtualCall() and WriteMinidump().         *)

End(how) == ended' = how /\ UNCHANGED <<object, statics, work, raced, incidents>>

\* The system calls what is registered for this kind of failure.
Deliver(t, kind) ==
  IF registered[kind] = "system" THEN End("default") /\ UNCHANGED frames
  ELSE /\ frames' = [frames EXCEPT ![t] = Append(@, Frame(None, kind, "enter"))]
       /\ UNCHANGED <<object, statics, work, raced, ended>>

\* A thread of the program fails, or a callback on the thread of an object.
fails(t, kind) ==
  /\ Running /\ incidents < MaxIncidents /\ frames[t] = <<>>
  /\ t \in Handlers => worker[t] = "writing"
  /\ IF registered[kind] = "system" THEN UNCHANGED incidents
     ELSE incidents' = incidents + 1
  /\ Deliver(t, kind)

WriteMinidump(t, h) ==
  /\ Running /\ incidents < MaxIncidents /\ frames[t] = <<>> /\ life[h] = "live"
  /\ incidents' = incidents + 1
  /\ frames' = [frames EXCEPT ![t] = <<Frame(h, "write", "ask")>>]
  /\ UNCHANGED <<object, statics, work, raced, ended>>

\* AutoExceptionHandler(): at() throws when there is no such element, and
\* handler_stack_ is NULL when there is none at all.
AutoExceptionHandler(t) ==
  /\ Running /\ At(t, "enter")
  /\ owner \in {None, t}
  /\ IF index >= Len(stack) THEN End("broken") /\ UNCHANGED frames
     ELSE LET h == stack[Len(stack) - index] IN
          /\ owner' = t /\ depth' = depth + 1
          /\ index' = index + 1
          /\ registered' = previous[h]
          /\ Step(t, Frame(h, Top(t).kind, "ask"))
          /\ UNCHANGED <<object, previous, stack, work, raced, incidents, ended>>

\* (mutant) handler_stack_index_ is not decremented.
LeaveHandlerKeepsIndex(t) ==
  /\ registered' = [k \in Kinds |-> "breakpad"]
  /\ index' = index
  /\ depth' = depth - 1
  /\ owner' = IF depth = 1 THEN None ELSE t

\* ~AutoExceptionHandler().
LeaveHandler(t) ==
  /\ registered' = [k \in Kinds |-> "breakpad"]
  /\ index' = index - 1
  /\ depth' = depth - 1
  /\ owner' = IF depth = 1 THEN None ELSE t

\* An invalid handle is consumed, and the program goes on: from here, or from
\* the frame of a handler that had passed it on.
continues(t) ==
  /\ Running /\ frames[t] # <<>> /\ Top(t).kind = "exception"
  /\ Top(t).at \in {"ask", "continue"}
  /\ LeaveHandler(t)
  /\ frames' = [frames EXCEPT ![t] =
       LET outer == Front(@) IN
       IF outer = <<>> THEN outer
       ELSE Append(Front(outer), [Last(outer) EXCEPT !.at = "continue"])]
  /\ UNCHANGED <<object, previous, stack, work, raced, incidents, ended>>

\* An exception for the debugger is not the handler's.
ignores(t) ==
  /\ Running /\ At(t, "ask") /\ Top(t).kind = "exception"
  /\ Step(t, [Top(t) EXCEPT !.at = "declined"])
  /\ UNCHANGED <<object, statics, work, raced, incidents, ended>>

\* Out of process: filter_, RequestDump() and callback_ on this thread.
RequestDump(t) ==
  /\ Running /\ At(t, "ask") /\ setup[Top(t).h].remote
  /\ IF Top(t).kind = "write" THEN Pop(t) /\ UNCHANGED ended
     ELSE \/ ended' = "handled" /\ UNCHANGED frames
          \/ Step(t, [Top(t) EXCEPT !.at = "declined"]) /\ UNCHANGED ended
  /\ UNCHANGED <<object, statics, work, raced, incidents>>

WriteMinidumpOnHandlerThread(t) ==
  /\ Running /\ At(t, "ask")
  /\ LET h == Top(t).h IN
     /\ ~setup[h].remote /\ busy[h] = None
     /\ busy' = [busy EXCEPT ![h] = t]
     /\ request' = [request EXCEPT ![h] = t]
     /\ start' = [start EXCEPT ![h] = 1]
  /\ Step(t, [Top(t) EXCEPT !.at = "wait"])
  /\ UNCHANGED <<object, statics, worker, finish, status, used, raced,
                 incidents, ended>>

\* The thread of the object has finished.  A failure that was handled ends the
\* process; one that was not goes to the previous handler.
finished(t) ==
  /\ Running /\ At(t, "wait")
  /\ LET h == Top(t).h IN
     /\ finish[h] = 1
     /\ finish' = [finish EXCEPT ![h] = 0]
     /\ request' = [request EXCEPT ![h] = None]
     /\ busy' = [busy EXCEPT ![h] = None]
     /\ IF Top(t).kind # "write" /\ status[h]
        THEN ended' = "handled" /\ UNCHANGED frames
        ELSE /\ Step(t, [Top(t) EXCEPT !.at =
                     IF Top(t).kind = "write" THEN "update" ELSE "declined"])
             /\ UNCHANGED ended
  /\ UNCHANGED <<object, statics, worker, start, status, used, raced, incidents>>

\* To the previous handler of this kind, or back to the system.
PassOn(t, kind) ==
  /\ Running /\ At(t, "declined") /\ Top(t).kind = kind
  /\ IF previous[Top(t).h][kind] = "system"
     THEN End("unhandled") /\ UNCHANGED frames
     ELSE /\ frames' = [frames EXCEPT ![t] = Append(@, Frame(None, kind, "enter"))]
          /\ UNCHANGED <<object, statics, work, raced, incidents, ended>>

\* The end of HandleException(), ...
HandleException(t) == PassOn(t, "exception")

\* ... and of the other two handlers.
HandlePureVirtualCall(t) == PassOn(t, "purecall")

\* WriteMinidumpForException() ends with a new name for the next file.
UpdateNextID(t) ==
  /\ Running /\ At(t, "update")
  /\ used' = [used EXCEPT ![Top(t).h] = FALSE]
  /\ Pop(t)
  /\ UNCHANGED <<object, statics, worker, start, finish, busy, request, status,
                 raced, incidents, ended>>

threadStep(t) ==
  \/ AutoExceptionHandler(t) \/ continues(t) \/ ignores(t) \/ RequestDump(t)
  \/ WriteMinidumpOnHandlerThread(t) \/ finished(t) \/ HandleException(t)
  \/ HandlePureVirtualCall(t)
  \/ UpdateNextID(t)

----------------------------------------------------------------------------
(* ExceptionHandlerThreadMain().                                           *)

ExceptionHandlerThreadMain(h) ==
  /\ Running /\ worker[h] = "idle" /\ start[h] = 1
  /\ start' = [start EXCEPT ![h] = 0]
  /\ worker' = [worker EXCEPT ![h] =
       IF life[h] = "shutdown" THEN "dead" ELSE "writing"]
  /\ UNCHANGED <<object, statics, frames, finish, busy, request, status, used,
                 raced, incidents, ended>>

\* WriteMinidumpWithException(): filter_ declines, or a file is created if
\* there is none of that name, and what callback_ returns is the result.
WriteMinidumpWithException(h) ==
  /\ Running /\ worker[h] = "writing" /\ frames[h] = <<>>
  /\ \/ UNCHANGED used /\ status' = [status EXCEPT ![h] = FALSE]
     \/ /\ used' = [used EXCEPT ![h] = TRUE]
        /\ \E b \in BOOLEAN : status' = [status EXCEPT ![h] = b]
  /\ finish' = [finish EXCEPT ![h] = 1]
  /\ worker' = [worker EXCEPT ![h] = "idle"]
  /\ UNCHANGED <<object, statics, frames, start, busy, request, raced,
                 incidents, ended>>

workerStep(h) ==
  ExceptionHandlerThreadMain(h) \/ WriteMinidumpWithException(h)

program ==
  \/ \E h \in Handlers : Initialize(h) \/ destroy(h)
  \/ \E t \in Threads, kind \in Kinds : fails(t, kind)
  \/ \E t \in App, h \in Handlers : WriteMinidump(t, h)

Next ==
  \/ program \/ ownerStep
  \/ \E t \in Threads : threadStep(t)
  \/ \E h \in Handlers : workerStep(h)

Spec == Init /\ [][Next]_vars

\* Threads run on while the process lives; nothing has to be created,
\* destroyed, called or to fail.
Fairness ==
  /\ WF_vars(ownerStep)
  /\ \A t \in Threads : WF_vars(threadStep(t))
  /\ \A h \in Handlers : WF_vars(workerStep(h))

FairSpec == Spec /\ Fairness

----------------------------------------------------------------------------
(* Properties.                                                             *)

\* The state of the objects and of their stack: an object is at most once in
\* it, the index stays within it, and the semaphores hold one token at most.
TypeOK ==
  /\ life \in [Handlers -> {"none", "initialized", "live", "destroying",
                            "uninstalled", "shutdown", "gone"}]
  /\ registered \in [Kinds -> {"system", "breakpad"}]
  /\ stack \in Seq(Handlers)
  /\ \A i, j \in DOMAIN stack : stack[i] = stack[j] => i = j
  /\ index \in 0..Cardinality(Handlers)
  /\ owner \in Threads \cup {None} /\ (owner = None <=> depth = 0)
  /\ worker \in [Handlers -> {"none", "idle", "writing", "dead"}]
  /\ start \in [Handlers -> 0..1] /\ finish \in [Handlers -> 0..1]
  /\ ended \in {"no", "handled", "unhandled", "default", "broken"}

\* HandleException() always finds an object for the failure it is called for:
\* however failures, refusals and nested handlers follow each other the index
\* does not run past the stack, unless an object is destroyed between the call
\* and EnterCriticalSection().
HandlerFound == ended = "broken" => raced

\* A failure that every handler refuses has been offered to each of them once,
\* the last one created first, before the system gets it.
RefusedByAll ==
  ended = "unhandled" /\ ~raced =>
    \E t \in Threads :
      /\ At(t, "declined")
      /\ Len(frames[t]) = Len(stack)
      /\ \A i \in DOMAIN stack : frames[t][i].h = stack[Len(stack) - i + 1]

\* The thread that writes a minidump writes it for the thread that holds
\* handler_critical_section_ and waits, and finds its id in
\* requesting_thread_id_.
WrittenForRequester ==
  \A h \in Handlers :
    worker[h] = "writing" /\ life[h] = "live" =>
      /\ busy[h] \in Threads /\ request[h] = busy[h]
      /\ \E i \in DOMAIN frames[busy[h]] :
           frames[busy[h]][i].h = h /\ frames[busy[h]][i].at = "wait"

\* With the last object gone no handler of Breakpad is registered any more.
UninstalledWhenEmpty ==
  stack = <<>> /\ owner = None /\ ~raced =>
    \A k \in Kinds : registered[k] = "system"

Stuck == \E h \in Handlers : frames[h] # <<>>

\* WriteMinidump() and the handling of a failure come to an end, whatever other
\* threads ask for at the same time, as long as no callback on the thread of
\* an object fails (DeliveredWhileHandling).
CallsReturn ==
  (\E t \in App : frames[t] # <<>>)
    ~> (ended # "no" \/ Stuck \/ \A t \in App : frames[t] = <<>>)

\* The destructor returns: it waits for a failure that is being handled, and
\* the thread of the object comes when asked to go.
DestructorReturns ==
  (\E h \in Handlers : life[h] \in {"destroying", "uninstalled", "shutdown"})
    ~> (ended # "no" \/ Stuck \/ NoneMoves)

\* The stack of handlers: a failure finds its object, is offered to all of them
\* in turn, is written for the thread that met it, and with the last object
\* the handlers of the system return.
HandlersInTurn ==
  HandlerFound /\ RefusedByAll /\ WrittenForRequester /\ UninstalledWhenEmpty

\* Handling a failure, WriteMinidump() and the destructor come to an end.
HandlerCallsReturn == CallsReturn /\ DestructorReturns

----------------------------------------------------------------------------
(* What the repository says.                                               *)

\* "(either because this handler declines to handle the exception, or an
\* exception occurs during handling), HandleException will find the
\* appropriate ExceptionHandler object in handler_stack_ to deliver the
\* exception to." (exception_handler.cc, AutoExceptionHandler)
DeliveredWhileHandling == Stuck ~> ended # "no"

\* "HandlerType specifies which types of handlers should be installed"
\* (exception_handler.h): a failure goes to an object that asked for its kind.
TypesRespected ==
  \A t \in Threads : \A i \in DOMAIN frames[t] :
    frames[t][i].h \in Handlers /\ frames[t][i].kind \in Kinds =>
      frames[t][i].kind \in setup[frames[t][i].h].types

\* "Put things back the way they were before entering this handler."
\* (exception_handler.cc, ~AutoExceptionHandler): with one object and no
\* failure at hand, what it did not install is not registered.
PutBack ==
  index = 0 /\ Len(stack) = 1 =>
    \A k \in Kinds \ setup[stack[1]].types : registered[k] = "system"

\* "To have the exception handler write minidumps when an uncaught exception
\* (crash) occurs, you should create an instance early" (exception_handler.h):
\* the name of the file is free when the handling of a failure starts.
PathFreeForException ==
  \A t \in Threads : At(t, "wait") /\ Top(t).kind # "write"
                     /\ worker[Top(t).h] = "idle" /\ start[Top(t).h] = 1
                       => ~used[Top(t).h]
============================================================================
