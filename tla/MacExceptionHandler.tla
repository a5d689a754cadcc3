------------------------ MODULE MacExceptionHandler ------------------------
(***************************************************************************)
(* libbreakpad: client/mac/handler/exception_handler.cc.                   *)
(*                                                                         *)
(* One ExceptionHandler: the thread it starts, which waits on a Mach port  *)
(* for exceptions, for dump requests of WriteMinidump() and for the end;   *)
(* the threads of the program, which crash, abort, ask for dumps, start    *)
(* and end; and the owner, which constructs and destroys the object while  *)
(* all that goes on.  A thread stops wherever thread_suspend() meets it.   *)
(***************************************************************************)
EXTENDS Integers, Sequences, FiniteSets

CONSTANTS
  Threads,     \* threads of the program
  Owner,       \* the one that constructs and destroys the handler
  Starts,      \* the threads there may be at first, oldest first
  Handler,     \* the handler thread
  Builds,      \* how the handler is constructed, see Init
  QueueLimit,  \* messages a Mach port holds (MACH_PORT_QLIMIT_DEFAULT)
  MaxCalls,    \* bound: calls of WriteMinidump()
  MaxEvents,   \* bound: crashes, aborts and crashes of a forked child
  MaxTogether  \* bound: calls, events and kinds of failures together

\* The handler thread is none of the program's, and a thread is listed once by
\* task_threads(), at first in any order.
ASSUME ThreadsAssumption ==
  /\ Owner \in Threads /\ Handler \notin Threads
  /\ \A s \in Starts :
       s \in Seq(Threads) /\ \A i, j \in DOMAIN s : s[i] = s[j] => i = j

VARIABLES
  build,      \* the constructor's arguments and the platform
  obj,        \* the object: "none" | "alive" | "freed"
  eh,         \* its fields
  gHandler,   \* gProtectedData.handler: "null" | "this" | "other"
  sigabrt,    \* the disposition of SIGABRT: "old" | "ours"
  ports,      \* the task's exception ports: "host" | "own"
  locked,     \* minidump_write_mutex_
  queue,      \* handler_port_'s messages
  pc,         \* of every thread
  result,     \* of the dump a thread writes
  live,       \* task_threads(), oldest first, without the handler thread
  suspended,  \* suspend count of each thread
  msg,        \* the message the handler thread works on
  list,       \* its copy of task_threads() and how far it is
  before,     \* suspend counts that resuming every thread once should leave
  failed,     \* which have failed: "list" (task_threads()), "restore"
  churn,      \* has a thread started or ended during some message's work?
  files,      \* minidump paths that exist
  calls,
  events,
  exited      \* the process has ended

object == <<obj, eh, locked>>
process == <<gHandler, sigabrt, ports, live, suspended, files, exited>>
handlerLocals == <<msg, list, before, failed>>
counts == <<calls, events>>
vars == <<build, obj, eh, gHandler, sigabrt, ports, locked, queue, pc, result,
          live, suspended, msg, list, before, failed, churn, files, calls,
          events, exited>>

All == Threads \cup {Handler}

Exception(t) == [id |-> "exception", thread |-> t, own |-> TRUE]

ChildException == [id |-> "exception", thread |-> Owner, own |-> FALSE]

Message(id, t) == [id |-> id, thread |-> t, own |-> TRUE]

NoMessage == Message("none", Owner)

IsExc == msg.id = "exception"

Init ==
  /\ build \in Builds
  /\ obj = "none"
  /\ eh = [mutex |-> FALSE, port |-> FALSE, previous |-> "null",
           installed |-> FALSE, old_handler |-> FALSE, use_mutex |-> FALSE,
           last |-> FALSE, path |-> 0]
  /\ gHandler = IF build.taken THEN "other" ELSE "null"
  /\ sigabrt = "old" /\ ports = "host"
  /\ locked = FALSE
  /\ queue = << >>
  /\ pc = [t \in All |-> IF t = Handler THEN "none" ELSE "idle"]
  /\ result = [t \in All |-> FALSE]
  /\ live \in Starts
  /\ suspended = [t \in Threads |-> 0]
  /\ msg = NoMessage
  /\ list = [threads |-> << >>, at |-> 1, whole |-> TRUE]
  /\ before = [t \in Threads |-> 0]
  /\ failed = {}
  /\ churn = FALSE
  /\ files = {}
  /\ calls = 0 /\ events = 0
  /\ exited = FALSE

Living == {live[i] : i \in DOMAIN live}

Running(t) ==
  ~exited /\ (t = Handler \/ (t \in Living /\ suspended[t] = 0))

At(t, place) == Running(t) /\ pc[t] = place

\* The bound on what comes from outside.
Room == calls + events + Cardinality(failed) < MaxTogether

Goto(t, place) == pc' = [pc EXCEPT ![t] = place]

Set(field, value) == eh' = [eh EXCEPT ![field] = value]

----------------------------------------------------------------------------
(* The constructor.                                                        *)

\* What Setup() leaves in the object: the mutex may fail to be made, and the
\* port to be allocated or given its send right, in which case nothing can be
\* sent to it.
Prepared == {[mutex |-> FALSE, port |-> FALSE], [mutex |-> TRUE, port |-> FALSE],
             [mutex |-> TRUE, port |-> TRUE]}

\* A Setup() that fails returns before the handler thread is created; the
\* constructor does not tell.
setup ==
  /\ At(Owner, "idle") /\ obj = "none"
  /\ obj' = "alive"
  /\ \E p \in Prepared, signalled \in BOOLEAN :
       /\ signalled => p.port /\ build.install /\ gHandler = "null"
                         /\ build.mode # "remote"
       /\ eh' = [eh EXCEPT !.mutex = p.mutex, !.port = p.port,
                           !.old_handler = signalled]
       /\ sigabrt' = IF signalled THEN "ours" ELSE sigabrt
       /\ Goto(Owner,
               IF ~p.port THEN "idle"
               ELSE IF ~build.install THEN "startThread"
               ELSE IF signalled THEN "installGlobal"
               ELSE IF gHandler = "null" /\ build.mode = "remote"
               THEN "installPorts" ELSE "idle")
  /\ UNCHANGED <<build, gHandler, ports, locked, queue, result, live,
                 suspended, handlerLocals, churn, files, counts, exited>>

installGlobal ==
  /\ At(Owner, "installGlobal")
  /\ gHandler' = "this"
  /\ Goto(Owner, "installPorts")
  /\ UNCHANGED <<build, object, sigabrt, ports, queue, result, live,
                 suspended, handlerLocals, churn, files, counts, exited>>

installPorts ==
  /\ At(Owner, "installPorts")
  /\ \/ /\ ports' = "own"
        /\ eh' = [eh EXCEPT !.previous = "here", !.installed = TRUE]
        /\ Goto(Owner, "startThread")
     \/ /\ \E p \in {"null", "here"} : Set("previous", p)
        /\ Goto(Owner, "idle")
        /\ UNCHANGED ports
  /\ UNCHANGED <<build, obj, gHandler, sigabrt, locked, queue, result, live,
                 suspended, handlerLocals, churn, files, counts, exited>>

\* When pthread_create() fails what is installed stays.
startThread ==
  /\ At(Owner, "startThread")
  /\ \E place \in {"none", "top"} :
       pc' = [pc EXCEPT ![Owner] = "idle", ![Handler] = place]
  /\ UNCHANGED <<build, object, process, queue, result, handlerLocals, churn,
                 counts>>

----------------------------------------------------------------------------
(* WriteMinidump(): the flag is read and set with nothing between but the  *)
(* scheduler, and the mutex is locked twice, unlocked by the other thread. *)

Calling(t) == pc[t] \in {"setUse", "lock", "send", "wait", "finish"}

\* The constructor has returned and the destructor is not called.
Usable ==
  /\ obj = "alive"
  /\ pc[Owner] \notin {"installGlobal", "installPorts", "startThread",
                      "uninstall", "restore", "clear", "shutdown", "nullPort",
                      "free"}

WriteMinidump(t) ==
  /\ At(t, "idle") /\ Usable /\ calls < MaxCalls /\ Room
  /\ calls' = calls + 1
  /\ ~eh.use_mutex
  /\ Goto(t, "setUse")
  /\ UNCHANGED <<build, object, process, queue, result, handlerLocals, churn,
                 events>>

\* "If we're currently writing, just return": the call leaves no trace.
refused(t) == At(t, "idle") /\ Usable /\ eh.use_mutex /\ UNCHANGED vars

setUse(t) ==
  /\ At(t, "setUse")
  /\ eh' = [eh EXCEPT !.use_mutex = TRUE, !.last = FALSE]
  /\ Goto(t, "lock")
  /\ UNCHANGED <<build, obj, locked, process, queue, result, handlerLocals,
                 churn, counts>>

\* A mutex that could not be made cannot be locked: the call is over.
lockFails(t) ==
  /\ At(t, "lock") /\ ~eh.mutex
  /\ eh' = [eh EXCEPT !.use_mutex = FALSE, !.path = @ + 1]
  /\ Goto(t, "idle")
  /\ UNCHANGED <<build, obj, locked, process, queue, result, handlerLocals,
                 churn, counts>>

lock(t) ==
  /\ At(t, "lock") /\ eh.mutex /\ ~locked
  /\ locked' = TRUE
  /\ Goto(t, "send")
  /\ UNCHANGED <<build, obj, eh, process, queue, result, handlerLocals, churn,
                 counts>>

\* The port does not wait for room: MACH_SEND_TIMEOUT with a timeout of 0.
SendMessageToHandlerThread(id, t) ==
  IF eh.port /\ Len(queue) < QueueLimit THEN Append(queue, Message(id, t))
  ELSE queue

send(t) ==
  /\ At(t, "send")
  /\ \E id \in {"write", "writeWithException"} :
       queue' = SendMessageToHandlerThread(id, t)
  /\ IF queue' # queue
     THEN Goto(t, "wait") /\ UNCHANGED locked
     ELSE Goto(t, "idle") /\ locked' = FALSE
  /\ UNCHANGED <<build, obj, eh, process, result, handlerLocals, churn,
                 counts>>

wait(t) ==
  /\ At(t, "wait") /\ ~locked
  /\ locked' = TRUE
  /\ Goto(t, "finish")
  /\ UNCHANGED <<build, obj, eh, process, queue, result, handlerLocals, churn,
                 counts>>

\* UpdateNextID() included.
finish(t) ==
  /\ At(t, "finish")
  /\ eh' = [eh EXCEPT !.use_mutex = FALSE, !.path = @ + 1]
  /\ Goto(t, "idle")
  /\ UNCHANGED <<build, obj, locked, process, queue, result, handlerLocals,
                 churn, counts>>

----------------------------------------------------------------------------
(* WriteMinidumpWithException(), by the handler thread and by a thread in  *)
(* SignalHandler().                                                        *)

\* Does the dump carry an exception, may it end the process?
WithException(t) == t # Handler \/ msg.id # "write"

exit_after_write(t) == (t # Handler \/ IsExc) /\ ~build.ios

\* The whole call returns r to its caller.
Returns(t, r) ==
  /\ result' = [result EXCEPT ![t] = r]
  /\ UNCHANGED exited
  /\ IF t # Handler THEN Goto(t, "abortReturns") /\ UNCHANGED eh
     ELSE IF IsExc THEN Goto(t, "uninstall") /\ UNCHANGED eh
     ELSE Goto(t, "resume") /\ Set("last", r)

\* The program's callback may claim the exception: _exit().
Claims(t, r) ==
  \/ /\ exit_after_write(t)
     /\ exited' = TRUE
     /\ UNCHANGED <<eh, pc, result>>
  \/ Returns(t, r)

\* The filter is asked about real exceptions only.
Refuses(t) == WithException(t) /\ Returns(t, FALSE) /\ UNCHANGED files

dump(t) ==
  /\ At(t, "dump")
  /\ \/ /\ build.mode = "direct"
        /\ Claims(t, FALSE)
        /\ UNCHANGED files
     \/ /\ build.mode = "remote"
        /\ \/ Refuses(t)
           \/ ~WithException(t) /\ Returns(t, FALSE) /\ UNCHANGED files
           \/ /\ WithException(t)
              /\ Goto(t, "request")
              /\ UNCHANGED <<eh, result, files, exited>>
     \/ /\ build.mode = "local"
        /\ \/ Refuses(t)
           \/ /\ IF eh.path \in files          \* O_EXCL
                 THEN Goto(t, "callback") /\ UNCHANGED files
                 ELSE Goto(t, "writing") /\ files' = files \cup {eh.path}
              /\ result' = [result EXCEPT ![t] = FALSE]
              /\ UNCHANGED <<eh, exited>>
  /\ UNCHANGED <<build, obj, locked, gHandler, sigabrt, ports, live,
                 suspended, queue, handlerLocals, churn, counts>>

RequestDumpForException(t) ==
  /\ At(t, "request")
  /\ \/ exit_after_write(t) /\ exited' = TRUE /\ UNCHANGED <<eh, pc, result>>
     \/ \E ok \in BOOLEAN : (ok => ~exit_after_write(t)) /\ Returns(t, ok)
  /\ UNCHANGED <<build, obj, locked, gHandler, sigabrt, ports, live,
                 suspended, files, queue, handlerLocals, churn, counts>>

\* MinidumpGenerator::Write() ends.
written(t) ==
  /\ At(t, "writing")
  /\ \E ok \in BOOLEAN : result' = [result EXCEPT ![t] = ok]
  /\ Goto(t, "callback")
  /\ UNCHANGED <<build, object, process, queue, handlerLocals, churn, counts>>

callback(t) ==
  /\ At(t, "callback")
  /\ Claims(t, result[t])
  /\ UNCHANGED <<build, obj, locked, gHandler, sigabrt, ports, live,
                 suspended, files, queue, handlerLocals, churn, counts>>

----------------------------------------------------------------------------
(* SuspendThreads() and ResumeThreads(): one thread at a time, until one   *)
(* of them fails.                                                          *)

enumerate(from, to) ==
  /\ At(Handler, from)
  /\ list' = [threads |-> live, at |-> 1, whole |-> from = "resume" => list.whole]
  /\ Goto(Handler, to)
  /\ before' = IF from = "suspend" THEN suspended ELSE before
  /\ UNCHANGED <<build, object, process, queue, result, msg, failed, churn,
                 counts>>

\* task_threads() fails: no thread is suspended, or resumed, and nobody looks at
\* the result.  list.whole remembers whether it worked both times.
enumerateFails(from, past) ==
  /\ At(Handler, from)
  /\ "list" \in failed \/ Room
  /\ failed' = failed \cup {"list"}
  /\ list' = [threads |-> << >>, at |-> 1, whole |-> FALSE]
  /\ Goto(Handler, past)
  /\ before' = IF from = "resume" THEN before
               ELSE [t \in Threads |-> IF suspended[t] = 0 THEN 0 ELSE suspended[t] - 1]
  /\ UNCHANGED <<build, object, process, queue, result, msg, churn, counts>>

Target == list.threads[list.at]

\* thread_suspend() fails on a thread that has ended.
SuspendThreads ==
  /\ At(Handler, "suspending")
  /\ IF list.at > Len(list.threads) \/ Target \notin Living
     THEN Goto(Handler, "dump") /\ UNCHANGED <<suspended, list>>
     ELSE /\ suspended' = [suspended EXCEPT ![Target] = @ + 1]
          /\ list' = [list EXCEPT !.at = @ + 1]
          /\ UNCHANGED pc
  /\ UNCHANGED <<build, object, gHandler, sigabrt, ports, live, files, exited,
                 queue, result, msg, before, failed, churn, counts>>

ResumeAllButLast ==
  /\ At(Handler, "resuming")
  /\ IF list.at >= Len(list.threads)
     THEN Goto(Handler, "unlock") /\ UNCHANGED <<suspended, list>>
     ELSE IF Target \notin Living \/ suspended[Target] = 0
     THEN Goto(Handler, "unlock") /\ UNCHANGED <<suspended, list>>
     ELSE /\ suspended' = [suspended EXCEPT ![Target] = @ - 1]
          /\ list' = [list EXCEPT !.at = @ + 1]
          /\ UNCHANGED pc
  /\ UNCHANGED <<build, object, gHandler, sigabrt, ports, live, files, exited,
                 queue, result, msg, before, failed, churn, counts>>

\* thread_resume() fails on one that has ended, or is not suspended.
ResumeThreads ==
  /\ At(Handler, "resuming")
  /\ IF list.at > Len(list.threads)
     THEN Goto(Handler, "unlock") /\ UNCHANGED <<suspended, list>>
     ELSE IF Target \notin Living \/ suspended[Target] = 0
     THEN Goto(Handler, "unlock") /\ UNCHANGED <<suspended, list>>
     ELSE /\ suspended' = [suspended EXCEPT ![Target] = @ - 1]
          /\ list' = [list EXCEPT !.at = @ + 1]
          /\ UNCHANGED pc
  /\ UNCHANGED <<build, object, gHandler, sigabrt, ports, live, files, exited,
                 queue, result, msg, before, failed, churn, counts>>

----------------------------------------------------------------------------
(* UninstallHandler(in_exception): by the handler thread in an exception,  *)
(* by the owner in the destructor.                                         *)

uninstallSignal(t) ==
  /\ At(t, "uninstall")
  /\ IF eh.old_handler
     THEN sigabrt' = "old" /\ gHandler' = "null" /\ Set("old_handler", FALSE)
     ELSE UNCHANGED <<sigabrt, gHandler, eh>>
  /\ Goto(t, IF eh.installed THEN "restore"
             ELSE IF t = Handler THEN "server" ELSE "shutdown")
  /\ UNCHANGED <<build, obj, locked, ports, live, suspended, files, exited,
                 queue, result, handlerLocals, churn, counts>>

restorePortsInDestructor(t) ==
  /\ At(t, "restore")
  /\ IF t # Handler THEN ports' = "host" /\ Set("previous", "freed")
     ELSE UNCHANGED <<ports, eh>>
  /\ Goto(t, "clear")
  /\ UNCHANGED <<build, obj, locked, gHandler, sigabrt, live, suspended,
                 files, exited, queue, result, handlerLocals, churn, counts>>

restorePorts(t) ==
  /\ At(t, "restore")
  /\ ports' = "host"
  /\ IF t # Handler THEN Set("previous", "freed") ELSE UNCHANGED eh
  /\ Goto(t, "clear")
  /\ UNCHANGED <<build, obj, locked, gHandler, sigabrt, live, suspended,
                 files, exited, queue, result, handlerLocals, churn, counts>>

\* A task_set_exception_ports() that fails ends the loop over the ports, with
\* the one the modelled exceptions go to put back or not; the handler thread
\* ignores it, Teardown() returns.
restoreFails(t) ==
  /\ At(t, "restore")
  /\ "restore" \in failed \/ Room
  /\ failed' = failed \cup {"restore"}
  /\ ports' \in {ports, "host"}
  /\ Goto(t, IF t = Handler THEN "server" ELSE "free")
  /\ UNCHANGED <<build, object, gHandler, sigabrt, live, suspended, files,
                 exited, queue, result, msg, list, before, churn, counts>>

clearPrevious(t) ==
  /\ At(t, "clear")
  /\ eh' = [eh EXCEPT !.previous = "null", !.installed = FALSE]
  /\ Goto(t, IF t = Handler THEN "server" ELSE "shutdown")
  /\ UNCHANGED <<build, obj, locked, process, queue, result, handlerLocals,
                 churn, counts>>

----------------------------------------------------------------------------
(* WaitForMessage(): the handler thread.                                   *)

\* The loop reads self->handler_port_; mach_msg() on MACH_PORT_NULL fails and
\* the loop turns for ever.  In a freed object it finds anything.
top ==
  /\ At(Handler, "top")
  /\ \/ eh.port /\ Goto(Handler, "receive")
     \/ (~eh.port \/ obj = "freed") /\ Goto(Handler, "spins")
  /\ UNCHANGED <<build, object, process, queue, result, handlerLocals, churn,
                 counts>>

receive ==
  /\ At(Handler, "receive") /\ queue # << >>
  /\ msg' = Head(queue)
  /\ queue' = Tail(queue)
  /\ Goto(Handler, IF msg'.id = "shutdown" THEN "gone"
                   ELSE IF msg'.own THEN "suspend" ELSE "server")
  /\ UNCHANGED <<build, object, process, result, list, before, failed, churn,
                 counts>>

unlock ==
  /\ At(Handler, "unlock")
  /\ locked' = IF eh.use_mutex THEN FALSE ELSE locked
  /\ msg' = NoMessage
  /\ Goto(Handler, "top")
  /\ UNCHANGED <<build, obj, eh, process, queue, result, list, before, failed,
                 churn, counts>>

\* A crash inside the generator, or in what a freed object is taken to hold: the
\* exception goes where every exception goes, and waits there for an answer.
dumpCrashes ==
  /\ \/ At(Handler, "writing")
     \/ obj = "freed" /\ (At(Handler, "dump") \/ At(Handler, "callback"))
  /\ events < MaxEvents /\ Room
  /\ events' = events + 1
  /\ IF ports = "own"
     THEN /\ queue' = Append(queue, Exception(Handler))
          /\ Goto(Handler, "raised")
          /\ UNCHANGED exited
     ELSE exited' = TRUE /\ UNCHANGED <<queue, pc>>
  /\ UNCHANGED <<build, object, gHandler, sigabrt, ports, live, suspended,
                 files, result, handlerLocals, churn, calls>>

serverNoReply ==
  /\ At(Handler, "server")
  /\ IF msg.own
     THEN /\ ports # "own"
          /\ Goto(Handler, "top") /\ msg' = NoMessage /\ UNCHANGED exited
     ELSE IF build.ios THEN exited' = TRUE /\ UNCHANGED <<pc, msg>>
     ELSE Goto(Handler, "top") /\ msg' = NoMessage /\ UNCHANGED exited
  /\ UNCHANGED <<build, object, gHandler, sigabrt, ports, live, suspended,
                 files, queue, result, list, before, failed, churn, counts>>

\* Nothing to forward to ends the process; the next handler, or an unknown
\* behaviour, decides the reply.
ForwardException == {"exit", "KERN_SUCCESS", "KERN_FAILURE"}

\* catch_exception_raise() leaves a child's exception to the host's handler;
\* on iOS the server refuses the message, and the loop calls exit().
breakpad_exc_server ==
  IF msg.own THEN ForwardException
  ELSE IF build.ios THEN {"exit"} ELSE {"KERN_FAILURE"}

\* An exception forwarded to our own port: exception_raise() waits for the
\* answer of the thread that calls it, which reads the port no more.
forwardsToItself ==
  /\ At(Handler, "server") /\ msg.own /\ ports = "own"
  /\ Goto(Handler, "itself")
  /\ UNCHANGED <<build, object, process, queue, result, handlerLocals, churn,
                 counts>>

\* The reply: on failure the kernel goes on to the host's handler, which ends
\* the task.
server ==
  /\ At(Handler, "server")
  /\ msg.own => ports # "own"
  /\ \E reply \in breakpad_exc_server :
       IF reply = "exit" \/ (msg.own /\ reply = "KERN_FAILURE")
       THEN exited' = TRUE /\ UNCHANGED <<pc, msg>>
       ELSE /\ pc' = [t \in All |-> IF t = Handler THEN "top"
                                     ELSE IF msg.own /\ t = msg.thread THEN "idle"
                                     ELSE pc[t]]
            /\ msg' = NoMessage
            /\ UNCHANGED exited
  /\ UNCHANGED <<build, object, gHandler, sigabrt, ports, live, suspended,
                 files, queue, result, list, before, failed, churn, counts>>

----------------------------------------------------------------------------
(* The destructor: Teardown().  The program does not destroy the handler   *)
(* while one of its threads is in WriteMinidump(); of the handler thread   *)
(* and of signals it cannot know.                                          *)

destroy ==
  /\ At(Owner, "idle") /\ obj = "alive"
  /\ \A t \in Threads : ~Calling(t)
  /\ Goto(Owner, "uninstall")
  /\ UNCHANGED <<build, object, process, queue, result, handlerLocals, churn,
                 counts>>

\* Without a port or room for the message Teardown() gives up; the object goes
\* anyway.
shutdown ==
  /\ At(Owner, "shutdown")
  /\ queue' = SendMessageToHandlerThread("shutdown", Owner)
  /\ Goto(Owner, IF queue' # queue THEN "nullPort" ELSE "free")
  /\ UNCHANGED <<build, object, process, result, handlerLocals, churn, counts>>

\* mach_port_deallocate() may fail: the port stays.
nullPort ==
  /\ At(Owner, "nullPort")
  /\ \E gone \in BOOLEAN : Set("port", ~gone)
  /\ Goto(Owner, "free")
  /\ UNCHANGED <<build, obj, locked, process, queue, result, handlerLocals,
                 churn, counts>>

free ==
  /\ At(Owner, "free")
  /\ obj' = "freed"
  /\ Goto(Owner, "idle")
  /\ UNCHANGED <<build, eh, locked, process, queue, result, handlerLocals,
                 churn, counts>>

----------------------------------------------------------------------------
(* The program.                                                            *)

crash(t) ==
  /\ At(t, "idle") /\ ports = "own" /\ events < MaxEvents /\ Room
  /\ events' = events + 1
  /\ queue' = Append(queue, Exception(t))
  /\ Goto(t, "raised")
  /\ UNCHANGED <<build, object, process, result, handlerLocals, churn, calls>>

\* A forked child has inherited the exception ports.
childCrashes ==
  /\ ports = "own" /\ ~exited /\ events < MaxEvents /\ Room
  /\ events' = events + 1
  /\ queue' = Append(queue, ChildException)
  /\ UNCHANGED <<build, object, process, pc, result, handlerLocals, churn,
                 calls>>

\* SIGABRT is delivered; SignalHandler() has yet to read the global.
abort(t) ==
  /\ At(t, "idle") /\ sigabrt = "ours" /\ events < MaxEvents /\ Room
  /\ events' = events + 1
  /\ Goto(t, "abort")
  /\ UNCHANGED <<build, object, process, queue, result, handlerLocals, churn,
                 calls>>

SignalHandler(t) ==
  /\ At(t, "abort")
  /\ IF gHandler = "this"
     THEN Goto(t, "dump") /\ UNCHANGED exited
     ELSE exited' = TRUE /\ UNCHANGED pc
  /\ UNCHANGED <<build, object, gHandler, sigabrt, ports, live, suspended,
                 files, queue, result, handlerLocals, churn, counts>>

\* abort() ends the process after its handler, raise(SIGABRT) does not.
abortReturns(t) ==
  /\ At(t, "abortReturns")
  /\ \/ exited' = TRUE /\ UNCHANGED pc
     \/ Goto(t, "idle") /\ UNCHANGED exited
  /\ UNCHANGED <<build, object, gHandler, sigabrt, ports, live, suspended,
                 files, queue, result, handlerLocals, churn, counts>>

Churns == churn \/ pc[Handler] \notin {"none", "top", "receive", "gone"}

threadStarts(t) ==
  /\ \E by \in Threads : At(by, "idle")
  /\ t \notin Living /\ pc[t] = "idle"
  /\ live' = Append(live, t)
  /\ churn' = Churns
  /\ UNCHANGED <<build, object, gHandler, sigabrt, ports, suspended, files,
                 exited, queue, pc, result, handlerLocals, counts>>

\* Sequence s without its element n.
Without(s, n) == [i \in 1 .. Len(s) - 1 |-> IF i < n THEN s[i] ELSE s[i + 1]]

threadEnds(t) ==
  /\ At(t, "idle") /\ t # Owner
  /\ \E n \in DOMAIN live : live[n] = t /\ live' = Without(live, n)
  /\ churn' = Churns
  /\ Goto(t, "ended")
  /\ UNCHANGED <<build, object, gHandler, sigabrt, ports, suspended, files,
                 exited, queue, result, handlerLocals, counts>>

----------------------------------------------------------------------------

handlerThread ==
  \/ top \/ receive \/ unlock \/ server \/ forwardsToItself
  \/ enumerate("suspend", "suspending") \/ SuspendThreads
  \/ enumerate("resume", "resuming") \/ ResumeThreads
  \/ enumerateFails("suspend", "dump") \/ enumerateFails("resume", "unlock")
  \/ dump(Handler) \/ RequestDumpForException(Handler) \/ written(Handler)
  \/ callback(Handler)
  \/ uninstallSignal(Handler) \/ restorePorts(Handler)
  \/ restoreFails(Handler) \/ clearPrevious(Handler)

\* What a thread does once it has entered the handler's code.
threadStep(t) ==
  \/ setUse(t) \/ lock(t) \/ lockFails(t) \/ send(t) \/ wait(t) \/ finish(t)
  \/ SignalHandler(t) \/ dump(t) \/ written(t) \/ callback(t)
  \/ abortReturns(t)

ownerStep ==
  \/ installGlobal \/ installPorts \/ startThread
  \/ uninstallSignal(Owner) \/ restorePorts(Owner) \/ restoreFails(Owner)
  \/ clearPrevious(Owner) \/ shutdown \/ nullPort \/ free

program ==
  \/ setup \/ destroy \/ childCrashes \/ dumpCrashes
  \/ \E t \in Threads :
       \/ WriteMinidump(t) \/ refused(t) \/ crash(t) \/ abort(t)
       \/ threadStarts(t) \/ threadEnds(t)

Next ==
  \/ handlerThread
  \/ \E t \in Threads : threadStep(t)
  \/ ownerStep
  \/ program

Spec == Init /\ [][Next]_vars

\* The scheduler runs every thread that is neither blocked nor suspended.
Fairness ==
  /\ WF_vars(handlerThread)
  /\ WF_vars(ownerStep)
  /\ \A t \in Threads : WF_vars(threadStep(t))

FairSpec == Spec /\ Fairness
----------------------------------------------------------------------------
(* Properties.                                                             *)

\* Every variable has its type.
TypeOK ==
  /\ obj \in {"none", "alive", "freed"}
  /\ gHandler \in {"null", "this", "other"}
  /\ sigabrt \in {"old", "ours"} /\ ports \in {"host", "own"}
  /\ eh.previous \in {"null", "here", "freed"}
  /\ failed \subseteq {"list", "restore"}
  /\ live \in Seq(Threads) /\ Len(live) = Cardinality(Living)
  /\ suspended \in [Threads -> Nat]
  /\ list.threads \in Seq(Threads) /\ list.at \in 1 .. Len(list.threads) + 1
  /\ files \subseteq 0 .. eh.path
  /\ calls \in 0 .. MaxCalls /\ events \in 0 .. MaxEvents

Reporting == pc[Handler] \in {"dump", "writing", "callback", "request"}

\* SuspendThreads() walks a copy of the thread list and gives up at the first
\* failure.  A thread that still runs while the handler thread reports has
\* started after the copy was made, or the walk met a thread that had ended, or
\* task_threads() gave no list.
RunningWhileReporting ==
  Reporting =>
    \A t \in Living :
      \/ suspended[t] > 0
      \/ \A i \in DOMAIN list.threads : list.threads[i] # t
      \/ \E i \in DOMAIN list.threads : list.threads[i] \notin Living
      \/ ~list.whole

\* ResumeThreads() makes a list of its own, in which threads may have come and
\* gone, and gives up at the first failure too: still a dump on request leaves
\* every suspend count as it was before SuspendThreads(), as long as both had a
\* list: when the second task_threads() fails, the threads stay suspended.
RequestReleasesThreads ==
  pc[Handler] = "unlock" /\ list.whole =>
    \A t \in Living : suspended[t] = before[t]

\* "At this time, we should have called Uninstall() on the exception handler"
\* (ForwardException()): an exception of this task is passed on only when SIGABRT
\* is again what it was, and the ports are, unless putting them back failed,
\* whatever the owner is doing.
UninstalledWhenForwarding ==
  pc[Handler] = "server" /\ msg.own =>
    /\ ports = "host" \/ "restore" \in failed
    /\ sigabrt = "old" /\ gHandler # "this"

\* SignalHandler() calls through gProtectedData.handler without a test.  While
\* threads neither start nor end, only the owner's constructor and destructor
\* can make a thread find NULL there; the handler thread, which clears it in
\* every exception, has stopped that thread before, unless it got no list.
AbortFindsHandler ==
  \A t \in Threads :
    At(t, "abort") /\ gHandler = "null" => ~Usable \/ churn \/ "list" \in failed

\* The handler thread unlocks minidump_write_mutex_ only when it is locked.
UnlocksLocked == At(Handler, "unlock") /\ eh.use_mutex => locked

\* Calls of WriteMinidump() that have returned, with a dump or without.
Returned == calls - Cardinality({t \in Threads : Calling(t)})

\* Of the first calls of WriteMinidump(), one or several at once, one returns,
\* unless an exception has stopped their threads or ended the process, or there
\* is no handler thread to answer.
WriteReturns ==
  (\E t \in Threads : Calling(t))
    ~> \/ Returned > 0
       \/ \A t \in Threads : Calling(t) => suspended[t] > 0
       \/ exited \/ pc[Handler] \in {"none", "raised", "itself"}

\* Every exception sent to the handler's port is answered, or ends the
\* process, even if the handler is being destroyed; unless there is no handler
\* thread, or it crashed itself, found the port already gone (see
\* HandlerThreadExits) or could not put the ports back.
CrashAnswered ==
  (\E t \in Threads : pc[t] = "raised")
    ~> \/ \A t \in Threads : pc[t] # "raised"
       \/ exited \/ pc[Handler] \in {"none", "spins", "raised", "itself"}

\* Threads are suspended while they are reported and run again after a request.
SuspensionSound == RunningWhileReporting /\ RequestReleasesThreads

\* The handler thread, the owner and SIGABRT agree on who handles exceptions.
HandlerHandsOver ==
  UninstalledWhenForwarding /\ AbortFindsHandler /\ UnlocksLocked

\* Calls of WriteMinidump() and exceptions are answered.
MacAnswers == WriteReturns /\ CrashAnswered

----------------------------------------------------------------------------
(* What comments of the code say and the code does not do.                 *)

\* exception_handler.cc, WriteMinidump(): "Lock the mutex.  Since we just
\* created it, this will return immediately."
LockReturns ==
  \A t \in Threads : pc[t] = "lock" ~> pc[t] # "lock" \/ exited

\* exception_handler.cc, Teardown(): "Send an empty message so that the
\* handler_thread exits".
HandlerThreadExits ==
  pc[Owner] = "nullPort" ~> pc[Handler] = "gone" \/ exited

\* exception_handler.cc, UninstallHandler(): "this delete should NOT happen if
\* an exception just occurred!"
PreviousAliveInException ==
  pc[Handler] = "restore" => eh.previous = "here"

\* exception_handler.cc, WaitForMessage(): "Uninstall our handler so that we
\* don't get in a loop if the process of writing out a minidump causes an
\* exception."
UninstalledWhenWriting ==
  pc[Handler] = "writing" /\ IsExc => ports = "host"

\* exception_handler.cc, WaitForMessage(): "While reporting, all threads
\* (except this one) must be suspended to avoid misleading stacks."
AllSuspendedWhileReporting ==
  Reporting => \A t \in Living : suspended[t] > 0

\* exception_handler.h: "If install_handler is true, then a minidump will be
\* written whenever an unhandled exception occurs."  The name prepared for the
\* dump must be free.
PathFreeForException ==
  pc[Handler] = "dump" /\ IsExc /\ build.mode = "local" =>
    eh.path \notin files
============================================================================
