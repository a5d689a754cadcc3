-------------------------- MODULE CrashGeneration --------------------------
(***************************************************************************)
(* libbreakpad: client/linux/crash_generation, composed with the handlers  *)
(* of LinuxCrashHandler.                                                   *)
(*                                                                         *)
(* RequestDump() sends the crash context over a socket together with the   *)
(* write end of a pipe, and waits until nobody holds that end any more.    *)
(* The server's thread polls the socket and a control pipe, writes the     *)
(* dump of a client and closes its end.                                    *)
(***************************************************************************)
EXTENDS LinuxCrashHandler

VARIABLES
  queue,    \* datagrams in the socket: the threads that sent them
  waiting,  \* threads in the read() of RequestDump()
  started,  \* started_
  quit,     \* has Stop() written kCommandQuit?
  server,   \* of the server's thread: "none", "poll", "events", "exited", and
            \* "dead" when the process is gone
  revents,  \* what poll() reported: a subset of {"client", "hup", "control"}
  serving,  \* the client whose dump it is writing
  held,     \* clients whose signal_fd the server has open
  foreign   \* is the clients' CrashContext of another size, as in a process
            \* built for another architecture?

serverVars == <<queue, waiting, started, quit, server, revents, serving,
                held, foreign>>
allVars == <<vars, serverVars>>

ServerInit ==
  /\ queue = << >> /\ waiting = {} /\ started = FALSE /\ quit = FALSE
  /\ server = "none" /\ revents = {} /\ serving = None
  /\ held = {} /\ foreign \in (IF remote = {} THEN {FALSE} ELSE BOOLEAN)

-----------------------------------------------------------------------------
(* The client                                                              *)

RequestReturns(t, b) ==
  /\ thr' = [thr EXCEPT ![t] = Returned(t, b)]
  /\ UNCHANGED quietVars

\* pipe() or sendmsg() fails; with the server gone it must.
requestFails(t) ==
  /\ thr[t].pc = "request" /\ t \notin waiting
  /\ RequestReturns(t, FALSE)
  /\ UNCHANGED serverVars

requestSend(t) ==
  /\ thr[t].pc = "request" /\ t \notin waiting /\ server # "dead"
  /\ queue' = Append(queue, t) /\ waiting' = waiting \cup {t}
  /\ UNCHANGED <<vars, started, quit, server, revents, serving, held, foreign>>

\* Nobody else holds the write end: neither the socket nor the server.
Released(t) == t \notin held /\ \A i \in 1..Len(queue) : queue[i] # t

\* read() returns 0: TRUE, whatever became of the dump.
requestAcked(t) ==
  /\ t \in waiting /\ Released(t)
  /\ waiting' = waiting \ {t} /\ RequestReturns(t, TRUE)
  /\ UNCHANGED <<queue, started, quit, server, revents, serving, held, foreign>>

-----------------------------------------------------------------------------
(* The server                                                              *)

\* For handlers that were given its socket.
Start ==
  /\ ~started /\ server = "none" /\ remote # {}
  /\ started' = TRUE /\ server' = "poll"
  /\ UNCHANGED <<vars, queue, waiting, quit, revents, serving, held, foreign>>

\* Stop() writes the command, joins the thread and closes the control pipe.
Stop ==
  /\ started /\ ~quit /\ server # "dead"
  /\ quit' = TRUE
  /\ UNCHANGED <<vars, queue, waiting, started, server, revents, serving, held, foreign>>

Joined ==
  /\ quit /\ started /\ server = "exited"
  /\ started' = FALSE
  /\ UNCHANGED <<vars, queue, waiting, quit, server, revents, serving, held, foreign>>

\* Run(): poll() reports what is ready now. The client's end of the socket is
\* closed when its process is gone.
Ready == (IF queue # << >> THEN {"client"} ELSE {})
           \cup (IF alive THEN {} ELSE {"hup"})
           \cup (IF quit THEN {"control"} ELSE {})

poll ==
  /\ server = "poll" /\ Ready # {}
  /\ server' = "events" /\ revents' = Ready
  /\ UNCHANGED <<vars, queue, waiting, started, quit, serving, held, foreign>>

\* ClientEvent(): a hang-up ends the loop, also with datagrams left. A datagram
\* that lost its descriptor on the way (MSG_CTRUNC) is dropped; one of another
\* size too, but the descriptor it brought stays open.
ClientEvent ==
  /\ server = "events" /\ serving = None /\ revents \cap {"client", "hup"} # {}
  /\ IF "hup" \in revents
     THEN server' = "exited" /\ revents' = {} /\ UNCHANGED <<queue, serving, held>>
     ELSE /\ revents' = revents \ {"client"} /\ queue' = Tail(queue)
          /\ \/ /\ serving' = IF foreign THEN None ELSE Head(queue)
                /\ held' = held \cup {Head(queue)}
             \/ UNCHANGED <<serving, held>>
          /\ UNCHANGED server
  /\ UNCHANGED <<vars, waiting, started, quit, foreign>>

\* Mutant: a failed dump returns without closing.
servedLeaks ==
  /\ server = "events" /\ serving # None
  /\ serving' = None /\ held' \in {held, held \ {serving}}
  /\ UNCHANGED <<vars, queue, waiting, started, quit, server, revents,
                 foreign>>

\* WriteMinidump() succeeded or not, dump_callback_ ran or not: the end is
\* closed. (MakeMinidumpFilename(), which would return without, cannot fail.)
served ==
  /\ server = "events" /\ serving # None
  /\ serving' = None /\ held' = held \ {serving}
  /\ UNCHANGED <<vars, queue, waiting, started, quit, server, revents,
                 foreign>>

\* ControlEvent(), after the client's event: any byte ends the loop.
ControlEvent ==
  /\ server = "events" /\ serving = None /\ revents \cap {"client", "hup"} = {}
  /\ server' = (IF "control" \in revents THEN "exited" ELSE "poll")
  /\ revents' = {}
  /\ UNCHANGED <<vars, queue, waiting, started, quit, serving, held, foreign>>

\* The server's process is killed: its ends of everything are closed.
killServer ==
  /\ server \notin {"none", "dead"}
  /\ server' = "dead" /\ queue' = << >> /\ serving' = None /\ held' = {}
  /\ revents' = {}
  /\ UNCHANGED <<vars, waiting, started, quit, foreign>>

-----------------------------------------------------------------------------
\* The process of the clients ends: its threads wait no longer.
ProcessEnds == waiting' = (IF alive' THEN waiting ELSE {})

handlerStep(t) ==
  /\ \/ threadStep(t) /\ thr[t].pc # "request"
     \/ program(t)
  /\ ProcessEnds
  /\ UNCHANGED <<queue, started, quit, server, revents, serving, held, foreign>>

environment ==
  /\ \/ alive /\ (loseSiginfo \/ kill)
     \/ \E d \in Dumps : childStep(d) \/ killChild(d)
  /\ ProcessEnds
  /\ UNCHANGED <<queue, started, quit, server, revents, serving, held, foreign>>

clientStep(t) == requestFails(t) \/ requestSend(t) \/ requestAcked(t)
serverStep == poll \/ ClientEvent \/ served \/ ControlEvent \/ Joined

GenerationInit == Init /\ ServerInit
GenerationNext ==
  \/ alive /\ \E t \in Threads : handlerStep(t) \/ clientStep(t)
  \/ environment \/ serverStep \/ Start \/ Stop \/ killServer

GenerationSpec ==
  /\ GenerationInit /\ [][GenerationNext]_allVars
  /\ \A t \in Threads :
       /\ WF_allVars(alive /\ threadStep(t) /\ handlerStep(t))
       /\ WF_allVars(alive /\ clientStep(t))
       /\ SF_allVars(alive /\ lockStack(t) /\ handlerStep(t))
  /\ \A d \in Dumps : WF_allVars(childStep(d) /\ environment)
  /\ WF_allVars(serverStep)

-----------------------------------------------------------------------------
ServerTypeOK ==
  /\ queue \in Seq(Threads) /\ waiting \subseteq Threads
  /\ started \in BOOLEAN /\ quit \in BOOLEAN
  /\ server \in {"none", "poll", "events", "exited", "dead"}
  /\ revents \subseteq {"client", "hup", "control"}
  /\ serving \in Threads \cup {None} /\ held \subseteq Threads
  /\ foreign \in BOOLEAN

\* While the server writes the dump of a client, that client still waits in
\* RequestDump(), so that the thread being dumped has not gone on to end the
\* process: the pipe is released only afterwards.
ServedClientWaits == alive /\ serving # None => serving \in waiting

\* Every request of a context the server can read is answered while it runs: it
\* is not stopped, not killed by a hang-up, and has been started.
RequestAnswered ==
  \A t \in Threads :
    (t \in waiting /\ ~foreign)
      ~> (t \notin waiting \/ quit \/ ~started \/ overlapped)

\* Stop() returns: the quit command ends the loop whatever clients send.
StopReturns == quit ~> (~started \/ server = "dead")

\* The crash path with a server: it ends unless the server was stopped or
\* never started, or keeps the descriptor of a context it cannot read, each of
\* which leaves the client waiting.
ServedCrashEnds ==
  \A t \in Threads :
    thr[t].pc = "enter" ~>
      (~alive \/ thr[t].pc = "run" \/ overlapped
         \/ (remote # {} /\ (quit \/ ~started \/ foreign)))

\* The server answers every request, one client at a time, until it is stopped,
\* and stops when it is told to.
ServerServes == []ServedClientWaits /\ RequestAnswered /\ StopReturns

\* A crash in a process with a server ends, and so does every cloned child.
CrashesEnd == ServedCrashEnds /\ ChildEnds
====
