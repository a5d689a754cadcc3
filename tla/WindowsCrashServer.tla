------------------------ MODULE WindowsCrashServer -------------------------
(***************************************************************************)
(* libbreakpad: client/windows/crash_generation, that is                   *)
(* crash_generation_server.cc, crash_generation_client.cc, client_info.cc. *)
(*                                                                         *)
(* The server is a state machine over one named pipe, driven by the event  *)
(* of its overlapped I/O.  Clients register through the pipe and then ask  *)
(* for dumps by setting an event; the thread pool runs OnPipeConnected,    *)
(* OnDumpRequest and OnClientEnd, while clients die and the server object  *)
(* is destroyed.  Every section under sync_ is one step.                   *)
(***************************************************************************)
EXTENDS Integers, FiniteSets

CONSTANTS
  Clients,      \* client processes; each registers once
  Requests,     \* for each client, what it may send: "register", "upload",
                \* or anything else, which is not valid
  MaxRequests,  \* bound: its calls of RequestDump()
  None

ASSUME ServerAssumption == None \notin Clients

VARIABLES
  \* the server
  state,     \* server_state_
  shutting,  \* shutting_down_
  signaled,  \* overlapped_.hEvent
  io,        \* the overlapped operation: "none" | "pending" | "ok" | "failed"
  waiting,   \* is the wait on that event registered (pipe_wait_handle_)?
  handler,   \* what OnPipeConnected does: "idle", a state, or a step of it
  current,   \* the client whose request is handled
  msg,       \* msg_
  destroyer, \* the place in ~CrashGenerationServer()
  \* the pipe and the mutex
  pipe,      \* "none" | "listening" | "connected" | "broken" | "disconnected"
  peer,      \* the client at its other end
  inbox,     \* what that client has sent
  reply,     \* the answer it has not yet read: "none" | "sent"
  alive,     \* owner of server_alive_handle_: "server" | "free" | a client
  \* the ClientInfo of each client
  info,      \* "none" | "valid" | "deleted", or "refused": deleted because
             \* a wait could not be registered
  listed,    \* in clients_?
  early,     \* deleted before it was put there?
  dumpWait,  \* dump_request_wait_handle_
  exitWait,  \* the wait of OnClientEnd: "none" | "armed" | "off"
  exitHandle,\* process_exit_wait_handle_
  dumping,   \* the place in OnDumpRequest
  ending,    \* the place in OnClientEnd
  requested, \* the events of a client
  generated,
  \* the clients
  pc,        \* their places
  handles,   \* has Register() succeeded?
  asked,     \* calls of RequestDump() so far
  infinite,  \* a debug build: kWaitForServerTimeoutMs = INFINITE
  good       \* has the server written the dump the client waits for?

server == <<state, shutting, signaled, io, waiting, handler, current, msg>>
channel == <<pipe, peer, inbox, reply>>
infos == <<info, listed, early, dumpWait, exitWait, exitHandle>>
callbacks == <<dumping, ending>>
events == <<requested, generated>>
clients == <<pc, handles, asked, infinite>>
vars == <<server, destroyer, channel, alive, infos, callbacks, events, clients,
          good>>

Init ==
  /\ state = "UNINITIALIZED" /\ shutting = FALSE
  /\ signaled = FALSE /\ io = "none" /\ waiting = FALSE
  /\ handler = "idle" /\ current = None /\ msg = "none"
  /\ destroyer = "no"
  /\ pipe = "none" /\ peer = None /\ inbox = "none" /\ reply = "none"
  /\ alive = "free"
  /\ info = [c \in Clients |-> "none"]
  /\ listed = [c \in Clients |-> FALSE]
  /\ early = [c \in Clients |-> FALSE]
  /\ dumpWait = [c \in Clients |-> FALSE]
  /\ exitWait = [c \in Clients |-> "none"]
  /\ exitHandle = [c \in Clients |-> FALSE]
  /\ dumping = [c \in Clients |-> "idle"]
  /\ ending = [c \in Clients |-> "idle"]
  /\ requested = [c \in Clients |-> FALSE]
  /\ generated = [c \in Clients |-> FALSE]
  /\ pc = [c \in Clients |-> "new"]
  /\ handles = [c \in Clients |-> FALSE]
  /\ asked = [c \in Clients |-> 0]
  /\ good = [c \in Clients |-> FALSE]
  /\ infinite \in BOOLEAN

Living(c) == pc[c] # "dead"

Put(f, c, v) == [f EXCEPT ![c] = v]

----------------------------------------------------------------------------
(* The state machine.                                                      *)

\* The pipe starts to listen before ConnectNamedPipe() is called.
Start ==
  /\ state = "UNINITIALIZED" /\ destroyer = "no"
  /\ state' = "INITIAL"
  /\ alive' = "server"
  /\ waiting' = TRUE /\ pipe' = "listening" /\ signaled' = TRUE
  /\ UNCHANGED <<shutting, io, handler, current, msg, destroyer, peer, inbox,
                 reply, infos, callbacks, events, clients, good>>

EnterStateImmediately(s) == state' = s /\ signaled' = TRUE

EnterStateWhenSignaled(s, done) == state' = s /\ signaled' = done

EnterErrorState == EnterStateImmediately("ERROR")

\* OnPipeConnected, up to the test of shutting_down_.
HandleConnectionRequest ==
  /\ waiting /\ signaled /\ handler = "idle"
  /\ IF shutting
     THEN state' = "ERROR" /\ signaled' = FALSE /\ UNCHANGED handler
     ELSE handler' = state /\ UNCHANGED <<state, signaled>>
  /\ UNCHANGED <<shutting, io, waiting, current, msg, destroyer, channel,
                 alive, infos, callbacks, events, clients, good>>

\* In three steps, for the destructor looks at the same members: the test,
\* UnregisterWait(), CloseHandle(pipe_).
HandleErrorState ==
  /\ handler = "ERROR"
  /\ handler' = IF shutting THEN "idle" ELSE "unregister"
  /\ UNCHANGED <<state, shutting, signaled, io, waiting, current, msg,
                 destroyer, channel, alive, infos, callbacks, events, clients,
                 good>>

unregister ==
  /\ handler = "unregister" /\ handler' = "close"
  /\ waiting' = FALSE
  /\ UNCHANGED <<state, shutting, signaled, io, current, msg, destroyer,
                 channel, alive, infos, callbacks, events, clients, good>>

close ==
  /\ handler = "close" /\ handler' = "idle"
  /\ pipe' = "none"
  /\ UNCHANGED <<state, shutting, signaled, io, waiting, current, msg,
                 destroyer, peer, inbox, reply, alive, infos, callbacks, events,
                 clients, good>>

\* ConnectNamedPipe() knows the client that came first, but not one that has
\* come and gone (ERROR_NO_DATA).
HandleInitialState ==
  /\ handler = "INITIAL" /\ handler' = "idle"
  /\ \/ /\ pipe \in {"listening", "disconnected"}
        /\ pipe' = "listening" /\ io' = "pending"
        /\ EnterStateWhenSignaled("CONNECTING", FALSE)
     \/ /\ pipe = "connected"
        /\ EnterStateImmediately("CONNECTED") /\ UNCHANGED <<pipe, io>>
     \/ /\ pipe \in {"none", "broken"}
        /\ EnterErrorState /\ UNCHANGED <<pipe, io>>
  /\ UNCHANGED <<shutting, waiting, current, msg, destroyer, peer, inbox,
                 reply, alive, infos, callbacks, events, clients, good>>

HandleConnectingState ==
  /\ handler = "CONNECTING" /\ handler' = "idle"
  /\ EnterStateImmediately(IF io = "ok" THEN "CONNECTED" ELSE "DISCONNECTING")
  /\ UNCHANGED <<shutting, io, waiting, current, msg, destroyer, channel,
                 alive, infos, callbacks, events, clients, good>>

\* ReadFile() into msg_: what a client wrote can be read after it has gone.
ReadFile(next) ==
  IF inbox # "none"
  THEN /\ msg' = inbox /\ inbox' = "none" /\ io' = "ok"
       /\ EnterStateWhenSignaled(next, TRUE)
  ELSE IF pipe = "connected"
  THEN io' = "pending" /\ EnterStateWhenSignaled(next, FALSE)
       /\ UNCHANGED <<msg, inbox>>
  ELSE EnterStateImmediately("DISCONNECTING") /\ UNCHANGED <<msg, inbox, io>>

HandleConnectedState ==
  /\ handler = "CONNECTED" /\ handler' = "idle"
  /\ ReadFile("READING")
  /\ UNCHANGED <<shutting, waiting, current, destroyer, pipe, peer, reply,
                 alive, infos, callbacks, events, clients, good>>

HandleReadingState ==
  /\ handler = "READING" /\ handler' = "idle"
  /\ EnterStateImmediately(IF io = "ok" THEN "READ_DONE" ELSE "DISCONNECTING")
  /\ UNCHANGED <<shutting, io, waiting, current, msg, destroyer, channel,
                 alive, infos, callbacks, events, clients, good>>

\* What is left of a message once its fields are checked.
IsClientRequestValid(m) == m \in {"upload", "register"}

\* ClientInfo::Initialize() opens the process, ...
Initialize(c) == Living(c)

\* ... and CreateClientHandles() puts handles into it; it has to live.
PrepareReply(c) == Living(c)

\* The reply is on its way before the client is known to the server.
RespondToClient ==
  /\ reply' = "sent"
  /\ \E done \in BOOLEAN : /\ io' = IF done THEN "ok" ELSE "pending"
                           /\ signaled' = done

readDone(next) ==
  /\ handler = "READ_DONE"
  /\ \/ /\ handler' = "idle"
        /\ EnterStateImmediately("DISCONNECTING")
        /\ UNCHANGED <<current, io, reply, info>>
     \/ /\ IsClientRequestValid(msg) /\ msg # "upload" /\ pipe = "connected"
        /\ Initialize(peer) /\ PrepareReply(peer) /\ RespondToClient
        /\ handler' = next
        /\ current' = peer
        /\ info' = Put(info, peer, "valid")
        /\ UNCHANGED state
  /\ UNCHANGED <<shutting, waiting, msg, destroyer, pipe, peer, inbox, alive,
                 listed, early, dumpWait, exitWait, exitHandle, callbacks,
                 events, clients, good>>

\* The request is refused when it is not valid or for an upload only, or when
\* one of the calls fails.
HandleReadDoneState == readDone("registerDump")

\* AddClient(), in three steps: RegisterWaitForSingleObject() twice, ...
registerDump ==
  /\ handler = "registerDump"
  /\ dumpWait' = Put(dumpWait, current, TRUE)
  /\ handler' = "registerExit"
  /\ UNCHANGED <<state, shutting, signaled, io, waiting, current, msg,
                 destroyer, channel, alive, info, listed, early, exitWait,
                 exitHandle, callbacks, events, clients, good>>

registerExit ==
  /\ handler = "registerExit"
  /\ exitWait' = Put(exitWait, current, "armed")
  /\ handler' = "add"
  /\ UNCHANGED <<state, shutting, signaled, io, waiting, current, msg,
                 destroyer, channel, alive, info, listed, early, dumpWait,
                 exitHandle, callbacks, events, clients, good>>

\* ... either of which may fail, after the reply has been written: then
\* RespondToClient() fails, and the ClientInfo is deleted again (drop).
registerFails ==
  /\ handler \in {"registerDump", "registerExit"}
  /\ handler' = "drop"
  /\ UNCHANGED <<state, shutting, signaled, io, waiting, current, msg,
                 destroyer, channel, alive, infos, callbacks, events, clients,
                 good>>

\* With the server shutting down the ClientInfo is deleted again, which waits
\* for its callbacks: see refuse.
AddClient ==
  /\ handler = "add"
  /\ exitHandle' = Put(exitHandle, current, TRUE)
  /\ early' = Put(early, current, \/ info[current] = "deleted"
                                  \/ ending[current] \in {"delete", "free"})
  /\ IF shutting
     THEN handler' = "refuse" /\ UNCHANGED <<listed, state>>
     ELSE /\ listed' = Put(listed, current, TRUE)
          /\ handler' = "idle"
          /\ state' = "WRITING"
  /\ UNCHANGED <<shutting, signaled, io, waiting, current, msg, destroyer,
                 channel, alive, info, dumpWait, exitWait, callbacks, events,
                 clients, good>>

\* ~ClientInfo() by the state machine.
deleteRefused(from, as) ==
  /\ handler = from
  /\ dumping[current] = "idle" /\ ending[current] \in {"idle", "done"}
  /\ info' = Put(info, current, as)
  /\ dumpWait' = Put(dumpWait, current, FALSE)
  /\ exitWait' = Put(exitWait, current, "off")
  /\ exitHandle' = Put(exitHandle, current, FALSE)
  /\ handler' = "idle"
  /\ EnterStateImmediately("DISCONNECTING")
  /\ UNCHANGED <<shutting, io, waiting, current, msg, destroyer, channel,
                 alive, listed, early, callbacks, events, clients, good>>

refuse == deleteRefused("refuse", "deleted")

drop == deleteRefused("drop", "refused")

HandleWritingState ==
  /\ handler = "WRITING" /\ handler' = "idle"
  /\ EnterStateImmediately(IF io = "ok" THEN "WRITE_DONE" ELSE "DISCONNECTING")
  /\ UNCHANGED <<shutting, io, waiting, current, msg, destroyer, channel,
                 alive, infos, callbacks, events, clients, good>>

HandleWriteDoneState ==
  /\ handler = "WRITE_DONE" /\ handler' = "idle"
  /\ ReadFile("READING_ACK")
  /\ UNCHANGED <<shutting, waiting, current, destroyer, pipe, peer, reply,
                 alive, infos, callbacks, events, clients, good>>

\* connect_callback_ is told of client_info_ only if clients_ still has it.
HandleReadingAckState ==
  /\ handler = "READING_ACK" /\ handler' = "idle"
  /\ EnterStateImmediately("DISCONNECTING")
  /\ UNCHANGED <<shutting, io, waiting, current, msg, destroyer, channel,
                 alive, infos, callbacks, events, clients, good>>

\* (mutant) The INITIAL state is entered without setting the event.
HandleDisconnectingSilent ==
  /\ handler = "DISCONNECTING" /\ handler' = "idle"
  /\ current' = None
  /\ io' = "none" /\ msg' = "none"
  /\ pipe' = "disconnected" /\ peer' = None
  /\ inbox' = "none" /\ reply' = "none"
  /\ IF shutting THEN signaled' = FALSE /\ UNCHANGED state
     ELSE EnterStateWhenSignaled("INITIAL", FALSE)
  /\ UNCHANGED <<shutting, waiting, destroyer, alive, infos, callbacks,
                 events, clients, good>>

\* What is left in msg_ is overwritten before it is read again.
HandleDisconnectingState ==
  /\ handler = "DISCONNECTING" /\ handler' = "idle"
  /\ current' = None
  /\ io' = "none" /\ msg' = "none"
  /\ pipe' = "disconnected" /\ peer' = None
  /\ inbox' = "none" /\ reply' = "none"
  /\ IF shutting THEN signaled' = FALSE /\ UNCHANGED state
     ELSE EnterStateImmediately("INITIAL")
  /\ UNCHANGED <<shutting, waiting, destroyer, alive, infos, callbacks,
                 events, clients, good>>

machine ==
  \/ HandleConnectionRequest \/ HandleErrorState \/ unregister \/ close
  \/ HandleInitialState
  \/ HandleConnectingState \/ HandleConnectedState \/ HandleReadingState
  \/ HandleReadDoneState \/ registerDump \/ registerExit \/ registerFails
  \/ AddClient \/ refuse \/ drop \/ HandleWritingState \/ HandleWriteDoneState
  \/ HandleReadingAckState \/ HandleDisconnectingState

----------------------------------------------------------------------------
(* OnDumpRequest and OnClientEnd.                                          *)

OnDumpRequest(c) ==
  /\ dumpWait[c] /\ requested[c] /\ dumping[c] = "idle"
  /\ dumping' = Put(dumping, c, "generate")
  /\ UNCHANGED <<server, destroyer, channel, alive, infos, ending, events,
                 clients, good>>

\* GenerateDump() reads the client's memory; it fails if that has gone, or
\* the file cannot be written.
GenerateDump(c) ==
  /\ dumping[c] = "generate"
  /\ dumping' = Put(dumping, c, "answer")
  /\ \/ pc[c] = "waiting" /\ good' = Put(good, c, TRUE)
     \/ UNCHANGED good
  /\ UNCHANGED <<server, destroyer, channel, alive, infos, ending, events,
                 clients>>

\* HandleDumpRequest() ends, whatever became of the dump.
dumpAnswered(c) ==
  /\ dumping[c] = "answer"
  /\ generated' = Put(generated, c, TRUE)
  /\ dumping' = Put(dumping, c, "reset")
  /\ UNCHANGED <<server, destroyer, channel, alive, infos, ending, requested,
                 clients, good>>

requestReset(c) ==
  /\ dumping[c] = "reset"
  /\ requested' = Put(requested, c, FALSE)
  /\ dumping' = Put(dumping, c, "idle")
  /\ UNCHANGED <<server, destroyer, channel, alive, infos, ending, generated,
                 clients, good>>

OnClientEnd(c) ==
  /\ exitWait[c] = "armed" /\ ~Living(c) /\ ending[c] = "idle"
  /\ ending' = Put(ending, c, "unregister")
  /\ UNCHANGED <<server, destroyer, channel, alive, infos, dumping, events,
                 clients, good>>

\* UnregisterDumpRequestWaitAndBlockUntilNoPending().
UnregisterDumpRequestWait(c) ==
  /\ ending[c] = "unregister"
  /\ dumpWait[c] => dumping[c] = "idle"
  /\ dumpWait' = Put(dumpWait, c, FALSE)
  /\ ending' = Put(ending, c, "exit")
  /\ UNCHANGED <<server, destroyer, channel, alive, info, listed, early,
                 exitWait, exitHandle, dumping, events, clients, good>>

\* HandleClientProcessExit() under the lock.
HandleClientProcessExit(c) ==
  /\ ending[c] = "exit"
  /\ IF shutting
     THEN ending' = Put(ending, c, "done") /\ UNCHANGED listed
     ELSE /\ ending' = Put(ending, c, "delete")
          /\ listed' = Put(listed, c, FALSE)
  /\ UNCHANGED <<server, destroyer, channel, alive, info, early, dumpWait,
                 exitWait, exitHandle, dumping, events, clients, good>>

UnregisterProcessExitWait(c) ==
  /\ ending[c] = "delete"
  /\ exitWait' = IF exitHandle[c] THEN Put(exitWait, c, "off") ELSE exitWait
  /\ exitHandle' = Put(exitHandle, c, FALSE)
  /\ ending' = Put(ending, c, "free")
  /\ UNCHANGED <<server, destroyer, channel, alive, info, listed, early,
                 dumpWait, dumping, events, clients, good>>

\* ~ClientInfo() by the callback: with the handle still set it would wait for
\* the callback it runs in.
deleteInfo(c) ==
  /\ ending[c] = "free" /\ ~exitHandle[c]
  /\ info' = Put(info, c, "deleted")
  /\ ending' = Put(ending, c, "done")
  /\ UNCHANGED <<server, destroyer, channel, alive, listed, early, dumpWait,
                 exitWait, exitHandle, dumping, events, clients, good>>

callback(c) ==
  \/ OnDumpRequest(c) \/ GenerateDump(c) \/ dumpAnswered(c) \/ requestReset(c)
  \/ OnClientEnd(c) \/ UnregisterDumpRequestWait(c)
  \/ HandleClientProcessExit(c) \/ UnregisterProcessExitWait(c)
  \/ deleteInfo(c)

----------------------------------------------------------------------------
(* ~CrashGenerationServer().                                               *)

destroy ==
  /\ destroyer = "no"
  /\ shutting' = TRUE
  /\ destroyer' = "disconnect"
  /\ UNCHANGED <<state, signaled, io, waiting, handler, current, msg, channel,
                 alive, infos, callbacks, events, clients, good>>

\* DisconnectNamedPipe(): what is pending fails.
disconnect ==
  /\ destroyer = "disconnect" /\ destroyer' = "wait"
  /\ IF pipe = "none" THEN UNCHANGED <<pipe, peer, inbox, reply>>
     ELSE /\ pipe' = "disconnected" /\ peer' = None
          /\ inbox' = "none" /\ reply' = "none"
  /\ IF pipe # "none" /\ io = "pending"
     THEN io' = "failed" /\ signaled' = TRUE
     ELSE UNCHANGED <<io, signaled>>
  /\ UNCHANGED <<state, shutting, waiting, handler, current, msg, alive, infos,
                 callbacks, events, clients, good>>

\* The sleeping ends in the error state, or after a hundred tries.
waitForError ==
  /\ destroyer = "wait"
  /\ destroyer' = "unregister"
  /\ UNCHANGED <<server, channel, alive, infos, callbacks, events, clients,
                 good>>

\* UnregisterWaitEx() waits for OnPipeConnected, if the wait is still there;
\* closing the pipe ends what is pending.
UnregisterPipeWait ==
  /\ destroyer = "unregister" /\ destroyer' = "clients"
  /\ waiting => handler = "idle"
  /\ waiting' = FALSE
  /\ pipe' = "none" /\ peer' = None /\ inbox' = "none" /\ reply' = "none"
  /\ io' = IF io = "pending" THEN "failed" ELSE io
  /\ UNCHANGED <<state, shutting, signaled, handler, current, msg, alive,
                 infos, callbacks, events, clients, good>>

\* (mutant) UnregisterProcessExitWait(false).
unregisterExitAtOnce(c) ==
  /\ destroyer = "clients" /\ listed[c] /\ exitWait[c] = "armed"
  /\ exitWait' = Put(exitWait, c, "off")
  /\ exitHandle' = Put(exitHandle, c, FALSE)
  /\ UNCHANGED <<server, destroyer, channel, alive, info, listed, early,
                 dumpWait, callbacks, events, clients, good>>

\* A client of clients_: UnregisterProcessExitWait(true), ...
unregisterExit(c) ==
  /\ destroyer = "clients" /\ listed[c] /\ exitWait[c] = "armed"
  /\ exitHandle[c] => ending[c] \in {"idle", "done"}
  /\ exitWait' = Put(exitWait, c, "off")
  /\ exitHandle' = Put(exitHandle, c, FALSE)
  /\ UNCHANGED <<server, destroyer, channel, alive, info, listed, early,
                 dumpWait, callbacks, events, clients, good>>

\* ... then the other wait, and delete.
deleteClient(c) ==
  /\ destroyer = "clients" /\ listed[c] /\ exitWait[c] # "armed"
  /\ dumpWait[c] => dumping[c] = "idle"
  /\ dumpWait' = Put(dumpWait, c, FALSE)
  /\ info' = Put(info, c, "deleted")
  /\ listed' = Put(listed, c, FALSE)
  /\ UNCHANGED <<server, destroyer, channel, alive, early, exitWait,
                 exitHandle, callbacks, events, clients, good>>

\* The mutex is released, and the object is gone.
destroyed ==
  /\ destroyer = "clients" /\ \A c \in Clients : ~listed[c]
  /\ destroyer' = "freed"
  /\ alive' = IF alive = "server" THEN "free" ELSE alive
  /\ UNCHANGED <<server, channel, infos, callbacks, events, clients, good>>

destruction ==
  \/ disconnect \/ waitForError \/ UnregisterPipeWait \/ destroyed
  \/ \E c \in Clients : unregisterExit(c) \/ deleteClient(c)

----------------------------------------------------------------------------
(* The clients.                                                            *)

At(c, from, to) == pc[c] = from /\ pc' = Put(pc, c, to)

\* What the client writes goes to the read the server has posted, or waits.
Write(m) ==
  IF io = "pending" /\ state \in {"READING", "READING_ACK"}
  THEN msg' = m /\ io' = "ok" /\ signaled' = TRUE /\ UNCHANGED inbox
  ELSE inbox' = m /\ UNCHANGED <<msg, io, signaled>>

\* The client's end is closed: what the server has pending there fails.
HangUp(c) ==
  IF peer = c /\ pipe = "connected"
  THEN /\ pipe' = "broken" /\ reply' = "none"
       /\ IF io = "pending" THEN io' = "failed" /\ signaled' = TRUE
          ELSE UNCHANGED <<io, signaled>>
  ELSE UNCHANGED <<pipe, reply, io, signaled>>

\* ConnectToPipe() opens the one instance when it listens, ...
ConnectToPipe(c) ==
  /\ At(c, "new", "opened")
  /\ pipe = "listening"
  /\ pipe' = "connected" /\ peer' = c
  /\ IF io = "pending" THEN io' = "ok" /\ signaled' = TRUE
     ELSE UNCHANGED <<io, signaled>>
  /\ UNCHANGED <<state, shutting, waiting, handler, current, msg, destroyer,
                 inbox, reply, alive, infos, callbacks, events, handles, asked, infinite, good>>

\* ... and gives up when it is busy for too long, or not there.
ConnectFails(c) ==
  /\ At(c, "new", "done")
  /\ pipe # "listening"
  /\ UNCHANGED <<server, destroyer, channel, alive, infos, callbacks, events,
                 handles, asked, infinite, good>>

\* TransactNamedPipe() of RegisterClient(), or the WriteFile() of another
\* message.
sendRequest(c, m) ==
  /\ At(c, "opened", IF m = "register" THEN "transact" ELSE "close")
  /\ IF peer = c /\ pipe = "connected" THEN Write(m)
     ELSE UNCHANGED <<msg, io, signaled, inbox>>
  /\ UNCHANGED <<state, shutting, waiting, handler, current, destroyer, pipe,
                 peer, reply, alive, infos, callbacks, events, handles, asked, infinite, good>>

receiveReply(c) ==
  /\ At(c, "transact", "ack")
  /\ peer = c /\ reply = "sent"
  /\ reply' = "none"
  /\ IF io = "pending" THEN io' = "ok" /\ signaled' = TRUE
     ELSE UNCHANGED <<io, signaled>>
  /\ UNCHANGED <<state, shutting, waiting, handler, current, msg, destroyer,
                 pipe, peer, inbox, alive, infos, callbacks, events, handles,
                 asked, infinite, good>>

transactFails(c) ==
  /\ At(c, "transact", "close")
  /\ peer # c
  /\ UNCHANGED <<server, destroyer, channel, alive, infos, callbacks, events,
                 handles, asked, infinite, good>>

\* The client is registered once it has written the acknowledgement.
RegisterClient(c) ==
  /\ At(c, "ack", "close")
  /\ IF peer = c /\ pipe = "connected"
     THEN Write("ack") /\ handles' = Put(handles, c, TRUE)
     ELSE UNCHANGED <<msg, io, signaled, inbox, handles>>
  /\ UNCHANGED <<state, shutting, waiting, handler, current, destroyer, pipe,
                 peer, reply, alive, infos, callbacks, events, asked,
                 infinite, good>>

closeEnd(c) ==
  /\ At(c, "close", IF handles[c] THEN "ready" ELSE "done")
  /\ HangUp(c)
  /\ UNCHANGED <<state, shutting, waiting, handler, current, msg, destroyer,
                 peer, inbox, alive, infos, callbacks, events, handles, asked, infinite, good>>

\* RequestDump(): crash_generated_ is reset, ...
RequestDump(c) ==
  /\ At(c, "ready", "signal")
  /\ asked[c] < MaxRequests[c]
  /\ asked' = Put(asked, c, asked[c] + 1)
  /\ generated' = Put(generated, c, FALSE)
  /\ UNCHANGED <<server, destroyer, channel, alive, infos, callbacks,
                 requested, handles, infinite, good>>

\* ... crash_event_ is set, ...
SignalCrashEvent(c) ==
  /\ At(c, "signal", "waiting")
  /\ requested' = Put(requested, c, TRUE)
  /\ UNCHANGED <<server, destroyer, channel, alive, infos, callbacks,
                 generated, handles, asked, infinite, good>>

\* ... and the wait ends with the dump, the server's end, or in time.
waitEnds(c) ==
  /\ At(c, "waiting", "ready")
  /\ \/ generated[c] /\ UNCHANGED alive
     \/ ~generated[c] /\ alive \in {"free", c} /\ alive' = c
     \/ ~generated[c] /\ ~infinite /\ UNCHANGED alive
  /\ good' = Put(good, c, FALSE)
  /\ UNCHANGED <<server, destroyer, channel, infos, callbacks, events, handles,
                 asked, infinite>>

\* A process ends at any time; a mutex it owns is abandoned.  (One that is not
\* or no longer known to the server may as well go on.)
die(c) ==
  /\ pc[c] \notin {"new", "done", "dead"} /\ pc' = Put(pc, c, "dead")
  /\ HangUp(c)
  /\ good' = Put(good, c, FALSE)
  /\ alive' = IF alive = c THEN "free" ELSE alive
  /\ UNCHANGED <<state, shutting, waiting, handler, current, msg, destroyer,
                 peer, inbox, infos, callbacks, events, handles, asked,
                 infinite>>

clientStep(c) ==
  \/ ConnectToPipe(c) \/ ConnectFails(c)
  \/ \E m \in Requests[c] : sendRequest(c, m)
  \/ receiveReply(c) \/ transactFails(c) \/ RegisterClient(c) \/ closeEnd(c)
  \/ SignalCrashEvent(c) \/ waitEnds(c)

program ==
  Start \/ destroy \/ \E c \in Clients : RequestDump(c) \/ die(c)

Next ==
  \/ machine \/ destruction \/ program
  \/ \E c \in Clients : callback(c) \/ clientStep(c)

Spec == Init /\ [][Next]_vars

\* The thread pool runs its callbacks, and the threads of the clients and the
\* one in the destructor run on; nothing has to call, to crash or to end.
Fairness ==
  /\ WF_vars(machine) /\ WF_vars(destruction)
  /\ \A c \in Clients : WF_vars(callback(c)) /\ WF_vars(clientStep(c))

FairSpec == Spec /\ Fairness

----------------------------------------------------------------------------
(* Properties.                                                             *)

States ==
  {"UNINITIALIZED", "ERROR", "INITIAL", "CONNECTING", "CONNECTED", "READING",
   "READ_DONE", "WRITING", "WRITE_DONE", "READING_ACK", "DISCONNECTING"}

\* The server and every client are in a place the code has; in particular the
\* state machine is never called in the UNINITIALIZED state, which its switch
\* does not know.
TypeOK ==
  /\ state \in States /\ shutting \in BOOLEAN /\ signaled \in BOOLEAN
  /\ io \in {"none", "pending", "ok", "failed"} /\ waiting \in BOOLEAN
  /\ handler \in (States \ {"UNINITIALIZED"}) \cup
                 {"idle", "unregister", "close", "registerDump",
                  "registerExit", "add", "refuse", "drop"}
  /\ current \in Clients \cup {None}
  /\ msg \in UNION {Requests[c] : c \in Clients} \cup {"none", "ack"}
  /\ pipe \in {"none", "listening", "connected", "broken", "disconnected"}
  /\ peer \in Clients \cup {None}
  /\ pipe \in {"connected", "broken"} => peer \in Clients
  /\ pc \in [Clients -> {"new", "opened", "transact", "ack", "close", "ready",
                         "signal", "waiting", "done", "dead"}]

Busy(c) ==
  \/ dumping[c] # "idle"
  \/ ending[c] \in {"unregister", "exit", "delete", "free"}

\* No callback runs, and no entry of clients_ points, at a ClientInfo that has
\* been deleted: by OnClientEnd, by a refused registration or by the
\* destructor of the server.  Excepted is the client that ends before
\* AddClient() puts it in the list (ListedClientsValid).
UsedClientsValid ==
  \A c \in Clients : listed[c] \/ Busy(c) => info[c] = "valid" \/ early[c]

\* Once the destructor is done no callback uses the server again: it has
\* waited for OnPipeConnected and for the callbacks of every client.  Only a
\* state machine on its way through HandleErrorState() may still run
\* (WaitsForCallbacks).
FreedServerUnused ==
  destroyer = "freed" =>
    /\ handler = "idle" \/ state = "ERROR"
    /\ io # "pending"
    /\ \A c \in Clients :
         dumping[c] = "idle" /\ ending[c] \notin {"unregister", "exit"}

\* A living client that believes it is registered has its dump requests
\* listened to, by a server that is not shutting down, although the reply is
\* sent before AddClient() is called.  The one exception: AddClient() could not
\* register a wait, and the client does not hear of it.
RegisteredIsServed ==
  \A c \in Clients :
    handles[c] /\ Living(c) /\ ~shutting =>
      \/ dumpWait[c] \/ (handler = "registerDump" /\ current = c)
      \/ info[c] = "refused" \/ (handler = "drop" /\ current = c)

\* The first request of a client comes back even where the wait has no limit
\* (_DEBUG): with the dump, or because the mutex of the server is released.
\* Only a client whose wait AddClient() could not register has to rely on the
\* limit.
FirstRequestReturns ==
  (\E c \in Clients : pc[c] = "waiting" /\ asked[c] = 1)
    ~> (\A c \in Clients : pc[c] = "waiting" =>
          asked[c] # 1 \/ (infinite /\ info[c] = "refused"))

\* The destructor ends, whatever is pending on the pipe and whichever callbacks
\* run, unless OnClientEnd waits for itself: AddClient() gave it the handle
\* back in between.
DestructorReturns ==
  (destroyer # "no") ~> (destroyer = "freed" \/ \E c \in Clients : early[c])

\* Whatever a client sends, and wherever it stops, the pipe comes to listen
\* again, unless the server shuts down or is in the error state.
ListensAgain ==
  (pipe \in {"connected", "broken", "disconnected"})
    ~> (pipe = "listening" \/ shutting \/ state = "ERROR")

\* A client that has ended is taken off clients_, or shutdown does it.
EndedClientForgotten ==
  (\E c \in Clients : listed[c] /\ ~Living(c) /\ ~shutting /\ ~early[c])
    ~> (\A c \in Clients : listed[c] /\ ~Living(c) => shutting \/ early[c])

\* Callbacks use clients and a server that exist, and a client that believes it
\* is registered is listened to, unless its waits could not be registered.
ServerObjectsValid == UsedClientsValid /\ FreedServerUnused /\ RegisteredIsServed

\* The server serves on: requests come back, the pipe listens again, ended
\* clients are forgotten, and the destructor ends.
ServerGoesOn ==
  /\ FirstRequestReturns /\ DestructorReturns
  /\ ListensAgain /\ EndedClientForgotten

----------------------------------------------------------------------------
(* What the repository says.                                               *)

\* "However, as long as it is referenced by the clients_ list it is guaranteed
\* to be valid." (crash_generation_server.cc, HandleReadingAckState)
ListedClientsValid == \A c \in Clients : listed[c] => info[c] = "valid"

\* "Wait for already executing callbacks to finish." (~CrashGenerationServer)
WaitsForCallbacks == destroyer \in {"clients", "freed"} => handler = "idle"

\* "So we disconnect from the pipe and then wait for the server to get into
\* error state" (~CrashGenerationServer)
ErrorStateReached == destroyer = "freed" /\ ~waiting => state = "ERROR"

\* "Returns true if the dump was successful; false otherwise."
\* (crash_generation_client.h, RequestDump)
SuccessMeansDump ==
  \A c \in Clients : pc[c] = "waiting" /\ generated[c] => good[c]

\* The same sentence: every request is answered, by a server that lives.
EveryRequestReturns ==
  (\E c \in Clients : pc[c] = "waiting") ~> (\A c \in Clients : pc[c] # "waiting")
============================================================================
