---------------------- MODULE WindowsCrashServerProofs ----------------------
(***************************************************************************)
(* Proofs about WindowsCrashServer, for every set of clients.              *)
(*                                                                         *)
(* ServerObjectsValid is about the order of five actors that never meet in *)
(* one lock.  What ties them together: the state machine has one client in *)
(* hand at a time, and each client once (MachineInv, PipeInv); the steps   *)
(* of AddClient() arm the callbacks one after the other (AddingInv); a     *)
(* wait is taken down only when its callback is not running (InfoInv); and *)
(* the destructor leaves no client on the list (FreedInv).                 *)
(***************************************************************************)
EXTENDS WindowsCrashServer, TLAPS

Io == {"none", "pending", "ok", "failed"}

\* The places of a client process.
Places ==
  {"new", "opened", "transact", "ack", "close", "ready", "signal", "waiting", "done",
   "dead"}

\* The steps of AddClient().
Adding == {"registerDump", "registerExit", "add", "refuse", "drop"}

\* States in which the server has not yet looked at its peer.
Unread == {"UNINITIALIZED", "INITIAL", "CONNECTING", "CONNECTED", "READING", "READ_DONE"}

Types ==
  /\ shutting \in BOOLEAN /\ signaled \in BOOLEAN /\ waiting \in BOOLEAN
  /\ state \in States /\ io \in Io
  /\ info \in [Clients -> {"none", "valid", "deleted", "refused"}]
  /\ listed \in [Clients -> BOOLEAN] /\ early \in [Clients -> BOOLEAN]
  /\ dumpWait \in [Clients -> BOOLEAN] /\ exitHandle \in [Clients -> BOOLEAN]
  /\ exitWait \in [Clients -> {"none", "armed", "off"}]
  /\ dumping \in [Clients -> {"idle", "generate", "answer", "reset"}]
  /\ ending \in [Clients -> {"idle", "unregister", "exit", "delete", "free", "done"}]
  /\ handles \in [Clients -> BOOLEAN]
  /\ pc \in [Clients -> Places]

\* OnPipeConnected runs only while its wait is there, but for the end of
\* HandleErrorState(), and works for the state it was called in.
MachineInv ==
  /\ handler \in (States \ {"UNINITIALIZED"}) \cup Adding \cup
                 {"idle", "unregister", "close"}
  /\ handler \in States => handler = state
  /\ handler \in Adding => state = "READ_DONE" /\ current \in Clients
  /\ handler \in {"unregister", "close"} => state = "ERROR"
  /\ state = "UNINITIALIZED" => ~waiting
  /\ ~waiting => handler \in {"idle", "close"}
  /\ destroyer # "no" => shutting
  /\ destroyer \in {"clients", "freed"} => ~waiting /\ io # "pending"

\* A peer whose request has not been read is unknown to the server, and one
\* that has been answered is known.
PipeInv ==
  /\ state = "UNINITIALIZED" => pipe = "none" /\ peer = None /\ reply = "none"
  /\ pipe \in {"connected", "broken"} => peer \in Clients
  /\ pipe \in {"listening", "disconnected"} => reply = "none"
  /\ peer \in Clients => pc[peer] # "new"
  /\ state \in Unread /\ handler \notin Adding /\ peer \in Clients
       => info[peer] = "none"
  /\ reply = "sent" => peer \in Clients /\ info[peer] # "none"
  /\ \A c \in Clients : pc[c] = "ack" \/ handles[c] => info[c] # "none"
  /\ \A c \in Clients : pc[c] = "new" => info[c] = "none"

\* The ClientInfo of c and the callbacks that use it.
InfoInv(c) ==
  /\ info[c] = "none" =>
       /\ ~listed[c] /\ ~early[c] /\ ~dumpWait[c] /\ ~exitHandle[c]
       /\ exitWait[c] = "none"
  /\ exitWait[c] = "none" => ending[c] = "idle" /\ ~listed[c]
  /\ exitWait[c] = "armed" /\ ending[c] = "idle" => info[c] = "valid"
  /\ exitWait[c] = "off" => ending[c] \in {"idle", "free", "done"}
  /\ dumping[c] # "idle" => dumpWait[c]
  /\ dumpWait[c] => info[c] = "valid" /\ ending[c] \in {"idle", "unregister"}
  /\ ending[c] # "idle" => ~Living(c)
  /\ ending[c] \in {"unregister", "exit"} => info[c] = "valid"
  /\ ending[c] \in {"delete", "free"} => info[c] = "valid" \/ early[c]
  /\ listed[c] => /\ info[c] = "valid" \/ early[c]
                  /\ ending[c] \in {"delete", "free"} => early[c]
                  /\ exitWait[c] = "armed" /\ ~exitHandle[c]
                       => ending[c] \in {"free", "done"}

\* Where the state machine is in AddClient() for c.
AddingInv(c) ==
  /\ handler \in Adding /\ current = c => info[c] # "none" /\ ~listed[c]
  /\ handler = "registerDump" /\ current = c =>
       info[c] = "valid" /\ exitWait[c] = "none" /\ ~dumpWait[c]
  /\ handler = "registerExit" /\ current = c => exitWait[c] = "none" /\ dumpWait[c]
  /\ handler \in {"registerDump", "registerExit", "add"} /\ current = c => ~exitHandle[c]
  /\ handler = "add" /\ current = c =>
       exitWait[c] = "armed" /\ (ending[c] = "done" => info[c] = "deleted" \/ shutting)
  /\ handler = "refuse" /\ current = c => shutting
  /\ handler = "drop" /\ current = c => exitWait[c] = "none"

\* A client the server knows, lists no more and is not adding is done with.
GoneInv(c) ==
  info[c] # "none" /\ ~listed[c] /\ ~(handler \in Adding /\ current = c)
    => /\ ~dumpWait[c] /\ ending[c] \notin {"unregister", "exit"}
       /\ exitWait[c] = "off" \/ (exitWait[c] = "armed" /\ ending[c] # "idle")

\* A living client the server knows has its dump requests listened to, unless
\* the wait could not be registered.
ServedInv(c) ==
  info[c] \notin {"none", "refused"} /\ Living(c) /\ ~shutting =>
    dumpWait[c] \/ (handler \in {"registerDump", "drop"} /\ current = c)

\* Everything the invariant says of client c.
ClientInv(c) == InfoInv(c) /\ AddingInv(c) /\ GoneInv(c) /\ ServedInv(c)

\* The destructor has deleted every client.
FreedInv == destroyer = "freed" => \A c \in Clients : ~listed[c]

IInv ==
  /\ Types /\ MachineInv /\ PipeInv /\ FreedInv
  /\ \A c \in Clients : ClientInv(c)

\* Put() of a value of the right kind.
LEMMA PutType ==
  ASSUME NEW S, NEW f \in [Clients -> S], NEW c, NEW v \in S
  PROVE  Put(f, c, v) \in [Clients -> S]
BY Zenon DEF Put

-----------------------------------------------------------------------------
(* Which steps do what                                                     *)

\* The steps of the state machine outside AddClient().
Handle ==
  \/ HandleConnectionRequest \/ HandleErrorState \/ unregister \/ close
  \/ HandleInitialState \/ HandleConnectingState \/ HandleConnectedState
  \/ HandleReadingState \/ HandleWritingState \/ HandleWriteDoneState
  \/ HandleReadingAckState \/ HandleDisconnectingState

\* The two outcomes of HandleReadDoneState.
Refused ==
  /\ handler = "READ_DONE" /\ handler' = "idle"
  /\ state' = "DISCONNECTING" /\ signaled' = TRUE
  /\ UNCHANGED <<shutting, io, waiting, current, msg, destroyer, channel, alive, infos,
                 callbacks, events, clients, good>>

Accepted ==
  /\ handler = "READ_DONE" /\ handler' = "registerDump"
  /\ pipe = "connected" /\ reply' = "sent" /\ io' \in {"ok", "pending"}
  /\ signaled' \in BOOLEAN /\ current' = peer
  /\ info' = Put(info, peer, "valid")
  /\ UNCHANGED <<state, shutting, waiting, msg, destroyer, pipe, peer, inbox, alive,
                 listed, early, dumpWait, exitWait, exitHandle, callbacks, events,
                 clients, good>>

\* The steps of the server object's owner.
Own == Start \/ destroy \/ disconnect \/ waitForError \/ UnregisterPipeWait \/ destroyed

\* The steps of a client process.
Act(c) == clientStep(c) \/ RequestDump(c) \/ die(c)

\* The steps that use or delete the ClientInfo of c.
Use(c) == callback(c) \/ unregisterExit(c) \/ deleteClient(c)

\* Every step is one of these.
LEMMA StepKinds ==
  ASSUME [Next]_vars
  PROVE  \/ Handle \/ Refused \/ Accepted \/ registerDump \/ registerExit
         \/ registerFails \/ AddClient \/ refuse \/ drop \/ Own
         \/ (\E c \in Clients : Act(c) \/ Use(c))
         \/ UNCHANGED vars
<1> USE Zenon
<1>1. ASSUME HandleReadDoneState PROVE Refused \/ Accepted
  <2>1. CASE handler' = "idle"
    BY <1>1, <2>1 DEF HandleReadDoneState, readDone, Refused, EnterStateImmediately,
                      channel, infos
  <2>2. CASE handler' # "idle"
    BY <1>1, <2>2 DEF HandleReadDoneState, readDone, Accepted, RespondToClient
  <2> QED
    BY <2>1, <2>2
<1>2. ASSUME machine
      PROVE  \/ Handle \/ Refused \/ Accepted \/ registerDump \/ registerExit
             \/ registerFails \/ AddClient \/ refuse \/ drop
  BY <1>1, <1>2 DEF machine, Handle
<1>3. ASSUME destruction PROVE Own \/ (\E c \in Clients : Use(c))
  BY <1>3 DEF destruction, Own, Use
<1>4. ASSUME program PROVE Own \/ (\E c \in Clients : Act(c))
  BY <1>4 DEF program, Own, Act
<1>5. ASSUME NEW c \in Clients, callback(c) \/ clientStep(c) PROVE Act(c) \/ Use(c)
  BY <1>5 DEF Act, Use
<1> QED
  BY <1>2, <1>3, <1>4, <1>5 DEF Next

\* What a step of the machine, of the owner or of a client process leaves alone:
\* the records of clients, and the place in AddClient().
Quiet ==
  /\ UNCHANGED <<infos, callbacks>>
  /\ shutting => shutting'
  /\ \A c \in Clients : Living(c)' => Living(c)
  /\ \/ UNCHANGED <<handler, current>>
     \/ handler \notin Adding /\ handler' \notin Adding

LEMMA HandleQuiet ==
  ASSUME Types, MachineInv, Handle PROVE Quiet
<1> USE Zenon
<1> USE DEF Quiet, Living, clients, Adding, MachineInv, States
<1>1. CASE HandleConnectionRequest
  BY <1>1 DEF HandleConnectionRequest, Types
<1>2. CASE HandleErrorState
  BY <1>2 DEF HandleErrorState
<1>3. CASE unregister
  BY <1>3 DEF unregister
<1>4. CASE close
  BY <1>4 DEF close
<1>5. CASE HandleInitialState
  BY <1>5 DEF HandleInitialState
<1>6. CASE HandleConnectingState
  BY <1>6 DEF HandleConnectingState
<1>7. CASE HandleConnectedState
  BY <1>7 DEF HandleConnectedState
<1>8. CASE HandleReadingState
  BY <1>8 DEF HandleReadingState
<1>9. CASE HandleWritingState
  BY <1>9 DEF HandleWritingState
<1>10. CASE HandleWriteDoneState
  BY <1>10 DEF HandleWriteDoneState
<1>11. CASE HandleReadingAckState
  BY <1>11 DEF HandleReadingAckState
<1>12. CASE HandleDisconnectingState
  BY <1>12 DEF HandleDisconnectingState
<1> QED
  BY <1>1, <1>2, <1>3, <1>4, <1>5, <1>6, <1>7, <1>8, <1>9, <1>10, <1>11, <1>12 DEF Handle

LEMMA OwnQuiet ==
  ASSUME Own PROVE Quiet /\ UNCHANGED <<handler, current, pc, handles>>
<1> USE Zenon
<1> USE DEF Quiet, Living, clients, server
<1>1. CASE Start
  BY <1>1 DEF Start
<1>2. CASE destroy
  BY <1>2 DEF destroy
<1>3. CASE disconnect
  BY <1>3 DEF disconnect
<1>4. CASE waitForError
  BY <1>4 DEF waitForError
<1>5. CASE UnregisterPipeWait
  BY <1>5 DEF UnregisterPipeWait
<1>6. CASE destroyed
  BY <1>6 DEF destroyed
<1> QED
  BY <1>1, <1>2, <1>3, <1>4, <1>5, <1>6 DEF Own

LEMMA ActQuiet ==
  ASSUME Types, NEW c \in Clients, Act(c)
  PROVE  Quiet /\ UNCHANGED <<state, shutting, waiting, handler, current, destroyer>>
<1> USE Zenon
<1> USE DEF Quiet, Living, clients, server, Put, At, Types
<1>1. CASE ConnectToPipe(c)
  BY <1>1 DEF ConnectToPipe
<1>2. CASE ConnectFails(c)
  BY <1>2 DEF ConnectFails
<1>3. ASSUME NEW m \in Requests[c], sendRequest(c, m)
      PROVE  Quiet /\ UNCHANGED <<state, shutting, waiting, handler, current, destroyer>>
  BY <1>3 DEF sendRequest
<1>4. CASE receiveReply(c)
  BY <1>4 DEF receiveReply
<1>5. CASE transactFails(c)
  BY <1>5 DEF transactFails
<1>6. CASE RegisterClient(c)
  BY <1>6 DEF RegisterClient
<1>7. CASE closeEnd(c)
  BY <1>7 DEF closeEnd
<1>8. CASE SignalCrashEvent(c)
  BY <1>8 DEF SignalCrashEvent
<1>9. CASE waitEnds(c)
  BY <1>9 DEF waitEnds
<1>10. CASE RequestDump(c)
  BY <1>10 DEF RequestDump
<1>11. CASE die(c)
  BY <1>11 DEF die
<1> QED
  BY <1>1, <1>2, <1>3, <1>4, <1>5, <1>6, <1>7, <1>8, <1>9, <1>10, <1>11
  DEF Act, clientStep

\* What a callback or the destructor's loop leaves alone: everything but the
\* record of one client.
Records(c) ==
  /\ UNCHANGED <<server, destroyer, channel, early, pc, handles>>
  /\ info' = info \/ info' = Put(info, c, "deleted")
  /\ listed' = listed \/ listed' = Put(listed, c, FALSE)
  /\ dumpWait' = dumpWait \/ dumpWait' = Put(dumpWait, c, FALSE)
  /\ exitHandle' = exitHandle \/ exitHandle' = Put(exitHandle, c, FALSE)
  /\ exitWait' = exitWait \/ exitWait' = Put(exitWait, c, "off")
  /\ \/ dumping' = dumping
     \/ \E p \in {"idle", "generate", "answer", "reset"} : dumping' = Put(dumping, c, p)
  /\ \/ ending' = ending
     \/ \E p \in {"unregister", "exit", "delete", "free", "done"} :
          ending' = Put(ending, c, p)

LEMMA UseRecords ==
  ASSUME NEW c \in Clients, Use(c) PROVE Records(c)
<1> USE Zenon
<1> USE DEF Records, infos, clients, callbacks
<1>1. CASE OnDumpRequest(c)
  BY <1>1 DEF OnDumpRequest
<1>2. CASE GenerateDump(c)
  BY <1>2 DEF GenerateDump
<1>3. CASE dumpAnswered(c)
  BY <1>3 DEF dumpAnswered
<1>4. CASE requestReset(c)
  BY <1>4 DEF requestReset
<1>5. CASE OnClientEnd(c)
  BY <1>5 DEF OnClientEnd
<1>6. CASE UnregisterDumpRequestWait(c)
  BY <1>6 DEF UnregisterDumpRequestWait
<1>7. CASE HandleClientProcessExit(c)
  BY <1>7 DEF HandleClientProcessExit
<1>8. CASE UnregisterProcessExitWait(c)
  BY <1>8 DEF UnregisterProcessExitWait
<1>9. CASE deleteInfo(c)
  BY <1>9 DEF deleteInfo
<1>10. CASE unregisterExit(c)
  BY <1>10 DEF unregisterExit
<1>11. CASE deleteClient(c)
  BY <1>11 DEF deleteClient
<1> QED
  BY <1>1, <1>2, <1>3, <1>4, <1>5, <1>6, <1>7, <1>8, <1>9, <1>10, <1>11
  DEF Use, callback

-----------------------------------------------------------------------------
(* The records of clients                                                  *)

LEMMA QuietClient ==
  ASSUME Quiet, NEW c \in Clients, ClientInv(c) PROVE ClientInv(c)'
<1> USE Zenon
<1> USE DEF Quiet, infos, callbacks, ClientInv
<1>1. InfoInv(c)'
  BY DEF InfoInv
<1>2. AddingInv(c)'
  BY DEF AddingInv, Adding
<1>3. GoneInv(c)'
  BY DEF GoneInv, Adding
<1>4. ServedInv(c)'
  BY DEF ServedInv, Adding
<1> QED
  BY <1>1, <1>2, <1>3, <1>4

\* A step of another client's record.
LEMMA OtherClient ==
  ASSUME NEW d \in Clients, Records(d), Types, NEW c \in Clients, c # d, ClientInv(c)
  PROVE  ClientInv(c)'
<1> USE Zenon
<1>1. /\ info'[c] = info[c] /\ listed'[c] = listed[c] /\ early'[c] = early[c]
      /\ dumpWait'[c] = dumpWait[c] /\ exitWait'[c] = exitWait[c]
      /\ exitHandle'[c] = exitHandle[c] /\ dumping'[c] = dumping[c]
      /\ ending'[c] = ending[c]
  BY ZenonT(30) DEF Records, Put, Types
<1>2. UNCHANGED <<handler, current, shutting, pc>>
  BY DEF Records, server
<1> USE <1>1, <1>2 DEF ClientInv
<1>3. InfoInv(c)'
  BY DEF InfoInv, Living
<1>4. AddingInv(c)'
  BY DEF AddingInv
<1>5. GoneInv(c)'
  BY DEF GoneInv
<1>6. ServedInv(c)'
  BY DEF ServedInv, Living
<1> QED
  BY <1>3, <1>4, <1>5, <1>6

\* A callback of c, or the destructor's work on c: a wait is taken down only when
\* its callback does not run, and the record is deleted after both.
LEMMA UseClient ==
  ASSUME Types, MachineInv, NEW c \in Clients, Use(c), ClientInv(c)
  PROVE  ClientInv(c)'
<1> USE Zenon
<1>1. UNCHANGED <<handler, current, shutting, pc, early, destroyer>>
  BY UseRecords DEF Records, server
<1> USE <1>1 DEF ClientInv, Living, Put, Types, infos, callbacks
<1>2. CASE OnDumpRequest(c) \/ GenerateDump(c) \/ dumpAnswered(c) \/ requestReset(c)
  <2>1. dumpWait[c]
    BY <1>2 DEF OnDumpRequest, GenerateDump, dumpAnswered, requestReset, InfoInv
  <2>2. UNCHANGED <<infos, ending>>
    BY <1>2 DEF OnDumpRequest, GenerateDump, dumpAnswered, requestReset
  <2> QED
    BY <2>1, <2>2 DEF InfoInv, AddingInv, GoneInv, ServedInv
<1>3. CASE OnClientEnd(c)
  BY <1>3 DEF OnClientEnd, InfoInv, AddingInv, GoneInv, ServedInv, Adding
<1>4. CASE UnregisterDumpRequestWait(c)
  BY <1>4 DEF UnregisterDumpRequestWait, InfoInv, AddingInv, GoneInv, ServedInv, Adding
<1>5. CASE HandleClientProcessExit(c)
  BY ZenonT(30), <1>5 DEF HandleClientProcessExit, InfoInv, AddingInv, GoneInv, ServedInv, Adding
<1>6. CASE UnregisterProcessExitWait(c)
  BY <1>6 DEF UnregisterProcessExitWait, InfoInv, AddingInv, GoneInv, ServedInv, Adding
<1>7. CASE deleteInfo(c)
  BY <1>7 DEF deleteInfo, InfoInv, AddingInv, GoneInv, ServedInv, Adding
<1>8. CASE unregisterExit(c)
  BY <1>8 DEF unregisterExit, InfoInv, AddingInv, GoneInv, ServedInv, Adding
<1>9. CASE deleteClient(c)
  BY <1>9 DEF deleteClient, InfoInv, AddingInv, GoneInv, ServedInv, Adding, MachineInv
<1> QED
  BY <1>2, <1>3, <1>4, <1>5, <1>6, <1>7, <1>8, <1>9 DEF Use, callback

\* The steps of AddClient() for the client in hand.
LEMMA AddingClient ==
  ASSUME Types, MachineInv, PipeInv, NEW c \in Clients, ClientInv(c),
         \/ Refused \/ Accepted \/ registerDump \/ registerExit \/ registerFails
         \/ AddClient \/ refuse \/ drop
  PROVE  ClientInv(c)'
<1> USE Zenon
<1> USE DEF ClientInv, Living, Put, infos, callbacks, clients
<1>1. CASE Refused
  <2>1. Quiet
    BY <1>1 DEF Refused, Quiet, Adding
  <2> QED
    BY <2>1, QuietClient
<1>2. CASE Accepted
  <2>1. peer \in Clients /\ info[peer] = "none" /\ UNCHANGED <<pc, shutting>>
    BY <1>2 DEF Accepted, PipeInv, MachineInv, States, Unread, Adding
  <2>2. CASE c = peer
    BY <1>2, <2>1, <2>2 DEF Accepted, Types, InfoInv, AddingInv, GoneInv, ServedInv, Adding
  <2>3. CASE c # peer
    BY SMT, <1>2, <2>1, <2>3 DEF Accepted, Types, InfoInv, AddingInv, GoneInv, ServedInv, Adding
  <2> QED
    BY <2>2, <2>3
<1>3. CASE registerDump
  BY <1>3 DEF registerDump, Types, MachineInv, InfoInv, AddingInv, GoneInv, ServedInv,
              Adding
<1>4. CASE registerExit
  BY <1>4 DEF registerExit, Types, MachineInv, InfoInv, AddingInv, GoneInv, ServedInv,
              Adding
<1>5. CASE AddClient
  BY ZenonT(30), <1>5 DEF AddClient, Types, MachineInv, InfoInv, AddingInv, GoneInv, ServedInv, Adding
<1>6. CASE refuse
  BY ZenonT(30), <1>6 DEF refuse, deleteRefused, Types, MachineInv, InfoInv, AddingInv, GoneInv,
                          ServedInv, Adding
<1>7. CASE registerFails
  BY <1>7 DEF registerFails, InfoInv, AddingInv, GoneInv, ServedInv, Adding
<1>8. CASE drop
  BY ZenonT(30), <1>8 DEF drop, deleteRefused, Types, MachineInv, InfoInv, AddingInv, GoneInv,
                          ServedInv, Adding
<1> QED
  BY <1>1, <1>2, <1>3, <1>4, <1>5, <1>6, <1>7, <1>8

\* What the invariant says of clients is inductive.
LEMMA ClientStep ==
  ASSUME Types, MachineInv, PipeInv, \A c \in Clients : ClientInv(c), [Next]_vars
  PROVE  \A c \in Clients : ClientInv(c)'
<1> USE Zenon
<1> SUFFICES ASSUME NEW c \in Clients PROVE ClientInv(c)'
  OBVIOUS
<1>1. CASE Handle
  BY <1>1, HandleQuiet, QuietClient
<1>2. CASE \/ Refused \/ Accepted \/ registerDump \/ registerExit \/ registerFails
           \/ AddClient \/ refuse \/ drop
  BY <1>2, AddingClient
<1>3. CASE Own
  BY <1>3, OwnQuiet, QuietClient
<1>4. ASSUME NEW d \in Clients, Act(d) PROVE ClientInv(c)'
  BY <1>4, ActQuiet, QuietClient
<1>5. ASSUME NEW d \in Clients, Use(d) PROVE ClientInv(c)'
  BY <1>5, UseClient, UseRecords, OtherClient
<1>6. CASE UNCHANGED vars
  <2>1. Quiet
    BY <1>6 DEF vars, Quiet, server, clients, Living
  <2> QED
    BY <2>1, QuietClient
<1> QED
  BY <1>1, <1>2, <1>3, <1>4, <1>5, <1>6, StepKinds

-----------------------------------------------------------------------------
(* The state machine and the pipe                                          *)

\* The machine's own variables keep their types, and a handler that runs works
\* for the state it was called in.
LEMMA HandleMachine ==
  ASSUME Types, MachineInv, Handle
  PROVE  /\ MachineInv'
         /\ signaled' \in BOOLEAN /\ state' \in States /\ io' \in Io
         /\ UNCHANGED <<shutting, pc, handles, infos, callbacks>> /\ waiting' \in BOOLEAN
<1> USE Zenon
<1> USE DEF MachineInv, Types, States, Io, Adding, clients, EnterStateImmediately,
            EnterStateWhenSignaled, EnterErrorState
<1>1. CASE HandleConnectionRequest
  BY <1>1 DEF HandleConnectionRequest
<1>2. CASE HandleErrorState
  BY <1>2 DEF HandleErrorState
<1>3. CASE unregister
  BY <1>3 DEF unregister
<1>4. CASE close
  BY <1>4 DEF close
<1>5. CASE HandleInitialState
  BY <1>5 DEF HandleInitialState
<1>6. CASE HandleConnectingState
  BY <1>6 DEF HandleConnectingState
<1>7. CASE HandleConnectedState
  BY <1>7 DEF HandleConnectedState, ReadFile
<1>8. CASE HandleReadingState
  BY <1>8 DEF HandleReadingState
<1>9. CASE HandleWritingState
  BY <1>9 DEF HandleWritingState
<1>10. CASE HandleWriteDoneState
  BY <1>10 DEF HandleWriteDoneState, ReadFile
<1>11. CASE HandleReadingAckState
  BY <1>11 DEF HandleReadingAckState
<1>12. CASE HandleDisconnectingState
  BY <1>12 DEF HandleDisconnectingState
<1> QED
  BY <1>1, <1>2, <1>3, <1>4, <1>5, <1>6, <1>7, <1>8, <1>9, <1>10, <1>11, <1>12 DEF Handle

LEMMA AddingMachine ==
  ASSUME Types, MachineInv, PipeInv,
         \/ Refused \/ Accepted \/ registerDump \/ registerExit \/ registerFails
         \/ AddClient \/ refuse \/ drop
  PROVE  /\ MachineInv'
         /\ signaled' \in BOOLEAN /\ state' \in States /\ io' \in Io
         /\ UNCHANGED <<shutting, waiting, pc, handles, callbacks>>
<1> USE Zenon
<1> USE DEF MachineInv, Types, States, Io, Adding, clients, EnterStateImmediately
<1>1. CASE Refused
  BY <1>1 DEF Refused
<1>2. CASE Accepted
  BY <1>2 DEF Accepted, PipeInv
<1>3. CASE registerDump
  BY <1>3 DEF registerDump
<1>4. CASE registerExit
  BY <1>4 DEF registerExit
<1>5. CASE AddClient
  BY <1>5 DEF AddClient
<1>6. CASE registerFails
  BY <1>6 DEF registerFails
<1>7. CASE refuse \/ drop
  BY <1>7 DEF refuse, drop, deleteRefused
<1> QED
  BY <1>1, <1>2, <1>3, <1>4, <1>5, <1>6, <1>7

LEMMA OwnMachine ==
  ASSUME Types, MachineInv, PipeInv, Own
  PROVE  /\ MachineInv'
         /\ signaled' \in BOOLEAN /\ state' \in States /\ io' \in Io
         /\ shutting' \in BOOLEAN /\ waiting' \in BOOLEAN
<1> USE Zenon
<1> USE DEF MachineInv, Types, States, Io, Adding, server
<1>1. CASE Start
  BY <1>1 DEF Start
<1>2. CASE destroy
  BY <1>2 DEF destroy
<1>3. CASE disconnect
  BY <1>3 DEF disconnect
<1>4. CASE waitForError
  BY <1>4 DEF waitForError
<1>5. CASE UnregisterPipeWait
  BY <1>5 DEF UnregisterPipeWait
<1>6. CASE destroyed
  BY <1>6 DEF destroyed
<1> QED
  BY <1>1, <1>2, <1>3, <1>4, <1>5, <1>6 DEF Own

\* What a client process does to the machine: it completes the operation under
\* way, and never starts one.
LEMMA ActMachine ==
  ASSUME Types, MachineInv, NEW c \in Clients, Act(c)
  PROVE  /\ MachineInv' /\ signaled' \in BOOLEAN /\ io' \in Io
         /\ pc' \in [Clients -> Places]
         /\ handles' \in [Clients -> BOOLEAN]
<1> USE Zenon
<1>1. UNCHANGED <<state, shutting, waiting, handler, current, destroyer>>
  BY ActQuiet
<1>2. ASSUME signaled' \in BOOLEAN, io' \in Io, io' = "pending" => io = "pending"
      PROVE  MachineInv'
  BY <1>1, <1>2 DEF MachineInv
<1>3. /\ signaled' \in BOOLEAN /\ io' \in Io
      /\ io' = "pending" => io = "pending"
      /\ \E p \in {"opened", "transact", "ack", "close", "ready", "signal", "waiting",
                   "done", "dead"} : pc' = Put(pc, c, p)
      /\ handles' = handles \/ handles' = Put(handles, c, TRUE)
  <2> USE DEF Types, Io, server, clients, At, Write, HangUp
  <2>1. CASE ConnectToPipe(c)
    BY <2>1 DEF ConnectToPipe
  <2>2. CASE ConnectFails(c)
    BY <2>2 DEF ConnectFails
  <2>3. ASSUME NEW m \in Requests[c], sendRequest(c, m)
        PROVE  /\ signaled' \in BOOLEAN /\ io' \in Io
               /\ io' = "pending" => io = "pending"
               /\ \E p \in {"transact", "close"} : pc' = Put(pc, c, p)
               /\ handles' = handles
    BY <2>3 DEF sendRequest
  <2>4. CASE receiveReply(c)
    BY <2>4 DEF receiveReply
  <2>5. CASE transactFails(c)
    BY <2>5 DEF transactFails
  <2>6. CASE RegisterClient(c)
    BY <2>6 DEF RegisterClient
  <2>7. CASE closeEnd(c)
    BY <2>7 DEF closeEnd
  <2>8. CASE SignalCrashEvent(c)
    BY <2>8 DEF SignalCrashEvent
  <2>9. CASE waitEnds(c)
    BY <2>9 DEF waitEnds
  <2>10. CASE RequestDump(c)
    BY <2>10 DEF RequestDump
  <2>11. CASE die(c)
    BY <2>11 DEF die
  <2> QED
    BY <2>1, <2>2, <2>3, <2>4, <2>5, <2>6, <2>7, <2>8, <2>9, <2>10, <2>11
    DEF Act, clientStep
<1>4. pc' \in [Clients -> Places]
  <2>1. PICK p \in Places : pc' = Put(pc, c, p)
    BY <1>3 DEF Places
  <2> QED
    BY <2>1, PutType DEF Types
<1>5. handles' \in [Clients -> BOOLEAN]
  BY <1>3 DEF Types, Put
<1> QED
  BY <1>2, <1>3, <1>4, <1>5

\* The state machine's part of the invariant is inductive, with its types.
LEMMA MachineStep ==
  ASSUME Types, MachineInv, PipeInv, [Next]_vars
  PROVE  Types' /\ MachineInv'
<1> USE Zenon
<1>1. CASE Handle
  BY <1>1, HandleMachine DEF Types, infos, callbacks
<1>2. CASE \/ Refused \/ Accepted \/ registerDump \/ registerExit \/ registerFails
           \/ AddClient \/ refuse \/ drop
  <2>1. /\ info' \in [Clients -> {"none", "valid", "deleted", "refused"}]
        /\ listed' \in [Clients -> BOOLEAN] /\ early' \in [Clients -> BOOLEAN]
        /\ dumpWait' \in [Clients -> BOOLEAN] /\ exitHandle' \in [Clients -> BOOLEAN]
        /\ exitWait' \in [Clients -> {"none", "armed", "off"}]
    <3> USE DEF Types, infos, Put
    <3>1. CASE Refused \/ Accepted \/ registerDump
      BY <3>1 DEF Refused, Accepted, registerDump
    <3>2. CASE registerExit \/ registerFails
      BY <3>2 DEF registerExit, registerFails
    <3>3. CASE AddClient
      BY <3>3 DEF AddClient
    <3>4. CASE refuse \/ drop
      BY <3>4 DEF refuse, drop, deleteRefused
    <3> QED
      BY <1>2, <3>1, <3>2, <3>3, <3>4
  <2> QED
    BY ZenonT(30), <1>2, <2>1, AddingMachine DEF Types, callbacks
<1>3. CASE Own
  BY <1>3, OwnMachine, OwnQuiet DEF Types, Quiet, infos, callbacks
<1>4. ASSUME NEW c \in Clients, Act(c) PROVE Types' /\ MachineInv'
  BY <1>4, ActMachine, ActQuiet DEF Types, Quiet, infos, callbacks
<1>5. ASSUME NEW c \in Clients, Use(c) PROVE Types' /\ MachineInv'
  <2>1. Records(c)
    BY <1>5, UseRecords
  <2>2. dumping' \in [Clients -> {"idle", "generate", "answer", "reset"}]
    <3>1. CASE dumping' = dumping
      BY <3>1 DEF Types
    <3>2. ASSUME NEW p \in {"idle", "generate", "answer", "reset"},
                 dumping' = Put(dumping, c, p)
          PROVE  dumping' \in [Clients -> {"idle", "generate", "answer", "reset"}]
      BY <3>2, PutType DEF Types
    <3> QED
      BY <2>1, <3>1, <3>2 DEF Records
  <2>3. ending' \in [Clients -> {"idle", "unregister", "exit", "delete", "free", "done"}]
    <3>1. CASE ending' = ending
      BY <3>1 DEF Types
    <3>2. ASSUME NEW p \in {"unregister", "exit", "delete", "free", "done"},
                 ending' = Put(ending, c, p)
          PROVE  ending' \in [Clients ->
                                {"idle", "unregister", "exit", "delete", "free", "done"}]
      <4>1. p \in {"idle", "unregister", "exit", "delete", "free", "done"}
        OBVIOUS
      <4> QED
        BY <3>2, <4>1, PutType DEF Types
    <3> QED
      BY <2>1, <3>1, <3>2 DEF Records
  <2>4. /\ info' \in [Clients -> {"none", "valid", "deleted", "refused"}]
        /\ exitWait' \in [Clients -> {"none", "armed", "off"}]
    <3>1. info' = info \/ info' = Put(info, c, "deleted")
      BY <2>1 DEF Records
    <3>2. exitWait' = exitWait \/ exitWait' = Put(exitWait, c, "off")
      BY <2>1 DEF Records
    <3> QED
      BY <3>1, <3>2 DEF Types, Put
  <2>5. /\ listed' \in [Clients -> BOOLEAN] /\ early' \in [Clients -> BOOLEAN]
        /\ dumpWait' \in [Clients -> BOOLEAN] /\ exitHandle' \in [Clients -> BOOLEAN]
    <3>1. /\ early' = early
          /\ listed' = listed \/ listed' = Put(listed, c, FALSE)
          /\ dumpWait' = dumpWait \/ dumpWait' = Put(dumpWait, c, FALSE)
          /\ exitHandle' = exitHandle \/ exitHandle' = Put(exitHandle, c, FALSE)
      BY <2>1 DEF Records
    <3> QED
      BY <3>1 DEF Types, Put
  <2>6. Types'
    BY <2>1, <2>2, <2>3, <2>4, <2>5 DEF Records, Types, server
  <2>7. MachineInv'
    BY <2>1 DEF Records, MachineInv, server
  <2> QED
    BY <2>6, <2>7
<1>6. CASE UNCHANGED vars
  BY <1>6 DEF vars, server, infos, callbacks, clients, Types, MachineInv
<1> QED
  BY <1>1, <1>2, <1>3, <1>4, <1>5, <1>6, StepKinds

\* The steps of the state machine outside AddClient() on the pipe.
LEMMA HandlePipe ==
  ASSUME Types, MachineInv, PipeInv, Handle PROVE PipeInv'
<1> USE Zenon
<1>1. UNCHANGED <<info, pc, handles>>
  BY HandleMachine DEF infos
<1>2. state # "UNINITIALIZED" /\ handler \notin Adding /\ handler' \notin Adding
  <2>1. CASE HandleConnectionRequest
    BY <2>1 DEF HandleConnectionRequest, MachineInv, States, Adding, Types
  <2>2. ASSUME handler \in (States \ {"UNINITIALIZED"}) \cup {"unregister", "close"},
               handler' \in {"idle", "unregister", "close"}
        PROVE  state # "UNINITIALIZED" /\ handler \notin Adding /\ handler' \notin Adding
    BY <2>2 DEF MachineInv, States, Adding
  <2>3. CASE ~HandleConnectionRequest
    <3>1. handler' \in {"idle", "unregister", "close"}
      BY <2>3 DEF Handle, HandleErrorState, unregister, close, HandleInitialState,
             HandleConnectingState, HandleConnectedState, HandleReadingState,
             HandleWritingState, HandleWriteDoneState, HandleReadingAckState,
             HandleDisconnectingState
    <3>2. handler \in (States \ {"UNINITIALIZED"}) \cup {"unregister", "close"}
      BY <2>3 DEF Handle, HandleErrorState, unregister, close, HandleInitialState,
             HandleConnectingState, HandleConnectedState, HandleReadingState,
             HandleWritingState, HandleWriteDoneState, HandleReadingAckState,
             HandleDisconnectingState, States
    <3> QED
      BY <2>2, <3>1, <3>2
  <2> QED
    BY <2>1, <2>3
<1>3. state' # "UNINITIALIZED"
  BY <1>2 DEF Handle, HandleConnectionRequest, HandleErrorState, unregister, close,
         HandleInitialState, HandleConnectingState, HandleConnectedState,
         HandleReadingState, HandleWritingState, HandleWriteDoneState,
         HandleReadingAckState, HandleDisconnectingState, EnterStateImmediately,
         EnterStateWhenSignaled, EnterErrorState, ReadFile
<1>4. ASSUME UNCHANGED <<peer, reply>>, state' \in Unread => state \in Unread,
             pipe' = pipe \/ pipe' = "none" \/
               (pipe' = "listening" /\ pipe \in {"listening", "disconnected"})
      PROVE  PipeInv'
  BY <1>1, <1>2, <1>3, <1>4 DEF PipeInv
<1>5. CASE HandleConnectionRequest \/ HandleErrorState \/ unregister \/ close
  BY <1>4, <1>5 DEF HandleConnectionRequest, HandleErrorState, unregister, close, channel,
                    Unread
<1>6. CASE HandleInitialState
  BY <1>4, <1>6 DEF HandleInitialState, MachineInv, States, Unread
<1>7. CASE HandleConnectingState \/ HandleReadingState \/ HandleConnectedState
  BY <1>4, <1>7 DEF HandleConnectingState, HandleReadingState, HandleConnectedState,
                    channel, MachineInv, States, Unread
<1>8. CASE HandleWritingState \/ HandleReadingAckState
  BY <1>4, <1>8 DEF HandleWritingState, HandleReadingAckState, channel,
                    EnterStateImmediately, Unread
<1>9. CASE HandleWriteDoneState
  BY <1>4, <1>9 DEF HandleWriteDoneState, ReadFile, EnterStateImmediately,
                    EnterStateWhenSignaled, Unread
<1>10. CASE HandleDisconnectingState
  BY <1>1, <1>3, <1>10, ServerAssumption DEF HandleDisconnectingState, PipeInv
<1> QED
  BY <1>5, <1>6, <1>7, <1>8, <1>9, <1>10 DEF Handle

\* The client that is answered becomes known, and no other.
LEMMA AddingPipe ==
  ASSUME Types, MachineInv, PipeInv, \A c \in Clients : ClientInv(c),
         \/ Refused \/ Accepted \/ registerDump \/ registerExit \/ registerFails
         \/ AddClient \/ refuse \/ drop
  PROVE  PipeInv'
<1> USE Zenon
<1>1. UNCHANGED <<pc, handles, pipe, peer>>
  BY DEF Refused, Accepted, registerDump, registerExit, registerFails, AddClient, refuse, drop,
         deleteRefused, clients, channel
<1>2. state = "READ_DONE"
  BY DEF Refused, Accepted, registerDump, registerExit, registerFails, AddClient, refuse, drop,
         deleteRefused, MachineInv, Adding, States
<1>3. CASE Refused
  BY SMT, <1>1, <1>3 DEF Refused, PipeInv, Unread, channel, infos
<1>4. CASE Accepted
  <2>1. peer \in Clients /\ pc[peer] # "new"
    BY <1>4 DEF Accepted, PipeInv
  <2>2. /\ info'[peer] = "valid" /\ \A c \in Clients \ {peer} : info'[c] = info[c]
    BY <1>4, <2>1 DEF Accepted, Put, Types
  <2> QED
    BY <1>1, <1>2, <1>4, <2>1, <2>2 DEF Accepted, PipeInv, Adding
<1>5. CASE registerDump \/ registerExit \/ registerFails
  BY <1>1, <1>5 DEF registerDump, registerExit, registerFails, PipeInv, Adding, channel, infos
<1>6. CASE AddClient
  <2>1. /\ UNCHANGED <<info, reply>>
        /\ state' = "WRITING" \/ (state' = state /\ handler' = "refuse")
    BY <1>6 DEF AddClient, channel
  <2>2. CASE state' = "WRITING"
    BY <1>1, <2>1, <2>2 DEF PipeInv, Unread
  <2>3. CASE state' = state /\ handler' = "refuse"
    BY <1>1, <2>1, <2>3 DEF PipeInv, Adding
  <2> QED
    BY <2>1, <2>2, <2>3
<1>7. CASE refuse \/ drop
  <2> USE DEF refuse, drop, deleteRefused
  <2>1. current \in Clients /\ info[current] # "none"
    BY <1>7 DEF MachineInv, Adding, ClientInv, AddingInv
  <2>2. \A c \in Clients : info'[c] = "none" <=> info[c] = "none"
    BY <1>7, <2>1 DEF Put, Types
  <2> QED
    BY <1>1, <1>7, <2>2 DEF EnterStateImmediately, PipeInv, Unread, channel
<1> QED
  BY <1>3, <1>4, <1>5, <1>6, <1>7

\* What the owner does on the pipe leaves nobody at its other end.
LEMMA OwnPipe ==
  ASSUME Types, MachineInv, PipeInv, Own PROVE PipeInv'
<1> USE Zenon
<1>1. UNCHANGED <<info, pc, handles, handler>>
  BY OwnQuiet DEF Quiet, infos
<1>2. CASE Start
  BY <1>1, <1>2, ServerAssumption DEF Start, PipeInv
<1>3. CASE destroy \/ waitForError \/ destroyed
  <2>1. UNCHANGED <<state, pipe, peer, reply>>
    BY <1>3 DEF destroy, waitForError, destroyed, server, channel
  <2> QED
    BY <1>1, <2>1 DEF PipeInv
<1>4. CASE disconnect \/ UnregisterPipeWait
  <2>1. /\ state' = state
        /\ \/ UNCHANGED <<pipe, peer, reply>>
           \/ /\ peer' = None /\ reply' = "none"
              /\ pipe' = "none" \/ (pipe' = "disconnected" /\ pipe # "none")
    BY <1>4 DEF disconnect, UnregisterPipeWait
  <2> QED
    BY <1>1, <2>1, ServerAssumption DEF PipeInv
<1> QED
  BY <1>2, <1>3, <1>4 DEF Own

\* A client that opens the pipe is new to the server, and one that has its reply
\* is known to it.
LEMMA ActPipe ==
  ASSUME Types, MachineInv, PipeInv, NEW c \in Clients, Act(c) PROVE PipeInv'
<1> USE Zenon
<1>1. UNCHANGED <<state, handler, info>>
  BY ActQuiet DEF Quiet, infos
<1>2. PICK p \in Places \ {"new"} : pc' = Put(pc, c, p)
  <2> USE DEF Act, clientStep, At, Places
  <2>1. CASE ConnectToPipe(c) \/ ConnectFails(c) \/ receiveReply(c) \/ transactFails(c)
    BY <2>1 DEF ConnectToPipe, ConnectFails, receiveReply, transactFails
  <2>2. CASE \E m \in Requests[c] : sendRequest(c, m)
    BY <2>2 DEF sendRequest
  <2>3. CASE RegisterClient(c) \/ closeEnd(c) \/ SignalCrashEvent(c) \/ waitEnds(c)
    BY <2>3 DEF RegisterClient, closeEnd, SignalCrashEvent, waitEnds
  <2>4. CASE RequestDump(c) \/ die(c)
    BY <2>4 DEF RequestDump, die
  <2> QED
    BY <2>1, <2>2, <2>3, <2>4
<1>3. pc'[c] = p /\ \A d \in Clients \ {c} : pc'[d] = pc[d]
  BY <1>2 DEF Put, Types
<1>4. CASE ConnectToPipe(c)
  <2>1. /\ pc[c] = "new" /\ pc'[c] = "opened" /\ pipe = "listening"
        /\ pipe' = "connected" /\ peer' = c /\ UNCHANGED <<reply, handles>>
    BY <1>4 DEF ConnectToPipe, At, Put, Types
  <2> QED
    BY <1>1, <1>3, <2>1 DEF PipeInv
<1>5. CASE receiveReply(c)
  <2>1. /\ pc'[c] = "ack" /\ peer = c /\ reply = "sent" /\ reply' = "none"
        /\ UNCHANGED <<pipe, peer, handles>>
    BY <1>5 DEF receiveReply, At, Put, Types
  <2> QED
    BY <1>1, <1>3, <2>1 DEF PipeInv
<1>6. ASSUME p # "ack", peer' = peer,
             \/ UNCHANGED <<pipe, reply>>
             \/ pipe = "connected" /\ pipe' = "broken" /\ reply' = "none",
             \A d \in Clients : handles'[d] => handles[d] \/ info[d] # "none"
      PROVE  PipeInv'
  BY <1>1, <1>3, <1>6 DEF PipeInv
<1>7. CASE RegisterClient(c)
  <2>1. /\ pc[c] = "ack" /\ pc'[c] = "close" /\ UNCHANGED <<pipe, peer, reply>>
        /\ \A d \in Clients \ {c} : handles'[d] = handles[d]
    BY <1>7 DEF RegisterClient, At, Put, Types
  <2>2. info[c] # "none"
    BY <2>1 DEF PipeInv
  <2> QED
    BY <1>3, <1>6, <2>1, <2>2
<1>8. CASE ConnectFails(c) \/ transactFails(c) \/ SignalCrashEvent(c) \/ waitEnds(c)
           \/ RequestDump(c)
  <2>1. UNCHANGED <<pipe, peer, reply, handles>> /\ pc'[c] # "ack"
    BY <1>8 DEF ConnectFails, transactFails, SignalCrashEvent, waitEnds, RequestDump,
                channel, At, Put, Types
  <2> QED
    BY <1>3, <1>6, <2>1
<1>9. ASSUME NEW m \in Requests[c], sendRequest(c, m) PROVE PipeInv'
  <2>1. UNCHANGED <<pipe, peer, reply, handles>> /\ pc'[c] # "ack"
    BY <1>9 DEF sendRequest, At, Put, Types
  <2> QED
    BY <1>3, <1>6, <2>1
<1>10. CASE closeEnd(c) \/ die(c)
  <2>1. /\ UNCHANGED <<peer, handles>> /\ pc'[c] # "ack"
        /\ \/ UNCHANGED <<pipe, reply>>
           \/ pipe = "connected" /\ pipe' = "broken" /\ reply' = "none"
    BY <1>10 DEF closeEnd, die, HangUp, clients, At, Put, Types
  <2> QED
    BY <1>3, <1>6, <2>1
<1> QED
  BY <1>4, <1>5, <1>7, <1>8, <1>9, <1>10 DEF Act, clientStep

\* No callback makes a client known or unknown.
LEMMA UseKnown ==
  ASSUME Types, NEW c \in Clients, Use(c), ClientInv(c)
  PROVE  \A d \in Clients : info'[d] = "none" <=> info[d] = "none"
<1> USE Zenon
<1>1. info' = info \/ (info' = Put(info, c, "deleted") /\ info[c] # "none")
  <2>1. CASE deleteInfo(c)
    BY <2>1 DEF deleteInfo, ClientInv, InfoInv
  <2>2. CASE deleteClient(c)
    BY <2>2 DEF deleteClient, ClientInv, InfoInv
  <2>3. CASE \/ OnDumpRequest(c) \/ GenerateDump(c) \/ dumpAnswered(c) \/ requestReset(c)
             \/ OnClientEnd(c)
    BY <2>3 DEF OnDumpRequest, GenerateDump, dumpAnswered, requestReset, OnClientEnd, infos
  <2>4. CASE \/ UnregisterDumpRequestWait(c) \/ HandleClientProcessExit(c)
             \/ UnregisterProcessExitWait(c) \/ unregisterExit(c)
    BY <2>4 DEF UnregisterDumpRequestWait, HandleClientProcessExit,
                UnregisterProcessExitWait, unregisterExit
  <2> QED
    BY <2>1, <2>2, <2>3, <2>4 DEF Use, callback
<1> QED
  BY <1>1 DEF Put, Types

\* The pipe's part of the invariant is inductive.
LEMMA PipeStep ==
  ASSUME Types, MachineInv, PipeInv, \A c \in Clients : ClientInv(c), [Next]_vars
  PROVE  PipeInv'
<1> USE Zenon
<1>1. ASSUME NEW c \in Clients, Use(c) PROVE PipeInv'
  <2>1. UNCHANGED <<state, handler, pipe, peer, reply, pc, handles>>
    BY <1>1, UseRecords DEF Records, server, channel
  <2>2. \A d \in Clients : info'[d] = "none" <=> info[d] = "none"
    BY <1>1, UseKnown
  <2> QED
    BY <2>1, <2>2 DEF PipeInv
<1>2. CASE UNCHANGED vars
  BY <1>2 DEF vars, server, channel, infos, clients, PipeInv
<1> QED
  BY <1>1, <1>2, StepKinds, HandlePipe, AddingPipe, OwnPipe, ActPipe

\* A client gets into clients_ only by AddClient(), which the destructor has
\* waited for.
LEMMA FreedStep ==
  ASSUME Types, MachineInv, FreedInv, [Next]_vars PROVE FreedInv'
<1> USE Zenon
<1>1. ASSUME UNCHANGED listed, destroyer' = "freed" => destroyer = "freed" PROVE FreedInv'
  BY <1>1 DEF FreedInv
<1>2. CASE Handle
  <2>1. destroyer' = destroyer
    BY <1>2 DEF Handle, HandleConnectionRequest, HandleErrorState, unregister, close,
                HandleInitialState, HandleConnectingState, HandleConnectedState,
                HandleReadingState, HandleWritingState, HandleWriteDoneState,
                HandleReadingAckState, HandleDisconnectingState
  <2> QED
    BY <1>1, <1>2, <2>1, HandleQuiet DEF Quiet, infos
<1>3. CASE \/ Refused \/ Accepted \/ registerDump \/ registerExit \/ registerFails
           \/ refuse \/ drop
  BY <1>1, <1>3 DEF Refused, Accepted, registerDump, registerExit, registerFails, refuse, drop,
                    deleteRefused, infos
<1>4. CASE AddClient
  <2>1. destroyer # "freed" /\ destroyer' = destroyer
    BY <1>4 DEF AddClient, MachineInv
  <2> QED
    BY <2>1 DEF FreedInv
<1>5. CASE Own
  <2>1. UNCHANGED listed
    BY <1>5, OwnQuiet DEF Quiet, infos
  <2>2. CASE destroyed
    BY <2>1, <2>2 DEF destroyed, FreedInv
  <2>3. CASE Start \/ destroy \/ disconnect \/ waitForError \/ UnregisterPipeWait
    BY <1>1, <2>1, <2>3 DEF Start, destroy, disconnect, waitForError, UnregisterPipeWait
  <2> QED
    BY <1>5, <2>2, <2>3 DEF Own
<1>6. ASSUME NEW c \in Clients, Act(c) PROVE FreedInv'
  BY <1>1, <1>6, ActQuiet DEF Quiet, infos
<1>7. ASSUME NEW c \in Clients, Use(c) PROVE FreedInv'
  <2>1. destroyer' = destroyer /\ \A d \in Clients : listed'[d] => listed[d]
    BY ZenonT(30), <1>7, UseRecords DEF Records, Put, Types
  <2> QED
    BY <2>1 DEF FreedInv
<1>8. CASE UNCHANGED vars
  BY <1>8 DEF vars, infos, FreedInv
<1> QED
  BY <1>2, <1>3, <1>4, <1>5, <1>6, <1>7, <1>8, StepKinds

\* Initially the server has not been started and knows no client.
LEMMA ServerInit == Init => IInv
<1> USE Zenon
<1> SUFFICES ASSUME Init PROVE IInv
  OBVIOUS
<1>1. Types
  BY DEF Init, Types, States, Io, Places
<1>2. MachineInv /\ FreedInv
  BY DEF Init, MachineInv, FreedInv, States, Adding
<1>3. PipeInv
  BY ServerAssumption DEF Init, PipeInv
<1>4. ASSUME NEW c \in Clients PROVE ClientInv(c)
  BY DEF Init, ClientInv, InfoInv, AddingInv, GoneInv, ServedInv, Living, Adding
<1> QED
  BY <1>1, <1>2, <1>3, <1>4 DEF IInv

\* crash_generation_server.cc: the invariant holds in every run, for every number
\* of clients, whichever of them crash and whenever the server is destroyed.
THEOREM ServerInvariant == Spec => []IInv
<1>1. IInv /\ [Next]_vars => IInv'
  <2> SUFFICES ASSUME IInv, [Next]_vars PROVE IInv'
    OBVIOUS
  <2>1. Types /\ MachineInv /\ PipeInv /\ FreedInv /\ \A c \in Clients : ClientInv(c)
    BY DEF IInv
  <2>2. Types' /\ MachineInv'
    BY <2>1, MachineStep
  <2>3. PipeInv' /\ FreedInv'
    BY <2>1, PipeStep, FreedStep
  <2>4. \A c \in Clients : ClientInv(c)'
    BY <2>1, ClientStep
  <2> QED
    BY <2>2, <2>3, <2>4 DEF IInv
<1> QED
  BY <1>1, ServerInit, PTL DEF Spec

\* Callbacks use only clients and a server that exist, and a living client that
\* believes it is registered has its dump requests listened to, whichever of
\* the calls of AddClient() fail; only the client whose wait itself could not be
\* registered is not.
THEOREM ServerObjectsValidHolds == Spec => []ServerObjectsValid
<1>1. IInv => ServerObjectsValid
  <2> SUFFICES ASSUME IInv PROVE ServerObjectsValid
    OBVIOUS
  <2>1. UsedClientsValid
    <3> SUFFICES ASSUME NEW c \in Clients, listed[c] \/ Busy(c)
                 PROVE  info[c] = "valid" \/ early[c]
      BY DEF UsedClientsValid
    <3> QED
      BY DEF IInv, ClientInv, InfoInv, Busy
  <2>2. FreedServerUnused
    <3> SUFFICES ASSUME destroyer = "freed"
                 PROVE  /\ handler = "idle" \/ state = "ERROR"
                        /\ io # "pending"
                        /\ \A c \in Clients : /\ dumping[c] = "idle"
                                              /\ ending[c] \notin {"unregister", "exit"}
      BY DEF FreedServerUnused
    <3>1. MachineInv /\ FreedInv /\ \A c \in Clients : ClientInv(c)
      BY DEF IInv
    <3>2. /\ ~waiting /\ io # "pending" /\ handler \in {"idle", "close"}
          /\ handler = "idle" \/ state = "ERROR"
      BY <3>1 DEF MachineInv
    <3>3. ASSUME NEW c \in Clients
          PROVE  dumping[c] = "idle" /\ ending[c] \notin {"unregister", "exit"}
      <4>1. InfoInv(c) /\ GoneInv(c) /\ ~listed[c]
        BY <3>1 DEF FreedInv, ClientInv
      <4>2. handler \notin Adding
        BY <3>2 DEF Adding
      <4> QED
        BY <4>1, <4>2 DEF InfoInv, GoneInv
    <3> QED
      BY <3>2, <3>3
  <2>3. RegisteredIsServed
    BY DEF RegisteredIsServed, IInv, PipeInv, ClientInv, ServedInv
  <2> QED
    BY <2>1, <2>2, <2>3 DEF ServerObjectsValid
<1> QED
  BY <1>1, ServerInvariant, PTL
====
