---------------------- MODULE LinuxCrashHandlerProofs ----------------------
(***************************************************************************)
(* Proofs about LinuxCrashHandler, for every number of threads, handlers   *)
(* and signals, re-entrant crashes included: the handler stack, the signal *)
(* dispositions, the alternate stack and the dumps.                        *)
(*                                                                         *)
(* The mutex keeps the handler stack fixed while SignalHandler walks it;   *)
(* the fields of a thread's position fit the place it is at; and installed *)
(* tells which dispositions are Breakpad's.                                *)
(*                                                                         *)
(* The second part is about dumps.  As long as no two dumps overlapped,    *)
(* the one dump under way owns the only pipe and the only child.           *)
(***************************************************************************)
EXTENDS LinuxCrashHandler, TLAPS

SignalPcs == {"enter", "locked", "loop", "after", "unlocked", "again"}
Working == Dumping \cup {"request"}
Cloned == {"clone", "close", "write", "wait"}

Position ==
  [pc : Pcs, sig : Signals \cup {None}, user : BOOLEAN, i : Int,
   h : Handlers \cup {None}, d : Procs, ok : BOOLEAN,
   via : {"none", "signal", "write", "simulate"}]

\* The fields of a position that its place relies on.
Shape(r) ==
  /\ r \in Position
  /\ r.pc = "run" => r = Idle
  /\ r.pc \in {"ctor", "dtor"} => r.via = "none" /\ r.h \in Handlers
  /\ r.pc \in SignalPcs => r.via = "signal"
  /\ r.pc \in Working => r.via # "none" /\ r.h \in Handlers
  /\ r.via = "signal" => r.sig \in Signals
  /\ IF r.pc \in Cloned THEN r.d \in Dumps ELSE r.d = 0

ThreadInv ==
  /\ alive \in BOOLEAN
  /\ thr \in [Threads -> Position]
  /\ \A t \in Threads : Shape(thr[t])
  /\ ~alive => \A t \in Threads : thr[t] = Idle

\* SignalHandler has called a handler of the stack.
Serving(r) == r.pc \in Working /\ r.via = "signal"

\* What thread t may rely on while it is between lock and unlock.
Section(t) ==
  /\ (thr[t].pc \in {"ctor", "dtor", "locked", "loop", "after"} \/ Serving(thr[t]))
       => mutex = t
  /\ thr[t].pc = "loop" => thr[t].i \in 0..Len(stack)
  /\ Serving(thr[t]) => thr[t].i \in 1..Len(stack) /\ life[thr[t].h] = "live"
  /\ thr[t].pc = "ctor" => life[thr[t].h] = "none"
  /\ thr[t].pc = "dtor" => life[thr[t].h] = "live"

Holds(s, h) == \E k \in 1..Len(s) : s[k] = h
EachOnce(s) == \A j, k \in 1..Len(s) : s[j] = s[k] => j = k

\* g_handler_stack_ holds the live handlers, each once.
StackInv ==
  /\ mutex \in Threads \cup {None}
  /\ stack \in Seq(Handlers) /\ life \in [Handlers -> {"none", "live", "gone"}]
  /\ \A h \in Handlers : life[h] = "live" <=> Holds(stack, h)
  /\ EachOnce(stack)

SectionInv == StackInv /\ \A t \in Threads : Section(t)

\* Breakpad's dispositions are there only while handlers_installed says so, and
\* "default" is what a handled crash leaves behind.
SignalInv ==
  /\ installed \in BOOLEAN /\ endedBy \in Ends
  /\ disposition \in [Signals -> Dispositions]
  /\ oldHandlers \in [Signals -> {"old", "default"}]
  /\ stack = << >> => ~installed
  /\ ~installed => \A s \in Signals : disposition[s] \in {"old", "default"}
  /\ alive => \A s \in Signals : disposition[s] = "default" => dumped # {}
  /\ installed => \A s \in Signals : oldHandlers[s] = "default" => dumped # {}
  /\ endedBy = "default" => dumped # {}

\* The stack that is put back is never the buffer that is freed.
AltInv ==
  /\ stackInstalled \in BOOLEAN /\ altStack \in [Threads -> Int]
  /\ oldStack \in Int /\ newStack \in Nat /\ freed \subseteq Nat
  /\ stackInstalled => oldStack <= 0 /\ newStack >= 1

-----------------------------------------------------------------------------
(* Steps of one thread                                                     *)

\* Thread t took a step that leaves the process alive.
Moved(t) ==
  /\ alive' = alive
  /\ thr' \in [Threads -> Position]
  /\ \A u \in Threads \ {t} : thr'[u] = thr[u]
  /\ Shape(thr'[t])

\* A thread of the program is at a well-formed place.
LEMMA IdleShape == Shape(Idle)
BY HandlerAssumption
   DEF Shape, Position, Idle, Pcs, Procs, Parent, SignalPcs, Working, Dumping, Cloned

\* Only the position of the thread that steps changes.
LEMMA MoveTo ==
  ASSUME NEW t \in Threads, NEW r, Shape(r), thr \in [Threads -> Position],
         alive' = alive, thr' = [thr EXCEPT ![t] = r]
  PROVE  Moved(t) /\ thr'[t] = r
BY DEF Moved, Shape

\* GenerateDump() and HandleSignal() return to the loop of SignalHandler or to
\* the program.
LEMMA ReturnedShape ==
  ASSUME NEW t \in Threads, NEW b \in BOOLEAN, Shape(thr[t]),
         thr[t].pc \in Working \cup {"loop", "run"}
  PROVE  /\ Shape(Returned(t, b))
         /\ thr[t].via # "signal" => Returned(t, b) = Idle
         /\ thr[t].via = "signal" =>
              /\ Returned(t, b).pc = (IF b THEN "after" ELSE "loop")
              /\ Returned(t, b).i = (IF b THEN thr[t].i ELSE thr[t].i - 1)
              /\ Returned(t, b).via = "signal"
<1> USE Zenon
<1>1. CASE thr[t].via # "signal"
  BY <1>1, IdleShape DEF Returned
<1>2. CASE thr[t].via = "signal" /\ b
  <2>1. Returned(t, b) = [thr[t] EXCEPT !.pc = "after", !.ok = TRUE, !.d = 0]
    BY <1>2 DEF Returned
  <2> QED
    BY <2>1, <1>2 DEF Shape, Position, Pcs, Procs, Parent, SignalPcs, Working,
                      Dumping, Cloned
<1>3. CASE thr[t].via = "signal" /\ ~b
  <2>1. PICK j \in Int : j = thr[t].i - 1
    BY SMT DEF Shape, Position
  <2>2. Returned(t, b) = [thr[t] EXCEPT !.pc = "loop", !.i = j, !.d = 0]
    BY <2>1, <1>3 DEF Returned
  <2>3. /\ Returned(t, b) \in Position
        /\ Returned(t, b).pc = "loop" /\ Returned(t, b).i = thr[t].i - 1
        /\ Returned(t, b).via = "signal" /\ Returned(t, b).d = 0
        /\ Returned(t, b).sig = thr[t].sig
    BY <2>1, <2>2, <1>3 DEF Shape, Position, Pcs, Procs, Parent
  <2> QED
    BY <2>3, <1>3 DEF Shape, SignalPcs, Working, Dumping, Cloned
<1> QED
  BY <1>1, <1>2, <1>3

\* A thread inside SignalHandler or GenerateDump() goes on to the next place.
LEMMA GotoShape ==
  ASSUME NEW t \in Threads, NEW p, Shape(thr[t]), thr \in [Threads -> Position],
         alive' = alive, Goto(t, p),
         \/ p \in SignalPcs /\ thr[t].pc \in SignalPcs
         \/ p \in Cloned /\ thr[t].pc \in Cloned
  PROVE  Moved(t) /\ thr'[t] = [thr[t] EXCEPT !.pc = p]
<1> USE Zenon
<1>1. PICK r : r = [thr[t] EXCEPT !.pc = p]
  OBVIOUS
<1>2. thr' = [thr EXCEPT ![t] = r]
  BY <1>1 DEF Goto
<1>3. thr[t] \in Position /\ p \in Pcs
  BY DEF Shape, SignalPcs, Cloned, Pcs
<1>4. r \in Position /\ r.pc = p /\ r.via = thr[t].via /\ r.h = thr[t].h
      /\ r.d = thr[t].d /\ r.sig = thr[t].sig
  BY <1>1, <1>3 DEF Position
<1>5. Shape(r)
  BY <1>4 DEF Shape, SignalPcs, Working, Dumping, Cloned
<1> QED
  BY <1>1, <1>2, <1>5, MoveTo

\* A signal that Breakpad's handler gets is at the start of SignalHandler.
LEMMA EnterShape ==
  ASSUME NEW s \in Signals, NEW u \in BOOLEAN, NEW r,
         r = [Idle EXCEPT !.pc = "enter", !.sig = s, !.user = u, !.via = "signal"]
  PROVE  Shape(r) /\ r.pc = "enter"
<1> USE Zenon
<1>1. PICK z : z = Idle
  OBVIOUS
<1>2. z \in Position /\ z.d = 0
  BY <1>1, IdleShape DEF Shape, Idle
<1>3. r = [z EXCEPT !.pc = "enter", !.sig = s, !.user = u, !.via = "signal"]
  BY <1>1
<1>4. r \in Position /\ r.pc = "enter" /\ r.via = "signal" /\ r.sig = s /\ r.d = 0
  BY <1>2, <1>3 DEF Position, Pcs
<1> QED
  BY <1>4 DEF Shape, SignalPcs, Working, Dumping, Cloned

\* A constructor or destructor begins.
LEMMA BeginShape ==
  ASSUME NEW t \in Threads, NEW p \in {"ctor", "dtor"}, NEW h \in Handlers,
         ThreadInv, thr[t].pc = "run", alive' = alive,
         thr' = [thr EXCEPT ![t].pc = p, ![t].h = h]
  PROVE  Moved(t) /\ thr'[t].pc = p /\ thr'[t].h = h
<1> USE Zenon
<1>1. thr[t] = Idle /\ thr \in [Threads -> Position]
  BY DEF ThreadInv, Shape
<1>2. PICK r : r = [thr[t] EXCEPT !.pc = p, !.h = h]
  OBVIOUS
<1>3. thr' = [thr EXCEPT ![t] = r]
  BY <1>1, <1>2
<1>4. Shape(r) /\ r.pc = p /\ r.h = h
  BY SMT, <1>1, <1>2, HandlerAssumption
     DEF Shape, Position, Idle, Pcs, Procs, Parent, SignalPcs, Working, Dumping, Cloned
<1> QED
  BY <1>1, <1>3, <1>4, MoveTo

\* GenerateDump() begins for a caller.
LEMMA BeginDumpShape ==
  ASSUME NEW t \in Threads, NEW h \in Handlers, NEW c \in {"signal", "write", "simulate"},
         ThreadInv, alive' = alive, BeginDump(t, h, c),
         thr[t].pc = (IF c = "signal" THEN "loop" ELSE "run")
  PROVE  /\ Moved(t)
         /\ thr'[t].pc = (IF h \in remote THEN "request" ELSE "pipe")
         /\ thr'[t].h = h /\ thr'[t].via = c /\ thr'[t].i = thr[t].i
<1> USE Zenon
<1>1. /\ Shape(thr[t]) /\ thr[t] \in Position /\ thr \in [Threads -> Position]
  BY DEF ThreadInv, Shape
<1>2. PICK p \in {"request", "pipe"} : p = (IF h \in remote THEN "request" ELSE "pipe")
  OBVIOUS
<1>3. PICK r : r = [thr[t] EXCEPT !.pc = p, !.h = h, !.via = c]
  OBVIOUS
<1>4. thr' = [thr EXCEPT ![t] = r]
  BY <1>1, <1>2, <1>3 DEF BeginDump
<1>5. /\ r \in Position /\ r.pc = p /\ r.h = h /\ r.via = c /\ r.i = thr[t].i
      /\ r.d = thr[t].d /\ r.sig = thr[t].sig
  BY <1>1, <1>3 DEF Position, Pcs
<1>6. thr[t].d = 0 /\ (c = "signal" => thr[t].via = "signal")
  BY <1>1, <1>2 DEF Shape, Cloned, SignalPcs
<1>7. c = "signal" => thr[t].sig \in Signals
  BY <1>1, <1>6 DEF Shape
<1>8. Shape(r)
  BY <1>5, <1>6, <1>7 DEF Shape, SignalPcs, Working, Dumping, Cloned
<1> QED
  BY <1>1, <1>2, <1>4, <1>5, <1>8, MoveTo

\* What a step of thread t does to the mutex and to the handler stack.
Orderly(t) ==
  /\ Moved(t) /\ Section(t)'
  /\ mutex' \in {None, mutex, t} /\ (mutex' # mutex => mutex \in {None, t})
  /\ (stack' = stack /\ life' = life) \/ mutex = t

\* A thread that returns to the program, or that is at a place of SignalHandler
\* outside the mutex, relies on nothing.
LEMMA OutsideSection ==
  ASSUME NEW t \in Threads,
         thr'[t].pc \in {"run", "enter", "unlocked", "again"}
  PROVE  Section(t)'
BY DEF Section, Serving, Working, Dumping

\* A signal of thread t that does not end the process: SignalHandler begins.
LEMMA DeliverOrderly ==
  ASSUME ThreadInv, NEW t \in Threads, NEW s \in Signals, NEW u \in BOOLEAN,
         Deliver(t, s, u), \A why : ~Die(why)
  PROVE  Orderly(t)
<1> USE Zenon
<1>1. PICK r : r = [Idle EXCEPT !.pc = "enter", !.sig = s, !.user = u, !.via = "signal"]
  OBVIOUS
<1>2. thr' = [thr EXCEPT ![t] = r] /\ UNCHANGED quietVars
  BY <1>1 DEF Deliver
<1>3. Shape(r) /\ r.pc = "enter"
  BY <1>1, EnterShape
<1>4. alive' = alive /\ mutex' = mutex /\ life' = life /\ stack' = stack
  BY <1>2 DEF quietVars, globalVars, procVars, regVars
<1>5. Moved(t) /\ thr'[t].pc = "enter"
  BY <1>2, <1>3, <1>4, MoveTo DEF ThreadInv
<1> QED
  BY <1>4, <1>5, OutsideSection DEF Orderly

\* The calls of the program keep the mutex and the handler stack in order: a
\* constructor or destructor begins with the mutex, and a thread signalled
\* inside one leaves it to nobody.
LEMMA ProgramOrderly ==
  ASSUME ThreadInv, SectionInv, NEW t \in Threads, program(t),
         \A why : ~Die(why)
  PROVE  Orderly(t)
<1> USE Zenon
<1>0. /\ Shape(thr[t]) /\ thr \in [Threads -> Position] /\ Section(t)
      /\ thr[t].pc = "run" => thr[t] = Idle
  BY DEF ThreadInv, SectionInv, Shape
<1>1. ASSUME NEW h \in Handlers, construct(t, h) PROVE Orderly(t)
  <2>1. /\ alive' = alive /\ mutex' = t /\ mutex = None /\ life' = life
        /\ stack' = stack /\ life[h] = "none" /\ thr[t].pc = "run"
        /\ thr' = [thr EXCEPT ![t].pc = "ctor", ![t].h = h]
    BY <1>1 DEF construct, procVars, regVars
  <2>2. Moved(t) /\ thr'[t].pc = "ctor" /\ thr'[t].h = h
    BY <2>1, BeginShape
  <2> QED
    BY <2>1, <2>2 DEF Orderly, Section, Serving, Working, Dumping
<1>2. ASSUME NEW h \in Handlers, destroy(t, h) PROVE Orderly(t)
  <2>1. /\ alive' = alive /\ mutex' = t /\ mutex = None /\ life' = life
        /\ stack' = stack /\ life[h] = "live" /\ thr[t].pc = "run"
        /\ thr' = [thr EXCEPT ![t].pc = "dtor", ![t].h = h]
    BY <1>2 DEF destroy, procVars, regVars
  <2>2. Moved(t) /\ thr'[t].pc = "dtor" /\ thr'[t].h = h
    BY <2>1, BeginShape
  <2> QED
    BY <2>1, <2>2 DEF Orderly, Section, Serving, Working, Dumping
<1>3. ASSUME NEW h \in Handlers, SimulateSignalDelivery(t, h) PROVE Orderly(t)
  <2>1. /\ alive' = alive /\ mutex' = mutex /\ life' = life /\ stack' = stack
        /\ thr[t].pc = "run" /\ HandleSignal(t, h, "simulate")
    BY <1>3 DEF SimulateSignalDelivery, HandleSignal, procVars, regVars
  <2>2. ASSUME NEW b \in BOOLEAN, thr' = [thr EXCEPT ![t] = Returned(t, b)]
        PROVE  Orderly(t)
    <3>1. thr[t].via # "signal"
      BY SMT, <1>0, <2>1 DEF Idle
    <3>2. Moved(t) /\ thr'[t] = Idle
      BY <1>0, <2>1, <2>2, <3>1, ReturnedShape, MoveTo
    <3> QED
      BY SMT, <2>1, <3>2, OutsideSection DEF Orderly, Idle
  <2>3. CASE BeginDump(t, h, "simulate")
    BY <2>1, <2>3, BeginDumpShape DEF Orderly, Section, Serving
  <2> QED
    BY <2>1, <2>2, <2>3 DEF HandleSignal
<1>4. ASSUME NEW h \in Handlers, WriteMinidump(t, h) PROVE Orderly(t)
  <2>1. /\ alive' = alive /\ mutex' = mutex /\ life' = life /\ stack' = stack
        /\ thr[t].pc = "run" /\ BeginDump(t, h, "write")
    BY <1>4 DEF WriteMinidump, procVars, regVars
  <2> QED
    BY <2>1, BeginDumpShape DEF Orderly, Section, Serving
<1>5. CASE crash(t)
  BY <1>5, DeliverOrderly DEF crash
<1>6. CASE firstChance(t)
  <2>1. /\ alive' = alive /\ mutex' = mutex /\ life' = life /\ stack' = stack
        /\ thr' = [thr EXCEPT ![t] = Idle]
    BY <1>6 DEF firstChance, quietVars, globalVars, procVars, regVars
  <2>2. Moved(t) /\ thr'[t] = Idle
    BY <1>0, <2>1, IdleShape, MoveTo
  <2> QED
    BY SMT, <2>1, <2>2, OutsideSection DEF Orderly, Idle
<1>7. ASSUME NEW h \in Handlers, getcontextFails(t, h) PROVE Orderly(t)
  <2>1. /\ alive' = alive /\ mutex' = mutex /\ life' = life /\ stack' = stack
        /\ thr' = [thr EXCEPT ![t] = Idle]
    BY <1>7 DEF getcontextFails, procVars, regVars
  <2>2. Moved(t) /\ thr'[t] = Idle
    BY <1>0, <2>1, IdleShape, MoveTo
  <2> QED
    BY SMT, <2>1, <2>2, OutsideSection DEF Orderly, Idle
<1> QED
  BY <1>1, <1>2, <1>3, <1>4, <1>5, <1>6, <1>7 DEF program

\* GenerateDump() or HandleSignal() returns b: a thread under SignalHandler goes
\* back to its loop, one handler further down, still with the mutex.
LEMMA ReturnOrderly ==
  ASSUME ThreadInv, SectionInv, NEW t \in Threads, NEW b \in BOOLEAN,
         thr[t].pc \in Working \/ (thr[t].pc = "loop" /\ thr[t].i > 0),
         thr' = [thr EXCEPT ![t] = Returned(t, b)],
         alive' = alive, mutex' = mutex, stack' = stack, life' = life
  PROVE  Orderly(t)
<1> USE Zenon
<1>1. /\ Shape(thr[t]) /\ thr \in [Threads -> Position] /\ Section(t)
      /\ stack \in Seq(Handlers)
  BY DEF ThreadInv, SectionInv, StackInv
<1>2. Moved(t) /\ thr'[t] = Returned(t, b)
  BY <1>1, ReturnedShape, MoveTo
<1>3. CASE thr[t].via # "signal"
  <2>1. thr'[t] = Idle
    BY <1>1, <1>2, <1>3, ReturnedShape
  <2> QED
    BY SMT, <1>2, <2>1, OutsideSection DEF Orderly, Idle
<1>4. CASE thr[t].via = "signal"
  <2>1. /\ thr'[t].pc = (IF b THEN "after" ELSE "loop")
        /\ thr'[t].i = (IF b THEN thr[t].i ELSE thr[t].i - 1)
    BY <1>1, <1>2, <1>4, ReturnedShape
  <2>2. thr[t].i \in 1..Len(stack) /\ mutex = t
    BY SMT, <1>1, <1>4 DEF Section, Serving
  <2>3. thr'[t].pc = "loop" => thr'[t].i \in 0..Len(stack)
    BY SMT, <1>1, <2>1, <2>2
  <2> QED
    BY SMT, <1>2, <2>1, <2>2, <2>3 DEF Orderly, Section, Serving, Working, Dumping
<1> QED
  BY <1>3, <1>4

\* A step inside GenerateDump() keeps what SignalHandler relies on.
LEMMA CloneOrderly ==
  ASSUME ThreadInv, SectionInv, NEW t \in Threads, NEW p \in Cloned,
         thr[t].pc \in Cloned, Goto(t, p),
         alive' = alive, mutex' = mutex, stack' = stack, life' = life
  PROVE  Orderly(t)
<1> USE Zenon
<1>1. Shape(thr[t]) /\ thr \in [Threads -> Position] /\ Section(t)
  BY DEF ThreadInv, SectionInv
<1>2. Moved(t) /\ thr'[t] = [thr[t] EXCEPT !.pc = p]
  BY <1>1, GotoShape
<1>3. /\ thr'[t].pc = p /\ thr'[t].via = thr[t].via /\ thr'[t].h = thr[t].h
      /\ thr'[t].i = thr[t].i
  BY <1>1, <1>2 DEF Shape, Position
<1> QED
  BY <1>1, <1>2, <1>3 DEF Orderly, Section, Serving, Working, Dumping, Cloned

\* The steps of a thread inside constructor, destructor and SignalHandler keep
\* the mutex and the handler stack in order.
LEMMA HandlerOrderly ==
  ASSUME ThreadInv, SectionInv, NEW t \in Threads, \A why : ~Die(why),
         \/ constructed(t) \/ destroyed(t) \/ lockStack(t) \/ resetSiginfo(t)
         \/ enterLoop(t) \/ tryHandler(t) \/ afterLoop(t) \/ rethrow(t) \/ repeat(t)
  PROVE  Orderly(t)
<1> USE Zenon
<1>0. /\ Shape(thr[t]) /\ thr[t] \in Position /\ thr \in [Threads -> Position]
      /\ Section(t) /\ stack \in Seq(Handlers)
  BY DEF ThreadInv, SectionInv, StackInv, Shape
<1>1. CASE constructed(t)
  <2>1. /\ alive' = alive /\ mutex' = None /\ thr' = [thr EXCEPT ![t] = Idle]
        /\ thr[t].pc = "ctor"
    BY <1>1 DEF constructed, procVars
  <2>2. Moved(t) /\ thr'[t] = Idle /\ mutex = t
    BY <1>0, <2>1, IdleShape, MoveTo DEF Section
  <2> QED
    BY SMT, <2>1, <2>2, OutsideSection DEF Orderly, Idle
<1>2. CASE destroyed(t)
  <2>1. /\ alive' = alive /\ mutex' = None /\ thr' = [thr EXCEPT ![t] = Idle]
        /\ thr[t].pc = "dtor"
    BY <1>2 DEF destroyed, procVars
  <2>2. Moved(t) /\ thr'[t] = Idle /\ mutex = t
    BY <1>0, <2>1, IdleShape, MoveTo DEF Section
  <2> QED
    BY SMT, <2>1, <2>2, OutsideSection DEF Orderly, Idle
<1>3. CASE lockStack(t)
  <2>1. /\ alive' = alive /\ mutex = None /\ mutex' = t /\ stack' = stack /\ life' = life
        /\ thr[t].pc = "enter" /\ Goto(t, "locked")
    BY <1>3 DEF lockStack, procVars, regVars
  <2>2. Moved(t) /\ thr'[t] = [thr[t] EXCEPT !.pc = "locked"]
    BY <1>0, <2>1, GotoShape DEF SignalPcs
  <2>3. thr'[t].pc = "locked"
    BY <1>0, <2>2 DEF Position
  <2> QED
    BY <2>1, <2>2, <2>3 DEF Orderly, Section, Serving, Working, Dumping
<1>4. CASE resetSiginfo(t)
  <2>1. /\ alive' = alive /\ mutex' = None /\ stack' = stack /\ life' = life
        /\ thr[t].pc = "locked"
        /\ thr' = [thr EXCEPT ![t] = IF thr[t].user THEN Idle
                                     ELSE [@ EXCEPT !.pc = "again"]]
    BY <1>4 DEF resetSiginfo, procVars, regVars
  <2>2. mutex = t
    BY <1>0, <2>1 DEF Section
  <2>3. CASE thr[t].user
    <3>1. Moved(t) /\ thr'[t] = Idle
      BY <1>0, <2>1, <2>3, IdleShape, MoveTo
    <3> QED
      BY SMT, <2>1, <2>2, <3>1, OutsideSection DEF Orderly, Idle
  <2>4. CASE ~thr[t].user
    <3>1. Goto(t, "again")
      BY <1>0, <2>1, <2>4 DEF Goto
    <3>2. Moved(t) /\ thr'[t] = [thr[t] EXCEPT !.pc = "again"]
      BY <1>0, <2>1, <3>1, GotoShape DEF SignalPcs
    <3>3. thr'[t].pc = "again"
      BY <1>0, <3>2 DEF Position
    <3> QED
      BY <2>1, <2>2, <3>2, <3>3, OutsideSection DEF Orderly
  <2> QED
    BY <2>3, <2>4
<1>5. CASE enterLoop(t)
  <2>1. /\ alive' = alive /\ mutex' = mutex /\ stack' = stack /\ life' = life
        /\ thr[t].pc = "locked"
        /\ thr' = [thr EXCEPT ![t].pc = "loop", ![t].i = Len(stack)]
    BY <1>5 DEF enterLoop, quietVars, globalVars, procVars, regVars
  <2>2. PICK r : r = [thr[t] EXCEPT !.pc = "loop", !.i = Len(stack)]
    OBVIOUS
  <2>3. thr' = [thr EXCEPT ![t] = r]
    BY <1>0, <2>1, <2>2
  <2>4. Len(stack) \in Nat /\ Len(stack) \in Int
    BY SMT, <1>0
  <2>5. /\ r \in Position /\ r.pc = "loop" /\ r.i = Len(stack) /\ r.via = thr[t].via
        /\ r.sig = thr[t].sig /\ r.d = thr[t].d
    BY <1>0, <2>2, <2>4 DEF Position, Pcs
  <2>6. Shape(r) /\ mutex = t
    BY <1>0, <2>1, <2>5 DEF Shape, SignalPcs, Working, Dumping, Cloned, Section
  <2>7. Moved(t) /\ thr'[t] = r
    BY <1>0, <2>1, <2>3, <2>6, MoveTo
  <2>8. Len(stack) \in 0..Len(stack)
    BY SMT, <2>4
  <2> QED
    BY <2>1, <2>5, <2>6, <2>7, <2>8 DEF Orderly, Section, Serving, Working, Dumping
<1>6. CASE tryHandler(t)
  <2> DEFINE h == stack[thr[t].i]
  <2>1. /\ alive' = alive /\ mutex' = mutex /\ stack' = stack /\ life' = life
        /\ thr[t].pc = "loop" /\ thr[t].i > 0 /\ HandleSignal(t, h, "signal")
    BY <1>6 DEF tryHandler, HandleSignal, procVars, regVars
  <2>2. ASSUME NEW b \in BOOLEAN, thr' = [thr EXCEPT ![t] = Returned(t, b)]
        PROVE  Orderly(t)
    BY <2>1, <2>2, ReturnOrderly
  <2>3. CASE BeginDump(t, h, "signal")
    <3>1. thr[t].i \in 1..Len(stack) /\ mutex = t
      BY SMT, <1>0, <2>1 DEF Section, Shape, Position
    <3>2. h \in Handlers /\ life[h] = "live"
      BY SMT, <1>0, <3>1 DEF SectionInv, StackInv, Holds
    <3> HIDE DEF h
    <3>3. /\ Moved(t) /\ thr'[t].pc \in {"request", "pipe"} /\ thr'[t].h = h
          /\ thr'[t].i = thr[t].i
      BY <2>1, <2>3, <3>2, BeginDumpShape
    <3> QED
      BY <2>1, <3>1, <3>2, <3>3 DEF Orderly, Section
  <2> HIDE DEF h
  <2> QED
    BY <2>1, <2>2, <2>3 DEF HandleSignal
<1>7. CASE afterLoop(t)
  <2>1. /\ alive' = alive /\ mutex' = None /\ stack' = stack /\ life' = life
        /\ thr[t].pc \in {"after", "loop"} /\ Goto(t, "unlocked")
    BY <1>7 DEF afterLoop, procVars, regVars
  <2>2. Moved(t) /\ thr'[t] = [thr[t] EXCEPT !.pc = "unlocked"]
    BY <1>0, <2>1, GotoShape DEF SignalPcs
  <2>3. thr'[t].pc = "unlocked" /\ mutex = t
    BY <1>0, <2>1, <2>2 DEF Position, Section
  <2> QED
    BY <2>1, <2>2, <2>3, OutsideSection DEF Orderly
<1>8. CASE rethrow(t)
  <2>1. /\ alive' = alive /\ mutex' = mutex /\ stack' = stack /\ life' = life
        /\ thr[t].pc = "unlocked" /\ Goto(t, "again")
    BY <1>8 DEF rethrow, quietVars, globalVars, procVars, regVars
  <2>2. Moved(t) /\ thr'[t] = [thr[t] EXCEPT !.pc = "again"]
    BY <1>0, <2>1, GotoShape DEF SignalPcs
  <2>3. thr'[t].pc = "again"
    BY <1>0, <2>2 DEF Position
  <2> QED
    BY <2>1, <2>2, <2>3, OutsideSection DEF Orderly
<1>9. CASE repeat(t)
  <2>1. PICK s \in Signals, u \in BOOLEAN : Deliver(t, s, u)
    BY <1>0, <1>9 DEF repeat, Shape, Position, SignalPcs
  <2> QED
    BY <2>1, DeliverOrderly
<1> QED
  BY <1>1, <1>2, <1>3, <1>4, <1>5, <1>6, <1>7, <1>8, <1>9

\* The steps of GenerateDump() keep the mutex and the handler stack in order.
LEMMA DumpOrderly ==
  ASSUME ThreadInv, SectionInv, NEW t \in Threads, \A why : ~Die(why),
         \/ RequestDump(t) \/ allocFails(t) \/ makePipe(t) \/ cloneChild(t)
         \/ allowTrace(t) \/ SendContinueSignalToChild(t) \/ waitChild(t)
  PROVE  Orderly(t)
<1> USE Zenon
<1>0. /\ Shape(thr[t]) /\ thr[t] \in Position /\ thr \in [Threads -> Position]
      /\ Section(t)
  BY DEF ThreadInv, SectionInv, Shape
<1>1. alive' = alive /\ mutex' = mutex /\ stack' = stack /\ life' = life
  BY DEF RequestDump, allocFails, makePipe, cloneChild, allowTrace,
         SendContinueSignalToChild, waitChild, quietVars, globalVars, procVars, regVars
<1>2. ASSUME thr[t].pc \in Working, NEW b \in BOOLEAN,
             thr' = [thr EXCEPT ![t] = Returned(t, b)]
      PROVE  Orderly(t)
  BY <1>1, <1>2, ReturnOrderly
<1>3. CASE RequestDump(t)
  BY <1>2, <1>3 DEF RequestDump, Working
<1>4. CASE allocFails(t)
  BY <1>2, <1>4 DEF allocFails, Working, Dumping
<1>5. CASE makePipe(t)
  <2>1. PICK d \in Dumps : thr' = [thr EXCEPT ![t].pc = "clone", ![t].d = d]
    BY <1>5 DEF makePipe
  <2>2. PICK r : r = [thr[t] EXCEPT !.pc = "clone", !.d = d]
    OBVIOUS
  <2>3. thr' = [thr EXCEPT ![t] = r]
    BY <1>0, <2>1, <2>2
  <2>4. /\ r \in Position /\ r.pc = "clone" /\ r.d = d /\ r.via = thr[t].via
        /\ r.sig = thr[t].sig /\ r.h = thr[t].h /\ r.i = thr[t].i
    BY <1>0, <2>2 DEF Position, Pcs, Procs
  <2>5. thr[t].pc = "pipe"
    BY <1>5 DEF makePipe
  <2>6. Shape(r)
    BY <1>0, <2>4, <2>5 DEF Shape, SignalPcs, Working, Dumping, Cloned
  <2>7. Moved(t) /\ thr'[t] = r
    BY <1>0, <1>1, <2>3, <2>6, MoveTo
  <2> QED
    BY <1>0, <1>1, <2>4, <2>5, <2>7 DEF Orderly, Section, Serving, Working, Dumping
<1>6. CASE cloneChild(t)
  <2>1. thr[t].pc = "clone"
        /\ (Goto(t, "close") \/ thr' = [thr EXCEPT ![t] = Returned(t, FALSE)])
    BY <1>6 DEF cloneChild
  <2> QED
    BY <1>1, <1>2, <2>1, CloneOrderly DEF Working, Dumping, Cloned
<1>7. CASE allowTrace(t)
  BY <1>1, <1>7, CloneOrderly DEF allowTrace, Cloned
<1>8. CASE SendContinueSignalToChild(t)
  BY <1>1, <1>8, CloneOrderly DEF SendContinueSignalToChild, Cloned
<1>9. CASE waitChild(t)
  BY <1>2, <1>9 DEF waitChild, Working, Dumping
<1> QED
  BY <1>3, <1>4, <1>5, <1>6, <1>7, <1>8, <1>9

\* Every step of a thread ends the process or is in order.
LEMMA StepsOrderly ==
  ASSUME ThreadInv, SectionInv, NEW t \in Threads, threadStep(t) \/ program(t),
         \A why : ~Die(why)
  PROVE  Orderly(t)
BY ProgramOrderly, HandlerOrderly, DumpOrderly DEF threadStep

\* A process that ended has no threads and no handlers left.
LEMMA DeadInv ==
  ASSUME NEW why, Die(why)
  PROVE  ThreadInv' /\ SectionInv'
<1> USE Zenon
<1>1. thr' = [t \in Threads |-> Idle] /\ alive' = FALSE
  BY DEF Die
<1>2. ThreadInv'
  BY <1>1, IdleShape DEF ThreadInv, Shape
<1>3. /\ mutex' = None /\ stack' = << >> /\ life' = [h \in Handlers |-> "none"]
      /\ Len(stack') = 0
  BY DEF Die
<1>4. StackInv'
  BY SMT, <1>3 DEF StackInv, Holds, EachOnce
<1>5. \A t \in Threads : Section(t)'
  BY <1>1, OutsideSection DEF Idle
<1> QED
  BY <1>2, <1>4, <1>5 DEF SectionInv

-----------------------------------------------------------------------------
(* The handler stack                                                       *)

\* std::find() and erase() on a stack that holds each handler once take out the
\* one handler and keep the others, each once.
LEMMA EraseOne ==
  ASSUME NEW s \in Seq(Handlers), NEW n \in 1..Len(s), NEW e, e = Erase(s, s[n]),
         EachOnce(s)
  PROVE  /\ e \in Seq(Handlers) /\ EachOnce(e)
         /\ \A h \in Handlers : Holds(e, h) <=> h # s[n] /\ Holds(s, h)
<1> USE Zenon
<1> DEFINE m == CHOOSE k \in 1..Len(s) : s[k] = s[n]
<1>1. m \in 1..Len(s) /\ s[m] = s[n]
  OBVIOUS
<1>2. m = n
  BY <1>1 DEF EachOnce
<1>3. e = [j \in 1..(Len(s) - 1) |-> IF j < n THEN s[j] ELSE s[j + 1]]
  BY <1>2 DEF Erase
<1> HIDE DEF m
<1>4. Len(s) \in Nat /\ Len(s) >= 1 /\ \A j \in 1..Len(s) : s[j] \in Handlers
  BY SMT
<1>5. e \in Seq(Handlers) /\ Len(e) = Len(s) - 1
  BY SMT, <1>3, <1>4
<1>6. \A j \in 1..Len(e) : e[j] = IF j < n THEN s[j] ELSE s[j + 1]
  BY <1>3, <1>5
<1>7. \A j, k \in 1..Len(e) : e[j] = e[k] => j = k
  <2> SUFFICES ASSUME NEW j \in 1..Len(e), NEW k \in 1..Len(e), e[j] = e[k] PROVE j = k
    OBVIOUS
  <2>1. PICK a \in 1..Len(s) : e[j] = s[a] /\ a = IF j < n THEN j ELSE j + 1
    <3>1. CASE j < n
      BY SMT, <1>4, <1>5, <1>6, <3>1
    <3>2. CASE ~(j < n)
      BY SMT, <1>4, <1>5, <1>6, <3>2
    <3> QED
      BY <3>1, <3>2
  <2>2. PICK c \in 1..Len(s) : e[k] = s[c] /\ c = IF k < n THEN k ELSE k + 1
    BY SMT, <1>4, <1>5, <1>6
  <2>3. a = c
    BY <2>1, <2>2 DEF EachOnce
  <2> QED
    BY SMT, <1>4, <1>5, <2>1, <2>2, <2>3
<1>8. ASSUME NEW h \in Handlers, NEW k \in 1..Len(e), e[k] = h
      PROVE  h # s[n] /\ \E j \in 1..Len(s) : s[j] = h
  <2>1. PICK c \in 1..Len(s) : e[k] = s[c] /\ c = IF k < n THEN k ELSE k + 1
    BY SMT, <1>4, <1>5, <1>6
  <2>2. c # n
    BY SMT, <1>4, <1>5, <2>1
  <2> QED
    BY <1>8, <2>1, <2>2 DEF EachOnce
<1>9. ASSUME NEW h \in Handlers, h # s[n], NEW j \in 1..Len(s), s[j] = h
      PROVE  \E k \in 1..Len(e) : e[k] = h
  <2>1. j # n
    BY <1>9
  <2>2. CASE j < n
    BY SMT, <1>4, <1>5, <1>6, <1>9, <2>2
  <2>3. CASE j > n
    <3>1. j - 1 \in 1..Len(e) /\ ~(j - 1 < n) /\ (j - 1) + 1 = j
      BY SMT, <1>4, <1>5, <2>3
    <3> QED
      BY <1>6, <1>9, <3>1
  <2> QED
    BY SMT, <1>4, <2>1, <2>2, <2>3
<1> QED
  BY <1>5, <1>7, <1>8, <1>9 DEF Holds, EachOnce

\* The constructor pushes a handler that is not in the stack yet.
LEMMA ConstructedStack ==
  ASSUME SectionInv, ThreadInv, NEW t \in Threads, constructed(t)
  PROVE  StackInv'
<1> USE Zenon
<1> DEFINE h == thr[t].h
<1>1. /\ stack' = Append(stack, h) /\ life' = [life EXCEPT ![h] = "live"]
      /\ mutex' = None /\ thr[t].pc = "ctor"
  BY DEF constructed
<1>2. h \in Handlers /\ life[h] = "none"
  BY <1>1 DEF ThreadInv, Shape, SectionInv, Section
<1> HIDE DEF h
<1>3. /\ stack \in Seq(Handlers) /\ life \in [Handlers -> {"none", "live", "gone"}]
      /\ Len(stack) \in Nat
      /\ \A g \in Handlers : life[g] = "live" <=> \E k \in 1..Len(stack) : stack[k] = g
      /\ \A j, k \in 1..Len(stack) : stack[j] = stack[k] => j = k
  BY SMT DEF SectionInv, StackInv, Holds, EachOnce
<1>4. /\ stack' \in Seq(Handlers) /\ Len(stack') = Len(stack) + 1
      /\ \A k \in 1..Len(stack) : stack'[k] = stack[k]
      /\ stack'[Len(stack) + 1] = h
  BY SMT, <1>1, <1>2, <1>3
<1>5. \A k \in 1..Len(stack) : stack[k] # h
  BY <1>2, <1>3
<1>6. ASSUME NEW j \in 1..Len(stack'), NEW k \in 1..Len(stack'), stack'[j] = stack'[k]
      PROVE  j = k
  <2>1. j \in 1..Len(stack) \/ j = Len(stack) + 1
    BY SMT, <1>3, <1>4
  <2>2. k \in 1..Len(stack) \/ k = Len(stack) + 1
    BY SMT, <1>3, <1>4
  <2> QED
    BY SMT, <1>3, <1>4, <1>5, <1>6, <2>1, <2>2
<1>7. ASSUME NEW g \in Handlers
      PROVE  life'[g] = "live" <=> \E k \in 1..Len(stack') : stack'[k] = g
  <2>1. CASE g = h
    <3>1. Len(stack) + 1 \in 1..Len(stack')
      BY SMT, <1>3, <1>4
    <3> QED
      BY <1>1, <1>2, <1>3, <1>4, <2>1, <3>1
  <2>2. CASE g # h
    <3>1. life'[g] = life[g]
      BY <1>1, <1>3, <2>2
    <3>2. \A k \in 1..Len(stack') : k \in 1..Len(stack) \/ k = Len(stack) + 1
      BY SMT, <1>3, <1>4
    <3>3. \A k \in 1..Len(stack) : k \in 1..Len(stack')
      BY SMT, <1>3, <1>4
    <3> QED
      BY SMT, <1>3, <1>4, <2>2, <3>1, <3>2, <3>3
  <2> QED
    BY <2>1, <2>2
<1>8. life' \in [Handlers -> {"none", "live", "gone"}]
  BY <1>1, <1>3
<1> QED
  BY <1>1, <1>4, <1>6, <1>7, <1>8 DEF StackInv, Holds, EachOnce

\* The destructor takes out the handler it destroys.
LEMMA DestroyedStack ==
  ASSUME SectionInv, ThreadInv, NEW t \in Threads, destroyed(t)
  PROVE  StackInv'
<1> USE Zenon
<1> DEFINE h == thr[t].h
<1>1. /\ stack' = Erase(stack, h) /\ life' = [life EXCEPT ![h] = "gone"]
      /\ mutex' = None /\ thr[t].pc = "dtor"
  BY DEF destroyed
<1>2. h \in Handlers /\ life[h] = "live"
  BY <1>1 DEF ThreadInv, Shape, SectionInv, Section
<1> HIDE DEF h
<1>3. /\ stack \in Seq(Handlers) /\ life \in [Handlers -> {"none", "live", "gone"}]
      /\ \A g \in Handlers : life[g] = "live" <=> Holds(stack, g)
      /\ EachOnce(stack)
  BY DEF SectionInv, StackInv
<1>4. PICK n \in 1..Len(stack) : stack[n] = h
  BY <1>2, <1>3 DEF Holds
<1>5. /\ stack' \in Seq(Handlers) /\ EachOnce(stack')
      /\ \A g \in Handlers : Holds(stack', g) <=> g # h /\ Holds(stack, g)
  BY SMT, <1>1, <1>3, <1>4, EraseOne
<1>6. \A g \in Handlers : life'[g] = IF g = h THEN "gone" ELSE life[g]
  BY <1>1, <1>3
<1>7. \A g \in Handlers : life'[g] = "live" <=> Holds(stack', g)
  BY <1>3, <1>5, <1>6
<1>8. life' \in [Handlers -> {"none", "live", "gone"}]
  BY <1>1, <1>3
<1> QED
  BY <1>1, <1>5, <1>7, <1>8 DEF StackInv

\* Only the end of a constructor or destructor changes the handler stack, the
\* alternate stack and the dispositions that were saved.
LEMMA RegistryKept ==
  ASSUME NEW t \in Threads, threadStep(t) \/ program(t), \A why : ~Die(why),
         ~constructed(t), ~destroyed(t)
  PROVE  UNCHANGED <<procVars, remote, stack, oldHandlers, life, stackVars>>
<1> USE Zenon
<1>1. ASSUME NEW h \in Handlers, \/ construct(t, h) \/ destroy(t, h)
                                 \/ SimulateSignalDelivery(t, h) \/ WriteMinidump(t, h)
                                 \/ getcontextFails(t, h)
      PROVE  UNCHANGED <<procVars, remote, stack, oldHandlers, life, stackVars>>
  BY <1>1 DEF construct, destroy, SimulateSignalDelivery, HandleSignal, WriteMinidump,
              getcontextFails, regVars
<1>2. CASE crash(t) \/ firstChance(t) \/ repeat(t)
  BY <1>2 DEF crash, firstChance, repeat, Deliver, quietVars, globalVars, regVars
<1>3. CASE lockStack(t) \/ resetSiginfo(t) \/ tryHandler(t) \/ afterLoop(t)
  BY <1>3 DEF lockStack, resetSiginfo, tryHandler, HandleSignal, afterLoop, regVars
<1>4. CASE enterLoop(t) \/ rethrow(t)
  BY <1>4 DEF enterLoop, rethrow, quietVars, globalVars, regVars
<1>5. CASE \/ RequestDump(t) \/ allocFails(t) \/ makePipe(t) \/ cloneChild(t)
           \/ allowTrace(t) \/ SendContinueSignalToChild(t) \/ waitChild(t)
  BY <1>5 DEF RequestDump, allocFails, makePipe, cloneChild, allowTrace,
              SendContinueSignalToChild, waitChild, quietVars, globalVars, regVars
<1> QED
  BY <1>1, <1>2, <1>3, <1>4, <1>5 DEF threadStep, program

\* The children, other code of the process and stuttering leave the threads and
\* the handlers alone.
LEMMA RestKept ==
  ASSUME \/ loseSiginfo \/ (\E d \in Dumps : childStep(d) \/ killChild(d))
         \/ UNCHANGED vars
  PROVE  UNCHANGED <<procVars, thr, mutex, remote, stack, installed, oldHandlers, life,
                     stackVars, context, overlapped, dumped>>
<1> USE Zenon
<1>1. CASE loseSiginfo
  BY <1>1 DEF loseSiginfo, regVars
<1>2. ASSUME NEW d \in Dumps, childStep(d)
      PROVE  UNCHANGED <<procVars, thr, mutex, remote, stack, installed, oldHandlers,
                         life, stackVars, context, overlapped, dumped>>
  BY <1>2 DEF childStep, regVars, boundVars
<1>3. ASSUME NEW d \in Dumps, killChild(d)
      PROVE  UNCHANGED <<procVars, thr, mutex, remote, stack, installed, oldHandlers,
                         life, stackVars, context, overlapped, dumped>>
  BY <1>3 DEF killChild, globalVars, regVars, boundVars
<1>4. CASE UNCHANGED vars
  BY <1>4 DEF vars, quietVars, globalVars, regVars, boundVars
<1> QED
  BY <1>1, <1>2, <1>3, <1>4

\* The ways a step of the system can go.
LEMMA StepKinds ==
  ASSUME [Next]_vars
  PROVE  \/ alive /\ \E why : Die(why)
         \/ /\ alive /\ \A why : ~Die(why)
            /\ \E t \in Threads : threadStep(t) \/ program(t)
         \/ loseSiginfo
         \/ \E d \in Dumps : childStep(d) \/ killChild(d)
         \/ UNCHANGED vars
BY DEF Next, kill

\* Every step keeps the positions of the threads, the mutex and the handler
\* stack consistent: while one thread holds the mutex, no other changes what it
\* relies on.
LEMMA SectionStep ==
  ASSUME ThreadInv, SectionInv, [Next]_vars
  PROVE  ThreadInv' /\ SectionInv'
<1> USE Zenon
<1>1. ASSUME NEW why, Die(why) PROVE ThreadInv' /\ SectionInv'
  BY <1>1, DeadInv
<1>2. ASSUME NEW t \in Threads, threadStep(t) \/ program(t), alive, \A why : ~Die(why)
      PROVE  ThreadInv' /\ SectionInv'
  <2>1. Orderly(t)
    BY <1>2, StepsOrderly
  <2>2. \A u \in Threads \ {t} : thr'[u] = thr[u]
    BY <2>1 DEF Orderly, Moved
  <2>3. ThreadInv'
    BY <1>2, <2>1, <2>2 DEF Orderly, Moved, ThreadInv
  <2>4. StackInv'
    <3>1. CASE constructed(t)
      BY <3>1, ConstructedStack
    <3>2. CASE destroyed(t)
      BY <3>2, DestroyedStack
    <3>3. CASE ~constructed(t) /\ ~destroyed(t)
      <4>1. stack' = stack /\ life' = life
        BY <1>2, <3>3, RegistryKept
      <4>2. mutex' \in Threads \cup {None}
        BY <2>1 DEF Orderly, SectionInv, StackInv
      <4> QED
        BY <4>1, <4>2 DEF SectionInv, StackInv
    <3> QED
      BY <3>1, <3>2, <3>3
  <2>5. ASSUME NEW u \in Threads, u # t PROVE Section(u)'
    <3>1. Section(u) /\ thr'[u] = thr[u]
      BY <2>2, <2>5 DEF SectionInv
    <3>2. CASE mutex = u
      <4>1. mutex' = mutex /\ stack' = stack /\ life' = life
        BY <2>1, <2>5, <3>2, HandlerAssumption DEF Orderly
      <4> QED
        BY <3>1, <4>1 DEF Section
    <3>3. CASE mutex # u
      BY <3>1, <3>3 DEF Section, Serving
    <3> QED
      BY <3>2, <3>3
  <2>6. Section(t)'
    BY <2>1 DEF Orderly
  <2> QED
    BY <2>3, <2>4, <2>5, <2>6 DEF SectionInv
<1>3. CASE \/ loseSiginfo \/ (\E d \in Dumps : childStep(d) \/ killChild(d))
           \/ UNCHANGED vars
  <2>1. UNCHANGED <<alive, thr, mutex, stack, life>>
    BY <1>3, RestKept DEF procVars
  <2> QED
    BY <2>1 DEF ThreadInv, SectionInv, StackInv, Section
<1> QED
  BY <1>1, <1>2, <1>3, StepKinds

\* The initial state: no handler exists.
LEMMA SectionInit == Init => ThreadInv /\ SectionInv
<1> USE Zenon
<1> SUFFICES ASSUME Init PROVE ThreadInv /\ SectionInv
  OBVIOUS
<1>1. ThreadInv
  BY IdleShape DEF Init, ThreadInv, Shape
<1>2. StackInv
  <2>1. /\ mutex = None /\ stack = << >> /\ life = [h \in Handlers |-> "none"]
        /\ Len(stack) = 0
    BY DEF Init
  <2> QED
    BY SMT, <2>1 DEF StackInv, Holds, EachOnce
<1>3. \A t \in Threads : Section(t)
  <2>1. \A t \in Threads : thr[t].pc = "run"
    BY DEF Init, Idle
  <2> QED
    BY <2>1 DEF Section, Serving, Working, Dumping
<1> QED
  BY <1>1, <1>2, <1>3 DEF SectionInv

\* The mutex of exception_handler.cc does its work: positions, mutex and handler
\* stack stay consistent in every behaviour.
THEOREM SectionInvariant == Spec => [](ThreadInv /\ SectionInv)
<1>1. (ThreadInv /\ SectionInv) /\ [Next]_vars => (ThreadInv /\ SectionInv)'
  BY SectionStep
<1> QED
  BY <1>1, SectionInit, PTL DEF Spec

\* A handler that SignalHandler's loop is calling is not destroyed under it,
\* whatever other threads construct and destroy and wherever they crash.
THEOREM HandlerAliveInUseHolds == Spec => []HandlerAliveInUse
<1>1. SectionInv => HandlerAliveInUse
  BY DEF SectionInv, Section, HandlerAliveInUse, Serving, Working
<1> QED
  BY <1>1, SectionInvariant, PTL

-----------------------------------------------------------------------------
(* Signal dispositions and the alternate stack                             *)

\* Signals go back and forth only where a constructor, a destructor or
\* SignalHandler changes them.
LEMMA SignalsKept ==
  ASSUME NEW t \in Threads, threadStep(t) \/ program(t), \A why : ~Die(why),
         ~constructed(t), ~destroyed(t), ~resetSiginfo(t), ~afterLoop(t)
  PROVE  UNCHANGED <<disposition, installed, dumped>>
<1> USE Zenon
<1>1. ASSUME NEW h \in Handlers, \/ construct(t, h) \/ destroy(t, h)
                                 \/ SimulateSignalDelivery(t, h) \/ WriteMinidump(t, h)
                                 \/ getcontextFails(t, h)
      PROVE  UNCHANGED <<disposition, installed, dumped>>
  BY <1>1 DEF construct, destroy, SimulateSignalDelivery, HandleSignal, WriteMinidump,
              getcontextFails, regVars
<1>2. CASE crash(t) \/ firstChance(t) \/ repeat(t) \/ enterLoop(t) \/ rethrow(t)
  BY <1>2 DEF crash, firstChance, repeat, Deliver, enterLoop, rethrow, quietVars,
              globalVars, regVars
<1>3. CASE lockStack(t) \/ tryHandler(t)
  BY <1>3 DEF lockStack, tryHandler, HandleSignal, regVars
<1>4. CASE \/ RequestDump(t) \/ allocFails(t) \/ makePipe(t) \/ cloneChild(t)
           \/ allowTrace(t) \/ SendContinueSignalToChild(t) \/ waitChild(t)
  BY <1>4 DEF RequestDump, allocFails, makePipe, cloneChild, allowTrace,
              SendContinueSignalToChild, waitChild, quietVars, globalVars, regVars
<1> QED
  BY <1>1, <1>2, <1>3, <1>4 DEF threadStep, program

\* What a step can end the process with: the disposition of a signal, or an end
\* of its own.
Ended ==
  \/ endedBy' = endedBy
  \/ endedBy' \in {"exit", "kill", "pipe", "null"}
  \/ \E s \in Signals : endedBy' = disposition[s] /\ disposition[s] \in {"old", "default"}

\* A process ends by a signal only with the action that signal has.
LEMMA EndKinds ==
  ASSUME ThreadInv, [Next]_vars
  PROVE  Ended
<1> USE Zenon
<1>1. ASSUME NEW t \in Threads, NEW s \in Signals, NEW u, Deliver(t, s, u)
      PROVE  Ended
  BY <1>1 DEF Deliver, Die, Ended, quietVars, globalVars, procVars
<1>2. ASSUME NEW t \in Threads, repeat(t) PROVE Ended
  <2>1. thr[t].sig \in Signals
    BY <1>2 DEF repeat, ThreadInv, Shape, SignalPcs
  <2> QED
    BY <1>1, <1>2, <2>1 DEF repeat
<1>3. ASSUME NEW t \in Threads, crash(t) PROVE Ended
  BY <1>1, <1>3 DEF crash
<1>4. ASSUME NEW t \in Threads,
             enterLoop(t) \/ SendContinueSignalToChild(t) \/ rethrow(t)
      PROVE  Ended
  BY <1>4 DEF enterLoop, SendContinueSignalToChild, rethrow, Die, Ended, quietVars,
              globalVars, procVars
<1>5. ASSUME NEW t \in Threads,
             \/ constructed(t) \/ destroyed(t) \/ lockStack(t) \/ resetSiginfo(t)
             \/ tryHandler(t) \/ RequestDump(t) \/ allocFails(t) \/ makePipe(t)
             \/ cloneChild(t) \/ allowTrace(t) \/ waitChild(t) \/ afterLoop(t)
             \/ firstChance(t)
      PROVE  Ended
  BY <1>5 DEF constructed, destroyed, lockStack, resetSiginfo, tryHandler, HandleSignal,
              RequestDump, allocFails, makePipe, cloneChild, allowTrace, waitChild,
              afterLoop, firstChance, Ended, quietVars, globalVars, procVars
<1>6. ASSUME NEW t \in Threads, NEW h \in Handlers,
             \/ construct(t, h) \/ destroy(t, h)
             \/ SimulateSignalDelivery(t, h) \/ WriteMinidump(t, h)
             \/ getcontextFails(t, h)
      PROVE  Ended
  BY <1>6 DEF construct, destroy, SimulateSignalDelivery, HandleSignal, WriteMinidump,
              getcontextFails, Ended, procVars
<1>7. CASE kill
  BY <1>7 DEF kill, Die, Ended
<1>8. CASE \/ loseSiginfo \/ (\E d \in Dumps : childStep(d) \/ killChild(d))
           \/ UNCHANGED vars
  BY <1>8, RestKept DEF Ended, procVars
<1> QED
  BY <1>2, <1>3, <1>4, <1>5, <1>6, <1>7, <1>8 DEF Next, threadStep, program

\* Every step keeps handlers_installed true to the dispositions, and lets the
\* default action in only after a handled crash.
LEMMA SignalStep ==
  ASSUME ThreadInv, SectionInv, SignalInv, [Next]_vars
  PROVE  SignalInv'
<1> USE Zenon
<1>0. /\ installed \in BOOLEAN /\ disposition \in [Signals -> Dispositions]
      /\ oldHandlers \in [Signals -> {"old", "default"}]
  BY DEF SignalInv
<1>1. ASSUME alive, NEW why, Die(why) PROVE SignalInv'
  <2>1. /\ alive' = FALSE /\ installed' = FALSE /\ dumped' = dumped
        /\ disposition' = [s \in Signals |-> "default"]
        /\ oldHandlers' = [s \in Signals |-> "default"]
    BY <1>1 DEF Die
  <2>2. endedBy' \in Ends /\ (endedBy' = "default" => dumped # {})
    BY <1>1, EndKinds DEF Ended, SignalInv, Ends
  <2> QED
    BY <2>1, <2>2 DEF SignalInv, Dispositions
<1>2. ASSUME alive, NEW t \in Threads, threadStep(t) \/ program(t), \A why : ~Die(why)
      PROVE  SignalInv'
  <2>1. CASE constructed(t)
    <3>1. /\ UNCHANGED <<alive, endedBy, dumped>> /\ stack' = Append(stack, thr[t].h)
      BY <2>1 DEF constructed, procVars
    <3>2. InstallHandlersLocked \/ UNCHANGED <<disposition, oldHandlers, installed>>
      BY <2>1 DEF constructed
    <3>3. stack' # << >>
      BY SMT, <2>1, <3>1 DEF constructed, SectionInv, StackInv, ThreadInv, Shape
    <3>4. CASE UNCHANGED <<disposition, oldHandlers, installed>>
      BY <3>1, <3>3, <3>4 DEF SignalInv
    <3>5. CASE ~installed /\ InstallHandlersLocked
      <4>1. /\ oldHandlers' = disposition /\ installed' = TRUE
            /\ disposition' = [s \in Signals |-> "breakpad"]
        BY <3>5 DEF InstallHandlersLocked
      <4> QED
        BY <1>2, <3>1, <3>3, <3>5, <4>1 DEF SignalInv, Dispositions
    <3> QED
      BY <3>2, <3>4, <3>5 DEF InstallHandlersLocked
  <2>2. CASE destroyed(t)
    <3>1. UNCHANGED <<alive, endedBy, dumped, oldHandlers>>
      BY <2>2 DEF destroyed, procVars
    <3>2. IF stack' = << >> THEN RestoreHandlersLocked
          ELSE UNCHANGED <<disposition, installed>>
      BY <2>2 DEF destroyed
    <3>3. CASE stack' # << >>
      BY <3>1, <3>2, <3>3 DEF SignalInv
    <3>4. CASE stack' = << >>
      BY <1>0, <1>2, <3>1, <3>2, <3>4 DEF SignalInv, RestoreHandlersLocked, Dispositions
    <3> QED
      BY <3>3, <3>4
  <2>3. CASE resetSiginfo(t)
    <3>1. PICK s \in Signals : s = thr[t].sig
      BY <2>3 DEF resetSiginfo, ThreadInv, Shape, SignalPcs
    <3>2. /\ UNCHANGED <<alive, endedBy, dumped, oldHandlers, installed, stack>>
          /\ disposition[s] = "plain"
          /\ disposition' = [disposition EXCEPT ![s] = "breakpad"]
      BY <2>3, <3>1 DEF resetSiginfo, procVars, regVars
    <3>3. installed
      BY <1>0, <3>2 DEF SignalInv
    <3>4. \A q \in Signals : disposition'[q] = IF q = s THEN "breakpad" ELSE disposition[q]
      BY <1>0, <3>2
    <3>5. disposition' \in [Signals -> Dispositions]
      BY <1>0, <3>2 DEF Dispositions
    <3> QED
      BY <3>2, <3>3, <3>4, <3>5 DEF SignalInv
  <2>4. CASE afterLoop(t)
    <3>1. UNCHANGED <<alive, endedBy, oldHandlers, stack>>
      BY <2>4 DEF afterLoop, procVars
    <3>2. CASE thr[t].ok
      <4>1. PICK s \in Signals : s = thr[t].sig
        BY <2>4 DEF afterLoop, ThreadInv, Shape, SignalPcs
      <4>2. /\ disposition' = [disposition EXCEPT ![s] = "default"]
            /\ installed' = installed /\ dumped' = dumped \cup {<<t, s>>}
        BY <2>4, <3>2, <4>1 DEF afterLoop, InstallDefaultHandler
      <4>3. dumped' # {}
        BY <4>2
      <4>4. \A q \in Signals : disposition'[q] = IF q = s THEN "default" ELSE disposition[q]
        BY <1>0, <4>2
      <4>5. disposition' \in [Signals -> Dispositions]
        BY <1>0, <4>2 DEF Dispositions
      <4> QED
        BY <3>1, <4>2, <4>3, <4>4, <4>5 DEF SignalInv
    <3>3. CASE ~thr[t].ok
      <4>1. RestoreHandlersLocked /\ dumped' = dumped
        BY <2>4, <3>3 DEF afterLoop
      <4> QED
        BY <1>0, <1>2, <3>1, <4>1 DEF SignalInv, RestoreHandlersLocked, Dispositions
    <3> QED
      BY <3>2, <3>3
  <2>5. CASE ~constructed(t) /\ ~destroyed(t) /\ ~resetSiginfo(t) /\ ~afterLoop(t)
    <3>1. UNCHANGED <<alive, endedBy, oldHandlers, stack, disposition, installed, dumped>>
      BY <1>2, <2>5, RegistryKept, SignalsKept DEF procVars
    <3> QED
      BY <3>1 DEF SignalInv
  <2> QED
    BY <2>1, <2>2, <2>3, <2>4, <2>5
<1>3. CASE loseSiginfo
  <2>1. UNCHANGED <<alive, endedBy, oldHandlers, stack, installed, dumped>>
    BY <1>3, RestKept DEF procVars
  <2>2. PICK s \in Signals : /\ disposition[s] = "breakpad"
                             /\ disposition' = [disposition EXCEPT ![s] = "plain"]
    BY <1>3 DEF loseSiginfo
  <2>3. installed
    BY <1>0, <2>2 DEF SignalInv
  <2>4. \A q \in Signals : disposition'[q] = IF q = s THEN "plain" ELSE disposition[q]
    BY <1>0, <2>2
  <2>5. disposition' \in [Signals -> Dispositions]
    BY <1>0, <2>2 DEF Dispositions
  <2> QED
    BY <2>1, <2>3, <2>4, <2>5 DEF SignalInv
<1>4. CASE (\E d \in Dumps : childStep(d) \/ killChild(d)) \/ UNCHANGED vars
  <2>1. UNCHANGED <<alive, endedBy, oldHandlers, stack, installed, dumped>>
    BY <1>4, RestKept DEF procVars
  <2>2. UNCHANGED disposition
    BY <1>4 DEF childStep, killChild, vars, quietVars, globalVars
  <2> QED
    BY <2>1, <2>2 DEF SignalInv
<1> QED
  BY <1>1, <1>2, <1>3, <1>4, StepKinds

\* Every step keeps the old stack apart from the buffer, and a destructor that
\* frees the buffer has left it.
LEMMA AltStep ==
  ASSUME AltInv, [Next]_vars
  PROVE  /\ AltInv'
         /\ \A t \in Threads : thr[t].pc = "dtor" /\ thr'[t].pc = "run"
                                 => altStack'[t] \notin freed' \ freed
<1> USE Zenon
<1> DEFINE Left == \A t \in Threads : thr[t].pc = "dtor" /\ thr'[t].pc = "run"
                                        => altStack'[t] \notin freed' \ freed
<1>0. /\ stackInstalled \in BOOLEAN /\ altStack \in [Threads -> Int]
      /\ oldStack \in Int /\ newStack \in Nat /\ freed \subseteq Nat
      /\ stackInstalled => oldStack <= 0 /\ newStack >= 1
  BY DEF AltInv
<1>1. ASSUME NEW why, Die(why) PROVE AltInv' /\ Left
  <2>1. /\ altStack' = [t \in Threads |-> 0] /\ stackInstalled' = FALSE
        /\ oldStack' = 0 /\ newStack' = 0 /\ freed' = {}
    BY <1>1 DEF Die
  <2>2. AltInv'
    <3>1. freed' \subseteq Nat
      BY <2>1
    <3>2. altStack' \in [Threads -> Int]
      BY SMT, <2>1
    <3>3. stackInstalled' = FALSE /\ oldStack' \in Int /\ newStack' \in Nat
      BY SMT, <2>1
    <3> QED
      BY <3>1, <3>2, <3>3 DEF AltInv
  <2>3. Left
    BY <2>1
  <2> QED
    BY <2>2, <2>3
<1>2. ASSUME NEW u \in Threads, constructed(u) PROVE AltInv' /\ Left
  <2>1. /\ freed' = freed
        /\ \/ InstallAlternateStackLocked(u)
           \/ UNCHANGED <<altStack, stackInstalled, oldStack, newStack>>
    BY <1>2 DEF constructed
  <2>2. CASE UNCHANGED <<altStack, stackInstalled, oldStack, newStack>>
    BY <1>0, <2>1, <2>2 DEF AltInv
  <2>3. CASE /\ InstallAlternateStackLocked(u)
             /\ stackInstalled \/ altStack[u] \notin {0, Small}
    BY <1>0, <2>1, <2>3 DEF AltInv, InstallAlternateStackLocked
  <2>4. CASE /\ InstallAlternateStackLocked(u)
             /\ ~(stackInstalled \/ altStack[u] \notin {0, Small})
    <3>1. /\ oldStack' = altStack[u] /\ newStack' = newStack + 1
          /\ altStack' = [altStack EXCEPT ![u] = newStack + 1]
          /\ stackInstalled' = TRUE /\ altStack[u] \in {0, Small}
      BY <2>4 DEF InstallAlternateStackLocked
    <3> QED
      BY SMT, <1>0, <2>1, <3>1 DEF AltInv, Small
  <2> QED
    BY <2>1, <2>2, <2>3, <2>4
<1>3. ASSUME NEW u \in Threads, destroyed(u) PROVE AltInv' /\ Left
  <2>0. UNCHANGED <<oldStack, newStack>> /\ thr' = [thr EXCEPT ![u] = Idle]
    BY <1>3 DEF destroyed
  <2>1. \/ RestoreAlternateStackLocked(u)
        \/ UNCHANGED <<altStack, stackInstalled, freed>>
    BY <1>3 DEF destroyed
  <2>2. CASE UNCHANGED <<altStack, stackInstalled, freed>>
    BY <1>0, <2>0, <2>2 DEF AltInv
  <2>3. CASE stackInstalled /\ RestoreAlternateStackLocked(u)
    <3>1. /\ altStack' = (IF altStack[u] = newStack
                          THEN [altStack EXCEPT ![u] = oldStack] ELSE altStack)
          /\ freed' = freed \cup {newStack} /\ stackInstalled' = FALSE
      BY <2>3 DEF RestoreAlternateStackLocked
    <3>2. AltInv'
      BY <1>0, <2>0, <3>1 DEF AltInv
    <3>3. altStack'[u] # newStack
      BY SMT, <1>0, <2>3, <3>1
    <3>4. \A t \in Threads \ {u} : thr'[t] = thr[t]
      BY SMT, <2>0
    <3> QED
      BY SMT, <3>1, <3>2, <3>3, <3>4
  <2> QED
    BY <2>1, <2>2, <2>3 DEF RestoreAlternateStackLocked
<1>4. ASSUME UNCHANGED stackVars PROVE AltInv' /\ Left
  BY <1>4 DEF stackVars, AltInv
<1>5. ASSUME NEW u \in Threads, threadStep(u) \/ program(u), \A why : ~Die(why),
             ~constructed(u), ~destroyed(u)
      PROVE  AltInv' /\ Left
  BY <1>4, <1>5, RegistryKept
<1>6. CASE \/ loseSiginfo \/ (\E d \in Dumps : childStep(d) \/ killChild(d))
           \/ UNCHANGED vars
  BY <1>4, <1>6, RestKept
<1> QED
  BY <1>1, <1>2, <1>3, <1>5, <1>6, StepKinds

\* Initially nothing is installed.
LEMMA SignalInit == Init => SignalInv /\ AltInv
<1> USE Zenon
<1> SUFFICES ASSUME Init PROVE SignalInv /\ AltInv
  OBVIOUS
<1>1. SignalInv
  BY DEF Init, SignalInv, Ends, Dispositions
<1>2. altStack \in [Threads -> Int]
  <2>1. altStack = AppStack /\ AppStack \in [Threads -> {0, -1, -2}]
    BY HandlerAssumption DEF Init
  <2>2. {0, -1, -2} \subseteq Int
    BY SMT
  <2> QED
    BY <2>1, <2>2
<1>3. AltInv
  <2>1. stackInstalled = FALSE /\ oldStack = 0 /\ newStack = 0 /\ freed = {}
    BY DEF Init
  <2>2. freed \subseteq Nat
    BY <2>1
  <2>3. stackInstalled = FALSE /\ oldStack \in Int /\ newStack \in Nat
    BY SMT, <2>1
  <2> QED
    BY <1>2, <2>2, <2>3 DEF AltInv
<1> QED
  BY <1>1, <1>3

\* What the handlers change in the process is put back with the last of them:
\* no signal calls SignalHandler without a handler, a process dies by the
\* default action only after a handled crash, and a thread that frees the
\* alternate stack has left it.
THEOREM PutBackAtEndHolds == Spec => PutBackAtEnd
<1> DEFINE Inv == ThreadInv /\ SectionInv /\ SignalInv /\ AltInv
           Left == \A t \in Threads : thr[t].pc = "dtor" /\ thr'[t].pc = "run"
                                        => altStack'[t] \notin freed' \ freed
<1>1. Init => Inv
  BY SectionInit, SignalInit
<1>2. Inv /\ [Next]_vars => Inv'
  BY SectionStep, SignalStep, AltStep
<1>3. Inv /\ [Next]_vars => [Left]_vars
  BY AltStep
<1>4. Inv => UnhandledReachesPrevious /\ NoHandlerNoDisposition
  BY DEF SignalInv, UnhandledReachesPrevious, NoHandlerNoDisposition
<1>5. Spec => []UnhandledReachesPrevious /\ []NoHandlerNoDisposition
  BY <1>1, <1>2, <1>4, PTL DEF Spec
<1>6. Spec => [][Left]_vars
  BY <1>1, <1>2, <1>3, PTL DEF Spec
<1> QED
  BY <1>5, <1>6 DEF PutBackAtEnd, LeavesFreedStack

-----------------------------------------------------------------------------
(* Dumps                                                                   *)

Child ==
  [pc : {"none", "start", "read", "dump"} \cup Exited, h : Handlers \cup {None},
   fd : Procs, tid : Threads \cup {None}, path : Nat]

PipeTypes ==
  /\ remote \subseteq Handlers /\ incidents \in 0..MaxIncidents
  /\ path \in [Handlers -> Nat] /\ files \subseteq Handlers \X Nat
  /\ fdes \in [Handlers -> Procs] /\ ptracer \in Procs
  /\ readers \in [Dumps -> SUBSET Procs] /\ writers \in [Dumps -> SUBSET Procs]
  /\ sent \in [Dumps -> Nat] /\ child \in [Dumps -> Child]
  /\ \A d \in Dumps : child[d].pc # "none" => child[d].h \in Handlers
  /\ context \in Threads \cup {None} /\ overlapped \in BOOLEAN

\* At most one dump is under way, and g_crash_context_ is that of its thread.
OneDump ==
  ~overlapped =>
    /\ \A t, u \in Threads : thr[t].pc \in Dumping /\ thr[u].pc \in Dumping => t = u
    /\ \A t \in Threads :
         thr[t].pc \in {"pipe", "clone"} /\ thr[t].via # "write" => context = t

\* Pipe and child d are not in use.
Unused(d) == readers[d] = {} /\ writers[d] = {} /\ child[d] = NoChild

\* Between sys_pipe() and the return of waitpid(): who holds the ends of the
\* pipe, what is in it, and when the child may trace.
Stage(t, d, fd) ==
  /\ fd \in {0, d}
  /\ thr[t].pc = "clone" =>
       /\ child[d] = NoChild
       /\ readers[d] = (IF fd = 0 THEN {} ELSE {Parent})
       /\ writers[d] = (IF fd = 0 THEN {} ELSE {Parent})
  /\ thr[t].pc # "clone" =>
       /\ child[d].pc # "none" /\ child[d].fd = fd /\ child[d].tid = t
       /\ fd = 0 => readers[d] = {} /\ writers[d] = {}
       /\ fd = d =>
            /\ \A p \in Procs :
                 p \in readers[d] <=> \/ p = Parent /\ thr[t].pc = "close"
                                      \/ p = d /\ child[d].pc \in {"start", "read"}
            /\ \A p \in Procs :
                 p \in writers[d] <=> p = Parent \/ (p = d /\ child[d].pc = "start")
  /\ thr[t].pc # "wait" => sent[d] = 0
  /\ thr[t].pc = "close" /\ fd = d => child[d].pc # "dump"
  /\ thr[t].pc \in {"write", "wait"} /\ child[d].pc \in {"start", "read", "dump"}
       => ptracer = d

DumpInv ==
  alive /\ ~overlapped =>
    /\ \A d \in Dumps : (\A t \in Threads : thr[t].d # d) => Unused(d)
    /\ \A t \in Threads :
         thr[t].pc \in Cloned => Stage(t, thr[t].d, fdes[thr[t].h])

IndInv ==
  /\ ThreadInv /\ SectionInv /\ SignalInv /\ AltInv /\ PipeTypes
  /\ OneDump /\ DumpInv

-----------------------------------------------------------------------------
(* The dumps                                                               *)

\* Two dumps that overlapped stay on record.
LEMMA OverlapStays ==
  ASSUME NEW t \in Threads, overlapped \in BOOLEAN, Meets(t)
  PROVE  /\ overlapped' \in BOOLEAN
         /\ ~overlapped' => /\ ~overlapped
                            /\ \A u \in Threads \ {t} : thr[u].pc \notin Dumping
BY Zenon DEF Meets

\* Closing and inheriting descriptors.
LEMMA EndsType ==
  ASSUME NEW ends \in [Dumps -> SUBSET Procs], NEW fd, NEW p, NEW d \in Dumps
  PROVE  /\ Close(ends, fd, p) \in [Dumps -> SUBSET Procs]
         /\ Inherit(ends, d) \in [Dumps -> SUBSET Procs]
         /\ \A e \in Dumps : Close(ends, fd, p)[e] = IF e = fd THEN ends[e] \ {p} ELSE ends[e]
         /\ \A e \in Dumps : Inherit(ends, d)[e] =
                               IF Parent \in ends[e] THEN ends[e] \cup {d} ELSE ends[e]
BY DEF Close, Inherit, Procs

\* A child goes on to place p.
LEMMA ChildGoes ==
  ASSUME NEW d \in Dumps, NEW p \in {"start", "read", "dump"} \cup Exited,
         NEW c, child \in [Dumps -> Child], c = [child EXCEPT ![d].pc = p]
  PROVE  /\ c \in [Dumps -> Child] /\ c[d].pc = p
         /\ c[d].fd = child[d].fd /\ c[d].tid = child[d].tid /\ c[d].h = child[d].h
         /\ \A e \in Dumps \ {d} : c[e] = child[e]
<1> USE Zenon
<1>1. child[d] \in Child
  OBVIOUS
<1>2. PICK r : r = [child[d] EXCEPT !.pc = p]
  OBVIOUS
<1>3. c = [child EXCEPT ![d] = r]
  BY <1>2
<1>4. /\ r \in Child /\ r.pc = p /\ r.fd = child[d].fd /\ r.tid = child[d].tid
      /\ r.h = child[d].h
  BY <1>1, <1>2 DEF Child
<1> QED
  BY <1>3, <1>4

\* The types of pipes, children and descriptors.
PipeFrame == UNCHANGED <<remote, incidents, path, files, pipeVars, context, overlapped>>

\* The program's calls and SignalHandler keep the types of the dumps.
LEMMA CallTypes ==
  ASSUME ThreadInv, PipeTypes, NEW t \in Threads, \A why : ~Die(why),
         \/ constructed(t) \/ destroyed(t) \/ lockStack(t) \/ resetSiginfo(t)
         \/ enterLoop(t) \/ tryHandler(t) \/ afterLoop(t) \/ rethrow(t) \/ repeat(t)
         \/ RequestDump(t) \/ allocFails(t) \/ program(t)
  PROVE  PipeTypes'
<1> USE Zenon
<1>0. PipeTypes /\ PipeFrame => PipeTypes'
  BY DEF PipeTypes, PipeFrame, pipeVars
<1>1. CASE constructed(t)
  <2>1. UNCHANGED <<remote, incidents, path, files, pipeVars>> /\ context' = None /\ Meets(t)
    BY <1>1 DEF constructed, fileVars
  <2> QED
    BY <2>1, OverlapStays DEF PipeTypes, pipeVars
<1>2. CASE destroyed(t) \/ lockStack(t) \/ resetSiginfo(t) \/ afterLoop(t)
  BY <1>0, <1>2 DEF destroyed, lockStack, resetSiginfo, afterLoop, PipeFrame, fileVars,
                    boundVars, regVars
<1>3. CASE \/ enterLoop(t) \/ rethrow(t) \/ repeat(t) \/ RequestDump(t)
           \/ allocFails(t) \/ crash(t) \/ firstChance(t)
  BY <1>0, <1>3 DEF enterLoop, rethrow, repeat, RequestDump, allocFails, crash,
       firstChance, Deliver, PipeFrame, quietVars, globalVars, fileVars, boundVars, regVars
<1>4. ASSUME NEW h, NEW c, HandleSignal(t, h, c) , incidents' \in 0..MaxIncidents
      PROVE  PipeTypes'
  <2>1. /\ UNCHANGED <<remote, path, files, pipeVars>>
        /\ \/ UNCHANGED <<context, overlapped>>
           \/ context' = t /\ Meets(t)
    BY <1>4 DEF HandleSignal, BeginDump, regVars, fileVars
  <2> QED
    BY <1>4, <2>1, OverlapStays DEF PipeTypes, pipeVars
<1>5. CASE tryHandler(t)
  BY <1>4, <1>5 DEF tryHandler, PipeTypes
<1>6. ASSUME incidents < MaxIncidents PROVE incidents + 1 \in 0..MaxIncidents
  <2>1. incidents \in 0..MaxIncidents /\ MaxIncidents \in Nat
    BY HandlerAssumption DEF PipeTypes
  <2> QED
    BY SMT, <1>6, <2>1
<1>7. ASSUME NEW h \in Handlers, SimulateSignalDelivery(t, h) PROVE PipeTypes'
  BY <1>4, <1>6, <1>7 DEF SimulateSignalDelivery
<1>8. ASSUME NEW h \in Handlers, IF ToFile(h) THEN UpdatePath(h) ELSE UNCHANGED path
      PROVE  path' \in [Handlers -> Nat]
  BY SMT, <1>8 DEF UpdatePath, PipeTypes
<1>9. ASSUME NEW h \in Handlers, WriteMinidump(t, h) PROVE PipeTypes'
  <2>1. /\ UNCHANGED <<remote, files, pipeVars, context>> /\ Meets(t)
        /\ incidents' \in 0..MaxIncidents /\ path' \in [Handlers -> Nat]
    BY <1>6, <1>8, <1>9 DEF WriteMinidump, BeginDump, regVars
  <2> QED
    BY <2>1, OverlapStays DEF PipeTypes, pipeVars
<1>10. ASSUME NEW h \in Handlers, construct(t, h) PROVE PipeTypes'
  <2>1. /\ UNCHANGED <<remote, incidents, files, pipeVars, context, overlapped>>
        /\ path' \in [Handlers -> Nat]
    BY <1>8, <1>10 DEF construct, regVars, boundVars
  <2> QED
    BY <2>1 DEF PipeTypes, pipeVars
<1>11. ASSUME NEW h \in Handlers, destroy(t, h) PROVE PipeTypes'
  BY <1>0, <1>11 DEF destroy, PipeFrame, fileVars, boundVars, regVars
<1>12. ASSUME NEW h \in Handlers, getcontextFails(t, h) PROVE PipeTypes'
  <2>1. /\ UNCHANGED <<remote, files, pipeVars, context, overlapped>>
        /\ incidents' \in 0..MaxIncidents /\ path' \in [Handlers -> Nat]
    BY <1>6, <1>8, <1>12 DEF getcontextFails, regVars
  <2> QED
    BY <2>1 DEF PipeTypes, pipeVars
<1> QED
  BY <1>1, <1>2, <1>3, <1>5, <1>7, <1>9, <1>10, <1>11, <1>12 DEF program

\* The steps of GenerateDump() keep the types of pipes and children.
LEMMA DumpTypes ==
  ASSUME ThreadInv, PipeTypes, NEW t \in Threads, \A why : ~Die(why),
         \/ makePipe(t) \/ cloneChild(t) \/ allowTrace(t)
         \/ SendContinueSignalToChild(t) \/ waitChild(t)
  PROVE  PipeTypes'
<1> USE Zenon
<1>0. /\ fdes \in [Handlers -> Procs] /\ ptracer \in Procs
      /\ readers \in [Dumps -> SUBSET Procs] /\ writers \in [Dumps -> SUBSET Procs]
      /\ sent \in [Dumps -> Nat] /\ child \in [Dumps -> Child]
      /\ context \in Threads \cup {None} /\ path \in [Handlers -> Nat]
      /\ \A d \in Dumps : child[d].pc # "none" => child[d].h \in Handlers
  BY DEF PipeTypes
<1>1. /\ UNCHANGED <<remote, incidents, path, files, context, overlapped>>
      /\ thr[t].pc \in Dumping
  BY DEF makePipe, cloneChild, allowTrace, SendContinueSignalToChild, waitChild,
         globalVars, fileVars, boundVars, regVars, Dumping
<1>2. thr[t].h \in Handlers /\ thr[t].d \in Procs
  BY <1>1 DEF ThreadInv, Shape, Position, Working
<1>3. ASSUME fdes' \in [Handlers -> Procs], ptracer' \in Procs,
             readers' \in [Dumps -> SUBSET Procs], writers' \in [Dumps -> SUBSET Procs],
             sent' \in [Dumps -> Nat], child' \in [Dumps -> Child],
             \A d \in Dumps : child'[d].pc # "none" => child'[d].h \in Handlers
      PROVE  PipeTypes'
  BY <1>1, <1>3 DEF PipeTypes
<1>4. CASE makePipe(t)
  <2>1. UNCHANGED <<child, ptracer>>
    BY <1>4 DEF makePipe
  <2>2. PICK d \in Dumps :
          /\ \/ /\ readers' = [readers EXCEPT ![d] = {Parent}]
                /\ writers' = [writers EXCEPT ![d] = {Parent}]
                /\ fdes' = [fdes EXCEPT ![thr[t].h] = d]
             \/ fdes' = [fdes EXCEPT ![thr[t].h] = 0] /\ UNCHANGED <<readers, writers>>
          /\ sent' = [sent EXCEPT ![d] = 0]
    BY <1>4 DEF makePipe
  <2>3. d \in Procs /\ 0 \in Procs /\ Parent \in Procs
    BY DEF Procs, Parent
  <2> QED
    BY SMT, <1>0, <1>2, <1>3, <2>1, <2>2, <2>3
<1>5. CASE cloneChild(t)
  <2>1. UNCHANGED <<sent, fdes, ptracer>> /\ thr[t].d \in Dumps
    BY <1>5 DEF cloneChild, ThreadInv, Shape, Cloned
  <2>2. CASE readers' = Inherit(readers, thr[t].d)
    <3>0. PICK w \in Threads \cup {None} :
            w = IF thr[t].via = "write" THEN t ELSE context
      BY <1>0
    <3>1. PICK r : r = [pc |-> "start", h |-> thr[t].h, fd |-> fdes[thr[t].h],
                        path |-> path[thr[t].h], tid |-> w]
      OBVIOUS
    <3>2. \/ /\ child' = [child EXCEPT ![thr[t].d] = r]
             /\ writers' = Inherit(writers, thr[t].d)
          \/ child' = child /\ writers' = Close(writers, fdes[thr[t].h], Parent)
      BY <1>5, <3>0, <3>1 DEF cloneChild
    <3>3. r \in Child /\ r.h \in Handlers
      <4>1. fdes[thr[t].h] \in Procs /\ path[thr[t].h] \in Nat
        BY <1>0, <1>2
      <4> QED
        BY <1>2, <3>1, <4>1 DEF Child
    <3>4. /\ readers' \in [Dumps -> SUBSET Procs] /\ writers' \in [Dumps -> SUBSET Procs]
      <4>1. /\ Inherit(readers, thr[t].d) \in [Dumps -> SUBSET Procs]
            /\ Inherit(writers, thr[t].d) \in [Dumps -> SUBSET Procs]
        BY <1>0, <2>1, EndsType
      <4>2. Close(writers, fdes[thr[t].h], Parent) \in [Dumps -> SUBSET Procs]
        BY SMT, <1>0, <2>1, EndsType
      <4> QED
        BY <2>2, <3>2, <4>1, <4>2
    <3>5. /\ child' \in [Dumps -> Child]
          /\ \A d \in Dumps : child'[d].pc # "none" => child'[d].h \in Handlers
      BY <1>0, <2>1, <3>2, <3>3
    <3> QED
      BY <1>0, <1>3, <2>1, <3>4, <3>5
  <2>3. CASE /\ readers' = Close(readers, fdes[thr[t].h], Parent)
             /\ writers' = Close(writers, fdes[thr[t].h], Parent)
             /\ UNCHANGED child
    BY SMT, <1>0, <1>3, <2>1, <2>3, EndsType
  <2> QED
    BY <1>5, <2>2, <2>3 DEF cloneChild
<1>6. CASE allowTrace(t)
  <2>1. /\ UNCHANGED <<writers, sent, child, fdes>> /\ ptracer' = thr[t].d
        /\ readers' = Close(readers, fdes[thr[t].h], Parent) /\ thr[t].d \in Dumps
    BY <1>6 DEF allowTrace, ThreadInv, Shape, Cloned
  <2> QED
    BY SMT, <1>0, <1>2, <1>3, <2>1, EndsType
<1>7. CASE SendContinueSignalToChild(t)
  <2>1. /\ UNCHANGED <<readers, writers, child, fdes, ptracer>>
        /\ \/ sent' = [sent EXCEPT ![fdes[thr[t].h]] = @ + 1]
           \/ UNCHANGED sent
    BY <1>7 DEF SendContinueSignalToChild
  <2>2. sent' \in [Dumps -> Nat]
    BY SMT, <1>0, <2>1
  <2> QED
    BY <1>0, <1>3, <2>1, <2>2
<1>8. CASE waitChild(t)
  <2>1. /\ UNCHANGED <<readers, sent, fdes, ptracer>> /\ thr[t].d \in Dumps
        /\ child' = [child EXCEPT ![thr[t].d] = NoChild]
        /\ writers' = Close(writers, fdes[thr[t].h], Parent)
    BY <1>8 DEF waitChild, ThreadInv, Shape, Cloned
  <2>2. NoChild \in Child /\ NoChild.pc = "none"
    BY DEF NoChild, Child, Procs, Parent
  <2>3. /\ child' \in [Dumps -> Child]
        /\ \A d \in Dumps : child'[d].pc # "none" => child'[d].h \in Handlers
    BY <1>0, <2>1, <2>2
  <2> QED
    BY SMT, <1>0, <1>3, <2>1, <2>3, EndsType
<1> QED
  BY <1>4, <1>5, <1>6, <1>7, <1>8

\* A child that exits, of a process that may be gone, gives up its descriptors.
LEMMA ExitTypes ==
  ASSUME PipeTypes, NEW d \in Dumps, NEW how \in Exited, ChildExits(d, how)
  PROVE  /\ child' \in [Dumps -> Child]
         /\ \A e \in Dumps : child'[e].pc # "none" => child'[e].h \in Handlers \/ e = d
         /\ readers' \in [Dumps -> SUBSET Procs] /\ writers' \in [Dumps -> SUBSET Procs]
         /\ ptracer' \in Procs
         /\ alive => child' = [child EXCEPT ![d].pc = how]
         /\ ~alive => child'[d] = NoChild
<1> USE Zenon
<1>0. /\ child \in [Dumps -> Child] /\ ptracer \in Procs
      /\ readers \in [Dumps -> SUBSET Procs] /\ writers \in [Dumps -> SUBSET Procs]
      /\ \A e \in Dumps : child[e].pc # "none" => child[e].h \in Handlers
  BY DEF PipeTypes
<1>1. NoChild \in Child
  BY DEF NoChild, Child, Procs, Parent
<1>2. alive => child' = [child EXCEPT ![d].pc = how]
  BY DEF ChildExits
<1>3. ~alive => child' = [child EXCEPT ![d] = NoChild]
  BY DEF ChildExits
<1>4. /\ child' \in [Dumps -> Child] /\ \A e \in Dumps \ {d} : child'[e] = child[e]
      /\ ~alive => child'[d] = NoChild
  BY SMT, <1>0, <1>1, <1>2, <1>3, ChildGoes
<1>5. readers' \in [Dumps -> SUBSET Procs] /\ writers' \in [Dumps -> SUBSET Procs]
  BY <1>0 DEF ChildExits
<1>6. ptracer' \in Procs
  BY <1>0 DEF ChildExits, Procs, Parent
<1> QED
  BY <1>0, <1>2, <1>4, <1>5, <1>6

\* The children keep the types of pipes, children and files.
LEMMA ChildTypes ==
  ASSUME PipeTypes, NEW d \in Dumps, childStep(d) \/ killChild(d)
  PROVE  PipeTypes'
<1> USE Zenon
<1>0. /\ readers \in [Dumps -> SUBSET Procs] /\ writers \in [Dumps -> SUBSET Procs]
      /\ sent \in [Dumps -> Nat] /\ child \in [Dumps -> Child]
      /\ files \subseteq Handlers \X Nat
      /\ \A e \in Dumps : child[e].pc # "none" => child[e].h \in Handlers
  BY DEF PipeTypes
<1>1. UNCHANGED <<remote, incidents, path, fdes, context, overlapped>>
  BY DEF childStep, killChild, globalVars, regVars, fileVars, boundVars
<1>2. ASSUME files' \subseteq Handlers \X Nat, ptracer' \in Procs,
             readers' \in [Dumps -> SUBSET Procs], writers' \in [Dumps -> SUBSET Procs],
             sent' \in [Dumps -> Nat], child' \in [Dumps -> Child],
             \A e \in Dumps : child'[e].pc # "none" => child'[e].h \in Handlers
      PROVE  PipeTypes'
  BY <1>1, <1>2 DEF PipeTypes
<1>3. ASSUME child[d].pc # "none", NEW p \in {"start", "read", "dump"} \cup Exited,
             child' = [child EXCEPT ![d].pc = p]
      PROVE  /\ child' \in [Dumps -> Child]
             /\ \A e \in Dumps : child'[e].pc # "none" => child'[e].h \in Handlers
  <2>1. /\ child' \in [Dumps -> Child] /\ child'[d].h = child[d].h
        /\ \A e \in Dumps \ {d} : child'[e] = child[e]
    <3>1. PICK c : c = child'
      OBVIOUS
    <3>2. child \in [Dumps -> Child] /\ c = [child EXCEPT ![d].pc = p]
      BY <1>0, <1>3, <3>1
    <3>3. /\ c \in [Dumps -> Child] /\ c[d].h = child[d].h
          /\ \A e \in Dumps \ {d} : c[e] = child[e]
      BY SMT, <3>2, ChildGoes
    <3> QED
      BY <3>1, <3>3
  <2> QED
    BY <1>0, <1>3, <2>1
<1>4. CASE childStarts(d) /\ UNCHANGED <<readers, sent, ptracer, files>>
  <2>1. /\ child[d].pc = "start" /\ child' = [child EXCEPT ![d].pc = "read"]
        /\ writers' = Close(writers, child[d].fd, d)
    BY <1>4 DEF childStarts
  <2>2. /\ child' \in [Dumps -> Child]
        /\ \A e \in Dumps : child'[e].pc # "none" => child'[e].h \in Handlers
    BY <1>3, <2>1
  <2>3. writers' \in [Dumps -> SUBSET Procs] /\ ptracer \in Procs
    BY <1>0, <2>1, EndsType DEF PipeTypes
  <2> QED
    BY <1>0, <1>2, <1>4, <2>2, <2>3
<1>5. CASE WaitForContinueSignal(d) /\ UNCHANGED <<writers, ptracer, files>>
  <2>1. /\ child[d].pc = "read" /\ child' = [child EXCEPT ![d].pc = "dump"]
        /\ readers' = Close(readers, child[d].fd, d)
    BY <1>5 DEF WaitForContinueSignal
  <2>2. /\ child' \in [Dumps -> Child]
        /\ \A e \in Dumps : child'[e].pc # "none" => child'[e].h \in Handlers
    BY <1>3, <2>1
  <2>3. readers' \in [Dumps -> SUBSET Procs] /\ ptracer \in Procs
    BY <1>0, <2>1, EndsType DEF PipeTypes
  <2>4. sent' = sent \/ (sent[child[d].fd] > 0
                         /\ sent' = [sent EXCEPT ![child[d].fd] = @ - 1])
    BY <1>5 DEF WaitForContinueSignal
  <2>5. sent' \in [Dumps -> Nat]
    <3>1. PICK p : p = child[d].fd
      OBVIOUS
    <3>2. sent' = sent \/ (sent[p] > 0 /\ sent' = [sent EXCEPT ![p] = @ - 1])
      BY <2>4, <3>1
    <3>3. p \in Dumps /\ sent[p] > 0 => sent[p] - 1 \in Nat
      BY SMT, <1>0
    <3> QED
      BY <1>0, <3>2, <3>3
  <2> QED
    BY <1>0, <1>2, <1>5, <2>2, <2>3, <2>5
<1>6. ASSUME NEW how \in Exited, ChildExits(d, how), child[d].pc # "none"
      PROVE  /\ child' \in [Dumps -> Child]
             /\ \A e \in Dumps : child'[e].pc # "none" => child'[e].h \in Handlers
             /\ readers' \in [Dumps -> SUBSET Procs]
             /\ writers' \in [Dumps -> SUBSET Procs] /\ ptracer' \in Procs
  <2>1. /\ child' \in [Dumps -> Child]
        /\ \A e \in Dumps : child'[e].pc # "none" => child'[e].h \in Handlers \/ e = d
        /\ readers' \in [Dumps -> SUBSET Procs] /\ writers' \in [Dumps -> SUBSET Procs]
        /\ ptracer' \in Procs
        /\ alive => child' = [child EXCEPT ![d].pc = how]
        /\ ~alive => child'[d] = NoChild
    BY <1>6, ExitTypes
  <2>2. alive => \A e \in Dumps : child'[e].pc # "none" => child'[e].h \in Handlers
    BY <1>3, <1>6, <2>1
  <2>3. ~alive => child'[d].pc = "none"
    BY SMT, <2>1 DEF NoChild
  <2> QED
    BY <2>1, <2>2, <2>3
<1>7. CASE DoDump(d) /\ UNCHANGED sent
  <2>1. /\ child[d].pc = "dump"
        /\ \E how \in Exited : ChildExits(d, how)
        /\ files' \subseteq files \cup {<<child[d].h, child[d].path>>}
    BY <1>7 DEF DoDump, Exited
  <2>2. child[d].h \in Handlers /\ child[d].path \in Nat
    BY <1>0, <2>1 DEF Child
  <2>3. files' \subseteq Handlers \X Nat
    BY SMT, <1>0, <2>1, <2>2
  <2> QED
    BY <1>0, <1>2, <1>6, <1>7, <2>1, <2>3
<1>8. CASE killChild(d)
  <2>1. /\ child[d].pc # "none" /\ ChildExits(d, "killed") /\ UNCHANGED <<sent, files>>
    BY <1>8 DEF killChild, globalVars, fileVars
  <2> QED
    BY <1>0, <1>2, <1>6, <2>1 DEF Exited
<1> QED
  BY <1>4, <1>5, <1>7, <1>8 DEF childStep

\* Every step keeps the types of pipes, children and descriptors.
LEMMA PipeTypesStep ==
  ASSUME ThreadInv, PipeTypes, [Next]_vars
  PROVE  PipeTypes'
<1> USE Zenon
<1>1. ASSUME NEW why, Die(why) PROVE PipeTypes'
  <2>1. /\ readers' \in [Dumps -> SUBSET Procs] /\ writers' \in [Dumps -> SUBSET Procs]
        /\ path' \in [Handlers -> Nat] /\ fdes' \in [Handlers -> Procs]
        /\ ptracer' \in Procs /\ context' = None
    BY <1>1 DEF Die, PipeTypes, Procs, Parent
  <2>2. incidents' = 0 /\ UNCHANGED <<remote, sent, child, files, overlapped>>
    BY <1>1 DEF Die
  <2>3. incidents' \in 0..MaxIncidents
    BY SMT, <2>2, HandlerAssumption
  <2> QED
    BY <2>1, <2>2, <2>3 DEF PipeTypes
<1>2. ASSUME NEW t \in Threads, threadStep(t) \/ program(t), \A why : ~Die(why)
      PROVE  PipeTypes'
  BY <1>2, CallTypes, DumpTypes DEF threadStep
<1>3. CASE loseSiginfo
  <2>1. /\ UNCHANGED <<remote, path, files, pipeVars, context, overlapped>>
        /\ incidents' = incidents + 1 /\ incidents < MaxIncidents
    BY <1>3 DEF loseSiginfo, regVars, fileVars
  <2>2. incidents \in 0..MaxIncidents /\ MaxIncidents \in Nat
    BY HandlerAssumption DEF PipeTypes
  <2>3. incidents' \in 0..MaxIncidents
    BY SMT, <2>1, <2>2
  <2> QED
    BY <2>1, <2>3 DEF PipeTypes, pipeVars
<1>4. ASSUME NEW d \in Dumps, childStep(d) \/ killChild(d) PROVE PipeTypes'
  BY <1>4, ChildTypes
<1>5. CASE UNCHANGED vars
  BY <1>5 DEF vars, quietVars, globalVars, regVars, fileVars, boundVars, pipeVars, PipeTypes
<1> QED
  BY <1>1, <1>2, <1>3, <1>4, <1>5, StepKinds

\* A step outside GenerateDump(), its beginning included.
NoDumpStep(t) ==
  /\ UNCHANGED pipeVars
  /\ thr[t].pc \notin Cloned /\ thr'[t].pc \notin Cloned
  /\ \/ UNCHANGED <<context, overlapped>> /\ thr'[t].pc \notin Dumping
     \/ Meets(t) /\ (thr'[t].pc \in Dumping /\ thr'[t].via # "write" => context' = t)

\* The other steps of a thread use no pipe and no child, and set
\* g_crash_context_ only with Meets.
LEMMA CallKinds ==
  ASSUME ThreadInv, SectionInv, NEW t \in Threads, \A why : ~Die(why),
         \/ constructed(t) \/ destroyed(t) \/ lockStack(t) \/ resetSiginfo(t)
         \/ enterLoop(t) \/ tryHandler(t) \/ afterLoop(t) \/ rethrow(t) \/ repeat(t)
         \/ RequestDump(t) \/ allocFails(t) \/ program(t)
  PROVE  NoDumpStep(t)
<1> USE Zenon
<1>0. Shape(thr[t]) /\ thr[t] \in Position /\ thr \in [Threads -> Position]
  BY DEF ThreadInv, Shape
<1>1. ASSUME NEW b \in BOOLEAN, thr[t].pc \in {"loop", "run", "request", "pipe"},
             thr' = [thr EXCEPT ![t] = Returned(t, b)]
      PROVE  thr[t].pc \notin Cloned /\ thr'[t].pc \notin Dumping
  <2>1. Returned(t, b).pc \in {"run", "after", "loop"}
    BY SMT, <1>0, <1>1, ReturnedShape DEF Working, Dumping, Idle
  <2> QED
    BY <1>0, <1>1, <2>1 DEF Cloned, Dumping
<1>2. ASSUME NEW h \in Handlers, NEW c \in {"signal", "write", "simulate"},
             BeginDump(t, h, c), thr[t].pc = (IF c = "signal" THEN "loop" ELSE "run")
      PROVE  /\ thr[t].pc \notin Cloned /\ thr'[t].pc \notin Cloned
             /\ Meets(t) /\ thr'[t].via = c
  <2>1. /\ thr' = [thr EXCEPT ![t].pc = IF h \in remote THEN "request" ELSE "pipe",
                              ![t].h = h, ![t].via = c]
        /\ Meets(t)
    BY <1>2 DEF BeginDump
  <2>2. thr'[t].pc = (IF h \in remote THEN "request" ELSE "pipe") /\ thr'[t].via = c
    BY <1>0, <2>1 DEF Position
  <2> QED
    BY SMT, <1>2, <2>1, <2>2 DEF Cloned
<1>3. ASSUME NEW h \in Handlers, NEW c \in {"signal", "simulate"},
             HandleSignal(t, h, c), thr[t].pc = (IF c = "signal" THEN "loop" ELSE "run")
      PROVE  NoDumpStep(t)
  <2>1. UNCHANGED pipeVars
    BY <1>3 DEF HandleSignal
  <2>2. CASE thr' = [thr EXCEPT ![t] = Returned(t, FALSE)] /\ UNCHANGED <<context, overlapped>>
    BY <1>1, <1>3, <2>1, <2>2 DEF NoDumpStep, Dumping, Cloned
  <2>3. CASE thr' = [thr EXCEPT ![t] = Returned(t, TRUE)] /\ context' = t /\ Meets(t)
    BY <1>1, <1>3, <2>1, <2>3 DEF NoDumpStep, Dumping, Cloned
  <2>4. CASE context' = t /\ BeginDump(t, h, c)
    BY <1>2, <1>3, <2>1, <2>4 DEF NoDumpStep
  <2> QED
    BY <1>3, <2>2, <2>3, <2>4 DEF HandleSignal
<1>4. CASE constructed(t) \/ destroyed(t)
  <2>1. /\ UNCHANGED pipeVars /\ thr' = [thr EXCEPT ![t] = Idle]
        /\ thr[t].pc \in {"ctor", "dtor"}
        /\ Meets(t) \/ UNCHANGED <<context, overlapped>>
    BY <1>4 DEF constructed, destroyed, boundVars
  <2> QED
    BY <1>0, <2>1 DEF NoDumpStep, Idle, Cloned, Dumping
<1>5. CASE lockStack(t) \/ resetSiginfo(t) \/ afterLoop(t)
  <2>1. /\ UNCHANGED <<pipeVars, context, overlapped>>
        /\ thr[t].pc \in {"enter", "locked", "after", "loop"}
        /\ \/ thr' = [thr EXCEPT ![t] = Idle]
           \/ \E p \in {"locked", "again", "unlocked"} : Goto(t, p)
    BY <1>0, <1>5 DEF lockStack, resetSiginfo, afterLoop, boundVars, Goto
  <2>2. thr'[t].pc \in {"run", "locked", "again", "unlocked"}
    BY SMT, <1>0, <2>1 DEF Goto, Idle, Position
  <2> QED
    BY <2>1, <2>2 DEF NoDumpStep, Cloned, Dumping
<1>6. ASSUME NEW s, NEW u, Deliver(t, s, u), thr[t].pc \in {"run", "ctor", "dtor", "again"}
      PROVE  NoDumpStep(t)
  <2>1. /\ UNCHANGED quietVars
        /\ thr' = [thr EXCEPT ![t] = [Idle EXCEPT !.pc = "enter", !.sig = s,
                                        !.user = u, !.via = "signal"]]
    BY <1>6 DEF Deliver
  <2>2. thr'[t].pc = "enter"
    BY <1>0, <2>1 DEF Idle
  <2> QED
    BY <1>6, <2>1, <2>2 DEF NoDumpStep, quietVars, globalVars, boundVars, Cloned, Dumping
<1>7. CASE repeat(t)
  BY <1>6, <1>7 DEF repeat
<1>8. CASE crash(t)
  BY <1>6, <1>8 DEF crash
<1>9. CASE enterLoop(t) \/ rethrow(t) \/ firstChance(t)
  <2>1. /\ UNCHANGED <<pipeVars, context, overlapped>>
        /\ thr[t].pc \in {"locked", "unlocked", "enter"}
        /\ \/ thr' = [thr EXCEPT ![t].pc = "loop", ![t].i = Len(stack)]
           \/ Goto(t, "again")
           \/ thr' = [thr EXCEPT ![t] = Idle]
    BY <1>9 DEF enterLoop, rethrow, firstChance, quietVars, globalVars, boundVars
  <2>2. thr'[t].pc \in {"loop", "again", "run"}
    BY SMT, <1>0, <2>1 DEF Goto, Idle, Position
  <2> QED
    BY <2>1, <2>2 DEF NoDumpStep, Cloned, Dumping
<1>10. CASE RequestDump(t) \/ allocFails(t)
  <2>1. /\ UNCHANGED <<pipeVars, context, overlapped>>
        /\ thr[t].pc \in {"request", "pipe"}
        /\ \E b \in BOOLEAN : thr' = [thr EXCEPT ![t] = Returned(t, b)]
    BY <1>10 DEF RequestDump, allocFails, quietVars, globalVars, boundVars
  <2> QED
    BY <1>1, <2>1 DEF NoDumpStep, Cloned, Dumping
<1>11. CASE tryHandler(t)
  <2>1. thr[t].pc = "loop" /\ thr[t].i > 0 /\ HandleSignal(t, stack[thr[t].i], "signal")
    BY <1>11 DEF tryHandler
  <2>2. thr[t].i \in 1..Len(stack) /\ stack \in Seq(Handlers)
    BY SMT, <1>0, <2>1 DEF SectionInv, Section, StackInv, Position
  <2>3. stack[thr[t].i] \in Handlers
    BY SMT, <2>2
  <2> QED
    BY <1>3, <2>1, <2>3
<1>12. ASSUME NEW h \in Handlers, SimulateSignalDelivery(t, h) PROVE NoDumpStep(t)
  BY <1>3, <1>12 DEF SimulateSignalDelivery
<1>13. ASSUME NEW h \in Handlers, WriteMinidump(t, h) PROVE NoDumpStep(t)
  BY <1>2, <1>13 DEF WriteMinidump, NoDumpStep
<1>14. ASSUME NEW h \in Handlers, construct(t, h) \/ destroy(t, h) PROVE NoDumpStep(t)
  <2>1. /\ UNCHANGED <<pipeVars, context, overlapped>> /\ thr[t].pc = "run"
        /\ \E p \in {"ctor", "dtor"} : thr' = [thr EXCEPT ![t].pc = p, ![t].h = h]
    BY <1>14 DEF construct, destroy, boundVars
  <2>2. thr'[t].pc \in {"ctor", "dtor"}
    BY SMT, <1>0, <2>1 DEF Position
  <2> QED
    BY <2>1, <2>2 DEF NoDumpStep, Cloned, Dumping
<1>15. ASSUME NEW h \in Handlers, getcontextFails(t, h) PROVE NoDumpStep(t)
  <2>1. /\ UNCHANGED <<pipeVars, context, overlapped>> /\ thr[t].pc = "run"
        /\ thr' = [thr EXCEPT ![t] = Idle]
    BY <1>15 DEF getcontextFails
  <2> QED
    BY <1>0, <2>1 DEF NoDumpStep, Cloned, Dumping, Idle
<1> QED
  BY <1>4, <1>5, <1>7, <1>8, <1>9, <1>10, <1>11, <1>12, <1>13, <1>14, <1>15 DEF program

\* What every step of GenerateDump() on a pipe leaves alone.
LEMMA DumpFrame ==
  ASSUME ThreadInv, NEW t \in Threads, \A why : ~Die(why),
         \/ makePipe(t) \/ cloneChild(t) \/ allowTrace(t)
         \/ SendContinueSignalToChild(t) \/ waitChild(t)
  PROVE  /\ UNCHANGED <<context, overlapped>> /\ thr[t].pc \in Dumping
         /\ thr'[t].pc \in {"pipe", "clone"} =>
              makePipe(t) /\ thr[t].pc = "pipe" /\ thr'[t].via = thr[t].via
<1> USE Zenon
<1>0. Shape(thr[t]) /\ thr[t] \in Position /\ thr \in [Threads -> Position]
  BY DEF ThreadInv, Shape
<1>1. UNCHANGED <<context, overlapped>> /\ thr[t].pc \in Dumping
  BY DEF makePipe, cloneChild, allowTrace, SendContinueSignalToChild, waitChild,
         globalVars, boundVars, Dumping
<1>2. CASE makePipe(t)
  <2>1. /\ thr[t].pc = "pipe"
        /\ \E d \in Dumps : thr' = [thr EXCEPT ![t].pc = "clone", ![t].d = d]
    BY <1>2 DEF makePipe
  <2>2. thr'[t].via = thr[t].via
    BY SMT, <1>0, <2>1 DEF Position
  <2> QED
    BY <1>1, <1>2, <2>1, <2>2
<1>3. CASE \/ cloneChild(t) \/ allowTrace(t) \/ SendContinueSignalToChild(t) \/ waitChild(t)
  <2>1. \/ \E p \in {"close", "write", "wait"} : Goto(t, p)
        \/ \E b \in BOOLEAN : thr' = [thr EXCEPT ![t] = Returned(t, b)]
    BY <1>3 DEF cloneChild, allowTrace, SendContinueSignalToChild, waitChild
  <2>2. \A b \in BOOLEAN : Returned(t, b).pc \in {"run", "after", "loop"}
    BY SMT, <1>0, <1>1, ReturnedShape DEF Working, Idle
  <2>3. thr'[t].pc \notin {"pipe", "clone"}
    BY <1>0, <2>1, <2>2 DEF Goto, Position
  <2> QED
    BY <1>1, <2>3
<1> QED
  BY <1>2, <1>3

\* Every step keeps the dump under way the only one, with its own context, or
\* puts the overlap on record.
LEMMA OneDumpStep ==
  ASSUME ThreadInv, SectionInv, PipeTypes, OneDump, [Next]_vars
  PROVE  OneDump'
<1> USE Zenon
<1>1. ASSUME NEW why, Die(why) PROVE OneDump'
  <2>1. \A t \in Threads : thr'[t].pc = "run"
    BY <1>1 DEF Die, Idle
  <2> QED
    BY <2>1 DEF OneDump, Dumping
<1>2. ASSUME NEW t \in Threads, threadStep(t) \/ program(t), \A why : ~Die(why)
      PROVE  OneDump'
  <2> SUFFICES ASSUME ~overlapped'
               PROVE  /\ \A u, v \in Threads :
                           thr'[u].pc \in Dumping /\ thr'[v].pc \in Dumping => u = v
                      /\ \A u \in Threads :
                           thr'[u].pc \in {"pipe", "clone"} /\ thr'[u].via # "write"
                             => context' = u
    BY DEF OneDump
  <2>1. \A u \in Threads \ {t} : thr'[u] = thr[u]
    BY <1>2, StepsOrderly DEF Orderly, Moved
  <2>2. overlapped \in BOOLEAN
    BY DEF PipeTypes
  <2>3. CASE NoDumpStep(t)
    <3>1. CASE UNCHANGED <<context, overlapped>> /\ thr'[t].pc \notin Dumping
      <4>1. /\ \A u, v \in Threads : thr[u].pc \in Dumping /\ thr[v].pc \in Dumping => u = v
            /\ \A u \in Threads :
                 thr[u].pc \in {"pipe", "clone"} /\ thr[u].via # "write" => context = u
        BY <3>1 DEF OneDump
      <4> QED
        BY <2>1, <3>1, <4>1 DEF Dumping
    <3>2. CASE Meets(t) /\ (thr'[t].pc \in Dumping /\ thr'[t].via # "write" => context' = t)
      <4>1. \A u \in Threads \ {t} : thr'[u].pc \notin Dumping
        BY <2>1, <2>2, <3>2, OverlapStays
      <4> QED
        BY <3>2, <4>1 DEF Dumping
    <3> QED
      BY <2>3, <3>1, <3>2 DEF NoDumpStep
  <2>4. CASE \/ makePipe(t) \/ cloneChild(t) \/ allowTrace(t)
             \/ SendContinueSignalToChild(t) \/ waitChild(t)
    <3>1. /\ UNCHANGED <<context, overlapped>> /\ thr[t].pc \in Dumping
          /\ thr'[t].pc \in {"pipe", "clone"} => thr[t].pc = "pipe" /\ thr'[t].via = thr[t].via
      BY <1>2, <2>4, DumpFrame
    <3>2. /\ \A u, v \in Threads : thr[u].pc \in Dumping /\ thr[v].pc \in Dumping => u = v
          /\ \A u \in Threads :
               thr[u].pc \in {"pipe", "clone"} /\ thr[u].via # "write" => context = u
      BY <3>1 DEF OneDump
    <3>3. \A u \in Threads \ {t} : thr'[u].pc \notin Dumping
      BY <2>1, <3>1, <3>2
    <3>4. thr'[t].pc \in {"pipe", "clone"} /\ thr'[t].via # "write" => context' = t
      BY <3>1, <3>2
    <3> QED
      BY <3>3, <3>4 DEF Dumping
  <2> QED
    BY <1>2, <2>3, <2>4, CallKinds DEF threadStep
<1>3. CASE \/ loseSiginfo \/ (\E d \in Dumps : childStep(d) \/ killChild(d))
           \/ UNCHANGED vars
  <2>1. UNCHANGED <<thr, context, overlapped>>
    BY <1>3, RestKept
  <2> QED
    BY <2>1 DEF OneDump
<1> QED
  BY <1>1, <1>2, <1>3, StepKinds

\* The dump of the one thread inside GenerateDump() decides about all of them.
LEMMA OnlyDump ==
  ASSUME ThreadInv', NEW t \in Threads, NEW d \in Dumps,
         \A u \in Threads \ {t} : thr'[u].pc \notin Dumping,
         \A e \in Dumps \ {d} : Unused(e)',
         \/ thr'[t].pc \notin Cloned /\ Unused(d)'
         \/ /\ thr'[t].pc \in Cloned /\ thr'[t].d = d
            /\ Stage(t, d, fdes[thr[t].h])'
  PROVE  DumpInv'
<1> USE Zenon
<1>1. \A u \in Threads \ {t} : thr'[u].pc \notin Cloned
  BY DEF Dumping, Cloned
<1>2. ASSUME NEW e \in Dumps, \A u \in Threads : thr'[u].d # e PROVE Unused(e)'
  BY <1>2
<1>3. ASSUME NEW u \in Threads, thr'[u].pc \in Cloned
      PROVE  Stage(u, thr[u].d, fdes[thr[u].h])'
  BY <1>1, <1>3
<1> QED
  BY <1>2, <1>3 DEF DumpInv

\* The steps of GenerateDump() of the only dump under way: sys_pipe() makes the
\* ends, clone() copies them, the parent closes the read end before it lets the
\* child go on and the write end when the child is gone.
LEMMA DumpInvThread ==
  ASSUME ThreadInv, SectionInv, PipeTypes, OneDump, DumpInv, ThreadInv',
         alive, ~overlapped, NEW t \in Threads, \A why : ~Die(why),
         \/ makePipe(t) \/ cloneChild(t) \/ allowTrace(t)
         \/ SendContinueSignalToChild(t) \/ waitChild(t)
  PROVE  DumpInv'
<1> USE Zenon
<1>0. /\ fdes \in [Handlers -> Procs] /\ sent \in [Dumps -> Nat]
      /\ readers \in [Dumps -> SUBSET Procs] /\ writers \in [Dumps -> SUBSET Procs]
      /\ child \in [Dumps -> Child]
      /\ Shape(thr[t]) /\ thr[t] \in Position /\ thr \in [Threads -> Position]
  BY DEF PipeTypes, ThreadInv, Shape
<1>1. thr[t].pc \in Dumping
  BY DumpFrame
<1>2. \A u \in Threads \ {t} : thr[u].pc \notin Dumping /\ thr[u].d = 0
  <2>1. \A u \in Threads \ {t} : thr[u].pc \notin Dumping
    BY <1>1 DEF OneDump
  <2>2. \A u \in Threads \ {t} : Shape(thr[u])
    BY DEF ThreadInv
  <2> QED
    BY <2>1, <2>2 DEF Shape, Dumping, Cloned
<1>3. \A u \in Threads \ {t} : thr'[u].pc \notin Dumping
  BY <1>2, StepsOrderly DEF threadStep, Orderly, Moved
<1>4. PICK h \in Handlers : h = thr[t].h
  BY <1>0, <1>1 DEF Shape, Working
<1>5. \A d \in Dumps : d # 0 /\ d # Parent /\ d \in Procs
  BY SMT DEF Dumps, Parent, Procs
<1>6. \A e \in Dumps : thr[t].d # e => Unused(e)
  BY <1>2, <1>5 DEF DumpInv
<1>7. CASE makePipe(t)
  <2>1. PICK d \in Dumps :
          /\ \/ /\ readers' = [readers EXCEPT ![d] = {Parent}]
                /\ writers' = [writers EXCEPT ![d] = {Parent}]
                /\ fdes' = [fdes EXCEPT ![h] = d]
             \/ fdes' = [fdes EXCEPT ![h] = 0] /\ UNCHANGED <<readers, writers>>
          /\ sent' = [sent EXCEPT ![d] = 0]
          /\ thr' = [thr EXCEPT ![t].pc = "clone", ![t].d = d]
    BY <1>4, <1>7 DEF makePipe
  <2>2. child' = child /\ thr[t].pc = "pipe"
    BY <1>7 DEF makePipe
  <2>3. thr'[t].pc = "clone" /\ thr'[t].d = d /\ thr'[t].h = h
    BY <1>0, <1>4, <2>1 DEF Position
  <2>4. \A e \in Dumps : Unused(e)
    BY <1>0, <1>5, <1>6, <2>2 DEF Shape, Cloned
  <2>5. \A e \in Dumps \ {d} : Unused(e)'
    BY <1>0, <2>1, <2>2, <2>4 DEF Unused
  <2>6. \/ fdes'[h] = d /\ readers'[d] = {Parent} /\ writers'[d] = {Parent}
        \/ fdes'[h] = 0 /\ readers'[d] = {} /\ writers'[d] = {}
    BY <1>0, <2>1, <2>4 DEF Unused
  <2>7. sent'[d] = 0 /\ child'[d] = NoChild
    BY <1>0, <2>1, <2>2, <2>4 DEF Unused
  <2>8. Stage(t, d, fdes[thr[t].h])'
    BY <1>5, <2>3, <2>6, <2>7 DEF Stage
  <2> QED
    BY <1>3, <2>3, <2>5, <2>8, OnlyDump DEF Cloned
<1>8. ASSUME thr[t].pc \in Cloned
      PROVE  /\ thr[t].d \in Dumps /\ Stage(t, thr[t].d, fdes[h])
             /\ \A e \in Dumps \ {thr[t].d} : Unused(e)
  BY <1>0, <1>4, <1>6, <1>8 DEF DumpInv, Shape
<1>9. ASSUME NEW p, Goto(t, p) PROVE thr'[t].pc = p /\ thr'[t].d = thr[t].d /\ thr'[t].h = h
  BY <1>0, <1>4, <1>9 DEF Goto, Position
<1>10. ASSUME NEW b \in BOOLEAN, thr' = [thr EXCEPT ![t] = Returned(t, b)]
       PROVE  thr'[t].pc \notin Cloned
  <2>1. Returned(t, b).pc \in {"run", "after", "loop"}
    BY SMT, <1>0, <1>1, ReturnedShape DEF Working, Idle
  <2> QED
    BY <1>0, <1>10, <2>1 DEF Cloned
<1>11. CASE cloneChild(t)
  <2>1. thr[t].pc = "clone" /\ UNCHANGED <<sent, fdes, ptracer>>
    BY <1>11 DEF cloneChild
  <2>2. PICK d \in Dumps : /\ d = thr[t].d /\ Stage(t, d, fdes[h])
                           /\ \A e \in Dumps \ {d} : Unused(e)
    BY <1>8, <2>1 DEF Cloned
  <2>3. /\ fdes[h] \in {0, d} /\ child[d] = NoChild /\ sent[d] = 0
        /\ readers[d] = (IF fdes[h] = 0 THEN {} ELSE {Parent})
        /\ writers[d] = (IF fdes[h] = 0 THEN {} ELSE {Parent})
    BY <2>1, <2>2 DEF Stage
  <2>4. CASE Goto(t, "close") /\ readers' = Inherit(readers, d)
             /\ writers' = Inherit(writers, d)
             /\ child' = [child EXCEPT ![d] =
                  [pc |-> "start", h |-> h, fd |-> fdes[h], path |-> path[h],
                   tid |-> IF thr[t].via = "write" THEN t ELSE context]]
    <3>1. thr'[t].pc = "close" /\ thr'[t].d = d /\ thr'[t].h = h
      BY <1>9, <2>2, <2>4
    <3>2. (IF thr[t].via = "write" THEN t ELSE context) = t
      BY <2>1 DEF OneDump
    <3>3. /\ child'[d].pc = "start" /\ child'[d].fd = fdes[h] /\ child'[d].tid = t
          /\ \A e \in Dumps \ {d} : child'[e] = child[e]
      BY <1>0, <2>4, <3>2
    <3>4. \A e \in Dumps : /\ readers'[e] = IF Parent \in readers[e]
                                            THEN readers[e] \cup {d} ELSE readers[e]
                           /\ writers'[e] = IF Parent \in writers[e]
                                            THEN writers[e] \cup {d} ELSE writers[e]
      BY <2>4 DEF Inherit
    <3>5. \A e \in Dumps \ {d} : Unused(e)'
      BY <2>2, <3>3, <3>4 DEF Unused
    <3>6. /\ fdes[h] = 0 => readers'[d] = {} /\ writers'[d] = {}
          /\ fdes[h] = d => readers'[d] = {Parent, d} /\ writers'[d] = {Parent, d}
      BY <1>5, <2>3, <3>4
    <3>7. Stage(t, d, fdes[thr[t].h])'
      BY <1>5, <2>1, <2>3, <3>1, <3>3, <3>6 DEF Stage
    <3> QED
      BY <1>3, <3>1, <3>5, <3>7, OnlyDump DEF Cloned
  <2>5. CASE /\ readers' = Close(readers, fdes[h], Parent)
             /\ writers' = Close(writers, fdes[h], Parent)
             /\ thr' = [thr EXCEPT ![t] = Returned(t, FALSE)]
             /\ UNCHANGED child
    <3>1. \A e \in Dumps :
            /\ readers'[e] = IF e = fdes[h] THEN readers[e] \ {Parent} ELSE readers[e]
            /\ writers'[e] = IF e = fdes[h] THEN writers[e] \ {Parent} ELSE writers[e]
      BY <2>5 DEF Close
    <3>2. \A e \in Dumps \ {d} : Unused(e)'
      BY <1>5, <2>2, <2>3, <2>5, <3>1 DEF Unused
    <3>3. Unused(d)'
      BY <1>5, <2>3, <2>5, <3>1 DEF Unused
    <3> QED
      BY <1>3, <1>10, <2>5, <3>2, <3>3, OnlyDump
  <2> QED
    BY <1>4, <1>11, <2>2, <2>4, <2>5 DEF cloneChild
<1>12. CASE allowTrace(t)
  <2>1. /\ thr[t].pc = "close" /\ UNCHANGED <<writers, sent, child, fdes>>
        /\ readers' = Close(readers, fdes[h], Parent) /\ ptracer' = thr[t].d
        /\ Goto(t, "write")
    BY <1>4, <1>12 DEF allowTrace
  <2>2. PICK d \in Dumps : /\ d = thr[t].d /\ Stage(t, d, fdes[h])
                           /\ \A e \in Dumps \ {d} : Unused(e)
    BY <1>8, <2>1 DEF Cloned
  <2>3. thr'[t].pc = "write" /\ thr'[t].d = d /\ thr'[t].h = h
    BY <1>9, <2>1, <2>2
  <2>4. \A e \in Dumps : readers'[e] = IF e = fdes[h] THEN readers[e] \ {Parent} ELSE readers[e]
    BY <2>1 DEF Close
  <2>5. fdes[h] \in {0, d}
    BY <2>2 DEF Stage
  <2>6. \A e \in Dumps \ {d} : Unused(e)'
    BY <1>5, <2>1, <2>2, <2>4, <2>5 DEF Unused
  <2>7. Stage(t, d, fdes[thr[t].h])'
    BY ZenonT(30), <1>0, <1>5, <2>1, <2>2, <2>3, <2>4 DEF Stage
  <2> QED
    BY <1>3, <2>3, <2>6, <2>7, OnlyDump DEF Cloned
<1>13. CASE SendContinueSignalToChild(t)
  <2>1. /\ thr[t].pc = "write" /\ UNCHANGED <<readers, writers, child, fdes, ptracer>>
        /\ Goto(t, "wait")
    BY <1>13 DEF SendContinueSignalToChild
  <2>2. PICK d \in Dumps : /\ d = thr[t].d /\ Stage(t, d, fdes[h])
                           /\ \A e \in Dumps \ {d} : Unused(e)
    BY <1>8, <2>1 DEF Cloned
  <2>3. thr'[t].pc = "wait" /\ thr'[t].d = d /\ thr'[t].h = h
    BY <1>9, <2>1, <2>2
  <2>4. \A e \in Dumps \ {d} : Unused(e)'
    BY <2>1, <2>2 DEF Unused
  <2>5. Stage(t, d, fdes[thr[t].h])'
    BY <2>1, <2>2, <2>3 DEF Stage
  <2> QED
    BY <1>3, <2>3, <2>4, <2>5, OnlyDump DEF Cloned
<1>14. CASE waitChild(t)
  <2>1. /\ thr[t].pc = "wait" /\ UNCHANGED <<readers, fdes>> /\ child[thr[t].d].pc \in Exited
        /\ child' = [child EXCEPT ![thr[t].d] = NoChild]
        /\ writers' = Close(writers, fdes[h], Parent)
        /\ \E b \in BOOLEAN : thr' = [thr EXCEPT ![t] = Returned(t, b)]
    BY <1>4, <1>14 DEF waitChild
  <2>2. PICK d \in Dumps : /\ d = thr[t].d /\ Stage(t, d, fdes[h])
                           /\ \A e \in Dumps \ {d} : Unused(e)
    BY <1>8, <2>1 DEF Cloned
  <2>3. \A e \in Dumps : writers'[e] = IF e = fdes[h] THEN writers[e] \ {Parent} ELSE writers[e]
    BY <2>1 DEF Close
  <2>4. fdes[h] \in {0, d}
    BY <2>2 DEF Stage
  <2>5. \A e \in Dumps \ {d} : Unused(e)'
    BY <1>0, <1>5, <2>1, <2>2, <2>3, <2>4 DEF Unused
  <2>6. readers[d] = {} /\ writers'[d] = {}
    <3>1. CASE fdes[h] = 0
      BY <1>5, <2>1, <2>2, <2>3, <3>1 DEF Stage
    <3>2. CASE fdes[h] = d
      <4>1. \A p \in Procs : p \notin readers[d]
        BY <2>1, <2>2, <3>2 DEF Stage, Exited
      <4>2. \A p \in Procs : p \in writers[d] => p = Parent
        BY <2>1, <2>2, <3>2 DEF Stage, Exited
      <4>3. readers[d] \subseteq Procs /\ writers[d] \subseteq Procs
        BY <1>0
      <4> QED
        BY <2>3, <3>2, <4>1, <4>2, <4>3
    <3> QED
      BY <2>4, <3>1, <3>2
  <2>7. Unused(d)'
    BY <1>0, <2>1, <2>2, <2>6 DEF Unused
  <2> QED
    BY <1>3, <1>10, <2>1, <2>5, <2>7, OnlyDump
<1> QED
  BY <1>7, <1>11, <1>12, <1>13, <1>14

\* The steps of the child: it closes its write end, is held by the read until
\* the byte is there, and gives up the rest when it exits.
LEMMA DumpInvChild ==
  ASSUME ThreadInv, PipeTypes, OneDump, DumpInv, ThreadInv', alive, ~overlapped,
         NEW d \in Dumps, childStep(d) \/ killChild(d)
  PROVE  DumpInv'
<1> USE Zenon
<1>0. /\ readers \in [Dumps -> SUBSET Procs] /\ writers \in [Dumps -> SUBSET Procs]
      /\ sent \in [Dumps -> Nat] /\ child \in [Dumps -> Child]
  BY DEF PipeTypes
<1>1. UNCHANGED <<thr, fdes>>
  BY DEF childStep, killChild
<1>2. child[d].pc \in {"start", "read", "dump"}
  BY DEF childStep, childStarts, WaitForContinueSignal, DoDump, killChild
<1>3. PICK t \in Threads : thr[t].d = d
  BY SMT, <1>2 DEF DumpInv, Unused, NoChild
<1>4. \A e \in Dumps : e # 0 /\ e # Parent /\ e \in Procs
  BY SMT DEF Dumps, Parent, Procs
<1>5. thr[t].pc \in Cloned /\ thr[t].h \in Handlers
  BY <1>3, <1>4 DEF ThreadInv, Shape, Cloned, Working, Dumping
<1>6. PICK fd : fd = fdes[thr[t].h]
  OBVIOUS
<1>7. Stage(t, d, fd)
  BY <1>3, <1>5, <1>6 DEF DumpInv
<1>8. /\ fd \in {0, d} /\ thr[t].pc # "clone" /\ child[d].fd = fd /\ child[d].tid = t
      /\ fd = 0 => readers[d] = {} /\ writers[d] = {}
      /\ fd = d =>
           /\ \A p \in Procs :
                p \in readers[d] <=> \/ p = Parent /\ thr[t].pc = "close"
                                     \/ p = d /\ child[d].pc \in {"start", "read"}
           /\ \A p \in Procs :
                p \in writers[d] <=> p = Parent \/ (p = d /\ child[d].pc = "start")
      /\ thr[t].pc # "wait" => sent[d] = 0
      /\ thr[t].pc \in {"write", "wait"} => ptracer = d
      /\ thr[t].pc = "close" /\ fd = d => child[d].pc # "dump"
  BY SMT, <1>2, <1>7 DEF Stage, NoChild
<1>9. \A u \in Threads \ {t} : thr[u].pc \notin Dumping /\ thr[u].d = 0
  <2>1. \A u \in Threads \ {t} : thr[u].pc \notin Dumping
    BY <1>5 DEF OneDump, Cloned, Dumping
  <2> QED
    BY <2>1 DEF ThreadInv, Shape, Cloned, Dumping
<1>10. \A e \in Dumps \ {d} : Unused(e)
  BY <1>3, <1>4, <1>9 DEF DumpInv
<1>11. ASSUME \A e \in Dumps \ {d} : Unused(e)', Stage(t, d, fd)' PROVE DumpInv'
  BY <1>1, <1>3, <1>5, <1>6, <1>9, <1>11, OnlyDump
<1>12. ASSUME NEW p \in {"start", "read", "dump"} \cup Exited,
              child' = [child EXCEPT ![d].pc = p]
       PROVE  /\ child'[d].pc = p /\ child'[d].fd = fd /\ child'[d].tid = t
              /\ \A e \in Dumps \ {d} : child'[e] = child[e]
  <2>1. PICK c : c = child'
    OBVIOUS
  <2>2. /\ c[d].pc = p /\ c[d].fd = child[d].fd /\ c[d].tid = child[d].tid
        /\ \A e \in Dumps \ {d} : c[e] = child[e]
    BY SMT, <1>0, <1>12, <2>1, ChildGoes
  <2> QED
    BY <1>8, <2>1, <2>2
<1>13. CASE childStarts(d) /\ UNCHANGED <<readers, sent, ptracer, files>>
  <2>1. /\ child[d].pc = "start" /\ child' = [child EXCEPT ![d].pc = "read"]
        /\ \A e \in Dumps : writers'[e] = IF e = child[d].fd THEN writers[e] \ {d} ELSE writers[e]
    BY <1>13 DEF childStarts, Close
  <2>2. /\ child'[d].pc = "read" /\ child'[d].fd = fd /\ child'[d].tid = t
        /\ \A e \in Dumps \ {d} : child'[e] = child[e]
    BY <1>12, <2>1
  <2>3. \A e \in Dumps \ {d} : Unused(e)'
    BY <1>4, <1>8, <1>10, <1>13, <2>1, <2>2 DEF Unused
  <2>4. Stage(t, d, fd)'
    BY ZenonT(30), <1>1, <1>4, <1>8, <1>13, <2>1, <2>2 DEF Stage, NoChild
  <2> QED
    BY <1>11, <2>3, <2>4
<1>14. CASE WaitForContinueSignal(d) /\ UNCHANGED <<writers, ptracer, files>>
  <2>1. /\ child[d].pc = "read" /\ child' = [child EXCEPT ![d].pc = "dump"]
        /\ \A e \in Dumps : readers'[e] = IF e = fd THEN readers[e] \ {d} ELSE readers[e]
    BY <1>8, <1>14 DEF WaitForContinueSignal, Close
  <2>2. /\ child'[d].pc = "dump" /\ child'[d].fd = fd /\ child'[d].tid = t
        /\ \A e \in Dumps \ {d} : child'[e] = child[e]
    BY <1>12, <2>1
  <2>3. \A e \in Dumps \ {d} : Unused(e)'
    BY <1>4, <1>8, <1>10, <1>14, <2>1, <2>2 DEF Unused
  <2>4. fd = d => d \in readers[d] /\ Parent \in writers[d]
    BY <1>4, <1>8, <2>1 DEF Procs
  <2>5. \/ UNCHANGED sent /\ (fd = 0 \/ (fd # 0 /\ d \notin readers[fd]))
        \/ fd # 0 /\ sent[fd] > 0 /\ sent' = [sent EXCEPT ![fd] = @ - 1]
        \/ UNCHANGED sent /\ fd # 0 /\ writers[fd] = {}
    BY <1>8, <1>14 DEF WaitForContinueSignal
  <2>6. fd = d => thr[t].pc = "wait"
    BY SMT, <1>0, <1>4, <1>8, <2>4, <2>5
  <2>7. thr[t].pc # "wait" => sent'[d] = 0
    BY <1>8, <2>5, <2>6
  <2>8. Stage(t, d, fd)'
    BY ZenonT(30), <1>1, <1>4, <1>8, <1>14, <2>1, <2>2, <2>6, <2>7 DEF Stage, NoChild
  <2> QED
    BY <1>11, <2>3, <2>8
<1>15. ASSUME NEW how \in Exited, ChildExits(d, how), UNCHANGED sent PROVE DumpInv'
  <2>1. /\ child' = [child EXCEPT ![d].pc = how]
        /\ \A e \in Dumps : readers'[e] = readers[e] \ {d} /\ writers'[e] = writers[e] \ {d}
    BY <1>15 DEF ChildExits
  <2>2. /\ child'[d].pc = how /\ child'[d].fd = fd /\ child'[d].tid = t
        /\ \A e \in Dumps \ {d} : child'[e] = child[e]
    BY <1>12, <2>1
  <2>3. \A e \in Dumps \ {d} : Unused(e)'
    BY <1>10, <2>1, <2>2 DEF Unused
  <2>4. Stage(t, d, fd)'
    BY SMT, <1>1, <1>4, <1>8, <1>15, <2>1, <2>2 DEF Stage, NoChild, Exited
  <2> QED
    BY <1>11, <2>3, <2>4
<1>16. CASE DoDump(d) /\ UNCHANGED sent
  BY <1>15, <1>16 DEF DoDump, Exited
<1>17. CASE killChild(d)
  BY <1>15, <1>17 DEF killChild, Exited
<1> QED
  BY <1>13, <1>14, <1>16, <1>17 DEF childStep

\* Every step keeps the pipe and the child of the dump under way in order.
LEMMA DumpInvStep ==
  ASSUME ThreadInv, SectionInv, PipeTypes, OneDump, DumpInv, [Next]_vars
  PROVE  DumpInv'
<1> USE Zenon
<1> SUFFICES ASSUME alive', ~overlapped' PROVE DumpInv'
  BY DEF DumpInv
<1>0. ThreadInv' /\ overlapped \in BOOLEAN
  BY SectionStep DEF PipeTypes
<1>1. ASSUME NEW why, Die(why) PROVE DumpInv'
  BY <1>1 DEF Die
<1>2. ASSUME alive, NEW t \in Threads, threadStep(t) \/ program(t), \A why : ~Die(why)
      PROVE  DumpInv'
  <2>1. \A u \in Threads \ {t} : thr'[u] = thr[u]
    BY <1>2, StepsOrderly DEF Orderly, Moved
  <2>2. CASE NoDumpStep(t)
    <3>1. /\ UNCHANGED <<readers, writers, sent, child, fdes, ptracer>>
          /\ thr[t].pc \notin Cloned /\ thr'[t].pc \notin Cloned
          /\ ~overlapped
      BY SMT, <1>0, <2>2, OverlapStays DEF NoDumpStep, pipeVars
    <3>2. thr[t].d = 0 /\ thr'[t].d = 0
      BY <1>0, <3>1 DEF ThreadInv, Shape
    <3>3. \A u \in Threads : thr'[u].d = thr[u].d
      BY <2>1, <3>2
    <3>4. ASSUME NEW e \in Dumps, \A u \in Threads : thr'[u].d # e PROVE Unused(e)'
      BY <1>2, <3>1, <3>3, <3>4 DEF DumpInv, Unused
    <3>5. ASSUME NEW u \in Threads, thr'[u].pc \in Cloned
          PROVE  Stage(u, thr[u].d, fdes[thr[u].h])'
      <4>1. thr'[u] = thr[u] /\ Stage(u, thr[u].d, fdes[thr[u].h])
        BY <1>2, <2>1, <3>1, <3>5 DEF DumpInv
      <4> QED
        BY <3>1, <4>1 DEF Stage
    <3> QED
      BY <3>4, <3>5 DEF DumpInv
  <2>3. CASE \/ makePipe(t) \/ cloneChild(t) \/ allowTrace(t)
             \/ SendContinueSignalToChild(t) \/ waitChild(t)
    <3>1. ~overlapped
      BY <1>2, <2>3, DumpFrame
    <3> QED
      BY <1>0, <1>2, <2>3, <3>1, DumpInvThread
  <2> QED
    BY <1>2, <2>2, <2>3, CallKinds DEF threadStep
<1>3. ASSUME NEW d \in Dumps, childStep(d) \/ killChild(d) PROVE DumpInv'
  <2>1. alive' = alive /\ overlapped' = overlapped
    BY <1>3, RestKept DEF procVars
  <2>2. alive /\ ~overlapped
    BY <2>1
  <2> QED
    BY <1>0, <1>3, <2>2, DumpInvChild
<1>4. CASE loseSiginfo \/ UNCHANGED vars
  <2>1. UNCHANGED <<alive, thr, overlapped>>
    BY <1>4, RestKept DEF procVars
  <2>2. UNCHANGED pipeVars
    BY <1>4 DEF loseSiginfo, vars, quietVars
  <2>3. alive /\ ~overlapped
    BY <2>1
  <2>4. ASSUME NEW e \in Dumps, \A u \in Threads : thr'[u].d # e PROVE Unused(e)'
    BY <2>1, <2>2, <2>3, <2>4 DEF pipeVars, DumpInv, Unused
  <2>5. ASSUME NEW u \in Threads, thr'[u].pc \in Cloned
        PROVE  Stage(u, thr[u].d, fdes[thr[u].h])'
    <3>1. Stage(u, thr[u].d, fdes[thr[u].h])
      BY <2>1, <2>3, <2>5 DEF DumpInv
    <3> QED
      BY <2>1, <2>2, <3>1 DEF pipeVars, Stage
  <2> QED
    BY <2>4, <2>5 DEF DumpInv
<1> QED
  BY <1>1, <1>2, <1>3, <1>4, StepKinds

\* Initially there is no dump.
LEMMA DumpInit == Init => PipeTypes /\ OneDump /\ DumpInv
<1> USE Zenon
<1> SUFFICES ASSUME Init PROVE PipeTypes /\ OneDump /\ DumpInv
  OBVIOUS
<1>1. \A t \in Threads : thr[t].pc = "run"
  BY DEF Init, Idle
<1>2. OneDump
  BY <1>1 DEF OneDump, Dumping
<1>3. DumpInv
  BY <1>1 DEF Init, DumpInv, Unused, Cloned
<1>4. NoChild \in Child /\ NoChild.pc = "none" /\ 0 \in Procs
  BY DEF NoChild, Child, Procs, Parent
<1>5. child \in [Dumps -> Child] /\ \A d \in Dumps : child[d].pc = "none"
  BY <1>4 DEF Init
<1>6. /\ fdes \in [Handlers -> Procs] /\ ptracer \in Procs /\ sent \in [Dumps -> Nat]
      /\ readers \in [Dumps -> SUBSET Procs] /\ writers \in [Dumps -> SUBSET Procs]
  BY <1>4 DEF Init
<1>7. remote \subseteq Handlers
  BY HandlerAssumption DEF Init
<1>8. incidents \in 0..MaxIncidents /\ path \in [Handlers -> Nat]
  <2>1. incidents = 0 /\ MaxIncidents \in Nat
    BY HandlerAssumption DEF Init
  <2>2. path \in [Handlers -> Nat]
    BY DEF Init
  <2> QED
    BY SMT, <2>1, <2>2
<1>9. /\ files \subseteq Handlers \X Nat /\ context \in Threads \cup {None}
      /\ overlapped \in BOOLEAN
  BY DEF Init
<1>10. PipeTypes
  BY <1>5, <1>6, <1>7, <1>8, <1>9 DEF PipeTypes
<1> QED
  BY <1>2, <1>3, <1>10

\* All of the invariant is inductive.
THEOREM CrashHandlerInvariant == Spec => []IndInv
<1>1. Init => IndInv
  BY SectionInit, SignalInit, DumpInit DEF IndInv
<1>2. IndInv /\ [Next]_vars => IndInv'
  BY SectionStep, SignalStep, AltStep, PipeTypesStep, OneDumpStep, DumpInvStep DEF IndInv
<1> QED
  BY <1>1, <1>2, PTL DEF Spec

\* The variables of exception_handler.cc keep their types.
THEOREM TypeCorrect == Spec => []TypeOK
<1>1. ASSUME IndInv PROVE TypeOK
  <2> USE <1>1, Zenon DEF IndInv
  <2>1. alive \in BOOLEAN /\ \A t \in Threads : thr[t].pc \in Pcs
    BY SMT DEF ThreadInv, Position
  <2>2. \A d \in Dumps : child[d].pc \in {"none", "start", "read", "dump"} \cup Exited
    BY SMT DEF PipeTypes, Child
  <2> QED
    BY <2>1, <2>2 DEF TypeOK, SectionInv, StackInv, SignalInv, AltInv, PipeTypes
<1>2. IndInv => TypeOK
  BY <1>1
<1> QED
  BY <1>2, CrashHandlerInvariant, PTL

\* GenerateDump(): as long as no two dumps overlapped, a child with a pipe traces
\* only after PR_SET_PTRACER named it, the dump is of the thread that asked for
\* it, and no end of a pipe stays open afterwards.
THEOREM DumpsSoundHolds == Spec => []DumpsSound
<1>1. ASSUME IndInv PROVE DumpsSound
  <2>1. ASSUME NEW d \in Dumps, NEW t \in Threads, ~overlapped, thr[t].d = d
        PROVE  alive /\ Stage(t, d, fdes[thr[t].h])
    <3>1. d # 0
      BY DEF Dumps
    <3>2. thr[t].pc \in Cloned /\ alive
      BY <1>1, <2>1, <3>1 DEF IndInv, ThreadInv, Shape, Idle
    <3> QED
      BY <1>1, <2>1, <3>2 DEF IndInv, DumpInv
  <2>2. TracedAfterPermission
    <3> SUFFICES ASSUME NEW d \in Dumps, NEW t \in Threads, ~overlapped, thr[t].d = d,
                        child[d].pc = "dump", child[d].fd # 0
                 PROVE  ptracer = d
      BY DEF TracedAfterPermission
    <3>1. PICK fd : fd = fdes[thr[t].h] /\ Stage(t, d, fd)
      BY <2>1
    <3>2. thr[t].pc \in Cloned
      BY <1>1 DEF IndInv, ThreadInv, Shape, Dumps
    <3> QED
      BY <3>1, <3>2 DEF Stage, Cloned, NoChild
  <2>3. DumpNamesItsThread
    <3> SUFFICES ASSUME NEW d \in Dumps, NEW t \in Threads, ~overlapped, thr[t].d = d,
                        child[d].pc # "none"
                 PROVE  child[d].tid = t
      BY DEF DumpNamesItsThread
    <3>1. Stage(t, d, fdes[thr[t].h])
      BY <2>1
    <3> QED
      BY <3>1 DEF Stage, NoChild
  <2>4. PipesClosed
    <3> SUFFICES ASSUME alive, ~overlapped, \A t \in Threads : thr[t].pc \notin Dumping,
                        NEW d \in Dumps
                 PROVE  readers[d] = {} /\ writers[d] = {}
      BY DEF PipesClosed
    <3>1. \A t \in Threads : thr[t].d # d
      BY <1>1 DEF IndInv, ThreadInv, Shape, Dumping, Cloned, Dumps
    <3> QED
      BY <1>1, <3>1 DEF IndInv, DumpInv, Unused
  <2> QED
    BY <2>2, <2>3, <2>4 DEF DumpsSound
<1>2. IndInv => DumpsSound
  BY <1>1
<1> QED
  BY <1>2, CrashHandlerInvariant, PTL
=============================================================================
