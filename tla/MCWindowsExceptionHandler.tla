--------------------- MODULE MCWindowsExceptionHandler ---------------------
(* Two threads of the program and two objects that install everything, one *)
(* of them out of process or idle (HANDLER_NONE); or one that installs the *)
(* exception filter alone.                                                 *)
EXTENDS WindowsExceptionHandler

MCApp == {"t1", "t2"}
MCHandlers == {"a", "b"}
MCNone == "none"

Object(types, remote) == [types |-> types, remote |-> remote]

All == Object(Kinds, FALSE)
Remote == Object(Kinds, TRUE)
Idle == Object({}, FALSE)
Partial == Object({"exception"}, FALSE)

MCSetups == {[h \in MCHandlers |-> IF h = "a" THEN All ELSE b] :
               b \in {All, Remote, Idle}}
MCPartial == {[h \in MCHandlers |-> IF h = "a" THEN All ELSE Partial]}
============================================================================
