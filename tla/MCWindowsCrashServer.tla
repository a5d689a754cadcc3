----------------------- MODULE MCWindowsCrashServer ------------------------
(* Two clients: one registers and asks for dumps, the other may register   *)
(* too, or sends something else.                                           *)
EXTENDS WindowsCrashServer

MCClients == {"c1", "c2"}
MCRequests == [c1 |-> {"register"}, c2 |-> {"upload"}]
MCOnce == [c1 |-> 1, c2 |-> 0]
MCTwice == [c1 |-> 2, c2 |-> 0]
MCNone == "none"
============================================================================
