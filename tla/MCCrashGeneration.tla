------------------------- MODULE MCCrashGeneration -------------------------
(* Instances of CrashGeneration.                                           *)
EXTENDS CrashGeneration, TLC

Stacks == [t \in Threads |-> 0]

NoOverlap == ~overlapped
\* Of the clients whose context the server cannot read one crashes at a time.
OneForeignClient ==
  foreign => \A t, u \in Threads : t = u \/ thr[t].pc = "run" \/ thr[u].pc = "run"
====
