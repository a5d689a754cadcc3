------------------------ MODULE MCLinuxCrashHandler ------------------------
(* Instances of LinuxCrashHandler.                                         *)
EXTENDS LinuxCrashHandler, TLC

\* One thread without an alternate stack, one with a small one.
Stacks == [t \in Threads |-> IF t = "t1" THEN 0 ELSE Small]

\* The code does not serialise an explicit dump and a crash of one handler; what
\* follows such an overlap is not explored.
NoOverlap == ~overlapped
====
