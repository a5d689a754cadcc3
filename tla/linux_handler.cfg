SPECIFICATION Spec
CONSTANTS
  Threads = {"t1", "t2"}
  Handlers = {"h1", "h2"}
  Installing = {"h1"}
  Remotes = {{"h2"}}
  Signals = {"SEGV"}
  SIGABRT = "ABRT"
  AppStack <- Stacks
  MaxDumps = 1
  MaxIncidents = 1
  Reentrant = FALSE
  None = None
CONSTRAINT NoOverlap
CHECK_DEADLOCK FALSE
INVARIANTS HandlerAliveInUse DumpsSound
PROPERTY PutBackAtEnd
