SPECIFICATION GenerationSpec
CONSTANTS
  Threads = {"t1", "t2"}
  Handlers = {"h1"}
  Installing = {"h1"}
  Remotes = {{}, {"h1"}}
  Signals = {"SEGV"}
  SIGABRT = "ABRT"
  AppStack <- Stacks
  MaxDumps = 1
  MaxIncidents = 0
  Reentrant = FALSE
  None = None
CONSTRAINTS NoOverlap OneForeignClient
CHECK_DEADLOCK FALSE
PROPERTIES ServerServes CrashesEnd
