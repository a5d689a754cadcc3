SPECIFICATION Spec
CONSTANTS
  PageSize = 4096
  Tids = {1, 2}
  CrashThread = 2
  Modes <- MCModes
  Limits <- MCLimits
  kLimitBaseThreadCount = 1
CHECK_DEADLOCK FALSE
INVARIANTS FileSound StreamsFaithful ThreadsStoppedThenResumed
