SPECIFICATION AllSpec
CONSTANTS
  Jobs = {"a", "b", "c", "d"}
  Priority <- Ranked
  Callables = {"a"}
  CoreSize = 2
  None = None
  Null = Null
  Empty = Empty
  Failed = Failed
  NoData = NoData
INVARIANTS JobsKept SortCorrect
PROPERTIES EveryJobRuns LaunchFinishes CallsAnswered
CHECK_DEADLOCK FALSE
