SPECIFICATION AllSpec
CONSTANTS
  Tasks = {"a", "b", "c", "d", "x"}
  Extra = {"x"}
  DependsOn <- TwoJoins
  RunOnMain = {"b"}
  OnCpu = {"c", "d"}
  NeedWait = {"a", "c"}
  NeedCall = {}
  OnlyInMainProcess = {"a"}
  IsMainProcess = FALSE
  MayFail = {"c"}
  MayCancel = TRUE
  Debug = TRUE
  PoolSize = 1
  Null = Null
  Empty = Empty
  Failed = Failed
  NoData = NoData
INVARIANTS DependenciesFirst FlowInOrder AnswersKeptApart
PROPERTIES AwaitComplete
CHECK_DEADLOCK FALSE
