SPECIFICATION FairSpec
CONSTANTS
  t1 = t1
  t2 = t2
  Threads <- MCThreads
  Owner = t1
  Starts <- MCStarts
  Handler = handler
  Builds <- MCBuilds
  QueueLimit = 2
  MaxCalls = 2
  MaxEvents = 2
  MaxTogether = 3
CHECK_DEADLOCK FALSE
INVARIANTS SuspensionSound HandlerHandsOver
PROPERTY MacAnswers
