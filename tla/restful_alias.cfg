SPECIFICATION Spec
CONSTANTS
  Calls = {"a", "b"}
  Method <- OneMethod
  Param <- TwoPages
  Strategy <- CacheFirst
  Sync = {}
  Serializable = {"list"}
  Overlap = TRUE
  OldEntries <- AllOld
  Empty = Empty
  Failed = Failed
  NoData = NoData
  Null = Null
INVARIANT EntryBelongsToKey
CHECK_DEADLOCK FALSE
