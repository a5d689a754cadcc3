SPECIFICATION AllSpec
CONSTANTS
  Parts = {"frames", "dies", "lines", "assign", "module"}
  Nothing = Nothing
INVARIANTS FramesFaithful DiesDelivered LinesRight SymbolsWritten
CONSTRAINT LongestOnce
CHECK_DEADLOCK FALSE
