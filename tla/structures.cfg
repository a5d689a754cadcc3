SPECIFICATION AllSpec
CONSTANTS
  Keys <- MCKeys
  Values <- MCValues
  Nul = Nul
  NumEntries = 2
  ClipKey <- MCClipKey
  Clip <- MCClip
  Names = {"a", "b"}
  LongValues <- MCLongValues
  kSuffixes = 2
  value_size = 2
  page_size_ = 4
  Header = 1
  Space = 5
  Sizes = {0, 1, 2, 3, 4, 6}
  Top = 6
  MaxLines = 3
  MapNames = {"", "a", "l"}
  LongNames = {"l"}
  Vaddrs = {0, 1, 3}
  PageSize = 2
  kStackToCapture = 4
  kHpageSize = 2
  shift = 1
  table = 2
  Offsets = {0, 2, 3}
  Entries = {0, 3}
CHECK_DEADLOCK FALSE
INVARIANTS LongValueKept AllocatorSound MappingsFaithful StackScansExact
PROPERTY ImplementsMap
