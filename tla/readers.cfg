SPECIFICATION AllSpec
CONSTANTS
  Parts = {"stabs", "elf", "mach", "windows"}
INVARIANTS StabsFaithful ObjectFilesRight PdbSymbolsRight
CHECK_DEADLOCK FALSE
