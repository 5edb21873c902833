SPECIFICATION Spec
CONSTANTS
  LineLen = 1
  BufSize = 256
  Letters = 1
  Drives <- AllDrives
  Changes = 0
  Ticks = {0, 59, 60, 3599, 3600, 7325, 8191, 8192, 8193, 12000, 16383}
  Word = 16384
  Second = 1
  MemoryWidths <- SmallAndLarge
  NumberWidths = {5, 6, 10}
  NameWidths = {0, 5}
  Junk = {0, 3}
CHECK_DEADLOCK FALSE
INVARIANTS
  TypeNamesAreTrue
