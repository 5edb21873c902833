SPECIFICATION Spec
CONSTANTS
  LineLen = 4
  BufSize = 120
  Letters = 3
  Drives <- SomeDrives
  Changes = 1
  Ticks = {0, 59, 60, 3599, 3600, 7325, 8191, 8192, 8193, 12000, 16383}
  Word = 16384
  Second = 1
  MemoryWidths <- SmallAndLarge
  NumberWidths = {5, 6, 10}
  NameWidths = {0, 5}
  Junk = {0, 3}
CHECK_DEADLOCK FALSE
INVARIANTS
  PrintedIsTheText
  SplitFindsWords
  ReportCoversTheMask
  RowsShowTheLastFileSystem
  FreeSpaceEndsAtAShortNumber
  UptimeAddsUp
