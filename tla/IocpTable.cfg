SPECIFICATION Spec

CONSTANTS
  MaxClients = 3
  Socket = {s1, s2, s3}
  ListenSocket = listening
  NoSocket = none
  Conn = {c1, c2, c3}
  NoConn = nobody
  Chunks <- WholeMessages
  MaxChunks = 2
  BufLen = 2
  KeyAnswer = 1
  Replies = {1, 3}
  Word = 8
  Faults = {"reset", "associate"}
  ReKey = FALSE

SYMMETRY Symmetry

INVARIANTS
  OneOutstanding
  SocketsAccounted
  NoStaleCompletion
  FreeEntriesAreBlank

CHECK_DEADLOCK FALSE
