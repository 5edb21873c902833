SPECIFICATION Spec

CONSTANTS
  MaxClients = 2
  Socket = {s1, s2}
  ListenSocket = listening
  NoSocket = none
  Conn = {c1, c2}
  NoConn = nobody
  Chunks <- WholeMessages
  MaxChunks = 2
  BufLen = 3
  KeyAnswer = 2
  Replies = {3, 4}
  Word = 8
  Faults = {"reset"}
  ReKey = FALSE

PROPERTIES
  ContinueMeansTimeout

CHECK_DEADLOCK FALSE
