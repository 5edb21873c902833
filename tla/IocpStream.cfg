SPECIFICATION Spec

CONSTANTS
  MaxClients = 2
  Socket = {s1, s2}
  ListenSocket = listening
  NoSocket = none
  Conn = {c1}
  NoConn = nobody
  Chunks <- AllChunks
  MaxChunks = 4
  BufLen = 4
  KeyAnswer = 3
  Replies = {0, 2, 4, 5}
  Word = 8
  Faults = {"reset", "associate"}
  ReKey = FALSE

SYMMETRY Symmetry

INVARIANTS
  TypeOK
  DisconnectIsReal
  SendStaysInBuffer

CHECK_DEADLOCK FALSE
