SPECIFICATION FairSpec

CONSTANTS
  ReconnectTries = 3
  KeyLen = 2
  KeyAnswerLen = 2
  RequestLens = {1, 2}
  ReplyLens = {1, 2, 3}
  SendRoom = 2
  MaxRequests = 3
  Fragments = TRUE
  Clash = TRUE
  Faults = {"full", "death"}

INVARIANTS
  NoMutualWait
  AssertionsHold

PROPERTIES
  WaitingEnds

CHECK_DEADLOCK FALSE
