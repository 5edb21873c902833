SPECIFICATION FairSpec

CONSTANTS
  ReconnectTries = 3
  KeyLen = 2
  KeyAnswerLen = 2
  RequestLens = {1, 2}
  ReplyLens = {1, 2, 3}
  SendRoom = 2
  MaxRequests = 3
  Fragments = FALSE
  Clash = TRUE
  Faults = {"full", "death"}

INVARIANTS
  TypeOK
  PrintedIsTheReply

PROPERTIES
  RequestsAreAnswered

CHECK_DEADLOCK FALSE
