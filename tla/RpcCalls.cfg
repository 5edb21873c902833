SPECIFICATION Spec
CONSTANTS
  Pairs <- EachToItsOwnAndOneStray
  Texts = {t1, t2}
  Sizes = {0, 1, 2}
  Bytes = {0, 1}
  Results = {0, 1}
INVARIANTS
  RightRoutine
  ReplyReachesCaller
  StrangersOnlyLogIn
