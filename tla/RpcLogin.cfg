SPECIFICATION Spec
CONSTANTS
  Client = {c1, c2, c3}
  Thread = {t1, t2}
  Nobody = Nobody
  Faults = {"start", "crash", "address"}
  MaxStarts = 2
CHECK_DEADLOCK FALSE
INVARIANTS
  TypeOK
  OnlyVerifiedClientsEnter
  TokensAreVerified
  UndisturbedLoginIsItsOwn
  RefusalHasACause
PROPERTIES
  LoginsAreAnswered
