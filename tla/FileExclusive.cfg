SPECIFICATION Spec
CONSTANTS
  Client = {c1, c2}
  Path = {p1, p2}
  Absent = Absent
  Fill = Fill
  Word = 6
  Lengths = {2, 4, 7}
  Faults = {"full", "deny", "crash"}
  Exclusive = TRUE
PROPERTIES
  CommandsAreAtomic
