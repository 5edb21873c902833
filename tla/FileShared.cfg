SPECIFICATION FairSpec
CONSTANTS
  Client = {c1, c2}
  Path = {p1}
  Absent = Absent
  Fill = Fill
  Word = 6
  Lengths = {2}
  Faults = {"full"}
  Exclusive = FALSE
INVARIANTS
  TypeOK
  BytesKeepTheirPlace
  CleanUploadGrows
  CleanDownloadIsExact
PROPERTIES
  CommandsEnd
