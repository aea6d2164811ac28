CONSTANTS
  e1 = e1
  e2 = e2
  c1 = c1
  c2 = c2
  Imports = {i1}
  Apartments = {a1, a2}
  Emails = {e1, e2}
  Contacts = {c1, c2}
  Files <- SmallFiles
  ChunkSize = 2
  Outside = Outside
  Malformed = Malformed
  TooShort = TooShort
  Absent = Absent
  Queries = {q1}
  Commands = {k1, k2}
  Registered = {}
  NoEntry = NoEntry
SPECIFICATION ListsSpec
SYMMETRY Symmetry
INVARIANTS
  ListsTypeOK
  StoredInWholeChunks
  StaleListHasCause
CHECK_DEADLOCK FALSE
