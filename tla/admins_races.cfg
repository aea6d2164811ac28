CONSTANTS
  Requests = {r1, r2, r3}
  Accounts = {c1, c2}
  Apartments = {a1, a2}
  MaxRetries = 1
  Absent = Absent
SPECIFICATION Spec
SYMMETRY Symmetry
INVARIANTS
  TypeOK
  EditsAreWhole
  SignUpsAreWhole
  ApartmentIsQuiet
PROPERTIES
  ImplementsJoinRequests
CHECK_DEADLOCK FALSE
