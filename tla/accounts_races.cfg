CONSTANTS
  Requests = {r1, r2, r3}
  Accounts = {c1}
  Emails = {e1}
  Profiles = {p1, p2}
  Passwords = {w1, w2}
  MaxRetries = 1
  Absent = Absent
SPECIFICATION Spec
SYMMETRY Symmetry
INVARIANTS
  TypeOK
  SnapshotIntegrity
  OneSignUpPerAccount
PROPERTIES
  ImplementsJoinRequests
  PasswordIsProved
CHECK_DEADLOCK FALSE
