CONSTANTS
  Requests = {r1, r2}
  Complaints = {c1}
  Residents = {u1}
  Admins = {a1}
  Texts = {t1}
  NoText = NoText
  NoRow = NoRow
SPECIFICATION Spec
PROPERTY DeleteOnlyWhilePending
CHECK_DEADLOCK FALSE
