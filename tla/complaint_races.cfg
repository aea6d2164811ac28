CONSTANTS
  Requests = {r1, r2, r3}
  Complaints = {c1}
  Residents = {u1, u2}
  Admins = {a1}
  Texts = {t1, t2}
  NoText = NoText
  NoRow = NoRow
SPECIFICATION Spec
SYMMETRY Symmetry
INVARIANTS
  TypeOK
  NoLostUpdate
  AlarmsMatchWrites
PROPERTIES
  StatusNeverRegresses
  ImplementsLifecycle
CHECK_DEADLOCK FALSE
