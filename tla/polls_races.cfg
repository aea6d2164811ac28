CONSTANTS
  Requests = {r1, r2, r3}
  Users = {u1, u2}
  Polls = {p1, p2}
  Options = {o1, o2}
  Absent = Absent
SPECIFICATION Spec
SYMMETRY Symmetry
INVARIANTS
  TypeOK
  AcknowledgedVotesStand
  RowsRefer
  NoLostEdit
CHECK_DEADLOCK FALSE
