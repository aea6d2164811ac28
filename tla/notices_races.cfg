CONSTANTS
  Requests = {r1, r2, r3}
  Users = {admin, u1}
  Admins = {admin}
  Notices = {n1}
  Comments = {k1}
  MaxRetries = 1
  Absent = Absent
  Earlier = Earlier
SPECIFICATION Spec
SYMMETRY Symmetry
INVARIANTS
  TypeOK
  AnswersAreTrue
PROPERTIES
  OnlyNamedFieldsChange
  CommentsStand
CHECK_DEADLOCK FALSE
