CONSTANTS
  admin = admin
  resident = resident
  admins = admins
  residents = residents
  Alarms = {n1, n2}
  Users = {admin, resident}
  Groups = {admins, residents}
  GroupOf <- OneOfEach
  BatchSize = 1
  MaxFailures = 1
SPECIFICATION Spec
INVARIANTS
  TypeOK
  CompleteUnlessInterrupted
  CompleteUnlessSkipped
  LiveReachesTheConnected
PROPERTIES
  EveryAlarmIsProcessed
