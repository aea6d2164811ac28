CONSTANTS
  admin = admin
  resident = resident
  admins = admins
  residents = residents
  Alarms = {n1, n2}
  Users = {admin, resident}
  Groups = {admins, residents}
  GroupOf <- OneOfEach
  BatchSize = 4
  MaxFailures = 0
SPECIFICATION Spec
PROPERTY GroupAlarmIsProcessed
