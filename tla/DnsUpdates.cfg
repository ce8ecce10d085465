SPECIFICATION Spec
CONSTANTS
  None = None
  MaxAttempts = 2
  MaxRequests = 3
  MaxOpen = 1
  MaxTroubles = 1
  Task = {t1}
  Text = {x1}
  TaskLimit = 2
  MaxEntries = 1
  Zone = {z1}
  ZoneName = {n1}
  Foreign = {}
  Rec = {r1}
  Value <- MCValue
  Db = {d1}
  DbUser = {u1}
  DbName = {b1}
  UserName = {m1}
  DbLimit = 2
  UserLimit = 2
  Account = {a1}
  Package = {p1, p2}
  Limit = {0, 1}
PROPERTIES AcceptedUpdatesStay
CHECK_DEADLOCK FALSE
