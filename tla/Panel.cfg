SPECIFICATION FairSpec
CONSTANTS
  None = None
  MaxAttempts = 2
  MaxRequests = 3
  MaxOpen = 2
  MaxTroubles = 1
  Task = {t1, t2}
  Text = {x1}
  TaskLimit = 2
  MaxEntries = 1
  Zone = {z1, z2}
  ZoneName = {n1, n2}
  Foreign = {n2}
  Rec = {r1, r2}
  Value <- MCValue
  Db = {d1, d2}
  DbUser = {u1}
  DbName = {b1}
  UserName = {m1}
  DbLimit = 2
  UserLimit = 2
  Account = {a1}
  Package = {p1, p2}
  Limit = {0, 1}
INVARIANTS
  PanelTypeOK
  TasksRunAsShown
  PublishedAsShown
  ZonesAreOwned
  RecordSetsAgree
  DatabasesAsShown
  AccountsAsShown
PROPERTIES
  LimitsHold
  PanelResolves
CHECK_DEADLOCK FALSE
