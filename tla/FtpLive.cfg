SPECIFICATION FairSpec
CONSTANTS
  Account = {a1}
  Login = {l1}
  Name = {x, y}
  None = None
  Password = {p, q}
  MaxFaults = 2
  MaxAttempts = 2
  MaxRequests = 3
  MaxMishaps = 1
PROPERTIES
  PendingResolves
CHECK_DEADLOCK FALSE
