SPECIFICATION Spec
CONSTANTS
  Account = {a1, a2}
  Login = {l1, l2}
  Name = {x, y}
  None = None
  Password = {p}
  MaxFaults = 0
  MaxAttempts = 2
  MaxRequests = 4
  MaxMishaps = 0
INVARIANTS
  NameReservedUntilRevoked
CHECK_DEADLOCK FALSE
