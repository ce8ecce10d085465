SPECIFICATION Spec
CONSTANTS
  Account = {a1, a2}
  Login = {l1, l2}
  Name = {x, y}
  None = None
  Password = {p}
  MaxFaults = 1
  MaxAttempts = 2
  MaxRequests = 4
  MaxMishaps = 1
SYMMETRY Symmetry
INVARIANTS
  TypeOK
  RevokedLeavesNoTrace
  GrantsAsShown
  AccountServesAsShown
  OneLoginPerName
  SnapshotIsCurrent
CHECK_DEADLOCK FALSE
