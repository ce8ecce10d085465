SPECIFICATION Spec
CONSTANTS
  Site = {s1}
  Domain = {d1}
  Hostname = {h1}
  Resolves = {}
  Secured = {}
  None = None
  MaxAttempts = 2
  MaxRequests = 3
  MaxOpen = 1
  MaxMishaps = 0
  MaxFaults = 0
  MaxLost = 0
  MaxDeaths = 1
  MaxHarm = 1
  MaxSuspends = 0
SYMMETRY Symmetry
CHECK_DEADLOCK FALSE
INVARIANT SuccessIsServed
