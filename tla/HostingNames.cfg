SPECIFICATION Spec
CONSTANTS
  Site = {s1, s2}
  Domain = {d1, d2, d3}
  Hostname = {h1, h2, h3}
  Resolves = {}
  Secured = {}
  None = None
  MaxAttempts = 2
  MaxRequests = 5
  MaxOpen = 2
  MaxMishaps = 0
  MaxFaults = 0
  MaxLost = 0
  MaxDeaths = 0
  MaxHarm = 0
  MaxSuspends = 0
SYMMETRY Symmetry
CHECK_DEADLOCK FALSE
INVARIANT NamesAreExclusive
INVARIANT ServedIsBound
