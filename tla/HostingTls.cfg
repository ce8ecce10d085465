SPECIFICATION Spec
CONSTANTS
  Site = {s1}
  Domain = {d1, d2}
  Hostname = {h1, h2}
  Resolves = {h1}
  Secured = {s1}
  None = None
  MaxAttempts = 2
  MaxRequests = 3
  MaxOpen = 1
  MaxMishaps = 0
  MaxFaults = 0
  MaxLost = 0
  MaxDeaths = 0
  MaxHarm = 0
  MaxSuspends = 0
CHECK_DEADLOCK FALSE
INVARIANT CertificateIsServed
