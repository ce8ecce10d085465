SPECIFICATION FairSpec
CONSTANTS
  Site = {s1}
  Domain = {d1, d2}
  Hostname = {h1, h2}
  Resolves = {h1}
  Secured = {s1}
  None = None
  MaxAttempts = 2
  MaxRequests = 3
  MaxOpen = 1
  MaxMishaps = 1
  MaxFaults = 1
  MaxLost = 1
  MaxDeaths = 1
  MaxHarm = 2
  MaxSuspends = 1
CHECK_DEADLOCK FALSE
INVARIANT TypeOK
INVARIANT ActiveIsServed
INVARIANT DeletedIsQuarantined
INVARIANT OutcomeIsServed
INVARIANT CertificateIsTruthful
PROPERTY PendingResolves
