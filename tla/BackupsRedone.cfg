SPECIFICATION Spec
CONSTANTS
  Plan = {p}
  MaxRuns = 1
  Requester = {u}
  None = None
  MaxRetention = 1
  MaxDeaths = 1
  MaxFaults = 0
  MaxMishaps = 0
PROPERTIES
  CompletedArchivesStay
CHECK_DEADLOCK FALSE
