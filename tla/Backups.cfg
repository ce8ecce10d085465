SPECIFICATION FairSpec
CONSTANTS
  Plan = {p}
  MaxRuns = 2
  Requester = {u, v}
  None = None
  MaxRetention = 1
  MaxDeaths = 1
  MaxFaults = 1
  MaxMishaps = 1
INVARIANTS
  TypeOK
  SucceededIsUsable
  NoStuckRun
  JobIsTruthful
  KeepsAUsableArchive
  OneActiveRun
PROPERTIES
  WithinRetention
  RunsEnd
CHECK_DEADLOCK FALSE
