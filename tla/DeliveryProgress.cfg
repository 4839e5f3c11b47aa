SPECIFICATION FairSpec
CONSTANTS
  r1 = r1
  r2 = r2
  Requests <- MCRequests
  Inputs = {input}
  None = None
  Alias = alias
  Local = Local
  Nothing = Nothing
  MaxJobsPerAlias = 2
  MaxSequence = 1
  MaxLeases = 3
  MaxAttempts = 2
  MaxFaults = 1
  MaxControls = 1
  MaxLocal = 0
  MaxStarts = 2
PROPERTIES Settles
CHECK_DEADLOCK FALSE
