SPECIFICATION Spec
CONSTANTS
  r1 = r1
  r2 = r2
  Requests <- MCRequests
  Inputs = {input}
  None = None
  Alias = alias
  Local = Local
  Nothing = Nothing
  MaxJobsPerAlias = 2
  MaxSequence = 2
  MaxLeases = 4
  MaxAttempts = 2
  MaxFaults = 0
  MaxControls = 1
  MaxLocal = 0
  MaxStarts = 1
INVARIANTS NoOldAnswer
CHECK_DEADLOCK FALSE
