SPECIFICATION Spec
CONSTANTS
  r1 = r1
  r2 = r2
  a1 = a1
  a2 = a2
  x1 = x1
  x2 = x2
  Requests <- MCRequests
  Aliases <- MCAliases
  Inputs <- MCInputs
  Results = {result}
  Codes = {code}
  None = None
  MaxJobsPerAlias = 1
  TtlMs = 0
  MaxSequence = 3
  MaxLeases = 3
  MaxTime = 2
SYMMETRY Interchangeable
INVARIANTS TypeOK IndexExact LeasesExclusive SettledProperly
PROPERTIES LeasedInOrder Lifecycle
