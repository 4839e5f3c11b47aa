SPECIFICATION Spec
CONSTANTS
  c1 = c1
  c2 = c2
  c3 = c3
  None = None
  Calls <- TwoCalls
  Plans <- Plans1
  Concurrency = 2
  MaxJobs = 1
  Stubborn = FALSE
  Delivers = FALSE
INVARIANTS
  CallsSound
  CallScopesApart
  EndsComplete
\* When every call has ended nothing is left to do.
CHECK_DEADLOCK FALSE
