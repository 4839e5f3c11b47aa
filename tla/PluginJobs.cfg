SPECIFICATION FairSpec
CONSTANTS
  None = None
  Aliases = {a1}
  MaxPerAlias = 2
  MaxRetries = 2
  MaxJobs = 2
  MaxCommands = 2
  MaxFaults = 1
INVARIANTS
  QueuesSound
  VerdictsFinal
PROPERTY Answered
\* When all jobs are answered and the bounds are spent, nothing is left to do.
CHECK_DEADLOCK FALSE
