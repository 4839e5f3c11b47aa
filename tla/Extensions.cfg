SPECIFICATION FairSpec
CONSTANTS
  None = None
  Absent = None
  c1 = c1
  \* The tools of two users, and plans of up to two steps in three processes.
  UserTools = {{"read", "bash", "edit", "write"}, {"read", "bash", "edit", "mcp"}}
  MaxSteps = 2
  MaxPlanStarts = 3
  Flags = {FALSE}
  Interrupts = FALSE
  \* Goals.
  MaxAuto = 2
  Budgets = {0, 1, 2}
  MaxTokens = 2
  MaxGoals = 2
  MaxUser = 3
  MaxUpdates = 1
  MaxStarts = 2
  \* Phases.
  Turns = {2, None}
  MaxTurns = 3
  MaxCalls = 2
  MaxProcesses = 3
  \* The search client.
  Searches = {s1, s2}
  Endpoints = {1, 2}
  MaxAttempts = 3
  MinInterval = 2
  Cooldown = 2
  RetryDelays = {1, 3}
  \* The Grok provider.
  Retries = 1
  MaxAccessTokens = 2
  MaxWorkers = 3
  Callers = {p1, p2}
  Lifetime = 2
  MaxRefresh = 2
  MaxKeys = 2
  Faults = TRUE
  \* Two users each go through the dialogs, one after the other or at the same
  \* time, of two providers.
  Processes = {q1, q2}
  Providers = {"a", "b"}
  Models = {m1, m2}
  Values = {1, 2}
  Upstream = {m2}
  MaxModels = 2
  MaxFlows = 2
  Overlaps = FALSE
INVARIANTS
  TypeOK
  SessionsResume
PROPERTIES
  PlanKept
  ContinuesWithinLimits
  RequestsApart
  GrokSound
  ProvidersKept
  EverythingEnds
\* The processes of the instance are spent, or every call has ended.
CHECK_DEADLOCK FALSE
