SPECIFICATION FairSpec
CONSTANTS
  a1 = a1
  a2 = a2
  s1 = s1
  s2 = s2
  None = None
  Aliases <- TwoAliases
  Requests <- OneStop
  MaxSessions = 1
  MaxTerminals = 2
  MaxFaults = 2
INVARIANTS
  RegistrySound
  SignalsOwned
PROPERTIES
  StatusAdvances
  RequestsEnd
\* The terminals of the instance are spent and everything has ended.
CHECK_DEADLOCK FALSE
