CONSTANTS
  Prompt = TRUE
  Callers = {p1, p2}
  Services = {s1, s2}
  Manager = manager
  MaxStarts = 3
  MaxDeaths = 1
  MaxRequests = 3
  MaxNested = 1
SPECIFICATION StartupSpec
CHECK_DEADLOCK FALSE
INVARIANTS
  TypeOK
  
  
  StartupTypeOK
  
  
  StartsPerDeath
PROPERTIES
  
  StartReturns
  SendEnds
  
