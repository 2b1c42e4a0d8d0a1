\* One file, two prompts, a kill, and retries of the restore it broke off.
CONSTANTS
  Paths = {p1}
  Ids = {c1, c2}
  Calls = {k1}
  NoId = NoId
  Present = {p1}
  Inclusions = {TRUE}
  MaxCheckpoints = 2
  MaxCalls = 2
  MaxJournals = 2
  MaxRetries = 1
  MaxEdits = 0
  MaxKills = 1
  MaxFulls = 0
  MaxMishaps = 2
CHECK_DEADLOCK FALSE
SPECIFICATION Spec
PROPERTIES RetryOpensGate
