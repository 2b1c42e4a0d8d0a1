\* One file, three prompts of which two are kept, and a kill.
CONSTANTS
  Paths = {p1}
  Ids = {c1, c2, c3}
  Calls = {k1}
  NoId = NoId
  Present = {p1}
  Inclusions = {TRUE}
  MaxCheckpoints = 2
  MaxCalls = 2
  MaxJournals = 1
  MaxRetries = 0
  MaxEdits = 0
  MaxKills = 1
  MaxFulls = 0
  MaxMishaps = 2
CHECK_DEADLOCK FALSE
SPECIFICATION Spec
INVARIANTS TrailUnbroken
PROPERTIES NoIntermediate
