\* One file, two prompts, two restores, an edit by the user in between.
CONSTANTS
  Paths = {p1}
  Ids = {c1, c2}
  Calls = {k1}
  NoId = NoId
  Present = {p1}
  Inclusions = {TRUE}
  MaxCheckpoints = 2
  MaxCalls = 2
  MaxJournals = 2
  MaxRetries = 0
  MaxEdits = 1
  MaxKills = 0
  MaxFulls = 0
  MaxMishaps = 1
CHECK_DEADLOCK FALSE
SPECIFICATION Spec
PROPERTIES ManualChangesSkipped
