\* One file, two prompts, a kill, and an edit by the user or a full disk.
CONSTANTS
  Paths = {p1}
  Ids = {c1, c2}
  Calls = {k1}
  NoId = NoId
  Present = {p1}
  Inclusions = {TRUE}
  MaxCheckpoints = 2
  MaxCalls = 2
  MaxJournals = 1
  MaxRetries = 1
  MaxEdits = 1
  MaxKills = 1
  MaxFulls = 1
  MaxMishaps = 1
CHECK_DEADLOCK FALSE
SPECIFICATION Spec
INVARIANTS TrailUnbroken TurnsOnlySettled
PROPERTIES SparesUserEdits NoIntermediate
