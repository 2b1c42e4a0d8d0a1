\* Two calls that depend on one key begin together.
CONSTANTS
  Questions = {q1}
  Gated = {g1, g2}
  NoCall = NoCall
  Parts = 2
  Limit = 3
  MaxModes = 1
CHECK_DEADLOCK FALSE
SPECIFICATION NeedsYouSpec
PROPERTIES DependentsWait
