\* One call asks two questions.
\* It may be interrupted.
CONSTANTS
  Questions = {q1}
  Gated = {g1}
  NoCall = NoCall
  Parts = 2
  Limit = 3
  MaxModes = 1
CHECK_DEADLOCK FALSE
SPECIFICATION NeedsYouSpec
INVARIANTS NothingLost
