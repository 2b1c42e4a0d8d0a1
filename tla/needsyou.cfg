\* Two calls ask two questions each, one more has to be allowed, and three
\* decisions fill the queue.
CONSTANTS
  Questions = {q1, q2}
  Gated = {g1}
  NoCall = NoCall
  Parts = 2
  Limit = 3
  MaxModes = 1
CHECK_DEADLOCK FALSE
SPECIFICATION NeedsYouSpec
INVARIANTS AnsweredOnce
PROPERTIES AnswersKept QuestionsReturn
