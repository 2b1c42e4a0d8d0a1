\* Two processes, one after the other, one decision each.
CONSTANTS
  Procs = {a, b}
  Pushing = {a}
  Together = FALSE
  MaxAsked = 1
  Turns = {}
  NoEvent = NoEvent
  QueueLimit = 1
  MaxMisses = 0
CHECK_DEADLOCK FALSE
SPECIFICATION Spec
INVARIANT NewQuestionNotifies
