\* Two processes, one after the other or together; a decision each and a turn; a queue of one.
CONSTANTS
  Procs = {a, b}
  Pushing = {a}
  Together = TRUE
  MaxAsked = 1
  Turns = {t}
  NoEvent = NoEvent
  QueueLimit = 1
  MaxMisses = 1
CHECK_DEADLOCK FALSE
SPECIFICATION Spec
INVARIANTS NotifiedOnce
PROPERTIES NoResurrection ClearsSent
