\* Not part of the suite: a reply answers another question of the same number.
CONSTANTS
  Procs = {a, b}
  Handlers = {h1, h2}
  Envelopes = {e1, e2}
  MaxNonces = 2
  MaxAsked = 1
  Turns = {}
  NoEvent = NoEvent
CHECK_DEADLOCK FALSE
SPECIFICATION Spec
PROPERTY ReachesItsQuestion
