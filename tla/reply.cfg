\* Two processes, together or one after the other; two replies, two threads, a ring of one nonce.
CONSTANTS
  Procs = {a, b}
  Handlers = {h1, h2}
  Envelopes = {e1, e2}
  MaxNonces = 1
  MaxAsked = 1
  Turns = {}
  NoEvent = NoEvent
CHECK_DEADLOCK FALSE
SPECIFICATION Spec
INVARIANTS EnvelopeOnce NothingDisappears OutcomeRecorded
