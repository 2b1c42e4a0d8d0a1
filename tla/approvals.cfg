\* Two calls ask, three keys are pressed, the posture changes once.
CONSTANTS
  Asks = {a1, a2}
  NoAsk = NoAsk
  MaxPresses = 3
  MaxModes = 1
CHECK_DEADLOCK FALSE
SPECIFICATION Spec
INVARIANTS HeadShown AllowedOnlyByKey
PROPERTIES HiddenGoesOn
