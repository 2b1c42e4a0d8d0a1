\* Two calls ask, one key is pressed.
CONSTANTS
  Asks = {a1, a2}
  NoAsk = NoAsk
  MaxPresses = 1
  MaxModes = 0
CHECK_DEADLOCK FALSE
SPECIFICATION Spec
PROPERTIES HidingNeverWaits
