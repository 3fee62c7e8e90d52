SPECIFICATION Spec
CONSTANTS
  Keys = {a}
  Buttons = {}
  a = a
  CAPACITY = 2
  NoFrame = NoFrame
  MaxSessions = 1
  Repeats = TRUE
INVARIANTS NoStuckKey
