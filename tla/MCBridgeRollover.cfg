SPECIFICATION Spec
CONSTANTS
  Keys = {a, b}
  Buttons = {}
  a = a
  b = b
  CAPACITY = 2
  NoFrame = NoFrame
  MaxSessions = 1
  Repeats = FALSE
PROPERTIES Rollover
