SPECIFICATION FairSpec
CONSTANTS
  Keys = {a}
  Buttons = {left}
  a = a
  left = left
  CAPACITY = 1
  NoFrame = NoFrame
  MaxSessions = 2
  Repeats = FALSE
INVARIANTS TypeOK HeldIsGuarded InjectedIsRemembered
PROPERTIES SilenceReleases
